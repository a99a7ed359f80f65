------------------------------- MODULE MCMmc3 -------------------------------
EXTENDS Mmc3
MCLatches == {0, 2}
=============================================================================
