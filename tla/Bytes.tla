-------------------------------- MODULE Bytes --------------------------------
(***************************************************************************)
(* Bytes of Width bits, as numbers and as sets of bits.                    *)
(***************************************************************************)
EXTENDS Integers, FiniteSetsExt

CONSTANT Width

ASSUME WidthAssumption == Width \in Nat /\ Width >= 5

Size   == 2^Width
PcSize == Size * Size
Half == Size \div 2
Byte == 0..(Size - 1)

\* of any integer, a negative one in two's complement
Bit(v, k) == (v \div 2^k) % 2 = 1
Low(v)    == v % Size

Bits(v)  == {k \in 0..(Width - 1) : Bit(v, k)}
Value(S) == MapThenSumSet(LAMBDA k : 2^k, S)

And(v, w) == Value(Bits(v) \cap Bits(w))
Or(v, w)  == Value(Bits(v) \cup Bits(w))
Xor(v, w) == Value((Bits(v) \cup Bits(w)) \ (Bits(v) \cap Bits(w)))
Not(v)    == Size - 1 - v

Signed(v) == IF v < Half THEN v ELSE v - Size
=============================================================================
