-------------------------------- MODULE Session --------------------------------
(***************************************************************************)
(* A run of the program, from its start, with or without a rom, to its     *)
(* end: the frame loop, with the archive that screenshots go to            *)
(* (screenshots.cpp), roms that fail to load, and the ways out: emu.exit,  *)
(* the end of the script, a script error, SIGINT, and a crash (nesl.cpp).  *)
(*                                                                         *)
(* An error that a script catches, or that callhook drops because it was   *)
(* raised in a hook, leaves the program running; so it does here.  No      *)
(* allocation fails.                                                       *)
(***************************************************************************)
EXTENDS FrameLoop

CONSTANT BinPaths \* the screenshot paths written to an archive only: .bin

ASSUME BinAssumption == BinPaths \subseteq Paths \ (BadPaths \cup NoDotPaths \cup BmpPaths)

VARIABLES
    scope,       \* ghost: "states" or "ends", never changed: see the bounds
    prog,        \* "runs", "crashed", or main's status: "exit 0" or "exit -1"
    exitAt,      \* the calls waiting when emu.exit called its hook, NotYet before
    cart,        \* a cartridge is in
    tar,         \* the archive: "none", "open", or "bad": set, but not opened
    inserted,    \* ghost: a rom was given at the start, or loaded since
    interrupted, \* ghost: SIGINT came while the archive was written or closed
    caught       \* ghost: a rom or an archive failed, and the program went on

ending  == <<scope, prog, exitAt>>
archive == <<tar, interrupted>>
rom     == <<cart, inserted, caught>>
session == <<ending, archive, rom>>

NotYet == -1

Goes == prog = "runs"

\* bound: only runs of this scope use the archive, fail and end
Ends == Goes /\ scope = "ends"

\* C code goes on that waited for script code; not so that below emu.exit
Returns == Goes /\ Len(stack) > exitAt

-----------------------------------------------------------------------------
(* The frame loop, of a machine with and without a cartridge               *)

QuietStep ==
    /\ UNCHANGED session
    /\ \/ Goes /\ (FrameAdvance \/ SetHook \/ SaveScreenshotAs \/ SaveScreenshotFails)
       \/ Returns /\ (DeadFrame \/ PlainFrame \/ ShotError \/ HookError \/ AfterFrame
                      \/ SoftResetDone)

CartStep ==
    /\ cart /\ UNCHANGED session
    /\ \/ Goes /\ (PowerOn \/ SoftReset)
       \/ Returns /\ BeforeFrame

\* bound: only runs of this scope have saved states
SaveStep ==
    /\ scope = "states" /\ Goes /\ UNCHANGED session
    /\ Save \/ SaveState \/ Load \/ LoadReturns

\* what follows null pointers without a cartridge: emulate_frame, and the
\* resets, savestate.save and savestate.load
NeedsCart ==
    /\ Goes /\ ~cart
    /\ MayReenter \/ (Returns /\ Waiting("before") /\ dead = 0)

InsertRom ==
    /\ Goes /\ LoadRom
    /\ cart' = TRUE /\ inserted' = TRUE
    /\ UNCHANGED <<ending, archive, caught>>

\* the file is not read; or it is, and load_ines takes the cartridge out
\* before it looks at what was read
LoadRomFails ==
    /\ Ends /\ MayReenter
    /\ cart' \in {cart, FALSE} /\ caught' = TRUE
    /\ UNCHANGED <<vars, ending, archive, inserted>>

-----------------------------------------------------------------------------
(* The archive                                                             *)

\* screenshots_save2, to a file, which may fail, or to the archive
ShotSaved ==
    /\ Returns
    /\ \/ ShotFrame /\ (tar = "open" \/ (tar = "none" /\ path \notin BinPaths))
       \/ ShotNotWritten /\ tar = "none"
    /\ UNCHANGED session

\* no extension to compare, or no file to write to
ShotCrashes ==
    /\ Returns /\ InShot
    /\ \/ path \in NoDotPaths
       \/ path \in BinPaths /\ tar = "none"
       \/ path \notin BadPaths /\ tar = "bad"

\* tarball_close of an archive that was not opened follows a null pointer
CloseCrashes_NoTest == tar # "open"
CloseCrashes == tar = "bad"

Close == tar' = "none" /\ UNCHANGED interrupted

\* gui.screenshotarchive of nil, or of what is neither nil nor a path
CloseArchive ==
    /\ Goes /\ ScriptRuns /\ ~CloseCrashes /\ Close
    /\ UNCHANGED <<vars, ending, rom>>

\* ... of a path.  It closes the archive it has first; and when it cannot
\* open the new one it fails, but leaves tar set.
OpenArchive ==
    /\ Ends /\ ScriptRuns /\ ~CloseCrashes
    /\ tar' \in {"open", "bad"}
    /\ caught' = (caught \/ tar' = "bad")
    /\ UNCHANGED <<vars, ending, interrupted, cart, inserted>>

\* SIGINT between two steps: the archive is closed, and the program goes on
Sigint ==
    /\ Goes /\ tar = "open" /\ Close
    /\ UNCHANGED <<vars, ending, rom>>

\* SIGINT while the archive is written or closed: what was being done goes on
\* with an archive that has been freed
SigintInArchive ==
    /\ Goes /\ tar = "open" /\ tar' = "none"
    /\ interrupted' = TRUE
    /\ prog' \in {"runs", "crashed"}
    /\ \/ Returns /\ ShotFrame
       \/ ScriptRuns /\ UNCHANGED vars
    /\ UNCHANGED <<scope, exitAt, rom>>

-----------------------------------------------------------------------------
(* The end                                                                 *)

\* emu.exit, and main after the script: the exit hook runs
Exit ==
    /\ Ends /\ ScriptRuns
    /\ exitAt' = Len(stack)
    /\ UNCHANGED <<vars, scope, prog, archive, rom>>

Terminating == Goes /\ Len(stack) = exitAt

\* nesl_terminate
Terminate ==
    /\ Terminating /\ ~CloseCrashes
    /\ prog' = "exit 0" /\ Close
    /\ UNCHANGED <<vars, scope, exitAt, rom>>

\* main returns without calling screenshots_exit
ScriptError ==
    /\ Ends /\ stack = << >> /\ exitAt = NotYet
    /\ prog' = "exit -1"
    /\ UNCHANGED <<vars, scope, exitAt, archive, rom>>

\* without a cartridge; in a screenshot; or in tarball_close, from the script,
\* at the end, or by SIGINT
Crash ==
    /\ NeedsCart \/ ShotCrashes \/ (Goes /\ CloseCrashes)
    /\ prog' = "crashed"
    /\ UNCHANGED <<vars, scope, exitAt, archive, rom>>

\* there is nothing left to do
Over == ~Goes /\ UNCHANGED <<vars, session>>

\* a rom given at the start is loaded, or the program ends before the script
SessionInit ==
    /\ Init
    /\ scope \in {"states", "ends"}
    /\ prog = "runs" /\ exitAt = NotYet /\ tar = "none"
    /\ cart \in BOOLEAN /\ inserted = cart
    /\ frames = IF cart THEN -1 ELSE 0
    /\ interrupted = FALSE /\ caught = FALSE

SessionNext ==
    \/ QuietStep \/ CartStep \/ SaveStep \/ InsertRom \/ LoadRomFails
    \/ ShotSaved \/ OpenArchive \/ CloseArchive \/ Sigint \/ SigintInArchive
    \/ Exit \/ Terminate \/ ScriptError \/ Crash \/ Over

SessionSpec == SessionInit /\ [][SessionNext]_<<vars, session>>
-----------------------------------------------------------------------------
\* A script that loads its rom first, if none was given at the start, and
\* stops at the first rom or archive that fails, does not crash the program by
\* these calls, at whatever depth of hooks and whatever it resets, saves or
\* closes; but for SIGINT in an archive, and for a screenshot whose path has no
\* dot, or which is a .bin without an archive.
CrashesOnlyAfterErrors ==
    prog = "crashed" =>
        \/ ~inserted \/ caught \/ interrupted
        \/ InShot /\ (path \in NoDotPaths \/ (path \in BinPaths /\ tar = "none"))
=============================================================================
