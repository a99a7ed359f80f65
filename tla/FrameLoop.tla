----------------------------- MODULE FrameLoop -----------------------------
(***************************************************************************)
(* The loop a script drives (nesl/emu.cpp, screenshots.cpp, savestates.cpp *)
(* and the hooks of nesl.cpp).  There is one thread: the script calls the  *)
(* emulator, the emulator calls the script's hooks back, and a hook may    *)
(* call the emulator again.  The C calls that wait for script code form a  *)
(* stack; the script code that runs is the one above the top.  A hook that *)
(* returns and one that fails are the same step: callhook drops the error. *)
(***************************************************************************)
EXTENDS Integers, Sequences

CONSTANTS
    Paths,      \* screenshot paths a script asks for
    NoPath,     \* the empty one that is set at first
    BadPaths,   \* those whose extension screenshots_save2 does not know
    NoDotPaths, \* those without a dot, which crash screenshots_save2
    BmpPaths,   \* those to a .bmp, the only file whose opening is looked at
    HooksUsed,  \* hooks the script sets and clears
    MaxDepth,   \* bound: nested calls
    MaxFrames   \* bound: frames counted since a reset

ASSUME BoundAssumption == MaxDepth \in Nat /\ MaxFrames \in Nat
ASSUME PathAssumption ==
    /\ BadPaths \cup NoDotPaths \cup BmpPaths \subseteq Paths
    /\ (BadPaths \cup NoDotPaths) \cap BmpPaths = {}
    /\ NoPath \in NoDotPaths \ BadPaths /\ "none" \notin Paths
ASSUME HookAssumption  == HooksUsed \subseteq {"before", "after", "save", "load"}

VARIABLES
    stack,      \* the C calls in progress
    hooked,     \* the hooks that hold a function
    dead,       \* deadframes
    frames,     \* nes.frame_count
    pending,    \* screenshotpending
    path,       \* screenshotpath
    pixels,     \* host_pixels points at the screenshot buffer
    saved,      \* frame_count in the script's savestate object, << >> if none
    emulated,   \* ghost: frames emulated since the machine was reset
    origin,     \* ghost: how it was last set up, one of Origins
    owed,       \* ghost: a path asked for outside a shot frame, not yet written
    midFrame,   \* ghost: a shot frame's memory hook asked for one since then
    aborted     \* ghost: an error unwound a frame, or its unknown extension

counters == <<dead, frames, emulated, origin>>
shots    == <<pending, path, pixels, owed, midFrame>>
vars     == <<stack, hooked, counters, shots, saved, aborted>>

Hooks == {"before", "after", "save", "load"}

\* A waiting C call: what it waits for, a hook or emulate_frame, called by
\* frameadvance or by softreset; whether a Lua function runs on top of it; and
\* the local variable `screenshot` of emu_frameadvance.
Calls == [fn : Hooks \cup {"emulate", "softreset"}, lua : BOOLEAN, shot : BOOLEAN]

Top   == stack[Len(stack)]
Below == SubSeq(stack, 1, Len(stack) - 1)

CallHook(rest, fn) ==
    stack' = Append(rest, [fn |-> fn, lua |-> fn \in hooked, shot |-> FALSE])

Waiting(fn) == stack # << >> /\ Top.fn = fn

\* Script code runs: the main chunk or a Lua function called back.  In the
\* middle of emulate_frame it is a memory hook's; the model lets that one
\* call everything but the functions that re-enter the emulator.
ScriptRuns == stack # << >> => Top.lua
InFrame    == Waiting("emulate") \/ Waiting("softreset")
InShot     == Waiting("emulate") /\ Top.shot
MayReenter == ScriptRuns /\ ~InFrame
MayCall    == MayReenter /\ Len(stack) < MaxDepth

\* MaxFrames leaves room for the frame every waiting call may still count
Room(count) == count + Len(stack) < MaxFrames

-----------------------------------------------------------------------------
(* emu.frameadvance                                                        *)

FrameAdvance ==
    /\ MayCall /\ Room(frames) /\ CallHook(stack, "before")
    /\ UNCHANGED <<hooked, counters, shots, saved, aborted>>

\* After the before-hook, a live frame: the flag is read once, now.
BeforeFrame ==
    /\ Waiting("before") /\ dead = 0
    /\ stack' = Append(Below, [fn |-> "emulate", lua |-> TRUE, shot |-> pending])
    /\ pixels' = (pixels \/ pending)
    /\ UNCHANGED <<hooked, counters, pending, path, owed, midFrame, saved, aborted>>

\* After the before-hook, a dead frame: nothing is emulated, the count goes on.
DeadFrame_DropsRequest ==
    /\ Waiting("before") /\ dead > 0
    /\ dead' = dead - 1 /\ frames' = frames + 1
    /\ CallHook(Below, "after")
    /\ pending' = FALSE
    /\ UNCHANGED <<hooked, emulated, origin, path, pixels, owed, midFrame, saved, aborted>>
DeadFrame ==
    /\ Waiting("before") /\ dead > 0
    /\ dead' = dead - 1 /\ frames' = frames + 1
    /\ CallHook(Below, "after")
    /\ UNCHANGED <<hooked, emulated, origin, shots, saved, aborted>>

CountFrame ==
    /\ frames' = frames + 1 /\ emulated' = emulated + 1
    /\ UNCHANGED <<dead, origin>>

PlainFrame ==
    /\ Waiting("emulate") /\ ~Top.shot
    /\ CountFrame /\ CallHook(Below, "after")
    /\ UNCHANGED <<hooked, shots, saved, aborted>>

Detach_Never == UNCHANGED pixels
Detach == pixels' = FALSE

\* screenshots_afterframe drops the request and saves under the current path;
\* one without a dot is a null pointer to strcmp, and no step.
Shot == InShot /\ CountFrame /\ pending' = FALSE

Written == owed' = IF owed = path THEN "none" ELSE owed

\* It is saved, as far as screenshots_save2 can tell, and the buffer detached.
ShotFrame ==
    /\ Shot /\ path \notin BadPaths \cup NoDotPaths
    /\ CallHook(Below, "after") /\ Detach /\ Written
    /\ UNCHANGED <<hooked, path, midFrame, saved, aborted>>

\* The .bmp cannot be opened: luaL_error leaves frameadvance, whose after-hook
\* is not called, once the buffer is detached.
ShotNotWritten ==
    /\ Shot /\ path \in BmpPaths
    /\ stack' = Below /\ Detach /\ Written
    /\ UNCHANGED <<hooked, path, midFrame, saved, aborted>>

\* The extension is unknown: luaL_error leaves it before that.
ShotError ==
    /\ Shot /\ path \in BadPaths
    /\ stack' = Below /\ Written
    /\ aborted' = TRUE
    /\ UNCHANGED <<hooked, path, pixels, midFrame, saved>>

\* A memory hook fails: memory_tracecb calls it unprotected, so the error
\* leaves emulate_frame, and frameadvance or softreset, half done.
HookError ==
    /\ InFrame
    /\ stack' = Below /\ aborted' = TRUE
    /\ UNCHANGED <<hooked, counters, shots, saved>>

AfterFrame ==
    /\ Waiting("after") /\ stack' = Below
    /\ UNCHANGED <<hooked, counters, shots, saved, aborted>>

-----------------------------------------------------------------------------
(* The other calls of a script                                             *)

SetHook ==
    /\ ScriptRuns
    /\ \E h \in HooksUsed : hooked' \in {hooked \cup {h}, hooked \ {h}}
    /\ UNCHANGED <<stack, counters, shots, saved, aborted>>

SaveScreenshotAs ==
    /\ ScriptRuns
    /\ pending' = TRUE /\ path' \in Paths
    /\ midFrame' = InShot
    /\ owed' = IF InShot THEN owed ELSE path'
    /\ UNCHANGED <<stack, hooked, counters, pixels, saved, aborted>>

\* Its argument is no string: it fails, but leaves the request pending, under
\* the path of the one before.
SaveScreenshotFails ==
    /\ ScriptRuns
    /\ pending' = TRUE
    /\ UNCHANGED <<stack, hooked, counters, path, pixels, owed, midFrame, saved, aborted>>

\* the machine restarts, with this count and deadframes
Restart(by, count, n) ==
    /\ origin' = by /\ emulated' = 0 /\ frames' = count /\ dead' = n

PowerOn_AddsDead ==
    MayReenter /\ Restart("power", 0, dead + 1) /\ UNCHANGED <<stack, hooked, shots, saved, aborted>>
PowerOn ==
    MayReenter /\ Restart("power", 0, 1) /\ UNCHANGED <<stack, hooked, shots, saved, aborted>>

\* A soft reset runs a frame, in which memory hooks run, before it sets the
\* count and deadframes.
SoftReset ==
    /\ MayCall /\ Restart("half", 0, dead)
    /\ stack' = Append(stack, [fn |-> "softreset", lua |-> TRUE, shot |-> FALSE])
    /\ UNCHANGED <<hooked, shots, saved, aborted>>

SoftResetDone_OneDead ==
    /\ Waiting("softreset") /\ stack' = Below
    /\ emulated' = emulated + 1 /\ frames' = 0 /\ dead' = 1 /\ origin' = "soft"
    /\ UNCHANGED <<hooked, shots, saved, aborted>>
SoftResetDone ==
    /\ Waiting("softreset") /\ stack' = Below
    /\ emulated' = emulated + 1 /\ frames' = 0 /\ dead' = 2 /\ origin' = "soft"
    /\ UNCHANGED <<hooked, shots, saved, aborted>>

\* loadRomFile and reloadRom succeed; deadframes is left as it was
LoadRom ==
    MayReenter /\ Restart("rom", -1, dead) /\ UNCHANGED <<stack, hooked, shots, saved, aborted>>

\* savestate.save runs its hook before it saves, savestate.load after
Save ==
    /\ MayCall /\ CallHook(stack, "save")
    /\ UNCHANGED <<hooked, counters, shots, saved, aborted>>

SaveState ==
    /\ Waiting("save") /\ stack' = Below
    /\ saved' = [frames |-> frames, emulated |-> emulated, dead |-> dead, origin |-> origin]
    /\ UNCHANGED <<hooked, counters, shots, aborted>>

Load ==
    /\ MayCall /\ saved # << >> /\ Room(saved.frames) /\ CallHook(stack, "load")
    /\ frames' = saved.frames /\ emulated' = saved.emulated
    /\ origin' = IF saved.dead = dead THEN saved.origin ELSE "state"
    /\ UNCHANGED <<hooked, dead, shots, saved, aborted>>

LoadReturns ==
    /\ Waiting("load") /\ stack' = Below
    /\ UNCHANGED <<hooked, counters, shots, saved, aborted>>

\* with a rom, or without one
Init ==
    /\ stack = << >> /\ hooked = {} /\ dead = 0 /\ frames \in {-1, 0}
    /\ pending = FALSE /\ path = NoPath /\ pixels = FALSE /\ saved = << >>
    /\ emulated = 0 /\ origin = "rom"
    /\ owed = "none" /\ midFrame = FALSE /\ aborted = FALSE

Next ==
    \/ FrameAdvance \/ BeforeFrame \/ DeadFrame \/ PlainFrame \/ ShotFrame
    \/ ShotNotWritten \/ ShotError \/ HookError \/ AfterFrame \/ SetHook
    \/ SaveScreenshotAs \/ SaveScreenshotFails
    \/ PowerOn \/ SoftReset \/ SoftResetDone \/ LoadRom \/ Save \/ SaveState \/ Load \/ LoadReturns

Spec == Init /\ [][Next]_vars
-----------------------------------------------------------------------------
\* "half": a soft reset that is not done, or that failed; "state": a load under
\* other deadframes than were saved with it
Origins == {"power", "soft", "half", "rom", "state"}

TypeOK ==
    /\ stack \in Seq(Calls) /\ Len(stack) <= MaxDepth
    /\ hooked \subseteq Hooks
    /\ dead \in 0..2 /\ frames \in Int /\ emulated \in Nat /\ origin \in Origins
    /\ pending \in BOOLEAN /\ pixels \in BOOLEAN
    /\ midFrame \in BOOLEAN /\ aborted \in BOOLEAN
    /\ path \in Paths /\ owed \in Paths \cup {"none"}
    /\ saved # << >> => saved \in [frames : Int, emulated : Nat, dead : 0..2,
                                   origin : Origins]

\* Frames are rendered into the screenshot buffer only while a frame that
\* will be saved is emulated, also once a picture could not be written, unless
\* a memory hook's error or an unknown extension once unwound such a frame.
PixelsOnlyForShots == pixels => aborted \/ InShot

\* A screenshot asked for stays pending, under its own path, until it is
\* written, over dead frames, a soft reset's frame, nested calls, loaded
\* states, failing hooks and failed requests; only a memory hook that asks
\* again in the middle of a frame that will be saved can lose it.
RequestKept == owed # "none" /\ ~midFrame => pending /\ owed = path

\* Both resets, for all their different dead and extra frames, leave the
\* script's frame count the same one frame ahead of the emulated ones, once
\* the dead frames are over.  A soft reset counts once it is done: until then,
\* and for good when a memory hook fails in its frame, the machine is reset
\* but the count is not.
ResetsAgree ==
    origin \in {"power", "soft"} => emulated = frames + dead - 1
=============================================================================
