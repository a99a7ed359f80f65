---------------------------- MODULE ScriptProofs -----------------------------
(***************************************************************************)
(* Proofs about what Lua scripts drive: the frame loop, a run of the       *)
(* program, whose steps are steps of the loop or leave it alone, and the   *)
(* hook tables of src/nesl/memory.cpp.                                     *)
(***************************************************************************)
EXTENDS Session, MemoryHooks, WellFoundedInduction, FiniteSetTheorems, TLAPS

\* a state that was saved after a reset agrees with the counters of then
SavedAgrees ==
    saved # << >> /\ saved.origin \in {"power", "soft"} =>
        saved.emulated = saved.frames + saved.dead - 1

IInv ==
    TypeOK /\ PixelsOnlyForShots /\ RequestKept /\ ResetsAgree /\ SavedAgrees

\* While a soft reset waits for its frame nothing is called above it, and no
\* frame has been emulated since the machine was reset.
SoftResets ==
    \A i \in 1..Len(stack) :
        stack[i].fn = "softreset" => i = Len(stack) /\ emulated = 0

\* What is left of a stack is a stack.
LEMMA PopType ==
    ASSUME stack \in Seq(Calls), stack # << >>
    PROVE  /\ Len(stack) \in Nat /\ Len(stack) >= 1 /\ Top \in Calls
           /\ Below \in Seq(Calls) /\ Len(Below) = Len(stack) - 1
<1>1. Len(stack) \in Nat /\ Len(stack) >= 1
  OBVIOUS
<1>2. Top \in Calls
  BY <1>1 DEF Top
<1>3. \A i \in 1..Len(stack) - 1 : stack[i] \in Calls
  BY <1>1
<1>4. Below = [i \in 1..Len(stack) - 1 |-> stack[i]]
  BY <1>1 DEF Below
<1>5. Below \in Seq(Calls) /\ Len(Below) = Len(stack) - 1
  BY <1>1, <1>3, <1>4
<1> QED  BY <1>1, <1>2, <1>5

\* Calling a hook puts a well-formed call, that no frame emulates, on top.
LEMMA CallHookType ==
    ASSUME NEW rest \in Seq(Calls), Len(rest) < MaxDepth,
           NEW fn \in Hooks, CallHook(rest, fn)
    PROVE  /\ stack' \in Seq(Calls) /\ Len(stack') <= MaxDepth
<1> DEFINE e == [fn |-> fn, lua |-> fn \in hooked, shot |-> FALSE]
<1>1. e \in Calls
  BY DEF Calls
<1>2. stack' = Append(rest, e)
  BY DEF CallHook
<1> HIDE DEF e
<1>3. stack' \in Seq(Calls) /\ Len(stack') = Len(rest) + 1
  BY <1>1, <1>2
<1> QED  BY <1>3, BoundAssumption

\* A session just started.
LEMMA InitIInv == Init => IInv
<1> SUFFICES ASSUME Init PROVE IInv  OBVIOUS
<1>1. stack \in Seq(Calls) /\ Len(stack) <= MaxDepth
  BY BoundAssumption DEF Init
<1>2. hooked \subseteq Hooks /\ dead \in 0..2 /\ frames \in Int
  BY DEF Init
<1>3. TypeOK
  BY <1>1, <1>2, PathAssumption DEF Init, TypeOK, Origins
<1> QED  BY <1>3 DEF Init, IInv, PixelsOnlyForShots, RequestKept, ResetsAgree,
                     SavedAgrees

\* Steps that leave the counters, the screenshot and the saved state alone:
\* only the stack moves, and no frame's emulation is involved.
LEMMA StackStep ==
    ASSUME IInv, stack' \in Seq(Calls), Len(stack') <= MaxDepth,
           hooked' \subseteq Hooks, ~InShot,
           UNCHANGED <<counters, shots, saved, aborted>>
    PROVE  IInv'
<1> USE DEF IInv, counters, shots
<1>1. TypeOK'
  BY DEF TypeOK
<1>2. PixelsOnlyForShots'
  BY DEF PixelsOnlyForShots
<1>3. RequestKept' /\ ResetsAgree' /\ SavedAgrees'
  BY DEF RequestKept, ResetsAgree, SavedAgrees
<1> QED  BY <1>1, <1>2, <1>3

\* The stack grows, but not above a soft reset; or its top is replaced by
\* another call, or taken away.
LEMMA SoftResetsKept ==
    ASSUME TypeOK, SoftResets, NEW e,
           \/ /\ stack' = Append(stack, e) /\ ~Waiting("softreset")
              /\ e.fn = "softreset" => emulated' = 0
           \/ stack # << >> /\ stack' = Append(Below, e) /\ e.fn # "softreset"
           \/ stack # << >> /\ stack' = Below
           \/ stack' = stack /\ (emulated' = emulated \/ ~Waiting("softreset"))
    PROVE  SoftResets'
<1>1. stack \in Seq(Calls) /\ Len(stack) \in Nat
  BY DEF TypeOK
<1>2. stack = << >> <=> Len(stack) = 0
  BY <1>1
<1>3. ~Waiting("softreset") => \A i \in 1..Len(stack) : stack[i].fn # "softreset"
  BY <1>1, <1>2 DEF SoftResets, Waiting, Top
<1>4. CASE stack' = Append(stack, e) /\ ~Waiting("softreset") /\ (e.fn = "softreset" => emulated' = 0)
  <2>1. /\ Len(stack') = Len(stack) + 1 /\ stack'[Len(stack) + 1] = e
        /\ \A i \in 1..Len(stack) : stack'[i] = stack[i]
    BY <1>1, <1>4
  <2> QED  BY <1>1, <1>3, <1>4, <2>1 DEF SoftResets
<1>5. ASSUME stack # << >>
      PROVE  /\ Below \in Seq(Calls) /\ Len(Below) = Len(stack) - 1 /\ Len(stack) >= 1
             /\ \A i \in 1..Len(Below) : Below[i] = stack[i] /\ Below[i].fn # "softreset"
  <2>1. Below \in Seq(Calls) /\ Len(Below) = Len(stack) - 1 /\ Len(stack) >= 1
    BY <1>1, <1>5, PopType
  <2>2. \A i \in 1..Len(Below) : Below[i] = stack[i] /\ i # Len(stack) /\ i \in 1..Len(stack)
    BY <1>1, <2>1 DEF Below
  <2> QED  BY <2>1, <2>2 DEF SoftResets
<1>6. CASE stack # << >> /\ stack' = Append(Below, e) /\ e.fn # "softreset"
  <2>1. /\ Len(stack') = Len(Below) + 1 /\ stack'[Len(Below) + 1] = e
        /\ \A i \in 1..Len(Below) : stack'[i] = Below[i]
    BY <1>5, <1>6
  <2> QED  BY <1>1, <1>5, <1>6, <2>1 DEF SoftResets
<1>7. CASE stack # << >> /\ stack' = Below
  BY <1>5, <1>7 DEF SoftResets
<1>8. CASE stack' = stack /\ (emulated' = emulated \/ ~Waiting("softreset"))
  BY <1>3, <1>8 DEF SoftResets
<1> QED  BY <1>4, <1>6, <1>7, <1>8

\* Every step of the frame loop leaves soft resets waiting on top.
LEMMA NextSoftResets == TypeOK /\ SoftResets /\ [Next]_vars => SoftResets'
<1> SUFFICES ASSUME TypeOK, SoftResets, [Next]_vars PROVE SoftResets'  OBVIOUS
<1>1. CASE FrameAdvance \/ Save \/ Load
  <2>1. ~Waiting("softreset") /\ (CallHook(stack, "before") \/ CallHook(stack, "save")
                                 \/ CallHook(stack, "load"))
    BY <1>1 DEF FrameAdvance, Save, Load, MayCall, MayReenter, InFrame
  <2>2. PICK fn \in Hooks : CallHook(stack, fn)
    BY <2>1 DEF Hooks
  <2>3. [fn |-> fn, lua |-> fn \in hooked, shot |-> FALSE].fn # "softreset"
    BY DEF Hooks
  <2> QED  BY <2>1, <2>2, <2>3, SoftResetsKept DEF CallHook
<1>2. CASE DeadFrame \/ PlainFrame \/ ShotFrame
  <2>1. stack # << >> /\ CallHook(Below, "after")
    BY <1>2 DEF DeadFrame, PlainFrame, ShotFrame, Shot, InShot, Waiting
  <2>2. [fn |-> "after", lua |-> "after" \in hooked, shot |-> FALSE].fn # "softreset"
    OBVIOUS
  <2> QED  BY <2>1, <2>2, SoftResetsKept DEF CallHook
<1>3. CASE BeforeFrame
  <2>1. stack # << >> /\ stack' = Append(Below, [fn |-> "emulate", lua |-> TRUE, shot |-> pending])
    BY <1>3 DEF BeforeFrame, Waiting
  <2>2. [fn |-> "emulate", lua |-> TRUE, shot |-> pending].fn # "softreset"
    OBVIOUS
  <2> QED  BY <2>1, <2>2, SoftResetsKept
<1>4. CASE SoftReset
  <2>1. /\ ~Waiting("softreset") /\ emulated' = 0
        /\ stack' = Append(stack, [fn |-> "softreset", lua |-> TRUE, shot |-> FALSE])
    BY <1>4 DEF SoftReset, MayCall, MayReenter, InFrame, Restart
  <2> QED  BY <2>1, SoftResetsKept
<1>5. CASE \/ ShotNotWritten \/ ShotError \/ HookError \/ AfterFrame
           \/ SoftResetDone \/ SaveState \/ LoadReturns
  <2>1. stack # << >> /\ stack' = Below
    BY <1>5 DEF ShotNotWritten, ShotError, HookError, AfterFrame, SoftResetDone,
                SaveState, LoadReturns, Shot, InShot, InFrame, Waiting
  <2> QED  BY <2>1, SoftResetsKept
<1>6. CASE SetHook \/ SaveScreenshotAs \/ SaveScreenshotFails \/ UNCHANGED vars
  <2>1. stack' = stack /\ emulated' = emulated
    BY <1>6 DEF SetHook, SaveScreenshotAs, SaveScreenshotFails, vars, counters
  <2> QED  BY <2>1, SoftResetsKept
<1>7. CASE PowerOn \/ LoadRom
  <2>1. stack' = stack /\ ~Waiting("softreset")
    BY <1>7 DEF PowerOn, LoadRom, MayReenter, InFrame
  <2> QED  BY <2>1, SoftResetsKept
<1> QED  BY <1>1, <1>2, <1>3, <1>4, <1>5, <1>6, <1>7 DEF Next

\* Every step of the frame loop keeps the invariant.
LEMMA NextIInv == IInv /\ SoftResets /\ [Next]_vars => IInv'
<1> SUFFICES ASSUME IInv, SoftResets, [Next]_vars PROVE IInv'  OBVIOUS
<1>0. TypeOK
  BY DEF IInv
<1>1. CASE FrameAdvance \/ Save
  <2>1. /\ ~InShot /\ Len(stack) < MaxDepth
        /\ UNCHANGED <<hooked, counters, shots, saved, aborted>>
        /\ CallHook(stack, "before") \/ CallHook(stack, "save")
    BY <1>1 DEF FrameAdvance, Save, MayCall, MayReenter, InFrame, InShot
  <2>2. stack' \in Seq(Calls) /\ Len(stack') <= MaxDepth
    BY <1>0, <2>1, CallHookType DEF TypeOK, Hooks
  <2> QED  BY <1>0, <2>1, <2>2, StackStep DEF TypeOK
<1>2. CASE AfterFrame \/ LoadReturns
  <2>1. /\ ~InShot /\ stack # << >> /\ stack' = Below
        /\ UNCHANGED <<hooked, counters, shots, saved, aborted>>
    BY <1>2 DEF AfterFrame, LoadReturns, Waiting, InShot
  <2>2. stack' \in Seq(Calls) /\ Len(stack') <= MaxDepth
    BY <1>0, <2>1, PopType, BoundAssumption DEF TypeOK
  <2> QED  BY <1>0, <2>1, <2>2, StackStep DEF TypeOK
<1>3. CASE SetHook
  <2>1. hooked' \subseteq Hooks
    BY <1>0, <1>3, HookAssumption DEF SetHook, TypeOK, Hooks
  <2> QED  BY <1>0, <1>3, <2>1 DEF SetHook, IInv, counters, shots, TypeOK,
             PixelsOnlyForShots, RequestKept, ResetsAgree, SavedAgrees, InShot, Waiting, Top
<1>4. CASE BeforeFrame
  <2> DEFINE e == [fn |-> "emulate", lua |-> TRUE, shot |-> pending]
  <2>1. /\ Waiting("before") /\ stack # << >> /\ stack' = Append(Below, e)
        /\ pixels' = (pixels \/ pending)
        /\ UNCHANGED <<hooked, counters, pending, path, owed, midFrame, saved, aborted>>
    BY <1>4 DEF BeforeFrame, Waiting
  <2>2. e \in Calls
    BY <1>0 DEF TypeOK, Calls
  <2>3. /\ Below \in Seq(Calls) /\ Len(Below) = Len(stack) - 1
        /\ Len(stack) \in Nat /\ Len(stack) >= 1
    BY <1>0, <2>1, PopType DEF TypeOK
  <2>4. /\ stack' \in Seq(Calls) /\ Len(stack') = Len(stack)
        /\ stack'[Len(stack')] = e /\ stack' # << >>
    <3> HIDE DEF e
    <3> QED  BY <2>1, <2>2, <2>3
  <2>5. TypeOK'
    <3> HIDE DEF e
    <3> QED  BY <1>0, <2>1, <2>4 DEF TypeOK, counters
  <2>6. PixelsOnlyForShots'
    <3>1. pixels => aborted
      BY <2>1 DEF IInv, PixelsOnlyForShots, InShot, Waiting
    <3>2. pending => InShot'
      BY <2>4 DEF InShot, Waiting, Top
    <3> QED  BY <2>1, <3>1, <3>2 DEF PixelsOnlyForShots
  <2>7. RequestKept' /\ ResetsAgree' /\ SavedAgrees'
    <3> HIDE DEF e
    <3> QED  BY <2>1 DEF IInv, RequestKept, ResetsAgree, SavedAgrees, counters
  <2> QED  BY <2>5, <2>6, <2>7 DEF IInv
<1>5. CASE DeadFrame
  <2>1. /\ Waiting("before") /\ stack # << >> /\ CallHook(Below, "after")
        /\ dead > 0 /\ dead' = dead - 1 /\ frames' = frames + 1
        /\ UNCHANGED <<hooked, emulated, origin, shots, saved, aborted>>
    BY <1>5 DEF DeadFrame, Waiting
  <2>2. stack' \in Seq(Calls) /\ Len(stack') <= MaxDepth
    BY <1>0, <2>1, PopType, CallHookType, BoundAssumption DEF TypeOK, Hooks
  <2>3. TypeOK'
    BY <1>0, <2>1, <2>2 DEF TypeOK, shots
  <2>4. PixelsOnlyForShots'
    BY <2>1 DEF IInv, PixelsOnlyForShots, InShot, Waiting, shots
  <2>5. RequestKept' /\ SavedAgrees'
    BY <2>1 DEF IInv, RequestKept, SavedAgrees, shots
  <2>6. ResetsAgree'
    BY <1>0, <2>1 DEF IInv, ResetsAgree, TypeOK
  <2> QED  BY <2>3, <2>4, <2>5, <2>6 DEF IInv
<1>6. CASE PlainFrame
  <2>1. /\ Waiting("emulate") /\ ~Top.shot /\ stack # << >> /\ CallHook(Below, "after")
        /\ frames' = frames + 1 /\ emulated' = emulated + 1
        /\ UNCHANGED <<dead, origin, hooked, shots, saved, aborted>>
    BY <1>6 DEF PlainFrame, Waiting, CountFrame
  <2>2. stack' \in Seq(Calls) /\ Len(stack') <= MaxDepth
    BY <1>0, <2>1, PopType, CallHookType, BoundAssumption DEF TypeOK, Hooks
  <2>3. TypeOK'
    BY <1>0, <2>1, <2>2 DEF TypeOK, shots
  <2>4. PixelsOnlyForShots'
    BY <2>1 DEF IInv, PixelsOnlyForShots, InShot, shots
  <2>5. RequestKept' /\ SavedAgrees'
    BY <2>1 DEF IInv, RequestKept, SavedAgrees, shots
  <2>6. ResetsAgree'
    BY <1>0, <2>1 DEF IInv, ResetsAgree, TypeOK
  <2> QED  BY <2>3, <2>4, <2>5, <2>6 DEF IInv
<1>7. CASE ShotFrame
  <2>1. /\ stack # << >> /\ CallHook(Below, "after")
        /\ frames' = frames + 1 /\ emulated' = emulated + 1
        /\ pending' = FALSE /\ pixels' = FALSE
        /\ owed' = IF owed = path THEN "none" ELSE owed
        /\ UNCHANGED <<dead, origin, hooked, path, midFrame, saved, aborted>>
    BY <1>7 DEF ShotFrame, Shot, InShot, Waiting, CountFrame, Detach, Written
  <2>2. stack' \in Seq(Calls) /\ Len(stack') <= MaxDepth
    BY <1>0, <2>1, PopType, CallHookType, BoundAssumption DEF TypeOK, Hooks
  <2>3. TypeOK'
    <3>1. owed' \in Paths \cup {"none"} /\ frames' \in Int /\ emulated' \in Nat
      BY <1>0, <2>1 DEF TypeOK
    <3> QED  BY <1>0, <2>1, <2>2, <3>1, Zenon DEF TypeOK
  <2>4. PixelsOnlyForShots' /\ RequestKept' /\ SavedAgrees'
    BY <2>1 DEF IInv, PixelsOnlyForShots, RequestKept, SavedAgrees
  <2>5. ResetsAgree'
    BY <1>0, <2>1 DEF IInv, ResetsAgree, TypeOK
  <2> QED  BY <2>3, <2>4, <2>5 DEF IInv
<1>8. CASE ShotError
  <2>1. /\ stack # << >> /\ stack' = Below
        /\ frames' = frames + 1 /\ emulated' = emulated + 1
        /\ pending' = FALSE /\ aborted' = TRUE
        /\ owed' = IF owed = path THEN "none" ELSE owed
        /\ UNCHANGED <<dead, origin, hooked, path, pixels, midFrame, saved>>
    BY <1>8 DEF ShotError, Shot, InShot, Waiting, CountFrame, Written
  <2>2. stack' \in Seq(Calls) /\ Len(stack') <= MaxDepth
    BY <1>0, <2>1, PopType, BoundAssumption DEF TypeOK
  <2>3. TypeOK'
    <3>1. owed' \in Paths \cup {"none"} /\ frames' \in Int /\ emulated' \in Nat
      BY <1>0, <2>1 DEF TypeOK
    <3> QED  BY <1>0, <2>1, <2>2, <3>1, Zenon DEF TypeOK
  <2>4. PixelsOnlyForShots' /\ RequestKept' /\ SavedAgrees'
    BY <2>1 DEF IInv, PixelsOnlyForShots, RequestKept, SavedAgrees
  <2>5. ResetsAgree'
    BY <1>0, <2>1 DEF IInv, ResetsAgree, TypeOK
  <2> QED  BY <2>3, <2>4, <2>5 DEF IInv
<1>15. CASE ShotNotWritten
  <2>1. /\ stack # << >> /\ stack' = Below
        /\ frames' = frames + 1 /\ emulated' = emulated + 1
        /\ pending' = FALSE /\ pixels' = FALSE
        /\ owed' = IF owed = path THEN "none" ELSE owed
        /\ UNCHANGED <<dead, origin, hooked, path, midFrame, saved, aborted>>
    BY <1>15 DEF ShotNotWritten, Shot, InShot, Waiting, CountFrame, Detach, Written
  <2>2. stack' \in Seq(Calls) /\ Len(stack') <= MaxDepth
    BY <1>0, <2>1, PopType, BoundAssumption DEF TypeOK
  <2>3. TypeOK'
    <3>1. owed' \in Paths \cup {"none"} /\ frames' \in Int /\ emulated' \in Nat
      BY <1>0, <2>1 DEF TypeOK
    <3> QED  BY <1>0, <2>1, <2>2, <3>1, Zenon DEF TypeOK
  <2>4. PixelsOnlyForShots' /\ RequestKept' /\ SavedAgrees'
    BY <2>1 DEF IInv, PixelsOnlyForShots, RequestKept, SavedAgrees
  <2>5. ResetsAgree'
    BY <1>0, <2>1 DEF IInv, ResetsAgree, TypeOK
  <2> QED  BY <2>3, <2>4, <2>5 DEF IInv
<1>9. CASE HookError
  <2>1. /\ stack # << >> /\ stack' = Below /\ aborted' = TRUE
        /\ UNCHANGED <<hooked, counters, shots, saved>>
    BY <1>9 DEF HookError, InFrame, Waiting
  <2>2. stack' \in Seq(Calls) /\ Len(stack') <= MaxDepth
    BY <1>0, <2>1, PopType, BoundAssumption DEF TypeOK
  <2>3. TypeOK'
    BY <1>0, <2>1, <2>2 DEF TypeOK, counters, shots
  <2> QED  BY <2>1, <2>3 DEF IInv, PixelsOnlyForShots, RequestKept, ResetsAgree,
                             SavedAgrees, counters, shots
<1>10. CASE SaveScreenshotAs
  <2>1. /\ pending' = TRUE /\ path' \in Paths
        /\ midFrame' = InShot
        /\ owed' = IF InShot THEN owed ELSE path'
        /\ UNCHANGED <<stack, hooked, counters, pixels, saved, aborted>>
    BY <1>10 DEF SaveScreenshotAs
  <2>2. TypeOK'
    BY <1>0, <2>1 DEF TypeOK, counters, InShot, Waiting
  <2>3. PixelsOnlyForShots'
    BY <2>1 DEF IInv, PixelsOnlyForShots, InShot, Waiting, Top
  <2>4. RequestKept'
    BY <2>1 DEF RequestKept
  <2> QED  BY <2>1, <2>2, <2>3, <2>4 DEF IInv, ResetsAgree, SavedAgrees, counters
<1>16. CASE SaveScreenshotFails
  <2>1. /\ pending' = TRUE
        /\ UNCHANGED <<stack, hooked, counters, path, pixels, owed, midFrame, saved, aborted>>
    BY <1>16 DEF SaveScreenshotFails
  <2>2. TypeOK'
    BY <1>0, <2>1 DEF TypeOK, counters
  <2>3. PixelsOnlyForShots'
    BY <2>1 DEF IInv, PixelsOnlyForShots, InShot, Waiting, Top
  <2>4. RequestKept'
    BY <2>1 DEF IInv, RequestKept
  <2> QED  BY <2>1, <2>2, <2>3, <2>4 DEF IInv, ResetsAgree, SavedAgrees, counters
<1>11. CASE PowerOn \/ LoadRom
  <2>1. /\ UNCHANGED <<stack, hooked, shots, saved, aborted>>
        /\ \/ /\ origin' = "power" /\ emulated' = 0 /\ frames' = 0 /\ dead' = 1
           \/ /\ origin' = "rom" /\ emulated' = 0 /\ frames' = -1 /\ dead' = dead
    BY <1>11 DEF PowerOn, LoadRom, Restart
  <2>2. TypeOK'
    BY <1>0, <2>1 DEF TypeOK, shots, Origins
  <2>3. PixelsOnlyForShots'
    BY <2>1 DEF IInv, PixelsOnlyForShots, InShot, Waiting, Top, shots
  <2>4. ResetsAgree'
    BY <2>1 DEF ResetsAgree
  <2> QED  BY <2>1, <2>2, <2>3, <2>4 DEF IInv, RequestKept, SavedAgrees, shots
<1>17. CASE SoftReset
  <2> DEFINE e == [fn |-> "softreset", lua |-> TRUE, shot |-> FALSE]
  <2>1. /\ ~InShot /\ Len(stack) < MaxDepth /\ stack' = Append(stack, e)
        /\ origin' = "half" /\ emulated' = 0 /\ frames' = 0 /\ dead' = dead
        /\ UNCHANGED <<hooked, shots, saved, aborted>>
    BY <1>17 DEF SoftReset, MayCall, MayReenter, InFrame, InShot, Restart
  <2>2. e \in Calls
    BY DEF Calls
  <2>3. stack' \in Seq(Calls) /\ Len(stack') <= MaxDepth
    <3> HIDE DEF e
    <3> QED  BY <1>0, <2>1, <2>2, BoundAssumption DEF TypeOK
  <2> HIDE DEF e
  <2>4. TypeOK'
    BY <1>0, <2>1, <2>3 DEF TypeOK, shots, Origins
  <2>5. PixelsOnlyForShots'
    BY <2>1 DEF IInv, PixelsOnlyForShots, shots
  <2>6. ResetsAgree'
    BY <2>1 DEF ResetsAgree
  <2> QED  BY <2>1, <2>4, <2>5, <2>6 DEF IInv, RequestKept, SavedAgrees, shots
<1>18. CASE SoftResetDone
  <2>1. /\ ~InShot /\ stack # << >> /\ stack' = Below
        /\ origin' = "soft" /\ frames' = 0 /\ dead' = 2
        /\ UNCHANGED <<hooked, shots, saved, aborted>>
    BY <1>18 DEF SoftResetDone, Waiting, InShot
  <2>2. stack' \in Seq(Calls) /\ Len(stack') <= MaxDepth
    BY <1>0, <2>1, PopType, BoundAssumption DEF TypeOK
  <2>3. emulated' = 1
    <3>1. Len(stack) \in 1..Len(stack) /\ stack[Len(stack)].fn = "softreset"
      BY <1>0, <1>18, <2>1, PopType DEF SoftResetDone, Waiting, Top, TypeOK
    <3>2. emulated = 0
      BY <3>1 DEF SoftResets
    <3> QED  BY <1>18, <3>2 DEF SoftResetDone
  <2>4. TypeOK'
    BY <1>0, <2>1, <2>2, <2>3 DEF TypeOK, shots, Origins
  <2>5. PixelsOnlyForShots'
    BY <2>1 DEF IInv, PixelsOnlyForShots, shots
  <2>6. ResetsAgree'
    BY <2>1, <2>3 DEF ResetsAgree
  <2> QED  BY <2>1, <2>4, <2>5, <2>6 DEF IInv, RequestKept, SavedAgrees, shots
<1>12. CASE SaveState
  <2>1. /\ stack # << >> /\ Waiting("save") /\ stack' = Below
        /\ saved' = [frames |-> frames, emulated |-> emulated,
                     dead |-> dead, origin |-> origin]
        /\ UNCHANGED <<hooked, counters, shots, aborted>>
    BY <1>12 DEF SaveState, Waiting
  <2>2. stack' \in Seq(Calls) /\ Len(stack') <= MaxDepth
    BY <1>0, <2>1, PopType, BoundAssumption DEF TypeOK
  <2>3. TypeOK'
    BY <1>0, <2>1, <2>2 DEF TypeOK, counters, shots
  <2>4. SavedAgrees'
    BY <2>1 DEF IInv, ResetsAgree, SavedAgrees
  <2>5. PixelsOnlyForShots'
    BY <2>1 DEF IInv, PixelsOnlyForShots, InShot, Waiting, shots
  <2> QED  BY <2>1, <2>3, <2>4, <2>5 DEF IInv, RequestKept, ResetsAgree, counters, shots
<1>13. CASE Load
  <2>1. /\ ~InShot /\ Len(stack) < MaxDepth /\ CallHook(stack, "load")
        /\ saved # << >>
        /\ frames' = saved.frames /\ emulated' = saved.emulated
        /\ origin' = IF saved.dead = dead THEN saved.origin ELSE "state"
        /\ UNCHANGED <<hooked, dead, shots, saved, aborted>>
    BY <1>13 DEF Load, MayCall, MayReenter, InFrame, InShot
  <2>2. stack' \in Seq(Calls) /\ Len(stack') <= MaxDepth
    BY <1>0, <2>1, CallHookType DEF TypeOK, Hooks
  <2>3. TypeOK'
    BY <1>0, <2>1, <2>2 DEF TypeOK, shots, Origins
  <2>4. ResetsAgree'
    BY <2>1 DEF IInv, SavedAgrees, ResetsAgree
  <2>5. PixelsOnlyForShots'
    BY <2>1 DEF IInv, PixelsOnlyForShots, shots
  <2> QED  BY <2>1, <2>3, <2>4, <2>5 DEF IInv, RequestKept, SavedAgrees, shots
<1>14. CASE UNCHANGED vars
  BY <1>14 DEF IInv, vars, counters, shots, TypeOK, PixelsOnlyForShots, RequestKept,
               ResetsAgree, SavedAgrees, InShot, Waiting, Top
<1> QED
  BY <1>1, <1>2, <1>3, <1>4, <1>5, <1>6, <1>7, <1>8, <1>9, <1>10, <1>11, <1>12,
     <1>13, <1>14, <1>15, <1>16, <1>17, <1>18 DEF Next

\* In every state of the frame loop the invariant holds.
THEOREM IInvHolds == Spec => []IInv
<1>1. Init => SoftResets
  BY DEF Init, SoftResets
<1>2. IInv => TypeOK
  BY DEF IInv
<1> QED  BY <1>1, <1>2, InitIInv, NextIInv, NextSoftResets, PTL DEF Spec

\* The frame loop's variables have their types.
THEOREM TypeCorrect == Spec => []TypeOK
<1>1. IInv => TypeOK
  BY DEF IInv
<1> QED  BY <1>1, IInvHolds, PTL

\* For any nesting depth and number of frames, a request made outside a frame
\* survives until it is written.
THEOREM RequestsKept == Spec => []RequestKept
<1>1. IInv => RequestKept
  BY DEF IInv
<1> QED  BY <1>1, IInvHolds, PTL

\* Frames render into the screenshot buffer only for a screenshot, unless a
\* memory hook's error or an unknown extension unwound one.
THEOREM PixelsDetached == Spec => []PixelsOnlyForShots
<1>1. IInv => PixelsOnlyForShots
  BY DEF IInv
<1> QED  BY <1>1, IInvHolds, PTL

\* Power-on, and a soft reset whose frame is emulated to its end, leave the
\* frame count the same distance ahead of the emulated frames, whatever the
\* memory hooks of that frame ask for.
THEOREM ResetsSameLag == Spec => []ResetsAgree
<1>1. IInv => ResetsAgree
  BY DEF IInv
<1> QED  BY <1>1, IInvHolds, PTL

-----------------------------------------------------------------------------
(* A run of the program                                                    *)

\* Every step of a run is one of the frame loop or leaves its state alone,
\* whatever becomes of the archive, the cartridge and the program.
LEMMA SessionStep == [SessionNext]_<<vars, session>> => [Next]_vars
<1> SUFFICES ASSUME [SessionNext]_<<vars, session>> PROVE [Next]_vars
  OBVIOUS
<1>1. CASE QuietStep \/ CartStep \/ SaveStep \/ InsertRom
  BY <1>1 DEF QuietStep, CartStep, SaveStep, InsertRom, Next
<1>2. CASE ShotSaved \/ SigintInArchive \/ Crash
  BY <1>2 DEF ShotSaved, SigintInArchive, Crash, Next
<1>3. CASE LoadRomFails \/ OpenArchive \/ CloseArchive \/ Sigint
  BY <1>3, Zenon DEF LoadRomFails, OpenArchive, CloseArchive, Sigint
<1>4. CASE Exit \/ Terminate \/ ScriptError \/ Over
  BY <1>4, Zenon DEF Exit, Terminate, ScriptError, Over
<1>5. CASE UNCHANGED <<vars, session>>
  BY <1>5
<1> QED  BY <1>1, <1>2, <1>3, <1>4, <1>5 DEF SessionNext

\* A run of the program is a behaviour of the frame loop: what is proved of
\* the loop holds in every run.
THEOREM SessionIsFrameLoop == SessionSpec => Spec
<1>1. SessionInit => Init
  BY DEF SessionInit
<1> QED  BY <1>1, SessionStep, PTL DEF SessionSpec, Spec

\* Without a cartridge no rom was ever given, or an error was caught; with an
\* archive that could not be opened one was.
Excused == (~cart => caught \/ ~inserted) /\ (tar = "bad" => caught)

SessionInv == CrashesOnlyAfterErrors /\ Excused

\* Every step of a session keeps the session's invariant.
LEMMA NextSessionInv ==
    SessionInv /\ [SessionNext]_<<vars, session>> => SessionInv'
<1> SUFFICES ASSUME SessionInv, [SessionNext]_<<vars, session>> PROVE SessionInv'
  OBVIOUS
<1> USE DEF SessionInv, CrashesOnlyAfterErrors, Excused
<1>1. CASE /\ Goes /\ UNCHANGED session
           /\ QuietStep \/ CartStep \/ SaveStep \/ ShotSaved
  BY <1>1 DEF session, ending, archive, rom, Goes
<1>2. CASE InsertRom
  BY <1>2 DEF InsertRom, Goes, ending, archive
<1>3. CASE LoadRomFails
  BY <1>3 DEF LoadRomFails, Ends, Goes, ending, archive
<1>4. CASE OpenArchive
  <2>1. /\ prog' = "runs" /\ caught' = (caught \/ tar' = "bad")
        /\ UNCHANGED <<cart, inserted>>
    BY <1>4, Zenon DEF OpenArchive, Ends, Goes, ending
  <2> QED  BY <2>1, Zenon
<1>5. CASE CloseArchive \/ Sigint
  <2>1. /\ prog = "runs" /\ prog' = prog /\ tar' = "none"
        /\ UNCHANGED <<interrupted, cart, inserted, caught>>
    BY <1>5 DEF CloseArchive, Sigint, Close, Goes, ending, rom
  <2> QED  BY <2>1
<1>6. CASE SigintInArchive
  BY <1>6 DEF SigintInArchive, rom
<1>7. CASE Exit \/ ScriptError
  <2>1. (prog' = "runs" \/ prog' = "exit -1") /\ UNCHANGED <<tar, interrupted, cart, inserted, caught>>
    BY <1>7, Zenon DEF Exit, ScriptError, Ends, Goes, archive, rom
  <2> QED  BY <2>1
<1>8. CASE Terminate
  BY <1>8 DEF Terminate, Close, rom
<1>9. CASE Crash
  <2>1. UNCHANGED <<tar, interrupted, cart, inserted, caught, path, stack>>
    BY <1>9 DEF Crash, archive, rom, vars, shots
  <2>2. \/ tar = "bad" \/ ~cart
        \/ InShot /\ (path \in NoDotPaths \/ (path \in BinPaths /\ tar = "none"))
    BY <1>9 DEF Crash, NeedsCart, ShotCrashes, CloseCrashes
  <2>3. InShot' = InShot
    BY <2>1 DEF InShot, Waiting, Top
  <2> QED  BY <2>1, <2>2, <2>3
<1>10. CASE Over \/ UNCHANGED <<vars, session>>
  <2>1. UNCHANGED <<stack, path, prog, tar, interrupted, cart, inserted, caught>>
    BY <1>10 DEF Over, vars, shots, session, ending, archive, rom
  <2>2. InShot' = InShot
    BY <2>1 DEF InShot, Waiting, Top
  <2> QED  BY <2>1, <2>2, Zenon
<1>11. QuietStep \/ CartStep \/ SaveStep \/ ShotSaved => Goes /\ UNCHANGED session
  BY DEF QuietStep, CartStep, SaveStep, ShotSaved, Returns
<1> QED
  BY <1>1, <1>2, <1>3, <1>4, <1>5, <1>6, <1>7, <1>8, <1>9, <1>10, <1>11
     DEF SessionNext

\* In every state of a session its invariant holds.
THEOREM SessionInvHolds == SessionSpec => []SessionInv
<1>1. SessionInit => SessionInv
  BY DEF SessionInit, SessionInv, CrashesOnlyAfterErrors, Excused
<1> QED  BY <1>1, NextSessionInv, PTL DEF SessionSpec

\* A script that loads its rom first and never goes on after a rom or an
\* archive that failed does not crash the program by the calls of a session,
\* but for SIGINT in an archive and screenshots whose path has no dot or is a
\* .bin without an archive.
THEOREM CrashesAfterErrors == SessionSpec => []CrashesOnlyAfterErrors
<1>1. SessionInv => CrashesOnlyAfterErrors
  BY DEF SessionInv
<1> QED  BY <1>1, SessionInvHolds, PTL

\* The frame loop's invariants, in every run of the program.
THEOREM SessionKeeps ==
    SessionSpec => [](TypeOK /\ RequestKept /\ PixelsOnlyForShots /\ ResetsAgree)
<1>1. IInv => TypeOK /\ RequestKept /\ PixelsOnlyForShots /\ ResetsAgree
  BY DEF IInv
<1> QED  BY <1>1, IInvHolds, SessionIsFrameLoop, PTL

-----------------------------------------------------------------------------
(* The hook tables                                                         *)
(* Induction on the naturals, for the set of those with a property         *)

\* A set of naturals has a least element.
LEMMA Least ==
    ASSUME NEW T, T \subseteq Nat, T # {}
    PROVE  \E x \in T : \A y \in T : x <= y
<1>1. \E R : IsWellFoundedOn(R, Nat) /\ \A x, y \in Nat : <<x, y>> \in R <=> x < y
  <2>1. IsWellFoundedOn(OpToRel(<, Nat), Nat)
    BY NatLessThanWellFounded
  <2>2. \A x, y \in Nat : <<x, y>> \in OpToRel(<, Nat) <=> x < y
    BY DEF OpToRel
  <2> QED  BY <2>1, <2>2, Zenon
<1>2. PICK R : IsWellFoundedOn(R, Nat) /\ \A x, y \in Nat : <<x, y>> \in R <=> x < y
  BY <1>1
<1>3. PICK x \in T : \A y \in T : ~ (<<y, x>> \in R)
  <2>1. IsWellFoundedOn(R, Nat)
    BY <1>2
  <2> QED  BY <2>1, WFMin, Zenon
<1>4. \A y \in T : ~ (y < x)
  BY <1>2, <1>3
<1> QED  BY <1>4

\* Mathematical induction.
LEMMA Induction ==
    ASSUME NEW S, 0 \in S, \A n \in Nat : n \in S => n + 1 \in S
    PROVE  Nat \subseteq S
<1> SUFFICES ASSUME Nat \ S # {} PROVE FALSE  OBVIOUS
<1>1. PICK x \in Nat \ S : \A y \in Nat \ S : x <= y
  BY Least
<1>2. x # 0 /\ x - 1 \in Nat
  OBVIOUS
<1>3. x - 1 \in S
  BY <1>1, <1>2
<1> QED  BY <1>1, <1>2, <1>3

-----------------------------------------------------------------------------

\* The start and the length of a range.
LEMMA RangeType ==
    ASSUME NEW r \in Ranges
    PROVE  r[1] \in Nat /\ r[2] \in Int
<1>1. r \in Starts \X Lengths
  BY DEF Ranges
<1>2. r[1] \in Starts /\ r[2] \in Lengths
  BY <1>1
<1>3. Starts \subseteq Nat /\ Lengths \subseteq Int
  BY ArgAssumption, SizeAssumption
<1> QED  BY <1>2, <1>3

\* Ranges wrap into the table: an entry outside it is never touched.
LEMMA CoveredInTable ==
    ASSUME NEW r \in Ranges
    PROVE  Covered(r[1], r[2]) \subseteq Addrs
<1>1. r[1] \in Nat /\ r[2] \in Int
  BY RangeType
<1>2. Lower(r[1], r[2]) \in Int /\ Upper(r[1], r[2]) \in Int
  BY <1>1 DEF Lower, Upper, LastAddr
<1>3. \A i \in Int : i % TableSize \in Addrs
  BY SizeAssumption DEF Addrs
<1> QED  BY <1>2, <1>3 DEF Covered

\* A row has hooks at finitely many addresses.
LEMMA OccupiedFinite ==
    \A row : IsFiniteSet(Occupied(row)) /\ Cardinality(Occupied(row)) \in Nat
<1>1. IsFiniteSet(Addrs)
  BY FS_Interval, SizeAssumption DEF Addrs
<1>2. ASSUME NEW row
      PROVE  IsFiniteSet(Occupied(row)) /\ Cardinality(Occupied(row)) \in Nat
  <2>1. Occupied(row) \in SUBSET Addrs
    BY DEF Occupied
  <2>2. IsFiniteSet(Occupied(row))
    BY <1>1, <2>1, FS_Subset
  <2> QED  BY <2>2, FS_CardinalityType
<1> QED  BY <1>2

\* The inductive invariant: the types, the index bound, the counts, and the
\* trace flag once something was registered.
HooksIInv == HooksTypeOK /\ EntriesNameHooks /\ TotalsCount /\ TracingIffHooked

\* No hook is registered at first.
LEMMA HooksInitIInv == HooksInit => HooksIInv
<1> SUFFICES ASSUME HooksInit PROVE HooksIInv  OBVIOUS
<1> USE DEF HooksInit
<1>1. HooksTypeOK
  <2>1. regs \in [Types -> [Addrs -> Nat]] /\ total \in [Types -> Nat]
    OBVIOUS
  <2>2. hooks \in Seq([id : Int, registrations : Int])
    OBVIOUS
  <2>3. asked \in [CpuAddrs -> Callbacks \cup {Nil}] /\ missed \subseteq CpuAddrs
    OBVIOUS
  <2>4. tracing \in BOOLEAN /\ freed \in BOOLEAN
    OBVIOUS
  <2> QED  BY <2>1, <2>2, <2>3, <2>4 DEF HooksTypeOK
<1>2. EntriesNameHooks
  BY DEF EntriesNameHooks
<1>3. TotalsCount
  <2>1. \A t \in Types : Occupied(regs[t]) = {}
    BY DEF Occupied
  <2> QED  BY <2>1, FS_EmptySet DEF TotalsCount
<1>4. TracingIffHooked
  BY DEF TracingIffHooked
<1> QED  BY <1>1, <1>2, <1>3, <1>4 DEF HooksIInv

\* The trace flag after set_tracing, from the new count.
LEMMA FlagFollowsCount ==
    ASSUME SetTracing, total'[Exec] = Cardinality(Occupied(regs'[Exec]))
    PROVE  tracing' \in BOOLEAN /\ (tracing' <=> Occupied(regs'[Exec]) # {})
<1>1. total'[Exec] \in Nat
  BY OccupiedFinite
<1>2. total'[Exec] = 0 <=> Occupied(regs'[Exec]) = {}
  BY OccupiedFinite, FS_EmptySet
<1>3. tracing' = (total'[Exec] # 0)
  BY <1>1 DEF SetTracing
<1> QED  BY <1>2, <1>3

\* What a script asks for are callbacks, or nil, at addresses of the CPU's.
LEMMA AskType ==
    ASSUME HooksTypeOK, NEW type \in Types, NEW r \in Ranges,
           NEW cb \in Callbacks \cup {Nil}, Ask(type, r[1], r[2], cb)
    PROVE  asked' \in [CpuAddrs -> Callbacks \cup {Nil}] /\ missed' \subseteq CpuAddrs
<1> DEFINE A == Requested(r[1], r[2])
           R == Covered(r[1], r[2])
<1>1. asked \in [CpuAddrs -> Callbacks \cup {Nil}] /\ missed \subseteq CpuAddrs
  BY DEF HooksTypeOK
<1>2. CASE type = Exec
  <2>1. /\ asked' = [a \in CpuAddrs |-> IF a \in A THEN cb ELSE asked[a]]
        /\ missed' = (missed \cup A \cup R) \ (A \cap R)
    BY <1>2 DEF Ask
  <2>2. A \subseteq CpuAddrs
    <3>1. Lower(r[1], r[2]) \in Int /\ Upper(r[1], r[2]) \in Int
      BY RangeType DEF Lower, Upper, LastAddr
    <3>2. \A i \in Int : i % (TableSize + 1) \in CpuAddrs
      BY SizeAssumption DEF CpuAddrs
    <3> QED  BY <3>1, <3>2 DEF Requested
  <2>3. R \subseteq CpuAddrs
    BY CoveredInTable, SizeAssumption DEF Addrs, CpuAddrs
  <2> HIDE DEF A, R
  <2> QED  BY <1>1, <2>1, <2>2, <2>3
<1>3. CASE type # Exec
  BY <1>1, <1>3 DEF Ask, ghosts
<1> QED  BY <1>2, <1>3

\* Registering takes a free index.
LEMMA RegisterIInv ==
    ASSUME HooksIInv, NEW type \in Types, NEW r \in Ranges, NEW cb \in Callbacks,
           Register(type, r[1], r[2], cb)
    PROVE  HooksIInv'
<1> DEFINE R == Covered(r[1], r[2])
<1> USE DEF HooksIInv
<1>1. R \subseteq Addrs
  BY CoveredInTable
<1>2. Len(hooks) \in Nat /\ HookNumber \in Nat /\ HookNumber # 0
  BY DEF HooksTypeOK, HookNumber
<1>3. /\ regs' \in [Types -> [Addrs -> Nat]]
      /\ \A u \in Types : u # type => regs'[u] = regs[u]
      /\ \A a \in Addrs :
            regs'[type][a] = IF a \in R THEN HookNumber ELSE regs[type][a]
  <2>1. regs' = Assign(regs, type, R, HookNumber)
    BY DEF Register
  <2>2. regs \in [Types -> [Addrs -> Nat]]
    BY DEF HooksTypeOK
  <2> HIDE DEF R, HooksIInv
  <2> QED  BY <1>2, <2>1, <2>2 DEF Assign
<1>4. /\ hooks' \in Seq([id : Int, registrations : Int])
      /\ Len(hooks') = Len(hooks) + 1
  <2>1. PICK ref \in NewRefs(slot) :
           hooks' = Append(hooks, [id |-> ref,
                      registrations |-> Upper(r[1], r[2]) - Lower(r[1], r[2])])
    BY DEF Register
  <2>2. ref \in Int
    BY <2>1, SizeAssumption DEF NewRefs, AsInteger, Borders
  <2>3. Upper(r[1], r[2]) - Lower(r[1], r[2]) \in Int
    BY RangeType DEF Upper, Lower, LastAddr
  <2> QED  BY <2>1, <2>2, <2>3 DEF HooksTypeOK
<1>5. /\ IsFiniteSet(Fresh(type, R)) /\ Cardinality(Fresh(type, R)) \in Nat
      /\ Cardinality(Occupied(regs'[type])) =
            Cardinality(Occupied(regs[type])) + Cardinality(Fresh(type, R))
  <2>1. Occupied(regs'[type]) = Occupied(regs[type]) \cup Fresh(type, R)
    BY <1>1, <1>2, <1>3 DEF Occupied, Fresh
  <2>2. Occupied(regs[type]) \cap Fresh(type, R) = {}
    BY DEF Occupied, Fresh
  <2>3. IsFiniteSet(Fresh(type, R)) /\ Cardinality(Fresh(type, R)) \in Nat
    <3>1. Fresh(type, R) \in SUBSET Occupied(regs'[type])
      BY <2>1
    <3>2. IsFiniteSet(Fresh(type, R))
      BY <3>1, OccupiedFinite, FS_Subset
    <3> QED  BY <3>2, FS_CardinalityType
  <2>4. Cardinality(Occupied(regs'[type])) =
           Cardinality(Occupied(regs[type])) + Cardinality(Fresh(type, R))
           - Cardinality(Occupied(regs[type]) \cap Fresh(type, R))
    BY <2>1, <2>3, OccupiedFinite, FS_Union
  <2>5. Cardinality(Occupied(regs[type]) \cap Fresh(type, R)) = 0
    BY <2>2, FS_EmptySet
  <2> QED  BY <2>3, <2>4, <2>5, OccupiedFinite
<1>6. /\ total' \in [Types -> Nat]
      /\ \A u \in Types : u # type => total'[u] = total[u]
      /\ total'[type] = total[type] + Cardinality(Fresh(type, R))
  <2>1. total' = [total EXCEPT ![type] = @ + Cardinality(Fresh(type, R))]
    BY DEF Register
  <2> QED  BY <1>5, <2>1 DEF HooksTypeOK
<1>7. TotalsCount'
  BY <1>3, <1>5, <1>6 DEF TotalsCount
<1>8. EntriesNameHooks'
  <2> SUFFICES ASSUME NEW u \in Types, NEW a \in Addrs
               PROVE  regs'[u][a] \in 0..Len(hooks')
    BY DEF EntriesNameHooks
  <2>1. regs[u][a] \in 0..Len(hooks)
    BY DEF EntriesNameHooks
  <2>2. regs'[u][a] = regs[u][a] \/ regs'[u][a] = Len(hooks) + 1
    BY <1>3 DEF HookNumber
  <2> QED  BY <1>2, <1>4, <2>1, <2>2
<1>9. tracing' \in BOOLEAN /\ TracingIffHooked'
  <2>1. total'[Exec] = Cardinality(Occupied(regs'[Exec]))
    BY <1>7 DEF TotalsCount, Types
  <2>2. SetTracing
    BY DEF Register
  <2> QED  BY <2>1, <2>2, FlagFollowsCount DEF TracingIffHooked
<1>10. /\ asked' \in [CpuAddrs -> Callbacks \cup {Nil}] /\ missed' \subseteq CpuAddrs
       /\ freed' \in BOOLEAN
  <2>1. Ask(type, r[1], r[2], cb) /\ freed' = freed
    BY DEF Register
  <2> QED  BY <2>1, AskType DEF HooksTypeOK
<1>11. HooksTypeOK'
  BY <1>3, <1>4, <1>6, <1>9, <1>10 DEF HooksTypeOK
<1> QED  BY <1>7, <1>8, <1>9, <1>11

\* Unregistering frees what it takes out.
LEMMA UnregisterIInv ==
    ASSUME HooksIInv, NEW type \in Types, NEW r \in Ranges, NEW junk,
           Unregister(type, r[1], r[2], junk)
    PROVE  HooksIInv'
<1> DEFINE R == Covered(r[1], r[2])
<1> USE DEF HooksIInv
<1>1. R \subseteq Addrs
  BY CoveredInTable
<1>2. /\ regs' \in [Types -> [Addrs -> Nat]]
      /\ \A u \in Types : u # type => regs'[u] = regs[u]
      /\ \A a \in Addrs :
            regs'[type][a] = IF a \in R THEN 0 ELSE regs[type][a]
  <2>1. regs' = Assign(regs, type, R, 0)
    BY DEF Unregister
  <2>2. regs \in [Types -> [Addrs -> Nat]]
    BY DEF HooksTypeOK
  <2> HIDE DEF R, HooksIInv
  <2> QED  BY <2>1, <2>2 DEF Assign
<1>3. hooks' = hooks
  BY DEF Unregister
<1>4. /\ Cardinality(Taken(type, R)) \in Nat
      /\ Cardinality(Occupied(regs[type])) =
            Cardinality(Occupied(regs'[type])) + Cardinality(Taken(type, R))
  <2>1. Occupied(regs[type]) = Occupied(regs'[type]) \cup Taken(type, R)
    BY <1>1, <1>2 DEF Occupied, Taken
  <2>2. Occupied(regs'[type]) \cap Taken(type, R) = {}
    BY <1>1, <1>2 DEF Occupied, Taken
  <2>3. IsFiniteSet(Taken(type, R)) /\ Cardinality(Taken(type, R)) \in Nat
    <3>1. Taken(type, R) \in SUBSET Occupied(regs[type])
      BY <2>1
    <3>2. IsFiniteSet(Taken(type, R))
      BY <3>1, OccupiedFinite, FS_Subset
    <3> QED  BY <3>2, FS_CardinalityType
  <2>4. Cardinality(Occupied(regs[type])) =
           Cardinality(Occupied(regs'[type])) + Cardinality(Taken(type, R))
           - Cardinality(Occupied(regs'[type]) \cap Taken(type, R))
    BY <2>1, <2>3, OccupiedFinite, FS_Union
  <2>5. Cardinality(Occupied(regs'[type]) \cap Taken(type, R)) = 0
    BY <2>2, FS_EmptySet
  <2> QED  BY <2>3, <2>4, <2>5, OccupiedFinite
<1>5. /\ total' \in [Types -> Nat]
      /\ \A u \in Types : u # type => total'[u] = total[u]
      /\ total'[type] = total[type] - Cardinality(Taken(type, R))
  <2>1. total' = [total EXCEPT ![type] = @ - Cardinality(Taken(type, R))]
    BY DEF Unregister
  <2>2. total[type] - Cardinality(Taken(type, R)) \in Nat
    BY <1>4, OccupiedFinite DEF TotalsCount
  <2> QED  BY <2>1, <2>2 DEF HooksTypeOK
<1>6. TotalsCount'
  BY <1>2, <1>4, <1>5, OccupiedFinite DEF TotalsCount
<1>7. EntriesNameHooks'
  <2> SUFFICES ASSUME NEW u \in Types, NEW a \in Addrs
               PROVE  regs'[u][a] \in 0..Len(hooks')
    BY DEF EntriesNameHooks
  <2>1. regs[u][a] \in 0..Len(hooks) /\ Len(hooks) \in Nat
    BY DEF EntriesNameHooks, HooksTypeOK
  <2>2. regs'[u][a] = regs[u][a] \/ regs'[u][a] = 0
    BY <1>2
  <2> QED  BY <1>3, <2>1, <2>2
<1>8. tracing' \in BOOLEAN /\ TracingIffHooked'
  <2>1. total'[Exec] = Cardinality(Occupied(regs'[Exec]))
    BY <1>6 DEF TotalsCount, Types
  <2>2. SetTracing
    BY DEF Unregister
  <2> QED  BY <2>1, <2>2, FlagFollowsCount DEF TracingIffHooked
<1>9. asked' \in [CpuAddrs -> Callbacks \cup {Nil}] /\ missed' \subseteq CpuAddrs
  <2>1. Ask(type, r[1], r[2], Nil)
    BY DEF Unregister
  <2> QED  BY <2>1, AskType
<1>10. freed' \in BOOLEAN
  BY DEF Unregister
<1>11. HooksTypeOK'
  BY <1>2, <1>3, <1>5, <1>8, <1>9, <1>10 DEF HooksTypeOK
<1> QED  BY <1>6, <1>7, <1>8, <1>11

\* Every step keeps the invariant.
LEMMA HooksNextIInv == HooksIInv /\ [HooksNext]_hooks_vars => HooksIInv'
<1> SUFFICES ASSUME HooksIInv, [HooksNext]_hooks_vars PROVE HooksIInv'  OBVIOUS
<1>1. ASSUME NEW t \in Types, NEW r \in Ranges, NEW cb \in Callbacks,
             Register(t, r[1], r[2], cb)
      PROVE  HooksIInv'
  BY <1>1, RegisterIInv
<1>2. ASSUME NEW t \in Types, NEW r \in Ranges, NEW junk \in Junk,
             Unregister(t, r[1], r[2], junk)
      PROVE  HooksIInv'
  BY <1>2, UnregisterIInv
<1>3. ASSUME NEW kind, NEW addr, Access(kind, addr)
      PROVE  HooksIInv'
  BY <1>3 DEF Access, ghosts, HooksIInv, HooksTypeOK, EntriesNameHooks, TotalsCount,
              TracingIffHooked, Occupied
<1>4. CASE UNCHANGED hooks_vars
  BY <1>4 DEF hooks_vars, ghosts, HooksIInv, HooksTypeOK, EntriesNameHooks, TotalsCount,
              TracingIffHooked, Occupied
<1> QED  BY <1>1, <1>2, <1>3, <1>4 DEF HooksNext

\* Every run of the tables satisfies the invariant, for tables, hook counts
\* and argument sets of any size.
THEOREM HooksIInvHolds == HooksSpec => []HooksIInv
  BY HooksInitIInv, HooksNextIInv, PTL DEF HooksSpec

\* Hooks, indices and callbacks are of their types.
THEOREM HooksTypeCorrect == HooksSpec => []HooksTypeOK
<1>1. HooksIInv => HooksTypeOK
  BY DEF HooksIInv
<1> QED  BY <1>1, HooksIInvHolds, PTL

\* The totals memory_registerhook keeps by increments and decrements are the
\* number of hooked addresses.
THEOREM CountsExact == HooksSpec => []TotalsCount
<1>1. HooksIInv => TotalsCount
  BY DEF HooksIInv
<1> QED  BY <1>1, HooksIInvHolds, PTL

\* Every number in a table was handed out by a push on the hooks vector.
THEOREM IndexInVector == HooksSpec => []EntriesNameHooks
<1>1. HooksIInv => EntriesNameHooks
  BY DEF HooksIInv
<1> QED  BY <1>1, HooksIInvHolds, PTL

\* Tracing is on exactly while an address has an exec hook.
THEOREM TracingExact == HooksSpec => []TracingIffHooked
<1>1. HooksIInv => TracingIffHooked
  BY DEF HooksIInv
<1> QED  BY <1>1, HooksIInvHolds, PTL
-----------------------------------------------------------------------------
(***************************************************************************)
(* Callbacks.  Until a slot is released luaL_ref extends its array by one  *)
(* at every registration, as push_back extends the vector.                 *)
(***************************************************************************)
\* luaL_unref does nothing with a negative reference, so neither does a loop
\* that releases only such.
LEMMA NothingReleased ==
    ASSUME NEW s, NEW m \in Int, NEW ids,
           DOMAIN ids = 1..m, \A k \in 1..m : ~(ids[k] >= 0)
    PROVE  FoldLeft(Unref, s, ids) = s
<1> DEFINE D == 1..m
           F(h) == [T \in SUBSET D |->
                      IF T = {} THEN s ELSE Unref(h[T \ {Max(T)}], ids[Max(T)])]
           fold == CHOOSE h : h = F(h)
           Done == {n \in Nat : \A T \in SUBSET (1..n) : T \in SUBSET D => fold[T] = s}
<1>1. FoldLeft(Unref, s, ids) = fold[D]
  BY DEF FoldLeft, MapThenFoldSet
<1>2. ASSUME NEW n \in Nat, NEW T \in SUBSET (1..(n + 1)), T # {}
      PROVE  Max(T) \in T /\ T \ {Max(T)} \in SUBSET (1..n)
  <2>1. \E x \in T : \A y \in T : x >= y
    <3> DEFINE U == {u \in Nat : \A y \in T : u >= y}
    <3>1. U # {}
      <4>1. n + 1 \in U  OBVIOUS
      <4> QED  BY <4>1
    <3>2. PICK u \in U : \A v \in U : u <= v
      BY <3>1, Least
    <3>3. u \in T
      <4> SUFFICES ASSUME u \notin T PROVE FALSE  OBVIOUS
      <4>1. PICK x \in T : TRUE
        BY <1>2
      <4>2. u >= x /\ x >= 1 /\ u # x
        BY <4>1, <3>2
      <4>3. u - 1 \in Nat
        BY <4>2
      <4>4. \A y \in T : u - 1 >= y
        BY <3>2
      <4>5. u - 1 \in U
        BY <4>3, <4>4
      <4> QED  BY <3>2, <4>5
    <3> QED  BY <3>2, <3>3
  <2>2. Max(T) \in T /\ \A y \in T : Max(T) >= y
    BY <2>1 DEF Max
  <2>3. ASSUME NEW x, x \in T, \A y \in T : x >= y
        PROVE  T \ {x} \in SUBSET (1..n)
    <3> SUFFICES ASSUME NEW y \in T, y # x PROVE y \in 1..n
      OBVIOUS
    <3>1. x \in 1..(n + 1) /\ y \in 1..(n + 1) /\ x >= y
      BY <2>3
    <3> QED  BY <3>1
  <2> QED  BY <2>2, <2>3, Zenon
<1>3. fold = F(fold)
  <2> DEFINE g == [T \in SUBSET D |-> s]
  <2>1. ASSUME NEW T \in SUBSET D, T # {}
        PROVE  Unref(g[T \ {Max(T)}], ids[Max(T)]) = s
    <3>1. m \in Nat /\ m - 1 \in Nat /\ m = (m - 1) + 1
      <4>1. PICK k \in T : TRUE
        BY <2>1
      <4> QED  BY <4>1
    <3>2. Max(T) \in D
      <4> HIDE DEF g
      <4> QED  BY <1>2, <2>1, <3>1
    <3>3. g[T \ {Max(T)}] = s
      OBVIOUS
    <3> QED  BY <3>2, <3>3 DEF Unref
  <2>2. g = F(g)
    BY <2>1, Zenon
  <2> HIDE DEF F, g
  <2> QED  BY <2>2, Zenon
<1> HIDE DEF fold
<1>4. 0 \in Done
  <2>1. fold[{}] = s
    BY <1>3
  <2>2. 1..0 = {}
    OBVIOUS
  <2> QED  BY <2>1, <2>2
<1>5. ASSUME NEW n \in Nat, n \in Done PROVE n + 1 \in Done
  <2> SUFFICES ASSUME NEW T \in SUBSET (1..(n + 1)), T \in SUBSET D, T # {}
               PROVE  fold[T] = s
    BY <1>4
  <2>1. Max(T) \in T /\ T \ {Max(T)} \in SUBSET (1..n)
    BY <1>2
  <2>2. fold[T \ {Max(T)}] = s
    BY <1>5, <2>1
  <2>3. fold[T] = Unref(fold[T \ {Max(T)}], ids[Max(T)])
    BY <1>3
  <2> QED  BY <2>1, <2>2, <2>3 DEF Unref
<1>6. Nat \subseteq Done
  <2> HIDE DEF Done
  <2> QED  BY <1>4, <1>5, Induction
<1>7. CASE m \in Nat
  <2>1. m \in Done
    BY <1>6, <1>7
  <2> QED  BY <1>1, <2>1
<1>8. CASE m \notin Nat
  <2>1. D = {}
    BY <1>8
  <2> QED  BY <1>1, <1>3, <2>1
<1> QED  BY <1>7, <1>8

\* The numberings of the vector and of the registry agree: slot k holds the
\* callback of hook k, and the free list is empty.
SlotsFollowHooks ==
    ~freed =>
        /\ DOMAIN slot = 0..MaxHooks
        /\ slot[0] = Nil
        /\ \A k \in 1..MaxHooks :
              IF k <= Len(hooks) THEN slot[k] # Nil ELSE slot[k] = Nil

\* Where a script gets the range it asked for, the table leads to the
\* callback it asked for.
EntriesLead ==
    ~freed =>
        \A a \in Addrs \ missed :
            asked[a] = IF regs[Exec][a] = 0 THEN Nil ELSE slot[regs[Exec][a]]

CallbackInv == HooksIInv /\ SlotsFollowHooks /\ EntriesLead /\ CallsWhatWasAsked

\* The reference luaL_ref hands out is the number the table stores.
LEMMA RefIsHookNumber ==
    ASSUME HooksIInv, SlotsFollowHooks, ~freed, Len(hooks) < MaxHooks
    PROVE  AsInteger(slot[0]) = 0 /\ NewRefs(slot) = {HookNumber}
<1>1. AsInteger(slot[0]) = 0
  BY NilAssumption DEF SlotsFollowHooks, AsInteger
<1>2. Len(hooks) \in Nat /\ MaxHooks \in Nat
  BY SizeAssumption DEF HooksIInv, HooksTypeOK
<1>3. Borders(slot) = {Len(hooks)}
  <2>1. \A n \in 0..(MaxHooks - 1) : n # 0 => n \in 1..MaxHooks
    BY <1>2
  <2>2. \A n \in 0..(MaxHooks - 1) : n + 1 \in 1..MaxHooks
    BY <1>2
  <2>3. Len(hooks) \in Borders(slot)
    BY <1>2, <2>1, <2>2 DEF Borders, SlotsFollowHooks
  <2>4. ASSUME NEW n \in Borders(slot) PROVE n = Len(hooks)
    <3>1. n \in 0..(MaxHooks - 1) /\ slot[n + 1] = Nil /\ (n = 0 \/ slot[n] # Nil)
      BY DEF Borders
    <3>2. ~(n + 1 <= Len(hooks))
      BY <2>2, <3>1 DEF SlotsFollowHooks
    <3>3. n # 0 => n <= Len(hooks)
      BY <2>1, <3>1 DEF SlotsFollowHooks
    <3> QED  BY <1>2, <3>1, <3>2, <3>3
  <2> QED  BY <2>3, <2>4
<1> QED  BY <1>1, <1>3 DEF NewRefs, HookNumber

\* A range asked for and laid down leads to the callback at each address both
\* hold, and nothing else changes; hook number 0 stands for none.
LEMMA LaidDown ==
    ASSUME HooksIInv, EntriesLead, ~freed, NEW type \in Types, NEW r \in Ranges,
           NEW cb, NEW n, Ask(type, r[1], r[2], cb),
           regs' = Assign(regs, type, Covered(r[1], r[2]), n),
           cb = IF n = 0 THEN Nil ELSE slot'[n],
           \A a \in Addrs : slot'[regs[Exec][a]] = slot[regs[Exec][a]] \/ regs[Exec][a] = 0
    PROVE  EntriesLead'
<1> DEFINE A == Requested(r[1], r[2])
           R == Covered(r[1], r[2])
<1> SUFFICES ASSUME NEW a \in Addrs \ missed'
             PROVE  asked'[a] = IF regs'[Exec][a] = 0 THEN Nil ELSE slot'[regs'[Exec][a]]
  BY DEF EntriesLead
<1>1. regs \in [Types -> [Addrs -> Nat]] /\ Exec \in Types /\ a \in CpuAddrs
  BY SizeAssumption DEF HooksIInv, HooksTypeOK, Types, CpuAddrs, Addrs
<1>2. regs'[Exec][a] = IF type = Exec /\ a \in R THEN n ELSE regs[Exec][a]
  BY <1>1 DEF Assign
<1>3. a \notin missed => asked[a] = IF regs[Exec][a] = 0 THEN Nil ELSE slot[regs[Exec][a]]
  BY DEF EntriesLead
<1>4. CASE type # Exec
  <2>1. asked' = asked /\ missed' = missed
    BY <1>4 DEF Ask, ghosts
  <2> QED  BY <1>2, <1>3, <1>4, <2>1
<1>5. CASE type = Exec
  <2>1. /\ asked'[a] = IF a \in A THEN cb ELSE asked[a]
        /\ missed' = (missed \cup A \cup R) \ (A \cap R)
    BY <1>1, <1>5 DEF Ask
  <2> HIDE DEF A, R
  <2>2. CASE a \in A /\ a \in R
    BY <1>2, <1>5, <2>1, <2>2
  <2>3. CASE a \notin A /\ a \notin R
    BY <1>2, <1>3, <2>1, <2>3
  <2> QED  BY <2>1, <2>2, <2>3
<1> QED  BY <1>4, <1>5

\* The hook pushed and the reference handed out have one number, so the
\* entries of a registration lead to its callback, and the others where they
\* did.
LEMMA RegisterCallbacks ==
    ASSUME CallbackInv, NEW type \in Types, NEW r \in Ranges, NEW cb \in Callbacks,
           Register(type, r[1], r[2], cb)
    PROVE  SlotsFollowHooks' /\ EntriesLead'
<1>1. HooksIInv /\ SlotsFollowHooks /\ EntriesLead /\ freed' = freed
  BY DEF CallbackInv, Register
<1> SUFFICES ASSUME ~freed
             PROVE  SlotsFollowHooks' /\ EntriesLead'
  BY <1>1 DEF SlotsFollowHooks, EntriesLead
<1>2. /\ Len(hooks) \in Nat /\ MaxHooks \in Nat /\ Len(hooks) < MaxHooks
      /\ Len(hooks') = Len(hooks) + 1
  BY <1>1, SizeAssumption DEF HooksIInv, HooksTypeOK, Register
<1>3. slot' = [slot EXCEPT ![HookNumber] = cb]
  <2>1. AsInteger(slot[0]) = 0 /\ NewRefs(slot) = {HookNumber}
    BY <1>1, <1>2, RefIsHookNumber
  <2> QED  BY <2>1 DEF Register, Ref
<1>4. HookNumber \in 1..MaxHooks /\ HookNumber = Len(hooks) + 1 /\ cb # Nil
  BY <1>2, NilAssumption DEF HookNumber
<1>5. SlotsFollowHooks'
  <2>1. DOMAIN slot' = 0..MaxHooks /\ slot'[0] = Nil
    BY <1>1, <1>3, <1>4 DEF SlotsFollowHooks
  <2>2. ASSUME NEW k \in 1..MaxHooks
        PROVE  IF k <= Len(hooks') THEN slot'[k] # Nil ELSE slot'[k] = Nil
    <3>1. slot'[k] = IF k = HookNumber THEN cb ELSE slot[k]
      BY <1>1, <1>2, <1>3 DEF SlotsFollowHooks
    <3> QED  BY <1>1, <1>2, <1>4, <3>1 DEF SlotsFollowHooks
  <2> QED  BY <1>1, <2>1, <2>2 DEF SlotsFollowHooks
<1>6. EntriesLead'
  <2>1. /\ regs' = Assign(regs, type, Covered(r[1], r[2]), HookNumber)
        /\ Ask(type, r[1], r[2], cb)
    BY DEF Register
  <2>2. slot'[HookNumber] = cb /\ HookNumber # 0
    BY <1>1, <1>2, <1>3, <1>4 DEF SlotsFollowHooks
  <2>3. ASSUME NEW a \in Addrs
        PROVE  slot'[regs[Exec][a]] = slot[regs[Exec][a]]
    <3>1. regs[Exec][a] \in 0..Len(hooks)
      BY <1>1 DEF HooksIInv, EntriesNameHooks, Types
    <3> QED  BY <1>1, <1>2, <1>3, <1>4, <3>1 DEF SlotsFollowHooks
  <2> QED  BY <1>1, <2>1, <2>2, <2>3, LaidDown
<1> QED  BY <1>5, <1>6

\* A removal that releases no reference leaves the registry alone.
LEMMA UnregisterCallbacks ==
    ASSUME CallbackInv, NEW type \in Types, NEW r \in Ranges, NEW junk,
           Unregister(type, r[1], r[2], junk)
    PROVE  SlotsFollowHooks' /\ EntriesLead'
<1> DEFINE R == Covered(r[1], r[2])
           m == Upper(r[1], r[2]) - Lower(r[1], r[2])
           ids == [k \in DOMAIN CoveredSeq(r[1], r[2]) |->
                     LET a == CoveredSeq(r[1], r[2])[k]
                     IN  IF a \in Taken(type, R) THEN DoomedRef(regs[type][a], junk) ELSE -1]
<1>1. HooksIInv /\ SlotsFollowHooks /\ EntriesLead
  BY DEF CallbackInv
<1>2. /\ slot' = FoldLeft(Unref, slot, ids)
      /\ freed' = (freed \/ \E k \in DOMAIN ids : ids[k] >= 0)
      /\ regs' = Assign(regs, type, R, 0)
      /\ Ask(type, r[1], r[2], Nil)
      /\ hooks' = hooks
  <2> HIDE DEF R
  <2> QED  BY DEF Unregister, R
<1> SUFFICES ASSUME ~freed'
             PROVE  SlotsFollowHooks' /\ EntriesLead'
  BY DEF SlotsFollowHooks, EntriesLead
<1>3. m \in Int /\ DOMAIN ids = 1..m
  BY RangeType DEF Upper, Lower, LastAddr, CoveredSeq
<1>4. ~freed /\ \A k \in 1..m : ~(ids[k] >= 0)
  <2> HIDE DEF ids, m
  <2> QED  BY <1>2, <1>3
<1>5. slot' = slot
  <2> HIDE DEF ids, m
  <2> QED  BY <1>2, <1>3, <1>4, NothingReleased
<1>6. SlotsFollowHooks'
  BY <1>1, <1>2, <1>4, <1>5 DEF SlotsFollowHooks
<1>7. EntriesLead'
  <2> HIDE DEF ids, m
  <2> QED  BY <1>1, <1>2, <1>4, <1>5, LaidDown
<1> QED  BY <1>6, <1>7

\* An access calls what the entry of its address leads to.
LEMMA AccessCallbacks ==
    ASSUME CallbackInv, NEW kind, NEW addr \in CpuAddrs, Access(kind, addr)
    PROVE  SlotsFollowHooks' /\ EntriesLead' /\ CallsWhatWasAsked'
<1>1. /\ UNCHANGED <<regs, hooks, slot, asked, missed, freed>>
      /\ call'.addr = addr
      /\ call'.got = IF Entry(addr) = 0 THEN Nil ELSE slot[Entry(addr)]
  BY DEF Access, ghosts
<1>2. SlotsFollowHooks' /\ EntriesLead'
  BY <1>1 DEF CallbackInv, SlotsFollowHooks, EntriesLead
<1>3. CallsWhatWasAsked'
  <2> SUFFICES ASSUME ~freed, addr \notin missed \cup {TableSize}
               PROVE  call'.got = asked[addr]
    BY <1>1 DEF CallsWhatWasAsked
  <2>1. addr \in Addrs \ missed /\ Entry(addr) = regs[Exec][addr]
    BY SizeAssumption DEF CpuAddrs, Addrs, Entry
  <2> QED  BY <1>1, <2>1 DEF CallbackInv, EntriesLead
<1> QED  BY <1>2, <1>3

\* No callback is registered at first.
LEMMA InitCallbacks == HooksInit => CallbackInv
<1> SUFFICES ASSUME HooksInit PROVE CallbackInv  OBVIOUS
<1>1. SlotsFollowHooks
  <2>1. MaxHooks \in Nat /\ Len(hooks) = 0
    BY SizeAssumption DEF HooksInit
  <2> QED  BY <2>1 DEF HooksInit, SlotsFollowHooks
<1>2. EntriesLead /\ CallsWhatWasAsked
  <2>1. \A a \in Addrs : a \in CpuAddrs
    BY SizeAssumption DEF Addrs, CpuAddrs
  <2> QED  BY <2>1 DEF HooksInit, EntriesLead, CallsWhatWasAsked, NoCall, Types
<1> QED  BY <1>1, <1>2, HooksInitIInv DEF CallbackInv

\* Every step keeps table, registry and calls together.
LEMMA NextCallbacks == CallbackInv /\ [HooksNext]_hooks_vars => CallbackInv'
<1> SUFFICES ASSUME CallbackInv, [HooksNext]_hooks_vars
             PROVE  SlotsFollowHooks' /\ EntriesLead' /\ CallsWhatWasAsked'
  BY HooksNextIInv DEF CallbackInv
<1>1. ASSUME NEW t \in Types, NEW r \in Ranges, NEW cb \in Callbacks,
             Register(t, r[1], r[2], cb)
      PROVE  SlotsFollowHooks' /\ EntriesLead' /\ CallsWhatWasAsked'
  <2>1. SlotsFollowHooks' /\ EntriesLead'
    BY <1>1, RegisterCallbacks
  <2>2. CallsWhatWasAsked'
    BY <1>1 DEF Register, NoCall, CallsWhatWasAsked
  <2> QED  BY <2>1, <2>2
<1>2. ASSUME NEW t \in Types, NEW r \in Ranges, NEW junk \in Junk,
             Unregister(t, r[1], r[2], junk)
      PROVE  SlotsFollowHooks' /\ EntriesLead' /\ CallsWhatWasAsked'
  <2>1. SlotsFollowHooks' /\ EntriesLead'
    BY <1>2, UnregisterCallbacks
  <2>2. CallsWhatWasAsked'
    BY <1>2 DEF Unregister, NoCall, CallsWhatWasAsked
  <2> QED  BY <2>1, <2>2
<1>3. ASSUME NEW kind, NEW addr \in CpuAddrs, Access(kind, addr)
      PROVE  SlotsFollowHooks' /\ EntriesLead' /\ CallsWhatWasAsked'
  BY <1>3, AccessCallbacks
<1>4. CASE UNCHANGED hooks_vars
  BY <1>4 DEF hooks_vars, ghosts, CallbackInv, SlotsFollowHooks, EntriesLead,
              CallsWhatWasAsked
<1> QED  BY <1>1, <1>2, <1>3, <1>4 DEF HooksNext

\* The reference stored with a hook is its number until the first release, so
\* the trace callback, which confuses the two, calls at every address whose
\* ranges were laid down as asked what the script last asked for there.
THEOREM CallbacksRight == HooksSpec => []CallsWhatWasAsked
<1>1. HooksSpec => []CallbackInv
  BY InitCallbacks, NextCallbacks, PTL DEF HooksSpec
<1>2. CallbackInv => CallsWhatWasAsked
  BY DEF CallbackInv
<1> QED  BY <1>1, <1>2, PTL

=============================================================================
