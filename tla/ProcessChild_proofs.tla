------------------------ MODULE ProcessChild_proofs ------------------------
(***************************************************************************)
(* Proofs about ProcessChild, for every set of containments and failures:  *)
(* a process group is not signalled after its leader has been reaped, Wait *)
(* joins everything, the caller's streams are closed only in an emergency, *)
(* and a cancellation is decided before the exit is seen or never.         *)
(***************************************************************************)
EXTENDS ProcessChild, TLAPS

(* Wait has the result of reap and the end of watchCancellation.           *)
Joining == waiter \in {"join", "late", "kill", "drain", "restore", "invalidate", "reap", "done"}

(* Wait has joined the pumps.                                              *)
Drained == waiter \in {"restore", "invalidate", "reap", "done"}

(* What the goroutines owe each other: the result is sent after the exit   *)
(* was recorded, and Wait goes on only after both have ended.              *)
GoroutineInv ==
    /\ processExited <=> reaper # "observing"
    /\ waiter = "watch" => reaper = "done"
    /\ Joining => reaper = "done" /\ watcher = "done"
    /\ Drained => PumpsDone

(* When the target of a kill is valid, and who has been killed.            *)
TargetInv ==
    /\ ~processExited => targetValid
    /\ waiter \in {"reap", "done"} => ~targetValid
    /\ leader = "reaped" <=> waiter = "done"
    /\ cancelErr => killIssued
    /\ waitErr = "cancelled" => cancelErr
    /\ tree # "none" => containment = "inherit"
    /\ ~struck

(* Why the streams may have been closed.                                   *)
StreamInv ==
    /\ watcher = "closing all" => cancelErr
    /\ reaper = "observing" => ~observeErr
    /\ reaper = "closing all" => observeErr
    /\ waiter = "late" => timedOut
    /\ CallersKeepTheirStreams

ChildInv == TypeOK /\ GoroutineInv /\ TargetInv /\ StreamInv

-----------------------------------------------------------------------------

(* Initially all of it holds.                                              *)
LEMMA InitChildInv == Init => ChildInv
BY ContainmentsAssumption
   DEF Init, ChildInv, TypeOK, GoroutineInv, TargetInv, StreamInv, Joining, Drained,
       PumpErrors, WaitErrors, CallersKeepTheirStreams

(* The flags and the words of the type invariant, for which the provers    *)
(* need different steps.                                                   *)
SpecFlags ==
    /\ containment \in Containments
    /\ waitDelay \in BOOLEAN /\ closeStdinOnExit \in BOOLEAN /\ ctxDone \in BOOLEAN
SystemFlags == struck \in BOOLEAN /\ ended \in BOOLEAN
LifeFlags ==
    /\ processExited \in BOOLEAN /\ targetValid \in BOOLEAN
    /\ killIssued \in BOOLEAN /\ cancelErr \in BOOLEAN
StreamFlags == emergency \in BOOLEAN /\ stdinClosed \in BOOLEAN
ResultFlags == observeErr \in BOOLEAN /\ timedOut \in BOOLEAN
FlagsOK == SpecFlags /\ SystemFlags /\ LifeFlags /\ StreamFlags /\ ResultFlags

SystemWords ==
    /\ leader \in {"running", "zombie", "reaped"}
    /\ exitCode \in {"none", "zero", "nonzero"}
    /\ others \in {"nobody", "group", "escaped"}
PumpWords ==
    /\ stdin \in {"reading", "writing", "done"} /\ stdout \in {"copying", "done"}
    /\ pumpErr \in PumpErrors
GoroutineWords ==
    /\ reaper \in {"observing", "closing stdin", "closing all", "sending", "done"}
    /\ watcher \in {"select", "cancelling", "closing all", "done"}
    /\ waiter \in {"idle", "result", "watch", "join", "late", "kill", "drain", "restore",
                   "invalidate", "reap", "done"}
ResultWords ==
    /\ joinedErr \in PumpErrors /\ waitErr \in WaitErrors
    /\ tty \in {"previous", "child"}
    /\ tree \in {"none", "retained", "closed"}
WordsOK == SystemWords /\ PumpWords /\ GoroutineWords /\ ResultWords

(* Together they are the type invariant.                                   *)
LEMMA TypeIsFlagsAndWords == TypeOK <=> FlagsOK /\ WordsOK
BY DEF TypeOK, FlagsOK, WordsOK, SystemWords, PumpWords, GoroutineWords, ResultWords,
       SpecFlags, SystemFlags, LifeFlags, StreamFlags, ResultFlags

(* Every step keeps the flags Boolean.                                     *)
LEMMA NextFlags == FlagsOK /\ [Next]_vars => FlagsOK'
<1> USE DEF FlagsOK, specVars, systemVars, lifeVars, streamVars, pumpVars, reapVars,
     waitVars
<1>1. ASSUME FlagsOK, Exits PROVE FlagsOK'
  <2>1. (SpecFlags)'
    BY <1>1 DEF Exits, SpecFlags
  <2>2. (SystemFlags)'
    BY <1>1 DEF Exits, SystemFlags
  <2>3. (LifeFlags)'
    BY <1>1 DEF Exits, LifeFlags
  <2>4. (StreamFlags)'
    BY <1>1 DEF Exits, StreamFlags
  <2>5. (ResultFlags)'
    BY <1>1 DEF Exits, ResultFlags
  <2> QED
    BY <2>1, <2>2, <2>3, <2>4, <2>5
<1>2. ASSUME FlagsOK, Descends PROVE FlagsOK'
  <2>1. (SpecFlags)'
    BY <1>2 DEF Descends, SpecFlags
  <2>2. (SystemFlags)'
    BY <1>2 DEF Descends, SystemFlags
  <2>3. (LifeFlags)'
    BY <1>2 DEF Descends, LifeFlags
  <2>4. (StreamFlags)'
    BY <1>2 DEF Descends, StreamFlags
  <2>5. (ResultFlags)'
    BY <1>2 DEF Descends, ResultFlags
  <2> QED
    BY <2>1, <2>2, <2>3, <2>4, <2>5
<1>3. ASSUME FlagsOK, ContextEnds PROVE FlagsOK'
  <2>1. (SpecFlags)'
    BY <1>3 DEF ContextEnds, SpecFlags
  <2>2. (SystemFlags)'
    BY <1>3 DEF ContextEnds, SystemFlags
  <2>3. (LifeFlags)'
    BY <1>3 DEF ContextEnds, LifeFlags
  <2>4. (StreamFlags)'
    BY <1>3 DEF ContextEnds, StreamFlags
  <2>5. (ResultFlags)'
    BY <1>3 DEF ContextEnds, ResultFlags
  <2> QED
    BY <2>1, <2>2, <2>3, <2>4, <2>5
<1>4. ASSUME FlagsOK, PumpStdin PROVE FlagsOK'
  <2>1. (SpecFlags)'
    BY <1>4 DEF PumpStdin, SpecFlags
  <2>2. (SystemFlags)'
    BY <1>4 DEF PumpStdin, SystemFlags
  <2>3. (LifeFlags)'
    BY <1>4 DEF PumpStdin, LifeFlags
  <2>4. (StreamFlags)'
    BY <1>4 DEF PumpStdin, StreamFlags
  <2>5. (ResultFlags)'
    BY <1>4 DEF PumpStdin, ResultFlags
  <2> QED
    BY <2>1, <2>2, <2>3, <2>4, <2>5
<1>5. ASSUME FlagsOK, PumpStdout PROVE FlagsOK'
  <2>1. (SpecFlags)'
    BY <1>5 DEF PumpStdout, SpecFlags
  <2>2. (SystemFlags)'
    BY <1>5 DEF PumpStdout, SystemFlags
  <2>3. (LifeFlags)'
    BY <1>5 DEF PumpStdout, LifeFlags
  <2>4. (StreamFlags)'
    BY <1>5 DEF PumpStdout, StreamFlags
  <2>5. (ResultFlags)'
    BY <1>5 DEF PumpStdout, ResultFlags
  <2> QED
    BY <2>1, <2>2, <2>3, <2>4, <2>5
<1>6. ASSUME FlagsOK, reap PROVE FlagsOK'
  <2>1. (SpecFlags)'
    BY <1>6 DEF reap, killTreeLocked, Signal, SpecFlags
  <2>2. (SystemFlags)'
    BY <1>6 DEF reap, killTreeLocked, Signal, SystemFlags
  <2>3. (LifeFlags)'
    BY <1>6 DEF reap, killTreeLocked, Signal, LifeFlags
  <2>4. (StreamFlags)'
    BY <1>6 DEF reap, killTreeLocked, Signal, StreamFlags
  <2>5. (ResultFlags)'
    BY <1>6 DEF reap, killTreeLocked, Signal, ResultFlags
  <2> QED
    BY <2>1, <2>2, <2>3, <2>4, <2>5
<1>7. ASSUME FlagsOK, ReapCloses PROVE FlagsOK'
  <2>1. (SpecFlags)'
    BY <1>7 DEF ReapCloses, SpecFlags
  <2>2. (SystemFlags)'
    BY <1>7 DEF ReapCloses, SystemFlags
  <2>3. (LifeFlags)'
    BY <1>7 DEF ReapCloses, LifeFlags
  <2>4. (StreamFlags)'
    BY <1>7 DEF ReapCloses, StreamFlags, SpecFlags
  <2>5. (ResultFlags)'
    BY <1>7 DEF ReapCloses, ResultFlags
  <2> QED
    BY <2>1, <2>2, <2>3, <2>4, <2>5
<1>8. ASSUME FlagsOK, watchCancellation PROVE FlagsOK'
  <2>1. (SpecFlags)'
    BY <1>8 DEF watchCancellation, killTreeLocked, Signal, SpecFlags
  <2>2. (SystemFlags)'
    BY <1>8 DEF watchCancellation, killTreeLocked, Signal, SystemFlags
  <2>3. (LifeFlags)'
    BY <1>8 DEF watchCancellation, killTreeLocked, Signal, LifeFlags
  <2>4. (StreamFlags)'
    BY <1>8 DEF watchCancellation, killTreeLocked, Signal, StreamFlags
  <2>5. (ResultFlags)'
    BY <1>8 DEF watchCancellation, killTreeLocked, Signal, ResultFlags
  <2> QED
    BY <2>1, <2>2, <2>3, <2>4, <2>5
<1>9. ASSUME FlagsOK, WatchCloses PROVE FlagsOK'
  <2>1. (SpecFlags)'
    BY <1>9 DEF WatchCloses, SpecFlags
  <2>2. (SystemFlags)'
    BY <1>9 DEF WatchCloses, SystemFlags
  <2>3. (LifeFlags)'
    BY <1>9 DEF WatchCloses, LifeFlags
  <2>4. (StreamFlags)'
    BY <1>9 DEF WatchCloses, StreamFlags
  <2>5. (ResultFlags)'
    BY <1>9 DEF WatchCloses, ResultFlags
  <2> QED
    BY <2>1, <2>2, <2>3, <2>4, <2>5
<1>10. ASSUME FlagsOK, Wait PROVE FlagsOK'
  <2>1. (SpecFlags)'
    BY <1>10 DEF Wait, WaitStep, KeepStreams, KeepLife, KeepResult, SpecFlags
  <2>2. (SystemFlags)'
    BY <1>10 DEF Wait, WaitStep, KeepStreams, KeepLife, KeepResult, SystemFlags
  <2>3. (LifeFlags)'
    BY <1>10 DEF Wait, WaitStep, KeepStreams, KeepLife, KeepResult, LifeFlags
  <2>4. (StreamFlags)'
    BY <1>10 DEF Wait, WaitStep, KeepStreams, KeepLife, KeepResult, StreamFlags
  <2>5. (ResultFlags)'
    BY <1>10 DEF Wait, WaitStep, KeepStreams, KeepLife, KeepResult, ResultFlags
  <2> QED
    BY <2>1, <2>2, <2>3, <2>4, <2>5
<1>11. ASSUME FlagsOK, joinPumps PROVE FlagsOK'
  <2>1. (SpecFlags)'
    BY <1>11 DEF joinPumps, WaitStep, KeepStreams, KeepLife, SpecFlags
  <2>2. (SystemFlags)'
    BY <1>11 DEF joinPumps, WaitStep, KeepStreams, KeepLife, SystemFlags
  <2>3. (LifeFlags)'
    BY <1>11 DEF joinPumps, WaitStep, KeepStreams, KeepLife, LifeFlags
  <2>4. (StreamFlags)'
    BY <1>11 DEF joinPumps, WaitStep, KeepStreams, KeepLife, StreamFlags
  <2>5. (ResultFlags)'
    BY <1>11 DEF joinPumps, WaitStep, KeepStreams, KeepLife, ResultFlags
  <2> QED
    BY <2>1, <2>2, <2>3, <2>4, <2>5
<1>12. ASSUME FlagsOK, joinLate PROVE FlagsOK'
  <2>1. (SpecFlags)'
        BY <1>12 DEF joinLate, WaitStep, KeepStreams, KeepLife, KeepResult,
         killTreeLocked, Signal, SpecFlags
  <2>2. (SystemFlags)'
        BY <1>12 DEF joinLate, WaitStep, KeepStreams, KeepLife, KeepResult,
         killTreeLocked, Signal, SystemFlags
  <2>3. (LifeFlags)'
        BY <1>12 DEF joinLate, WaitStep, KeepStreams, KeepLife, KeepResult,
         killTreeLocked, Signal, LifeFlags
  <2>4. (StreamFlags)'
        BY <1>12 DEF joinLate, WaitStep, KeepStreams, KeepLife, KeepResult,
         killTreeLocked, Signal, StreamFlags
  <2>5. (ResultFlags)'
        BY <1>12 DEF joinLate, WaitStep, KeepStreams, KeepLife, KeepResult,
         killTreeLocked, Signal, ResultFlags
  <2> QED
    BY <2>1, <2>2, <2>3, <2>4, <2>5
<1>13. ASSUME FlagsOK, restoreForegroundPGR PROVE FlagsOK'
  <2>1. (SpecFlags)'
    BY <1>13 DEF restoreForegroundPGR, WaitStep, KeepStreams, KeepLife, SpecFlags
  <2>2. (SystemFlags)'
    BY <1>13 DEF restoreForegroundPGR, WaitStep, KeepStreams, KeepLife, SystemFlags
  <2>3. (LifeFlags)'
    BY <1>13 DEF restoreForegroundPGR, WaitStep, KeepStreams, KeepLife, LifeFlags
  <2>4. (StreamFlags)'
    BY <1>13 DEF restoreForegroundPGR, WaitStep, KeepStreams, KeepLife, StreamFlags
  <2>5. (ResultFlags)'
    BY <1>13 DEF restoreForegroundPGR, WaitStep, KeepStreams, KeepLife, ResultFlags
  <2> QED
    BY <2>1, <2>2, <2>3, <2>4, <2>5
<1>14. ASSUME FlagsOK, invalidate PROVE FlagsOK'
  <2>1. (SpecFlags)'
    BY <1>14 DEF invalidate, WaitStep, KeepStreams, KeepResult, SpecFlags
  <2>2. (SystemFlags)'
    BY <1>14 DEF invalidate, WaitStep, KeepStreams, KeepResult, SystemFlags
  <2>3. (LifeFlags)'
    BY <1>14 DEF invalidate, WaitStep, KeepStreams, KeepResult, LifeFlags
  <2>4. (StreamFlags)'
    BY <1>14 DEF invalidate, WaitStep, KeepStreams, KeepResult, StreamFlags
  <2>5. (ResultFlags)'
    BY <1>14 DEF invalidate, WaitStep, KeepStreams, KeepResult, ResultFlags
  <2> QED
    BY <2>1, <2>2, <2>3, <2>4, <2>5
<1>15. ASSUME FlagsOK, CmdWait PROVE FlagsOK'
  <2>1. (SpecFlags)'
    BY <1>15 DEF CmdWait, WaitStep, KeepStreams, SpecFlags
  <2>2. (SystemFlags)'
    BY <1>15 DEF CmdWait, WaitStep, KeepStreams, SystemFlags
  <2>3. (LifeFlags)'
    BY <1>15 DEF CmdWait, WaitStep, KeepStreams, LifeFlags
  <2>4. (StreamFlags)'
    BY <1>15 DEF CmdWait, WaitStep, KeepStreams, StreamFlags
  <2>5. (ResultFlags)'
    BY <1>15 DEF CmdWait, WaitStep, KeepStreams, ResultFlags
  <2> QED
    BY <2>1, <2>2, <2>3, <2>4, <2>5
<1>16. ASSUME FlagsOK, KillTree PROVE FlagsOK'
  <2>1. (SpecFlags)'
    BY <1>16 DEF KillTree, killTreeLocked, Signal, SpecFlags
  <2>2. (SystemFlags)'
    BY <1>16 DEF KillTree, killTreeLocked, Signal, SystemFlags
  <2>3. (LifeFlags)'
    BY <1>16 DEF KillTree, killTreeLocked, Signal, LifeFlags
  <2>4. (StreamFlags)'
    BY <1>16 DEF KillTree, killTreeLocked, Signal, StreamFlags
  <2>5. (ResultFlags)'
    BY <1>16 DEF KillTree, killTreeLocked, Signal, ResultFlags
  <2> QED
    BY <2>1, <2>2, <2>3, <2>4, <2>5
<1>17. ASSUME FlagsOK, RetainTree PROVE FlagsOK'
  <2>1. (SpecFlags)'
    BY <1>17 DEF RetainTree, SpecFlags
  <2>2. (SystemFlags)'
    BY <1>17 DEF RetainTree, SystemFlags
  <2>3. (LifeFlags)'
    BY <1>17 DEF RetainTree, LifeFlags
  <2>4. (StreamFlags)'
    BY <1>17 DEF RetainTree, StreamFlags
  <2>5. (ResultFlags)'
    BY <1>17 DEF RetainTree, ResultFlags
  <2> QED
    BY <2>1, <2>2, <2>3, <2>4, <2>5
<1>18. ASSUME FlagsOK, UseTree PROVE FlagsOK'
  <2>1. (SpecFlags)'
    BY <1>18 DEF UseTree, Signal, SpecFlags
  <2>2. (SystemFlags)'
    BY <1>18 DEF UseTree, Signal, SystemFlags
  <2>3. (LifeFlags)'
    BY <1>18 DEF UseTree, Signal, LifeFlags
  <2>4. (StreamFlags)'
    BY <1>18 DEF UseTree, Signal, StreamFlags
  <2>5. (ResultFlags)'
    BY <1>18 DEF UseTree, Signal, ResultFlags
  <2> QED
    BY <2>1, <2>2, <2>3, <2>4, <2>5
<1>19. ASSUME FlagsOK, UNCHANGED vars PROVE FlagsOK'
  BY <1>19 DEF vars, SpecFlags, SystemFlags, LifeFlags, StreamFlags, ResultFlags
<1> QED
    BY <1>1, <1>2, <1>3, <1>4, <1>5, <1>6, <1>7, <1>8, <1>9, <1>10, <1>11, <1>12, <1>13,
       <1>14, <1>15, <1>16, <1>17, <1>18, <1>19
     DEF Next, ReapStep, WatchStep, WaitSteps

(* Every step keeps the words among theirs.                                *)
LEMMA NextWords == WordsOK /\ [Next]_vars => WordsOK'
<1> USE DEF WordsOK, SystemWords, PumpWords, GoroutineWords, ResultWords,
            PumpErrors, WaitErrors, specVars, systemVars, lifeVars, streamVars, pumpVars, reapVars, waitVars
<1>1. WordsOK /\ Exits => WordsOK'
  BY DEF Exits
<1>2. WordsOK /\ Descends => WordsOK'
  BY DEF Descends
<1>3. WordsOK /\ ContextEnds => WordsOK'
  BY DEF ContextEnds
<1>4. WordsOK /\ PumpStdin => WordsOK'
  BY DEF PumpStdin, PipesHeld, Report
<1>5. WordsOK /\ PumpStdout => WordsOK'
  BY DEF PumpStdout, PipesHeld, Report
<1>6. WordsOK /\ reap => WordsOK'
  BY DEF reap, killTreeLocked, Signal
<1>7. WordsOK /\ ReapCloses => WordsOK'
  BY DEF ReapCloses
<1>8. WordsOK /\ watchCancellation => WordsOK'
  BY DEF watchCancellation, killTreeLocked, Signal
<1>9. WordsOK /\ WatchCloses => WordsOK'
  BY DEF WatchCloses
<1>10. WordsOK /\ Wait => WordsOK'
  BY DEF Wait, WaitStep, KeepStreams, KeepLife, KeepResult
<1>11. WordsOK /\ joinPumps => WordsOK'
  BY DEF joinPumps, WaitStep, KeepStreams, KeepLife
<1>12. WordsOK /\ joinLate => WordsOK'
  BY DEF joinLate, WaitStep, KeepStreams, KeepLife, KeepResult, killTreeLocked, Signal
<1>13. WordsOK /\ restoreForegroundPGR => WordsOK'
  BY DEF restoreForegroundPGR, WaitStep, KeepStreams, KeepLife
<1>14. WordsOK /\ invalidate => WordsOK'
  BY DEF invalidate, WaitStep, KeepStreams, KeepResult
<1>15. WordsOK /\ CmdWait => WordsOK'
  BY DEF CmdWait, WaitStep, KeepStreams
<1>16. WordsOK /\ KillTree => WordsOK'
  BY DEF KillTree, killTreeLocked, Signal
<1>17. WordsOK /\ RetainTree => WordsOK'
  BY DEF RetainTree
<1>18. WordsOK /\ UseTree => WordsOK'
  BY DEF UseTree, Signal
<1>19. WordsOK /\ UNCHANGED vars => WordsOK'
  BY DEF vars
<1> QED
    BY <1>1, <1>2, <1>3, <1>4, <1>5, <1>6, <1>7, <1>8, <1>9, <1>10, <1>11, <1>12, <1>13,
       <1>14, <1>15, <1>16, <1>17, <1>18, <1>19
     DEF Next, ReapStep, WatchStep, WaitSteps

(* Every step keeps what the goroutines owe each other.                    *)
LEMMA NextGoroutineInv == FlagsOK /\ WordsOK /\ GoroutineInv /\ [Next]_vars => GoroutineInv'
<1> USE DEF GoroutineInv, Joining, Drained, PumpsDone, specVars, systemVars, lifeVars,
     streamVars, pumpVars, reapVars, waitVars
<1>1. ASSUME WordsOK, FlagsOK, GoroutineInv, Exits PROVE GoroutineInv'
  BY <1>1 DEF Exits
<1>2. ASSUME WordsOK, FlagsOK, GoroutineInv, Descends PROVE GoroutineInv'
  BY <1>2 DEF Descends
<1>3. ASSUME WordsOK, FlagsOK, GoroutineInv, ContextEnds PROVE GoroutineInv'
  BY <1>3 DEF ContextEnds
<1>4. ASSUME WordsOK, FlagsOK, GoroutineInv, PumpStdin PROVE GoroutineInv'
  BY <1>4 DEF PumpStdin, PipesHeld, Report
<1>5. ASSUME WordsOK, FlagsOK, GoroutineInv, PumpStdout PROVE GoroutineInv'
  BY <1>5 DEF PumpStdout, PipesHeld, Report
<1>6. ASSUME WordsOK, FlagsOK, GoroutineInv, reap PROVE GoroutineInv'
  BY <1>6 DEF reap, killTreeLocked, Signal
<1>7. ASSUME WordsOK, FlagsOK, GoroutineInv, ReapCloses PROVE GoroutineInv'
  BY <1>7 DEF ReapCloses
<1>8. ASSUME WordsOK, FlagsOK, GoroutineInv, watchCancellation PROVE GoroutineInv'
  BY <1>8 DEF watchCancellation, killTreeLocked, Signal
<1>9. ASSUME WordsOK, FlagsOK, GoroutineInv, WatchCloses PROVE GoroutineInv'
  BY <1>9 DEF WatchCloses
<1>10. ASSUME WordsOK, FlagsOK, GoroutineInv, Wait PROVE GoroutineInv'
  BY <1>10 DEF Wait, WaitStep, KeepStreams, KeepLife, KeepResult
<1>11. ASSUME WordsOK, FlagsOK, GoroutineInv, joinPumps PROVE GoroutineInv'
  BY <1>11 DEF joinPumps, WaitStep, KeepStreams, KeepLife
<1>12. ASSUME WordsOK, FlagsOK, GoroutineInv, joinLate PROVE GoroutineInv'
    BY <1>12 DEF joinLate, WaitStep, KeepStreams, KeepLife, KeepResult, killTreeLocked,
       Signal
<1>13. ASSUME WordsOK, FlagsOK, GoroutineInv, restoreForegroundPGR PROVE GoroutineInv'
  BY <1>13 DEF restoreForegroundPGR, WaitStep, KeepStreams, KeepLife
<1>14. ASSUME WordsOK, FlagsOK, GoroutineInv, invalidate PROVE GoroutineInv'
  BY <1>14 DEF invalidate, WaitStep, KeepStreams, KeepResult
<1>15. ASSUME WordsOK, FlagsOK, GoroutineInv, CmdWait PROVE GoroutineInv'
  BY <1>15 DEF CmdWait, WaitStep, KeepStreams
<1>16. ASSUME WordsOK, FlagsOK, GoroutineInv, KillTree PROVE GoroutineInv'
  BY <1>16 DEF KillTree, killTreeLocked, Signal
<1>17. ASSUME WordsOK, FlagsOK, GoroutineInv, RetainTree PROVE GoroutineInv'
  BY <1>17 DEF RetainTree
<1>18. ASSUME WordsOK, FlagsOK, GoroutineInv, UseTree PROVE GoroutineInv'
  BY <1>18 DEF UseTree, Signal
<1>19. ASSUME WordsOK, FlagsOK, GoroutineInv, UNCHANGED vars PROVE GoroutineInv'
  BY <1>19 DEF vars
<1> QED
    BY <1>1, <1>2, <1>3, <1>4, <1>5, <1>6, <1>7, <1>8, <1>9, <1>10, <1>11, <1>12, <1>13,
       <1>14, <1>15, <1>16, <1>17, <1>18, <1>19
     DEF Next, ReapStep, WatchStep, WaitSteps

(* Every step keeps the target and the kills in order.                     *)
LEMMA NextTargetInv ==
  FlagsOK /\ WordsOK /\ GoroutineInv /\ TargetInv /\ [Next]_vars => TargetInv'
<1> USE DEF TargetInv, specVars, systemVars, lifeVars, streamVars, pumpVars, reapVars,
     waitVars
<1>1. ASSUME WordsOK, FlagsOK, GoroutineInv, TargetInv, Exits PROVE TargetInv'
  BY <1>1 DEF Exits
<1>2. ASSUME WordsOK, FlagsOK, GoroutineInv, TargetInv, Descends PROVE TargetInv'
  BY <1>2 DEF Descends
<1>3. ASSUME WordsOK, FlagsOK, GoroutineInv, TargetInv, ContextEnds PROVE TargetInv'
  BY <1>3 DEF ContextEnds
<1>4. ASSUME WordsOK, FlagsOK, GoroutineInv, TargetInv, PumpStdin PROVE TargetInv'
  BY <1>4 DEF PumpStdin, PipesHeld, Report
<1>5. ASSUME WordsOK, FlagsOK, GoroutineInv, TargetInv, PumpStdout PROVE TargetInv'
  BY <1>5 DEF PumpStdout, PipesHeld, Report
<1>6. ASSUME WordsOK, FlagsOK, GoroutineInv, TargetInv, reap PROVE TargetInv'
  <2>1. (~processExited => targetValid)'
    BY <1>6 DEF reap, killTreeLocked, Signal, LifeFlags, FlagsOK, GoroutineInv, Joining
  <2>2. (waiter \in {"reap", "done"} => ~targetValid)'
    BY <1>6 DEF reap, killTreeLocked, Signal, LifeFlags, FlagsOK, GoroutineInv, Joining
  <2>3. (leader = "reaped" <=> waiter = "done")'
    BY <1>6 DEF reap, killTreeLocked, Signal, GoroutineInv, Joining
  <2>4. (cancelErr => killIssued)'
    BY <1>6 DEF reap, killTreeLocked, Signal, LifeFlags, FlagsOK
  <2>5. (waitErr = "cancelled" => cancelErr)'
        BY <1>6 DEF reap, killTreeLocked, Signal, LifeFlags, FlagsOK, WordsOK,
         ResultWords, PumpErrors
  <2>6. (tree # "none" => containment = "inherit")'
    BY <1>6 DEF reap, killTreeLocked, Signal
  <2>7. (~struck)'
    BY <1>6 DEF reap, killTreeLocked, Signal
  <2> QED
    BY <2>1, <2>2, <2>3, <2>4, <2>5, <2>6, <2>7
<1>7. ASSUME WordsOK, FlagsOK, GoroutineInv, TargetInv, ReapCloses PROVE TargetInv'
  BY <1>7 DEF ReapCloses
<1>8. ASSUME WordsOK, FlagsOK, GoroutineInv, TargetInv, watchCancellation PROVE TargetInv'
  <2>1. (~processExited => targetValid)'
        BY <1>8 DEF watchCancellation, killTreeLocked, Signal, LifeFlags, FlagsOK,
         GoroutineInv, Joining
  <2>2. (waiter \in {"reap", "done"} => ~targetValid)'
        BY <1>8 DEF watchCancellation, killTreeLocked, Signal, LifeFlags, FlagsOK,
         GoroutineInv, Joining
  <2>3. (leader = "reaped" <=> waiter = "done")'
    BY <1>8 DEF watchCancellation, killTreeLocked, Signal, GoroutineInv, Joining
  <2>4. (cancelErr => killIssued)'
    BY <1>8 DEF watchCancellation, killTreeLocked, Signal, LifeFlags, FlagsOK
  <2>5. (waitErr = "cancelled" => cancelErr)'
        BY <1>8 DEF watchCancellation, killTreeLocked, Signal, LifeFlags, FlagsOK,
         WordsOK, ResultWords, PumpErrors
  <2>6. (tree # "none" => containment = "inherit")'
    BY <1>8 DEF watchCancellation, killTreeLocked, Signal
  <2>7. (~struck)'
    BY <1>8 DEF watchCancellation, killTreeLocked, Signal
  <2> QED
    BY <2>1, <2>2, <2>3, <2>4, <2>5, <2>6, <2>7
<1>9. ASSUME WordsOK, FlagsOK, GoroutineInv, TargetInv, WatchCloses PROVE TargetInv'
  BY <1>9 DEF WatchCloses
<1>10. ASSUME WordsOK, FlagsOK, GoroutineInv, TargetInv, Wait PROVE TargetInv'
  BY <1>10 DEF Wait, WaitStep, KeepStreams, KeepLife, KeepResult
<1>11. ASSUME WordsOK, FlagsOK, GoroutineInv, TargetInv, joinPumps PROVE TargetInv'
  BY <1>11 DEF joinPumps, WaitStep, KeepStreams, KeepLife
<1>12. ASSUME WordsOK, FlagsOK, GoroutineInv, TargetInv, joinLate PROVE TargetInv'
  <2>1. (~processExited => targetValid)'
        BY <1>12 DEF joinLate, WaitStep, KeepStreams, KeepLife, KeepResult,
         killTreeLocked, Signal, LifeFlags, FlagsOK, GoroutineInv, Joining
  <2>2. (waiter \in {"reap", "done"} => ~targetValid)'
        BY <1>12 DEF joinLate, WaitStep, KeepStreams, KeepLife, KeepResult,
         killTreeLocked, Signal, LifeFlags, FlagsOK, GoroutineInv, Joining
  <2>3. (leader = "reaped" <=> waiter = "done")'
        BY <1>12 DEF joinLate, WaitStep, KeepStreams, KeepLife, KeepResult,
         killTreeLocked, Signal, GoroutineInv, Joining
  <2>4. (cancelErr => killIssued)'
        BY <1>12 DEF joinLate, WaitStep, KeepStreams, KeepLife, KeepResult,
         killTreeLocked, Signal, LifeFlags, FlagsOK
  <2>5. (waitErr = "cancelled" => cancelErr)'
        BY <1>12 DEF joinLate, WaitStep, KeepStreams, KeepLife, KeepResult,
         killTreeLocked, Signal, LifeFlags, FlagsOK, WordsOK, ResultWords, PumpErrors
  <2>6. (tree # "none" => containment = "inherit")'
        BY <1>12 DEF joinLate, WaitStep, KeepStreams, KeepLife, KeepResult,
         killTreeLocked, Signal
  <2>7. (~struck)'
        BY <1>12 DEF joinLate, WaitStep, KeepStreams, KeepLife, KeepResult,
         killTreeLocked, Signal
  <2> QED
    BY <2>1, <2>2, <2>3, <2>4, <2>5, <2>6, <2>7
<1>13. ASSUME WordsOK, FlagsOK, GoroutineInv, TargetInv, restoreForegroundPGR PROVE TargetInv'
  BY <1>13 DEF restoreForegroundPGR, WaitStep, KeepStreams, KeepLife
<1>14. ASSUME WordsOK, FlagsOK, GoroutineInv, TargetInv, invalidate PROVE TargetInv'
  <2>1. (~processExited => targetValid)'
        BY <1>14 DEF invalidate, WaitStep, KeepStreams, KeepResult, LifeFlags, FlagsOK,
         GoroutineInv, Joining
  <2>2. (waiter \in {"reap", "done"} => ~targetValid)'
        BY <1>14 DEF invalidate, WaitStep, KeepStreams, KeepResult, LifeFlags, FlagsOK,
         GoroutineInv, Joining
  <2>3. (leader = "reaped" <=> waiter = "done")'
    BY <1>14 DEF invalidate, WaitStep, KeepStreams, KeepResult, GoroutineInv, Joining
  <2>4. (cancelErr => killIssued)'
    BY <1>14 DEF invalidate, WaitStep, KeepStreams, KeepResult, LifeFlags, FlagsOK
  <2>5. (waitErr = "cancelled" => cancelErr)'
        BY <1>14 DEF invalidate, WaitStep, KeepStreams, KeepResult, LifeFlags, FlagsOK,
         WordsOK, ResultWords, PumpErrors
  <2>6. (tree # "none" => containment = "inherit")'
    BY <1>14 DEF invalidate, WaitStep, KeepStreams, KeepResult
  <2>7. (~struck)'
    BY <1>14 DEF invalidate, WaitStep, KeepStreams, KeepResult
  <2> QED
    BY <2>1, <2>2, <2>3, <2>4, <2>5, <2>6, <2>7
<1>15. ASSUME WordsOK, FlagsOK, GoroutineInv, TargetInv, CmdWait PROVE TargetInv'
  <2>1. (~processExited => targetValid)'
        BY <1>15 DEF CmdWait, WaitStep, KeepStreams, LifeFlags, FlagsOK, GoroutineInv,
         Joining
  <2>2. (waiter \in {"reap", "done"} => ~targetValid)'
        BY <1>15 DEF CmdWait, WaitStep, KeepStreams, LifeFlags, FlagsOK, GoroutineInv,
         Joining
  <2>3. (leader = "reaped" <=> waiter = "done")'
    BY <1>15 DEF CmdWait, WaitStep, KeepStreams, GoroutineInv, Joining
  <2>4. (cancelErr => killIssued)'
    BY <1>15 DEF CmdWait, WaitStep, KeepStreams, LifeFlags, FlagsOK
  <2>5. (waitErr = "cancelled" => cancelErr)'
        BY <1>15 DEF CmdWait, WaitStep, KeepStreams, LifeFlags, FlagsOK, WordsOK,
         ResultWords, PumpErrors
  <2>6. (tree # "none" => containment = "inherit")'
    BY <1>15 DEF CmdWait, WaitStep, KeepStreams
  <2>7. (~struck)'
    BY <1>15 DEF CmdWait, WaitStep, KeepStreams
  <2> QED
    BY <2>1, <2>2, <2>3, <2>4, <2>5, <2>6, <2>7
<1>16. ASSUME WordsOK, FlagsOK, GoroutineInv, TargetInv, KillTree PROVE TargetInv'
  <2>1. (~processExited => targetValid)'
        BY <1>16 DEF KillTree, killTreeLocked, Signal, LifeFlags, FlagsOK, GoroutineInv,
         Joining
  <2>2. (waiter \in {"reap", "done"} => ~targetValid)'
        BY <1>16 DEF KillTree, killTreeLocked, Signal, LifeFlags, FlagsOK, GoroutineInv,
         Joining
  <2>3. (leader = "reaped" <=> waiter = "done")'
    BY <1>16 DEF KillTree, killTreeLocked, Signal, GoroutineInv, Joining
  <2>4. (cancelErr => killIssued)'
    BY <1>16 DEF KillTree, killTreeLocked, Signal, LifeFlags, FlagsOK
  <2>5. (waitErr = "cancelled" => cancelErr)'
        BY <1>16 DEF KillTree, killTreeLocked, Signal, LifeFlags, FlagsOK, WordsOK,
         ResultWords, PumpErrors
  <2>6. (tree # "none" => containment = "inherit")'
    BY <1>16 DEF KillTree, killTreeLocked, Signal
  <2>7. (~struck)'
    BY <1>16 DEF KillTree, killTreeLocked, Signal
  <2> QED
    BY <2>1, <2>2, <2>3, <2>4, <2>5, <2>6, <2>7
<1>17. ASSUME WordsOK, FlagsOK, GoroutineInv, TargetInv, RetainTree PROVE TargetInv'
  BY <1>17 DEF RetainTree
<1>18. ASSUME WordsOK, FlagsOK, GoroutineInv, TargetInv, UseTree PROVE TargetInv'
  <2>1. (~processExited => targetValid)'
    BY <1>18 DEF UseTree, Signal, LifeFlags, FlagsOK, GoroutineInv, Joining
  <2>2. (waiter \in {"reap", "done"} => ~targetValid)'
    BY <1>18 DEF UseTree, Signal, LifeFlags, FlagsOK, GoroutineInv, Joining
  <2>3. (leader = "reaped" <=> waiter = "done")'
    BY <1>18 DEF UseTree, Signal, GoroutineInv, Joining
  <2>4. (cancelErr => killIssued)'
    BY <1>18 DEF UseTree, Signal, LifeFlags, FlagsOK
  <2>5. (waitErr = "cancelled" => cancelErr)'
    BY <1>18 DEF UseTree, Signal, LifeFlags, FlagsOK, WordsOK, ResultWords, PumpErrors
  <2>6. (tree # "none" => containment = "inherit")'
    BY <1>18 DEF UseTree, Signal
  <2>7. (~struck)'
    BY <1>18 DEF UseTree, Signal
  <2> QED
    BY <2>1, <2>2, <2>3, <2>4, <2>5, <2>6, <2>7
<1>19. ASSUME WordsOK, FlagsOK, GoroutineInv, TargetInv, UNCHANGED vars PROVE TargetInv'
  BY <1>19 DEF vars
<1> QED
    BY <1>1, <1>2, <1>3, <1>4, <1>5, <1>6, <1>7, <1>8, <1>9, <1>10, <1>11, <1>12, <1>13,
       <1>14, <1>15, <1>16, <1>17, <1>18, <1>19
     DEF Next, ReapStep, WatchStep, WaitSteps

(* Every step that closes the streams has a reason.                        *)
LEMMA NextStreamInv ==
  FlagsOK /\ WordsOK /\ GoroutineInv /\ StreamInv /\ [Next]_vars => StreamInv'
<1> USE DEF StreamInv, CallersKeepTheirStreams, specVars, systemVars, lifeVars,
     streamVars, pumpVars, reapVars, waitVars
<1>1. ASSUME WordsOK, FlagsOK, GoroutineInv, StreamInv, Exits PROVE StreamInv'
  BY <1>1 DEF Exits
<1>2. ASSUME WordsOK, FlagsOK, GoroutineInv, StreamInv, Descends PROVE StreamInv'
  BY <1>2 DEF Descends
<1>3. ASSUME WordsOK, FlagsOK, GoroutineInv, StreamInv, ContextEnds PROVE StreamInv'
  BY <1>3 DEF ContextEnds
<1>4. ASSUME WordsOK, FlagsOK, GoroutineInv, StreamInv, PumpStdin PROVE StreamInv'
  BY <1>4 DEF PumpStdin, PipesHeld, Report
<1>5. ASSUME WordsOK, FlagsOK, GoroutineInv, StreamInv, PumpStdout PROVE StreamInv'
  BY <1>5 DEF PumpStdout, PipesHeld, Report
<1>6. ASSUME WordsOK, FlagsOK, GoroutineInv, StreamInv, reap PROVE StreamInv'
  <2>1. (watcher = "closing all" => cancelErr)'
    BY <1>6 DEF reap, killTreeLocked, Signal, LifeFlags, FlagsOK
  <2>2. (reaper = "observing" => ~observeErr)'
    BY <1>6 DEF reap, killTreeLocked, Signal, ResultFlags, FlagsOK
  <2>3. (reaper = "closing all" => observeErr)'
    BY <1>6 DEF reap, killTreeLocked, Signal, ResultFlags, FlagsOK
  <2>4. (waiter = "late" => timedOut)'
    BY <1>6 DEF reap, killTreeLocked, Signal, ResultFlags, FlagsOK
  <2>5. (emergency => cancelErr \/ timedOut \/ observeErr)'
        BY <1>6 DEF reap, killTreeLocked, Signal, FlagsOK, LifeFlags, StreamFlags,
         ResultFlags, GoroutineInv
  <2> QED
    BY <2>1, <2>2, <2>3, <2>4, <2>5
<1>7. ASSUME WordsOK, FlagsOK, GoroutineInv, StreamInv, ReapCloses PROVE StreamInv'
  <2>1. (watcher = "closing all" => cancelErr)'
    BY <1>7 DEF ReapCloses, LifeFlags, FlagsOK
  <2>2. (reaper = "observing" => ~observeErr)'
    BY <1>7 DEF ReapCloses, ResultFlags, FlagsOK
  <2>3. (reaper = "closing all" => observeErr)'
    BY <1>7 DEF ReapCloses, ResultFlags, FlagsOK
  <2>4. (waiter = "late" => timedOut)'
    BY <1>7 DEF ReapCloses, ResultFlags, FlagsOK
  <2>5. (emergency => cancelErr \/ timedOut \/ observeErr)'
    BY <1>7 DEF ReapCloses, FlagsOK, LifeFlags, StreamFlags, ResultFlags, GoroutineInv
  <2> QED
    BY <2>1, <2>2, <2>3, <2>4, <2>5
<1>8. ASSUME WordsOK, FlagsOK, GoroutineInv, StreamInv, watchCancellation PROVE StreamInv'
  <2>1. (watcher = "closing all" => cancelErr)'
    BY <1>8 DEF watchCancellation, killTreeLocked, Signal, LifeFlags, FlagsOK
  <2>2. (reaper = "observing" => ~observeErr)'
    BY <1>8 DEF watchCancellation, killTreeLocked, Signal, ResultFlags, FlagsOK
  <2>3. (reaper = "closing all" => observeErr)'
    BY <1>8 DEF watchCancellation, killTreeLocked, Signal, ResultFlags, FlagsOK
  <2>4. (waiter = "late" => timedOut)'
    BY <1>8 DEF watchCancellation, killTreeLocked, Signal, ResultFlags, FlagsOK
  <2>5. (emergency => cancelErr \/ timedOut \/ observeErr)'
        BY <1>8 DEF watchCancellation, killTreeLocked, Signal, FlagsOK, LifeFlags,
         StreamFlags, ResultFlags, GoroutineInv
  <2> QED
    BY <2>1, <2>2, <2>3, <2>4, <2>5
<1>9. ASSUME WordsOK, FlagsOK, GoroutineInv, StreamInv, WatchCloses PROVE StreamInv'
  <2>1. (watcher = "closing all" => cancelErr)'
    BY <1>9 DEF WatchCloses, LifeFlags, FlagsOK
  <2>2. (reaper = "observing" => ~observeErr)'
    BY <1>9 DEF WatchCloses, ResultFlags, FlagsOK
  <2>3. (reaper = "closing all" => observeErr)'
    BY <1>9 DEF WatchCloses, ResultFlags, FlagsOK
  <2>4. (waiter = "late" => timedOut)'
    BY <1>9 DEF WatchCloses, ResultFlags, FlagsOK
  <2>5. (emergency => cancelErr \/ timedOut \/ observeErr)'
    BY <1>9 DEF WatchCloses, FlagsOK, LifeFlags, StreamFlags, ResultFlags, GoroutineInv
  <2> QED
    BY <2>1, <2>2, <2>3, <2>4, <2>5
<1>10. ASSUME WordsOK, FlagsOK, GoroutineInv, StreamInv, Wait PROVE StreamInv'
  <2>1. (watcher = "closing all" => cancelErr)'
    BY <1>10 DEF Wait, WaitStep, KeepStreams, KeepLife, KeepResult, LifeFlags, FlagsOK
  <2>2. (reaper = "observing" => ~observeErr)'
    BY <1>10 DEF Wait, WaitStep, KeepStreams, KeepLife, KeepResult, ResultFlags, FlagsOK
  <2>3. (reaper = "closing all" => observeErr)'
    BY <1>10 DEF Wait, WaitStep, KeepStreams, KeepLife, KeepResult, ResultFlags, FlagsOK
  <2>4. (waiter = "late" => timedOut)'
    BY <1>10 DEF Wait, WaitStep, KeepStreams, KeepLife, KeepResult, ResultFlags, FlagsOK
  <2>5. (emergency => cancelErr \/ timedOut \/ observeErr)'
        BY <1>10 DEF Wait, WaitStep, KeepStreams, KeepLife, KeepResult, FlagsOK,
         LifeFlags, StreamFlags, ResultFlags, GoroutineInv
  <2> QED
    BY <2>1, <2>2, <2>3, <2>4, <2>5
<1>11. ASSUME WordsOK, FlagsOK, GoroutineInv, StreamInv, joinPumps PROVE StreamInv'
  <2>1. (watcher = "closing all" => cancelErr)'
    BY <1>11 DEF joinPumps, WaitStep, KeepStreams, KeepLife, LifeFlags, FlagsOK
  <2>2. (reaper = "observing" => ~observeErr)'
    BY <1>11 DEF joinPumps, WaitStep, KeepStreams, KeepLife, ResultFlags, FlagsOK
  <2>3. (reaper = "closing all" => observeErr)'
    BY <1>11 DEF joinPumps, WaitStep, KeepStreams, KeepLife, ResultFlags, FlagsOK
  <2>4. (waiter = "late" => timedOut)'
    BY <1>11 DEF joinPumps, WaitStep, KeepStreams, KeepLife, ResultFlags, FlagsOK
  <2>5. (emergency => cancelErr \/ timedOut \/ observeErr)'
        BY <1>11 DEF joinPumps, WaitStep, KeepStreams, KeepLife, FlagsOK, LifeFlags,
         StreamFlags, ResultFlags, GoroutineInv
  <2> QED
    BY <2>1, <2>2, <2>3, <2>4, <2>5
<1>12. ASSUME WordsOK, FlagsOK, GoroutineInv, StreamInv, joinLate PROVE StreamInv'
  <2>1. (watcher = "closing all" => cancelErr)'
        BY <1>12 DEF joinLate, WaitStep, KeepStreams, KeepLife, KeepResult,
         killTreeLocked, Signal, LifeFlags, FlagsOK
  <2>2. (reaper = "observing" => ~observeErr)'
        BY <1>12 DEF joinLate, WaitStep, KeepStreams, KeepLife, KeepResult,
         killTreeLocked, Signal, ResultFlags, FlagsOK
  <2>3. (reaper = "closing all" => observeErr)'
        BY <1>12 DEF joinLate, WaitStep, KeepStreams, KeepLife, KeepResult,
         killTreeLocked, Signal, ResultFlags, FlagsOK
  <2>4. (waiter = "late" => timedOut)'
        BY <1>12 DEF joinLate, WaitStep, KeepStreams, KeepLife, KeepResult,
         killTreeLocked, Signal, ResultFlags, FlagsOK
  <2>5. (emergency => cancelErr \/ timedOut \/ observeErr)'
        BY <1>12 DEF joinLate, WaitStep, KeepStreams, KeepLife, KeepResult,
         killTreeLocked, Signal, FlagsOK, LifeFlags, StreamFlags, ResultFlags,
         GoroutineInv
  <2> QED
    BY <2>1, <2>2, <2>3, <2>4, <2>5
<1>13. ASSUME WordsOK, FlagsOK, GoroutineInv, StreamInv, restoreForegroundPGR PROVE StreamInv'
  BY <1>13 DEF restoreForegroundPGR, WaitStep, KeepStreams, KeepLife
<1>14. ASSUME WordsOK, FlagsOK, GoroutineInv, StreamInv, invalidate PROVE StreamInv'
  BY <1>14 DEF invalidate, WaitStep, KeepStreams, KeepResult
<1>15. ASSUME WordsOK, FlagsOK, GoroutineInv, StreamInv, CmdWait PROVE StreamInv'
  BY <1>15 DEF CmdWait, WaitStep, KeepStreams
<1>16. ASSUME WordsOK, FlagsOK, GoroutineInv, StreamInv, KillTree PROVE StreamInv'
  BY <1>16 DEF KillTree, killTreeLocked, Signal
<1>17. ASSUME WordsOK, FlagsOK, GoroutineInv, StreamInv, RetainTree PROVE StreamInv'
  BY <1>17 DEF RetainTree
<1>18. ASSUME WordsOK, FlagsOK, GoroutineInv, StreamInv, UseTree PROVE StreamInv'
  BY <1>18 DEF UseTree, Signal
<1>19. ASSUME WordsOK, FlagsOK, GoroutineInv, StreamInv, UNCHANGED vars PROVE StreamInv'
  BY <1>19 DEF vars
<1> QED
    BY <1>1, <1>2, <1>3, <1>4, <1>5, <1>6, <1>7, <1>8, <1>9, <1>10, <1>11, <1>12, <1>13,
       <1>14, <1>15, <1>16, <1>17, <1>18, <1>19
     DEF Next, ReapStep, WatchStep, WaitSteps

(* ChildInv is inductive.                                                  *)
LEMMA ChildInvariance == Spec => []ChildInv
<1>1. ChildInv /\ [Next]_vars => ChildInv'
  BY TypeIsFlagsAndWords, NextFlags, NextWords, NextGoroutineInv, NextTargetInv,
     NextStreamInv, PTL DEF ChildInv
<1> QED
  BY InitChildInv, <1>1, PTL DEF Spec

-----------------------------------------------------------------------------
(* What follows                                                            *)

(* process.Child: its fields stay among the values its code gives them.    *)
THEOREM ChildTypeCorrect == Spec => []TypeOK
BY ChildInvariance, PTL DEF ChildInv

(* killTreeLocked, reap and Wait: whoever kills and whenever, the group    *)
(* number is not signalled once its leader has been reaped.                *)
THEOREM StrangersAreSafe == Spec => []NeverStrikesStranger
<1>1. ChildInv => NeverStrikesStranger
  BY DEF ChildInv, TargetInv, NeverStrikesStranger
<1> QED
  BY <1>1, ChildInvariance, PTL

(* Child.Wait returns after reap, watchCancellation and the pumps, with    *)
(* the child reaped and, if it was cancelled, killed.                      *)
THEOREM WaitIsAJoin == Spec => []WaitJoinsEverything
<1>1. ChildInv => WaitJoinsEverything
  BY DEF ChildInv, GoroutineInv, TargetInv, Joining, Drained, WaitJoinsEverything
<1> QED
  BY <1>1, ChildInvariance, PTL

(* emergencyClose: the caller's streams are closed only on cancellation,   *)
(* after WaitDelay or when the exit cannot be observed.                    *)
THEOREM StreamsAreTheCallers == Spec => []CallersKeepTheirStreams
<1>1. ChildInv => CallersKeepTheirStreams
  BY DEF ChildInv, StreamInv
<1> QED
  BY <1>1, ChildInvariance, PTL

(* watchCancellation: no step decides a cancellation once the exit is seen. *)
THEOREM CancellationBeforeExit == Spec => NoCancelAfterExit
<1> USE DEF specVars, systemVars, lifeVars, streamVars, pumpVars, reapVars, waitVars
<1>1. [Next]_vars /\ ~cancelErr /\ cancelErr' => ~processExited
  <2> SUFFICES ASSUME [Next]_vars, ~cancelErr, cancelErr'
               PROVE  ~processExited
    OBVIOUS
  <2>1. CASE watchCancellation
    BY <2>1 DEF watchCancellation
  <2>2. CASE cancelErr' = cancelErr
    BY <2>2
  <2> QED
    BY <2>1, <2>2
       DEF Next, ReapStep, WatchStep, WaitSteps, Exits, Descends, ContextEnds, PumpStdin, PumpStdout,
           reap, ReapCloses, WatchCloses, Wait, joinPumps, joinLate, restoreForegroundPGR,
           invalidate, CmdWait, WaitStep, KillTree, RetainTree, UseTree, vars
<1>2. [Next]_vars => [~cancelErr /\ cancelErr' => ~processExited]_vars
  BY <1>1
<1> QED
  BY <1>2, PTL DEF Spec, NoCancelAfterExit


-----------------------------------------------------------------------------
(* What Wait may report                                                    *)

(* A cancellation needs a context that ended; a pump that was cut off was  *)
(* cut off by an emergency, and when Wait looks at the pumps' error before *)
(* its own WaitDelay the emergency is a cancellation or a failed observer. *)
ReportInv ==
    /\ cancelErr => ctxDone
    /\ watcher = "cancelling" => ctxDone
    /\ pumpErr = "closed" => emergency
    /\ waiter \in {"idle", "result", "watch", "join"} => ~timedOut
    /\ joinedErr = "closed" => cancelErr \/ observeErr
    /\ waitErr = "closed" => observeErr
    /\ reaper = "observing" => joinedErr = "none" /\ waitErr = "none"

(* Without a cancellation Wait reports the child's failure, if it failed.  *)
OwnFailure ==
    waiter = "done" /\ ~cancelErr => (waitErr = "exit status" <=> exitCode = "nonzero")

(* Before anything has happened, no error has to be explained.             *)
LEMMA InitReportInv == Init => ReportInv
  BY DEF Init, ReportInv

(* Every step keeps the origin of the errors that Wait may return.         *)
LEMMA NextReportInv == ChildInv /\ ReportInv /\ [Next]_vars => ReportInv'
<1> SUFFICES ASSUME ChildInv, ReportInv, [Next]_vars PROVE ReportInv'
  OBVIOUS
<1> USE DEF specVars, systemVars, lifeVars, streamVars, pumpVars, reapVars, waitVars
<1>1. CASE UNCHANGED <<cancelErr, ctxDone, pumpErr, emergency, timedOut, waiter, joinedErr,
                       waitErr, observeErr, reaper, watcher>>
  BY <1>1 DEF ReportInv
<1>2. CASE Exits \/ Descends \/ RetainTree \/ KillTree \/ UseTree \/ UNCHANGED vars
  BY <1>1, <1>2 DEF Exits, Descends, RetainTree, KillTree, UseTree, vars
<1>3. CASE ContextEnds
  BY <1>3 DEF ContextEnds, ReportInv
<1>4. CASE PumpStdin
  <2>1. pumpErr' = "closed" => emergency
    BY <1>4 DEF PumpStdin, Report, ReportInv
  <2> QED
    BY <1>4, <2>1 DEF PumpStdin, ReportInv
<1>5. CASE PumpStdout
  <2>1. pumpErr' = "closed" => emergency
    BY <1>5 DEF PumpStdout, Report, ReportInv
  <2> QED
    BY <1>5, <2>1 DEF PumpStdout, ReportInv
<1>6. CASE reap
  BY <1>6 DEF reap, ReportInv
<1>7. CASE ReapCloses
  BY <1>7 DEF ReapCloses, ReportInv
<1>8. CASE watchCancellation
  <2>1. UNCHANGED <<ctxDone, pumpErr, emergency, timedOut, waiter, joinedErr, waitErr,
                    observeErr, reaper>>
    BY <1>8 DEF watchCancellation
  <2>2. (cancelErr' => ctxDone) /\ (cancelErr => cancelErr')
    <3>1. CASE cancelErr' = cancelErr
      BY <3>1 DEF ReportInv
    <3>2. CASE ctxDone /\ cancelErr' = TRUE
      BY <3>2
    <3>3. cancelErr' = cancelErr \/ (ctxDone /\ cancelErr' = TRUE)
      BY <1>8 DEF watchCancellation, ReportInv
    <3> QED
      BY <3>1, <3>2, <3>3
  <2>3. watcher' = "cancelling" => ctxDone
    BY <1>8 DEF watchCancellation
  <2> QED
    BY <2>1, <2>2, <2>3 DEF ReportInv
<1>9. CASE WatchCloses
  BY <1>9 DEF WatchCloses, ReportInv
<1>10. CASE Wait
  BY <1>10 DEF Wait, WaitStep, KeepStreams, KeepResult, ReportInv
<1>11. CASE joinPumps
  <2>1. reaper = "done" /\ ~timedOut
    BY <1>11 DEF joinPumps, ChildInv, GoroutineInv, Joining, ReportInv
  <2>2. pumpErr = "closed" => cancelErr \/ observeErr
    BY <2>1 DEF ChildInv, StreamInv, CallersKeepTheirStreams, ReportInv
  <2> QED
    BY <1>11, <2>1, <2>2 DEF joinPumps, WaitStep, KeepStreams, ReportInv
<1>12. CASE joinLate
  BY <1>12 DEF joinLate, WaitStep, KeepStreams, KeepResult, ReportInv
<1>13. CASE restoreForegroundPGR \/ invalidate
  BY <1>13 DEF restoreForegroundPGR, invalidate, WaitStep, KeepStreams, KeepResult, ReportInv
<1>14. CASE CmdWait
  <2>1. reaper = "done"
    BY <1>14 DEF CmdWait, ChildInv, GoroutineInv, Joining
  <2>2. waitErr' = "closed" => observeErr
    BY <1>14 DEF CmdWait, ReportInv
  <2> QED
    BY <1>14, <2>1, <2>2 DEF CmdWait, WaitStep, KeepStreams, ReportInv
<1> QED
  BY <1>2, <1>3, <1>4, <1>5, <1>6, <1>7, <1>8, <1>9, <1>10, <1>11, <1>12, <1>13, <1>14
  DEF Next, ReapStep, WatchStep, WaitSteps

(* Every step keeps the report of the child's own failure.                 *)
LEMMA NextOwnFailure == ChildInv /\ OwnFailure /\ [Next]_vars => OwnFailure'
<1> SUFFICES ASSUME ChildInv, OwnFailure, [Next]_vars PROVE OwnFailure'
  OBVIOUS
<1> USE DEF specVars, systemVars, lifeVars, streamVars, pumpVars, reapVars, waitVars
<1>1. waiter = "done" => leader = "reaped" /\ watcher = "done" /\ reaper = "done"
  BY DEF ChildInv, TargetInv, GoroutineInv, Joining
<1>2. CASE CmdWait
  <2>1. joinedErr # "exit status"
    BY DEF ChildInv, TypeOK, PumpErrors
  <2> QED
    BY <1>2, <2>1 DEF CmdWait, WaitStep, OwnFailure
<1>3. CASE waiter' # "done"
  BY <1>3 DEF OwnFailure
<1>4. CASE waiter = "done" /\ UNCHANGED <<waiter, waitErr, cancelErr, exitCode>>
  BY <1>4 DEF OwnFailure
<1>5. CASE UNCHANGED vars
  BY <1>3, <1>4, <1>5 DEF vars
<1>6. CASE Exits \/ Descends \/ ContextEnds \/ RetainTree \/ PumpStdin \/ PumpStdout \/ ReapCloses \/ WatchCloses
  BY <1>1, <1>3, <1>4, <1>6
     DEF Exits, Descends, ContextEnds, RetainTree, PumpStdin, PumpStdout, ReapCloses, WatchCloses
<1>7. CASE KillTree \/ UseTree \/ reap \/ watchCancellation
  BY <1>1, <1>3, <1>4, <1>7
     DEF KillTree, UseTree, reap, watchCancellation, killTreeLocked, Signal
<1>8. CASE Wait \/ joinPumps \/ joinLate \/ restoreForegroundPGR \/ invalidate
  BY <1>3, <1>8 DEF Wait, joinPumps, joinLate, restoreForegroundPGR, invalidate, WaitStep
<1> QED
  BY <1>2, <1>5, <1>6, <1>7, <1>8 DEF Next, ReapStep, WatchStep, WaitSteps

(* The exit has been seen and no cancellation was decided before.          *)
ExitCameFirst == processExited /\ ~cancelErr /\ ~observeErr

(* No step takes that back: neither a select that has taken the end of the *)
(* context nor a second look of the observer.                              *)
LEMMA ExitStaysFirst == ChildInv /\ ExitCameFirst /\ [Next]_vars => ExitCameFirst'
<1> SUFFICES ASSUME ChildInv, ExitCameFirst, [Next]_vars PROVE ExitCameFirst'
  OBVIOUS
<1> USE DEF specVars, systemVars, lifeVars, streamVars, pumpVars, reapVars, waitVars
<1>1. reaper # "observing"
  BY DEF ChildInv, GoroutineInv, ExitCameFirst
<1>2. CASE watchCancellation
  BY <1>2 DEF watchCancellation, ExitCameFirst
<1>3. CASE reap
  BY <1>1, <1>3 DEF reap
<1>4. CASE UNCHANGED <<processExited, cancelErr, observeErr>>
  BY <1>4 DEF ExitCameFirst
<1> QED
  BY <1>2, <1>3, <1>4
     DEF Next, ReapStep, WatchStep, WaitSteps, Exits, Descends, ContextEnds, PumpStdin, PumpStdout,
         ReapCloses, WatchCloses, Wait, joinPumps, joinLate, restoreForegroundPGR,
         invalidate, CmdWait, WaitStep, KillTree, RetainTree, UseTree, vars

(* watchCancellation, joinPumps and Wait: once the exit has been seen with *)
(* no cancellation decided, the context may end at any later moment and    *)
(* Wait still reports neither a cancellation nor a pipe it has cut off     *)
(* itself, and reports the child's own failure exactly when it failed.     *)
THEOREM LateCancelLoses == Spec => ExitBeatsLateCancel
<1>1. Init => OwnFailure
  BY DEF Init, OwnFailure
<1>2. ExitCameFirst <=> processExited /\ ~cancelErr /\ ~observeErr
  BY DEF ExitCameFirst
<1>3. ChildInv /\ ReportInv /\ OwnFailure /\ ExitCameFirst =>
        /\ ~cancelErr
        /\ waiter = "done" =>
             /\ waitErr \notin {"cancelled", "closed"}
             /\ waitErr = "exit status" <=> exitCode = "nonzero"
  BY DEF ChildInv, TargetInv, ReportInv, OwnFailure, ExitCameFirst
<1> QED
  BY <1>1, <1>2, <1>3, InitReportInv, NextReportInv, NextOwnFailure, ExitStaysFirst,
     ChildInvariance, PTL DEF Spec, ExitBeatsLateCancel
=============================================================================
