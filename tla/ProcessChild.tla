---------------------------- MODULE ProcessChild ----------------------------
(***************************************************************************)
(* One external process on Unix: process.Child and its streams             *)
(* (internal/process: process.go, process_unix.go, streams_unix.go), from  *)
(* a successful cmd.Start to the return of Wait.                           *)
(*                                                                         *)
(* Four kinds of goroutines share the child: reap watches for the exit     *)
(* without reaping, watchCancellation kills the process group when the     *)
(* context ends first, the pumps copy between the caller's streams and the *)
(* child's pipes, and one caller of Wait joins them all and reaps.  A      *)
(* critical section of lifeMu is one step.  The process group is killed    *)
(* by its number, which the system may give to somebody else once its      *)
(* leader has been reaped.                                                 *)
(*                                                                         *)
(* External: the system (processes, signals, pipes) is modelled as the     *)
(* code relies on it; SIGKILL to one's own group succeeds.  Streams are    *)
(* cooperative, as README.md ("Stream ownership") requires.                *)
(***************************************************************************)

CONSTANTS
    Containments,   \* the containment modes of the children considered
    Failures        \* what may fail, out of FailureKinds

(* The exit observer, a caller's input source, a caller's output sink.     *)
FailureKinds == {"observer", "source", "sink"}
ASSUME ContainmentsAssumption == Containments \subseteq {"own", "foreground", "inherit"}
ASSUME FailuresAssumption == Failures \subseteq FailureKinds

VARIABLES
    (* the Spec *)
    containment,
    waitDelay,          \* WaitDelay > 0
    closeStdinOnExit,
    (* the system *)
    leader,             \* "running", "zombie", "reaped"
    exitCode,           \* "none", "zero", "nonzero"
    others,             \* who else holds the pipes: nobody, a descendant in
                        \* the group, or one that left the group
    struck,             \* the group number was signalled after the reaping
    ended,              \* this process itself was in the group and is gone
    ctxDone,
    (* guarded by lifeMu *)
    processExited, targetValid, killIssued, cancelErr,
    (* the streams *)
    emergency,          \* emergencyClose: the parents' ends and the closers
    stdinClosed,        \* closeStdin has closed the opted-in source
    stdin, stdout,      \* the pumps
    pumpErr,            \* head of the channel of pump errors
    (* the goroutines *)
    reaper, observeErr, watcher, waiter,
    (* what Wait has gathered *)
    timedOut, joinedErr, waitErr,
    tty,                \* the terminal's foreground group
    tree                \* the TreeHandle of RetainTree

specVars   == <<containment, waitDelay, closeStdinOnExit>>
systemVars == <<leader, exitCode, others, struck, ended>>
lifeVars   == <<processExited, targetValid, killIssued, cancelErr>>
pumpVars   == <<stdin, stdout, pumpErr>>
streamVars == <<emergency, stdinClosed>>
reapVars   == <<reaper, observeErr>>
waitVars   == <<waiter, timedOut, joinedErr, waitErr, tty>>
vars == <<specVars, systemVars, ctxDone, lifeVars, streamVars, pumpVars, reapVars,
          watcher, waitVars, tree>>

-----------------------------------------------------------------------------

PumpErrors == {"none", "broken pipe", "source failed", "sink failed", "closed"}
WaitErrors ==
    {"none", "ok", "cancelled", "exit status", "observer", "wait delay"} \cup PumpErrors

TypeOK ==
    /\ containment \in Containments /\ waitDelay \in BOOLEAN /\ closeStdinOnExit \in BOOLEAN
    /\ leader \in {"running", "zombie", "reaped"}
    /\ exitCode \in {"none", "zero", "nonzero"}
    /\ others \in {"nobody", "group", "escaped"}
    /\ struck \in BOOLEAN /\ ended \in BOOLEAN /\ ctxDone \in BOOLEAN
    /\ processExited \in BOOLEAN /\ targetValid \in BOOLEAN
    /\ killIssued \in BOOLEAN /\ cancelErr \in BOOLEAN
    /\ emergency \in BOOLEAN /\ stdinClosed \in BOOLEAN
    /\ stdin \in {"reading", "writing", "done"} /\ stdout \in {"copying", "done"}
    /\ pumpErr \in PumpErrors
    /\ reaper \in {"observing", "closing stdin", "closing all", "sending", "done"}
    /\ observeErr \in BOOLEAN
    /\ watcher \in {"select", "cancelling", "closing all", "done"}
    /\ waiter \in {"idle", "result", "watch", "join", "late", "kill", "drain", "restore",
                   "invalidate", "reap", "done"}
    /\ timedOut \in BOOLEAN /\ joinedErr \in PumpErrors /\ waitErr \in WaitErrors
    /\ tty \in {"previous", "child"}
    /\ tree \in {"none", "retained", "closed"}

(* Runner.Start, once cmd.Start has succeeded: the goroutines run.         *)
Init ==
    /\ containment \in Containments /\ waitDelay \in BOOLEAN /\ closeStdinOnExit \in BOOLEAN
    /\ leader = "running" /\ exitCode = "none" /\ others = "nobody"
    /\ struck = FALSE /\ ended = FALSE /\ ctxDone = FALSE
    /\ processExited = FALSE /\ targetValid = TRUE
    /\ killIssued = FALSE /\ cancelErr = FALSE
    /\ emergency = FALSE /\ stdinClosed = FALSE
    /\ stdin = "reading" /\ stdout = "copying" /\ pumpErr = "none"
    /\ reaper = "observing" /\ observeErr = FALSE /\ watcher = "select"
    /\ waiter = "idle" /\ timedOut = FALSE /\ joinedErr = "none" /\ waitErr = "none"
    /\ tty = IF containment = "foreground" THEN "child" ELSE "previous"
    /\ tree = "none"

-----------------------------------------------------------------------------
(* The system                                                              *)

Exits ==
    /\ leader = "running"
    /\ leader' = "zombie"
    /\ exitCode' \in {"zero", "nonzero"}
    /\ UNCHANGED <<specVars, others, struck, ended, ctxDone, lifeVars, streamVars, pumpVars,
                   reapVars, watcher, waitVars, tree>>

(* A descendant that keeps the pipes open appears, leaves the group, ends. *)
Descends ==
    /\ \/ others = "nobody" /\ leader = "running" /\ others' = "group"
       \/ others = "group" /\ others' \in {"escaped", "nobody"}
       \/ others = "escaped" /\ others' = "nobody"
    /\ UNCHANGED <<specVars, leader, exitCode, struck, ended, ctxDone, lifeVars, streamVars,
                   pumpVars, reapVars, watcher, waitVars, tree>>

ContextEnds ==
    /\ ~ctxDone /\ ctxDone' = TRUE
    /\ UNCHANGED <<specVars, systemVars, lifeVars, streamVars, pumpVars, reapVars, watcher,
                   waitVars, tree>>

(* kill(-pgid, SIGKILL)                                                    *)
Signal ==
    /\ leader' = IF leader = "running" THEN "zombie" ELSE leader
    /\ exitCode' = IF leader = "running" THEN "nonzero" ELSE exitCode
    /\ others' = IF others = "group" THEN "nobody" ELSE others
    /\ struck' = (struck \/ (leader = "reaped" /\ containment # "inherit"))
    /\ ended' = (containment = "inherit")

killTreeLocked ==
    IF targetValid /\ ~killIssued
    THEN killIssued' = TRUE /\ Signal
    ELSE UNCHANGED <<killIssued, systemVars>>

-----------------------------------------------------------------------------
(* The pumps: io.Copy in each direction                                    *)

PipesHeld == leader = "running" \/ others # "nobody"

(* The pump has returned with err; the first error is at the channel's head. *)
Report(err) == pumpErr' = IF pumpErr = "none" THEN err ELSE pumpErr

(* Its source has something, ends (or is closed) or fails; what was read   *)
(* is written to a child that reads, to a pipe without readers, or to an   *)
(* end already closed.                                                     *)
PumpStdin ==
    /\ \/ stdin = "reading" /\ stdin' \in {"writing", "done"} /\ UNCHANGED pumpErr
       \/ stdin = "reading" /\ "source" \in Failures /\ stdin' = "done" /\ Report("source failed")
       \/ stdin = "writing" /\ PipesHeld /\ ~emergency /\ stdin' = "reading" /\ UNCHANGED pumpErr
       \/ stdin = "writing" /\ ~PipesHeld /\ stdin' = "done" /\ Report("broken pipe")
       \/ stdin = "writing" /\ emergency /\ stdin' = "done" /\ Report("closed")
    /\ UNCHANGED <<specVars, systemVars, ctxDone, lifeVars, streamVars, stdout, reapVars,
                   watcher, waitVars, tree>>

(* End of output, a sink that fails, or an end already closed.             *)
PumpStdout ==
    /\ stdout = "copying" /\ stdout' = "done"
    /\ \/ ~PipesHeld /\ UNCHANGED pumpErr
       \/ "sink" \in Failures /\ Report("sink failed")
       \/ emergency /\ Report("closed")
    /\ UNCHANGED <<specVars, systemVars, ctxDone, lifeVars, streamVars, stdin, reapVars,
                   watcher, waitVars, tree>>

PumpsDone == stdin = "done" /\ stdout = "done"

-----------------------------------------------------------------------------
(* The goroutines reap and watchCancellation                               *)

(* The exit is seen; or the observer fails, and the tree is killed.        *)
reap ==
    /\ reaper = "observing"
    /\ \/ /\ leader = "zombie" /\ observeErr' = FALSE
          /\ UNCHANGED <<systemVars, targetValid, killIssued>>
       \/ /\ "observer" \in Failures /\ observeErr' = TRUE
          /\ killTreeLocked /\ targetValid' = FALSE
    /\ processExited' = TRUE
    /\ reaper' = "closing stdin"
    /\ UNCHANGED <<specVars, ctxDone, cancelErr, streamVars, pumpVars, watcher, waitVars, tree>>

(* closeStdin, emergencyClose after a failed observation, the result       *)
ReapCloses ==
    /\ \/ /\ reaper = "closing stdin"
          /\ reaper' = IF observeErr THEN "closing all" ELSE "sending"
          /\ stdinClosed' = closeStdinOnExit
          /\ UNCHANGED emergency
       \/ /\ reaper = "closing all" /\ reaper' = "sending"
          /\ emergency' = TRUE /\ UNCHANGED stdinClosed
       \/ /\ reaper = "sending" /\ reaper' = "done"
          /\ UNCHANGED streamVars
    /\ UNCHANGED <<specVars, systemVars, ctxDone, lifeVars, pumpVars, observeErr, watcher,
                   waitVars, tree>>

(* Mutant: a cancellation that the select has taken is not checked again.  *)
watchUnchecked ==
    /\ \/ /\ watcher = "select"
          /\ \/ processExited /\ watcher' = "done"
             \/ ctxDone /\ watcher' = "cancelling"
          /\ UNCHANGED <<cancelErr, killIssued, systemVars>>
       \/ /\ watcher = "cancelling"
          /\ watcher' = "closing all" /\ cancelErr' = TRUE /\ killTreeLocked
    /\ UNCHANGED <<specVars, ctxDone, processExited, targetValid, streamVars, pumpVars, reapVars,
                   waitVars, tree>>

(* The select takes the exit or the end of the context, either of them     *)
(* when both are there.  The exit may be seen before lifeMu is held, where *)
(* it is looked at once more.                                              *)
watchCancellation ==
    /\ \/ /\ watcher = "select"
          /\ \/ processExited /\ watcher' = "done"
             \/ ctxDone /\ watcher' = "cancelling"
          /\ UNCHANGED <<cancelErr, killIssued, systemVars>>
       \/ /\ watcher = "cancelling" /\ processExited
          /\ watcher' = "done" /\ UNCHANGED <<cancelErr, killIssued, systemVars>>
       \/ /\ watcher = "cancelling" /\ ~processExited
          /\ watcher' = "closing all" /\ cancelErr' = TRUE /\ killTreeLocked
    /\ UNCHANGED <<specVars, ctxDone, processExited, targetValid, streamVars, pumpVars, reapVars,
                   waitVars, tree>>

WatchCloses ==
    /\ watcher = "closing all" /\ watcher' = "done"
    /\ emergency' = TRUE
    /\ UNCHANGED <<specVars, systemVars, ctxDone, lifeVars, stdinClosed, pumpVars, reapVars,
                   waitVars, tree>>

-----------------------------------------------------------------------------
(* Wait                                                                    *)

WaitStep(next) ==
    /\ waiter' = next
    /\ UNCHANGED <<specVars, ctxDone, processExited, cancelErr, stdinClosed, pumpVars, reapVars,
                   watcher, tree>>
KeepStreams == UNCHANGED emergency
KeepLife    == UNCHANGED <<targetValid, killIssued, systemVars>>
KeepResult  == UNCHANGED <<timedOut, joinedErr, waitErr, tty>>

(* Mutant: watchDone is not awaited.                                       *)
WaitUnwatched ==
    /\ \/ waiter = "idle" /\ WaitStep("result")
       \/ waiter = "result" /\ reaper = "done" /\ WaitStep("join")
    /\ KeepStreams /\ KeepLife /\ KeepResult

(* The result of reap, then the end of watchCancellation                   *)
Wait ==
    /\ \/ waiter = "idle" /\ WaitStep("result")
       \/ waiter = "result" /\ reaper = "done" /\ WaitStep("watch")
       \/ waiter = "watch" /\ watcher = "done" /\ WaitStep("join")
    /\ KeepStreams /\ KeepLife /\ KeepResult

(* joinPumps: the pumps are done, or WaitDelay passes first.               *)
joinPumps ==
    /\ waiter = "join"
    /\ \/ PumpsDone /\ WaitStep("restore") /\ UNCHANGED timedOut
       \/ waitDelay /\ WaitStep("late") /\ timedOut' = TRUE
    /\ joinedErr' = pumpErr
    /\ KeepStreams /\ KeepLife /\ UNCHANGED <<waitErr, tty>>

(* Mutant: the tree is killed and the streams stay open.                   *)
joinLateOpen ==
    /\ \/ waiter = "late" /\ WaitStep("kill") /\ KeepStreams /\ KeepLife
       \/ waiter = "kill" /\ WaitStep("drain") /\ killTreeLocked /\ KeepStreams /\ UNCHANGED targetValid
       \/ waiter = "drain" /\ PumpsDone /\ WaitStep("restore") /\ KeepStreams /\ KeepLife
    /\ KeepResult

(* emergencyClose, KillTree, and the pumps after all                       *)
joinLate ==
    /\ \/ waiter = "late" /\ WaitStep("kill") /\ emergency' = TRUE /\ KeepLife
       \/ waiter = "kill" /\ WaitStep("drain") /\ killTreeLocked /\ KeepStreams /\ UNCHANGED targetValid
       \/ waiter = "drain" /\ PumpsDone /\ WaitStep("restore") /\ KeepStreams /\ KeepLife
    /\ KeepResult

(* The terminal goes back to the group that had it, or cannot be given.    *)
restoreForegroundPGR ==
    /\ waiter = "restore" /\ WaitStep("invalidate")
    /\ tty' \in IF containment = "foreground" THEN {"previous", "child"} ELSE {tty}
    /\ KeepStreams /\ KeepLife /\ UNCHANGED <<timedOut, joinedErr, waitErr>>

(* Mutant: the target stays valid while the child is being reaped.         *)
invalidateNot ==
    /\ waiter = "invalidate" /\ WaitStep("reap")
    /\ KeepStreams /\ KeepResult /\ KeepLife

invalidate ==
    /\ waiter = "invalidate" /\ WaitStep("reap")
    /\ targetValid' = FALSE
    /\ KeepStreams /\ KeepResult /\ UNCHANGED <<killIssued, systemVars>>

(* cmd.Wait, the order in which the errors are reported, and               *)
(* preserveWaitDelay: a primary error is wrapped, which timedOut records.  *)
CmdWait ==
    /\ waiter = "reap" /\ leader = "zombie" /\ WaitStep("done")
    /\ leader' = "reaped"
    /\ waitErr' = IF cancelErr THEN "cancelled"
                  ELSE IF exitCode = "nonzero" THEN "exit status"
                  ELSE IF joinedErr # "none" THEN joinedErr
                  ELSE IF observeErr THEN "observer"
                  ELSE IF timedOut THEN "wait delay" ELSE "ok"
    /\ KeepStreams /\ UNCHANGED <<targetValid, killIssued, exitCode, others, struck, ended,
                                  timedOut, joinedErr, tty>>

-----------------------------------------------------------------------------
(* What callers may do meanwhile                                           *)

KillTree ==
    /\ killTreeLocked
    /\ UNCHANGED <<specVars, ctxDone, processExited, targetValid, cancelErr, streamVars, pumpVars,
                   reapVars, watcher, waitVars, tree>>

RetainTree ==
    /\ containment = "inherit" /\ targetValid
    /\ tree = "none" /\ tree' = "retained"
    /\ UNCHANGED <<specVars, systemVars, ctxDone, lifeVars, streamVars, pumpVars, reapVars,
                   watcher, waitVars>>

(* TreeHandle.KillTree and TreeHandle.Close                                *)
UseTree ==
    /\ tree = "retained"
    /\ \/ Signal /\ UNCHANGED tree
       \/ tree' = "closed" /\ UNCHANGED systemVars
    /\ UNCHANGED <<specVars, ctxDone, lifeVars, streamVars, pumpVars, reapVars, watcher, waitVars>>

-----------------------------------------------------------------------------

ReapStep  == reap \/ ReapCloses
WatchStep == watchCancellation \/ WatchCloses
WaitSteps == Wait \/ joinPumps \/ joinLate \/ restoreForegroundPGR \/ invalidate \/ CmdWait

Next ==
    /\ ~ended
    /\ \/ Exits \/ Descends \/ ContextEnds
       \/ PumpStdin \/ PumpStdout
       \/ ReapStep \/ WatchStep \/ WaitSteps
       \/ KillTree \/ RetainTree \/ UseTree

Spec == Init /\ [][Next]_vars

(* The goroutines run on and a timer fires.  A pump whose pipe is without  *)
(* peers, whose end or whose source is closed returns: the streams are     *)
(* cooperative.  No process need exit and no source need end by itself.    *)
Fairness ==
    /\ WF_vars(~ended /\ ReapStep /\ (observeErr' => observeErr))
    /\ WF_vars(~ended /\ WatchStep)
    /\ WF_vars(~ended /\ WaitSteps /\ waiter # "idle")
    /\ WF_vars(~ended /\ PumpStdout /\ (~PipesHeld \/ emergency))
    /\ WF_vars(~ended /\ PumpStdin /\ stdin = "writing")
    /\ WF_vars(~ended /\ PumpStdin /\ (stdinClosed \/ emergency) /\ stdin' = "done")

FairSpec == Spec /\ Fairness

-----------------------------------------------------------------------------
(* Properties                                                              *)

(* The group number is never signalled after its leader has been reaped,   *)
(* when it may belong to a stranger: not by a cancellation, a WaitDelay,   *)
(* a failed observer or a caller of KillTree, however they race with Wait. *)
NeverStrikesStranger == ~struck

(* When Wait returns, the goroutines it shares the child with are done,    *)
(* the pumps have been joined, the child is reaped and, with a context     *)
(* that ended in time, its group has been killed.                          *)
WaitJoinsEverything ==
    waiter = "done" =>
        /\ reaper = "done" /\ watcher = "done" /\ PumpsDone
        /\ leader = "reaped"
        /\ waitErr = "cancelled" => killIssued

(* README.md, stream ownership: the caller's closers are closed only in an *)
(* emergency, never by an ordinary completion.                             *)
CallersKeepTheirStreams == emergency => cancelErr \/ timedOut \/ observeErr

(* The exit, once seen, linearizes before every later cancellation: from   *)
(* then on the context may end, a select may already have taken its end    *)
(* and WaitDelay may pass, and still Wait reports neither a cancellation   *)
(* nor the pipes it has cut off itself, and the child's own failure if and *)
(* only if the child failed.                                               *)
ExitBeatsLateCancel ==
    [](processExited /\ ~cancelErr /\ ~observeErr =>
        [](/\ ~cancelErr
           /\ waiter = "done" =>
                /\ waitErr \notin {"cancelled", "closed"}
                /\ waitErr = "exit status" <=> exitCode = "nonzero"))

(* Cancellation is decided before the exit is seen, or never.              *)
NoCancelAfterExit == [][~cancelErr /\ cancelErr' => ~processExited]_vars

(* With a WaitDelay, Wait returns once the child has exited or its context *)
(* has ended, although a descendant holds the pipes, a source never ends,  *)
(* or the exit cannot be observed.  Without one it returns when nobody     *)
(* else holds the pipes and the source is given up on exit                 *)
(* (CloseStdinOnExit).                                                     *)
WaitReturns ==
    /\ (waitDelay /\ waiter = "result" /\ (leader = "zombie" \/ ctxDone))
           ~> (waiter = "done" \/ ended)
    /\ (closeStdinOnExit /\ waiter = "result" /\ leader = "zombie" /\ others = "nobody")
           ~> (waiter = "done" \/ ended)

(* TestCloseStdinOnExitClosesOptedInSourceBeforeJoiningPumps (process_test.go) *)
(* demands of Wait a "prompt clean exit" for a child that exits with 0     *)
(* while its opted-in source is still open: nothing fails, nothing is      *)
(* cancelled or late, so the result is the child's own success.            *)
NormalExitIsNoError ==
    closeStdinOnExit /\ waiter = "done" /\ exitCode = "zero" /\ ~cancelErr /\ ~timedOut
        => waitErr = "ok"
=============================================================================
