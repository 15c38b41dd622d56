----------------------------- MODULE FzfSidecar -----------------------------
(***************************************************************************)
(* The optional fzf listen sidecar (internal/fzfsidecar) and the lifecycle *)
(* the picker drives it with (internal/app/sidecar.go).                    *)
(*                                                                         *)
(* One goroutine polls fzf over HTTP: it GETs the match counts (several    *)
(* pages when many items are selected), renders a label and POSTs it when  *)
(* it changed or when the last POST is not known to have arrived.  Start,  *)
(* Stop and Wait may be called by several goroutines in any order.  fzf is *)
(* external: it comes up late, changes its list between two requests,      *)
(* answers 503 while busy, loses replies, and goes away.                   *)
(*                                                                         *)
(* Time is kept as ages that a Tick advances and that saturate where the   *)
(* code stops telling them apart, so polling may go on for ever.           *)
(***************************************************************************)
EXTENDS Naturals, FiniteSets

CONSTANTS
    App,              \* the picker run: start once, then stopAndWait
    Others,           \* other callers of the exported API
    Picker,           \* protocol.Picker of the session
    Totals,           \* totals fzf may report (matched and total as one)
    MaxSelected,      \* bound on the selected items
    PageSize,         \* selectedPageSize
    MaxPages,         \* maxSelectedPages
    ReadinessTimeout, \* readinessTimeout, in ticks
    RetryWindow,      \* transientRetryWindow, in ticks
    MaxCalls,         \* bound on the calls of each other caller
    MaxFaults,        \* bound on failed responses while fzf is up
    MaxChanges        \* bound on changes of fzf's list

ASSUME SidecarAssumption ==
    /\ App \notin Others
    /\ Picker \in {"cd", "cp"}
    /\ Totals \subseteq Nat
    /\ {MaxSelected, MaxCalls, MaxFaults, MaxChanges} \subseteq Nat
    /\ {PageSize, MaxPages, ReadinessTimeout, RetryWindow} \subseteq Nat \ {0}

Callers == {App} \cup Others
Ops == {"start", "stop", "wait"}
Reasons == {"context", "readiness", "transient", "terminal", "requested"}
NoReason == "no reason"
NoLabel == [total |-> 0, selected |-> 0, none |-> TRUE]
Labels == [total: Totals, selected: 0..MaxSelected, none: {FALSE}]
NotActive == [active |-> FALSE, age |-> 0]

VARIABLES
    fzf,          \* external: phase, total, selected and the label it shows
    started, stopped, waited,  \* Session fields under Session.mu
    parentDone,   \* the parent context is done
    cancelled,    \* the session's cancel function was called
    stopCause,    \* Session.stopCause
    loop,         \* where the polling goroutine is
    ready, postPending, lastLabel, \* locals of run
    window,       \* run's transientWindow, with its age
    snapshot,     \* the pages of the GET cycle, then the state to post
    age,          \* ticks since run began, until fzf is ready
    reason,       \* the ObserverStop reason
    caller,       \* what each caller is inside
    issued,       \* the calls each caller has made
    faults, changes, \* bounds used up
    joined,       \* history: some Wait has returned
    pendingAge    \* history: ticks since the POST now pending first failed

session == <<started, stopped, waited>>
context == <<parentDone, cancelled>>
locals == <<ready, postPending, lastLabel, window>>
clocks == <<age, pendingAge>>
bounds == <<faults, changes>>
sidecarVars == <<fzf, session, context, stopCause, loop, locals, snapshot,
                 reason, caller, issued, bounds, joined, clocks>>

LoopCtxDone == parentDone \/ cancelled

EmptySnapshot == [total |-> 0, selected |-> 0, pages |-> 0]

FzfStates ==
    [phase: {"starting", "up", "gone"}, total: Totals,
     selected: 0..MaxSelected, shown: Labels \cup {NoLabel}]
Windows == [active: BOOLEAN, age: 0..RetryWindow]
Snapshots == [total: Totals \cup {0}, selected: 0..MaxSelected, pages: 0..MaxPages]

SidecarTypeOK ==
    /\ fzf \in FzfStates
    /\ started \in BOOLEAN /\ stopped \in BOOLEAN /\ waited \in BOOLEAN
    /\ parentDone \in BOOLEAN /\ cancelled \in BOOLEAN /\ joined \in BOOLEAN
    /\ ready \in BOOLEAN /\ postPending \in BOOLEAN
    /\ stopCause \in {NoReason, "context", "requested"}
    /\ loop \in {"off", "get", "post", "pause", "closing", "over"}
    /\ lastLabel \in Labels \cup {NoLabel}
    /\ window \in Windows
    /\ snapshot \in Snapshots
    /\ age \in 0..(ReadinessTimeout + 1)
    /\ pendingAge \in 0..RetryWindow
    /\ reason \in Reasons \cup {NoReason}
    /\ caller \in [Callers -> {"free", "record requested", "record context",
                               "cancel", "join"}]
    /\ issued \in [Callers -> SUBSET Ops]
    /\ faults \in 0..MaxFaults /\ changes \in 0..MaxChanges

SidecarInit ==
    /\ fzf \in [phase: {"starting", "up"}, total: Totals, selected: {0}, shown: {NoLabel}]
    /\ started = FALSE /\ stopped = FALSE /\ waited = FALSE
    /\ parentDone = FALSE /\ cancelled = FALSE
    /\ stopCause = NoReason /\ reason = NoReason
    /\ loop = "off"
    /\ ready = FALSE /\ postPending = FALSE /\ lastLabel = NoLabel
    /\ window = NotActive
    /\ snapshot = EmptySnapshot
    /\ age = 0 /\ pendingAge = 0
    /\ caller = [c \in Callers |-> "free"]
    /\ issued = [c \in Callers |-> {}]
    /\ faults = 0 /\ changes = 0
    /\ joined = FALSE

-----------------------------------------------------------------------------
(* fzf and the passing of time (external). *)

(* Nobody looks at fzf unless the loop is polling. *)
Polling == loop \notin {"off", "over"}

FzfComesUp ==
    /\ Polling
    /\ fzf.phase = "starting"
    /\ fzf' = [fzf EXCEPT !.phase = "up"]
    /\ UNCHANGED <<session, context, stopCause, loop, locals, snapshot,
                   reason, caller, issued, bounds, joined, clocks>>

FzfGoesAway ==
    /\ Polling
    /\ fzf.phase = "up"
    /\ fzf' = [fzf EXCEPT !.phase = "gone"]
    /\ UNCHANGED <<session, context, stopCause, loop, locals, snapshot,
                   reason, caller, issued, bounds, joined, clocks>>

(* The user types or toggles a selection. *)
FzfChanges ==
    /\ Polling
    /\ fzf.phase = "up"
    /\ changes < MaxChanges
    /\ \E total \in Totals, selected \in 0..MaxSelected :
          /\ selected <= total
          /\ Picker = "cd" => selected = 0
          /\ <<total, selected>> # <<fzf.total, fzf.selected>>
          /\ fzf' = [fzf EXCEPT !.total = total, !.selected = selected]
    /\ changes' = changes + 1
    /\ UNCHANGED <<session, context, stopCause, loop, locals, snapshot,
                   reason, caller, issued, faults, joined, clocks>>

Older(a, limit) == IF a < limit THEN a + 1 ELSE a

Tick ==
    /\ Polling /\ loop # "closing"
    /\ age' = IF ready THEN 0 ELSE Older(age, ReadinessTimeout + 1)
    /\ window' = IF window.active THEN [window EXCEPT !.age = Older(@, RetryWindow)]
                                  ELSE NotActive
    /\ pendingAge' = IF postPending THEN Older(pendingAge, RetryWindow) ELSE 0
    /\ UNCHANGED <<fzf, session, context, stopCause, loop, ready, postPending,
                   lastLabel, snapshot, reason, caller, issued, bounds, joined>>

ParentIsDone ==
    /\ Polling
    /\ ~parentDone
    /\ parentDone' = TRUE
    /\ UNCHANGED <<fzf, session, cancelled, stopCause, loop, locals, snapshot,
                   reason, caller, issued, bounds, joined, clocks>>

-----------------------------------------------------------------------------
(* The exported calls. *)

(* The picker's lifecycle starts the session at most once and before it    *)
(* stops it, and waits only after it stopped; other callers are free.      *)
MayCall(c, op) ==
    /\ caller[c] = "free"
    /\ op \notin issued[c]
    /\ c \in Others => Cardinality(issued[c]) < MaxCalls
    /\ c = App => CASE op = "start" -> issued[c] = {}
                    [] op = "stop"  -> TRUE
                    [] op = "wait"  -> "stop" \in issued[c]

Call(c, op) == issued' = [issued EXCEPT ![c] = @ \cup {op}]

(* Session.Start: the first call wins, none after Stop or Wait. *)
Start(c) ==
    /\ MayCall(c, "start")
    /\ Call(c, "start")
    /\ IF started \/ stopped \/ waited
       THEN UNCHANGED <<started, loop>>
       ELSE /\ started' = TRUE
            /\ loop' = "get"
    /\ UNCHANGED <<fzf, stopped, waited, context, stopCause, locals, snapshot,
                   reason, caller, bounds, joined, clocks>>

(* Session.Stop looks at the context, records the cause it saw and         *)
(* only then cancels; nothing to cancel before Start.                      *)
StopBegin(c) ==
    /\ MayCall(c, "stop")
    /\ Call(c, "stop")
    /\ IF started
       THEN /\ caller' = [caller EXCEPT ![c] =
                            IF LoopCtxDone THEN "record context" ELSE "record requested"]
            /\ UNCHANGED stopped
       ELSE /\ stopped' = TRUE
            /\ UNCHANGED caller
    /\ UNCHANGED <<fzf, started, waited, context, stopCause, loop, locals,
                   snapshot, reason, bounds, joined, clocks>>

(* recordStopCause is a compare-and-swap: the first cause stays. *)
Recorded(cause) == IF stopCause = NoReason THEN cause ELSE stopCause

StopRecord(c) ==
    /\ caller[c] \in {"record requested", "record context"}
    /\ stopCause' = Recorded(IF caller[c] = "record context" THEN "context"
                                                             ELSE "requested")
    /\ caller' = [caller EXCEPT ![c] = "cancel"]
    /\ UNCHANGED <<fzf, session, context, loop, locals, snapshot, reason,
                   issued, bounds, joined, clocks>>

(* A mutation: Stop forgets to cancel. *)
StopCancelForgotten(c) ==
    /\ caller[c] = "cancel"
    /\ caller' = [caller EXCEPT ![c] = "free"]
    /\ UNCHANGED <<fzf, session, context, stopCause, loop, locals, snapshot, reason,
                   issued, bounds, joined, clocks>>

StopCancel(c) ==
    /\ caller[c] = "cancel"
    /\ cancelled' = TRUE
    /\ caller' = [caller EXCEPT ![c] = "free"]
    /\ UNCHANGED <<fzf, session, parentDone, stopCause, loop, locals, snapshot,
                   reason, issued, bounds, joined, clocks>>

(* A mutation: Wait before Start leaves no mark. *)
WaitBeginForgetful(c) ==
    /\ MayCall(c, "wait")
    /\ Call(c, "wait")
    /\ IF started
       THEN caller' = [caller EXCEPT ![c] = "join"] /\ UNCHANGED joined
       ELSE joined' = TRUE /\ UNCHANGED caller
    /\ UNCHANGED <<fzf, session, context, stopCause, loop, locals,
                   snapshot, reason, bounds, clocks>>

(* Session.Wait joins the goroutine; before Start it makes the session     *)
(* terminal.                                                               *)
WaitBegin(c) ==
    /\ MayCall(c, "wait")
    /\ Call(c, "wait")
    /\ IF started
       THEN /\ caller' = [caller EXCEPT ![c] = "join"]
            /\ UNCHANGED <<waited, joined>>
       ELSE /\ waited' = TRUE
            /\ joined' = TRUE
            /\ UNCHANGED caller
    /\ UNCHANGED <<fzf, started, stopped, context, stopCause, loop, locals,
                   snapshot, reason, bounds, clocks>>

WaitReturns(c) ==
    /\ caller[c] = "join"
    /\ loop = "over"
    /\ caller' = [caller EXCEPT ![c] = "free"]
    /\ joined' = TRUE
    /\ UNCHANGED <<fzf, session, context, stopCause, loop, locals, snapshot,
                   reason, issued, bounds, clocks>>

-----------------------------------------------------------------------------
(* The polling goroutine.                                                  *)

(* finishRun: a done context explains the stop, whatever was noticed. *)
Finish(fallback) ==
    /\ loop' = "closing"
    /\ stopCause' = IF LoopCtxDone THEN Recorded("context") ELSE stopCause
    /\ reason' = IF LoopCtxDone THEN stopCause' ELSE fallback

(* waitForNextCycle and waitForReadiness up to the timer. *)
EnterPause ==
    IF ready \/ age <= ReadinessTimeout
    THEN /\ loop' = "pause"
         /\ UNCHANGED <<stopCause, reason>>
    ELSE Finish("readiness")

(* transientWindow.allow, then the pause. *)
WindowAllows == window.active => window.age < RetryWindow
RetryInWindow ==
    /\ window' = [window EXCEPT !.active = TRUE]
    /\ IF WindowAllows THEN EnterPause ELSE Finish("transient")

(* The pause is over: the timer fired, or the context is done; the timer   *)
(* may win although the context is done.                                   *)
PauseEnds ==
    /\ loop = "pause"
    /\ \/ LoopCtxDone /\ Finish(IF ready THEN "terminal" ELSE "readiness")
       \/ IF ready \/ age < ReadinessTimeout
          THEN loop' = "get" /\ UNCHANGED <<stopCause, reason>>
          ELSE Finish("readiness")
    /\ UNCHANGED <<fzf, session, context, locals, snapshot, caller, issued,
                   bounds, joined, clocks>>

(* What a failed request is: 503, a timeout, a connection refused, another *)
(* bounded transport failure, or anything that retrying cannot help.       *)
Failures == {"busy", "timeout", "refused", "reset", "invalid"}

(* A request may fail while fzf is up, and must fail while it is not. *)
Fails(failure) ==
    /\ failure \in Failures
    /\ IF fzf.phase = "up"
       THEN faults < MaxFaults /\ faults' = faults + 1
       ELSE failure = "refused" /\ UNCHANGED faults

(* run's reaction to a GET error. *)
GetFailed(failure) ==
    /\ CASE LoopCtxDone -> Finish("context") /\ UNCHANGED window
         [] ~LoopCtxDone /\ failure = "torn" -> EnterPause /\ UNCHANGED window
         [] ~LoopCtxDone /\ failure = "busy" -> RetryInWindow
         [] ~LoopCtxDone /\ ready /\ failure \in {"timeout", "refused", "reset"} -> RetryInWindow
         [] ~LoopCtxDone /\ ~ready /\ failure \in {"timeout", "refused"} ->
               EnterPause /\ UNCHANGED window
         [] OTHER -> Finish("terminal") /\ UNCHANGED window
    /\ snapshot' = EmptySnapshot

GetFails ==
    /\ loop = "get"
    /\ \/ LoopCtxDone /\ UNCHANGED faults /\ GetFailed("timeout")
       \/ \E failure \in Failures : Fails(failure) /\ GetFailed(failure)
    /\ UNCHANGED <<fzf, session, context, ready, postPending, lastLabel, caller,
                   issued, changes, joined, clocks>>

Label(total, selected) ==
    [total |-> total, selected |-> IF Picker = "cp" THEN selected ELSE 0, none |-> FALSE]

Least(a, b) == IF a < b THEN a ELSE b

(* The selected items of the page after snapshot.selected of them. *)
PageLength ==
    IF fzf.selected <= snapshot.selected THEN 0
    ELSE Least(PageSize, fzf.selected - snapshot.selected)

(* A mutation: the label is compared although a POST is in doubt. *)
LabelLooksCurrent(label) == label = lastLabel

(* The rest of the cycle once the last page is in: the label is posted     *)
(* unless it is the one last posted and no POST is in doubt.  The window   *)
(* is reset unless a POST is pending.                                      *)
LabelIsCurrent(label) == ~postPending /\ label = lastLabel

(* A mutation: a GET that succeeds opens a new window for the POST. *)
StateCompleteExtends(selected) ==
    /\ ready' = TRUE
    /\ age' = 0
    /\ window' = NotActive
    /\ IF LabelIsCurrent(Label(fzf.total, selected))
       THEN /\ loop' = "pause"
            /\ snapshot' = EmptySnapshot
       ELSE /\ loop' = "post"
            /\ snapshot' = [total |-> fzf.total, selected |-> selected, pages |-> 0]
    /\ UNCHANGED <<stopCause, reason>>

StateComplete(selected) ==
    /\ ready' = TRUE
    /\ age' = 0
    /\ window' = IF postPending THEN window ELSE NotActive
    /\ IF LabelIsCurrent(Label(fzf.total, selected))
       THEN /\ loop' = "pause"
            /\ snapshot' = EmptySnapshot
       ELSE /\ loop' = "post"
            /\ snapshot' = [total |-> fzf.total, selected |-> selected, pages |-> 0]
    /\ UNCHANGED <<stopCause, reason>>

(* getStateResult: one page at a time; a full page asks for another one,   *)
(* the cap and an impossible state are terminal, and a page whose counts   *)
(* differ from the first page's throws the cycle away.                     *)
GetPage ==
    /\ loop = "get"
    /\ ~LoopCtxDone
    /\ fzf.phase = "up"
    /\ LET selected == snapshot.selected + PageLength
           more == Picker = "cp" /\ PageLength = PageSize
       IN IF snapshot.pages > 0 /\ snapshot.total # fzf.total
          THEN GetFailed("torn") /\ UNCHANGED <<ready, age>>
          ELSE IF selected > fzf.total \/ (more /\ snapshot.pages + 1 >= MaxPages)
          THEN GetFailed("invalid") /\ UNCHANGED <<ready, age>>
          ELSE IF more
          THEN /\ snapshot' = [total |-> fzf.total, selected |-> selected,
                               pages |-> snapshot.pages + 1]
               /\ UNCHANGED <<loop, stopCause, reason, ready, window, age>>
          ELSE StateComplete(selected)
    /\ UNCHANGED <<fzf, session, context, postPending, lastLabel, caller, issued,
                   bounds, joined, pendingAge>>

(* postState: fzf shows the label, and the reply may be lost. *)
Posted == Label(snapshot.total, snapshot.selected)

PostSucceeds ==
    /\ loop = "post"
    /\ fzf.phase = "up"
    /\ ~LoopCtxDone
    /\ fzf' = [fzf EXCEPT !.shown = Posted]
    /\ window' = NotActive
    /\ lastLabel' = Posted
    /\ postPending' = FALSE
    /\ pendingAge' = 0
    /\ snapshot' = EmptySnapshot
    /\ loop' = "pause"
    /\ UNCHANGED <<session, context, stopCause, ready, reason, caller, issued,
                   bounds, joined, age>>

PostFails ==
    /\ loop = "post"
    /\ snapshot' = EmptySnapshot
    /\ \/ fzf.phase = "up" /\ fzf' = [fzf EXCEPT !.shown = Posted]
       \/ UNCHANGED fzf
    /\ \/ LoopCtxDone /\ UNCHANGED <<faults, window, postPending, pendingAge>> /\ Finish("context")
       \/ \E failure \in Failures :
             /\ ~LoopCtxDone
             /\ Fails(failure)
             /\ IF failure = "invalid"
                THEN Finish("terminal") /\ UNCHANGED <<window, postPending, pendingAge>>
                ELSE /\ postPending' = TRUE
                     /\ pendingAge' = IF postPending THEN pendingAge ELSE 0
                     /\ RetryInWindow
    /\ UNCHANGED <<session, context, ready, lastLabel, caller, issued, changes,
                   joined, age>>

(* The goroutine closes done, its deferred cancel runs, and run's locals   *)
(* are gone.                                                               *)
LoopEnds ==
    /\ loop = "closing"
    /\ loop' = "over"
    /\ cancelled' = TRUE
    /\ reason' = NoReason
    /\ ready' = FALSE /\ postPending' = FALSE /\ lastLabel' = NoLabel
    /\ window' = NotActive
    /\ age' = 0 /\ pendingAge' = 0
    /\ UNCHANGED <<fzf, session, parentDone, stopCause, snapshot, caller, issued, bounds,
                   joined>>

-----------------------------------------------------------------------------
Loop == PauseEnds \/ GetFails \/ GetPage \/ PostSucceeds \/ PostFails \/ LoopEnds
Calls(c) == \/ Start(c) \/ StopBegin(c) \/ StopRecord(c) \/ StopCancel(c)
            \/ WaitBegin(c) \/ WaitReturns(c)
World == FzfComesUp \/ FzfGoesAway \/ FzfChanges \/ ParentIsDone
SidecarNext == Loop \/ Tick \/ World \/ \E c \in Callers : Calls(c)

(* The goroutine runs, requests end (each has a timeout), clocks advance,  *)
(* and a caller inside Stop or Wait goes on; nobody has to call anything.  *)
Fairness ==
    /\ WF_sidecarVars(Loop)
    /\ WF_sidecarVars(Tick)
    /\ \A c \in Callers : WF_sidecarVars(StopRecord(c) \/ StopCancel(c) \/ WaitReturns(c))

SidecarSpec == SidecarInit /\ [][SidecarNext]_sidecarVars /\ Fairness

-----------------------------------------------------------------------------
(* Stop or Wait before Start make the session terminal, "so no later call  *)
(* can create work after a completed Wait" (Session.Start): once any Wait  *)
(* has returned, no polling goroutine exists, then or later.               *)
NoWorkAfterWait == joined => ~Polling

(* "While a POST is outstanding, the GET is part of that same failed cycle *)
(* and must not extend the POST retry window" (run): a POST that failed is *)
(* retried only within the window that its first failure opened.           *)
RetriesAreBounded ==
    [][loop = "post" /\ loop' = "pause" /\ postPending' => pendingAge' < RetryWindow]_sidecarVars

(* When fzf's list rests, the label fzf shows ends up being its list's, or *)
(* the sidecar has stopped - also when a POST took effect and its reply    *)
(* was lost, and the list then went back to the label posted before.       *)
LabelConverges ==
    <>[](Polling => /\ fzf.phase = "up"
                    /\ fzf.shown = Label(fzf.total, fzf.selected))

(* A Wait returns after any Stop, and after the parent context is done:    *)
(* nobody goes on waiting for a loop somebody ended.                       *)
WaitsReturn ==
    <>[](\A c \in Callers : caller[c] = "join" =>
             ~parentDone /\ \A d \in Callers : "stop" \notin issued[d])
=============================================================================
