-------------------------- MODULE InitialEnrichment --------------------------
(***************************************************************************)
(* The coordinator of one cd picker session: initialEnrichment in          *)
(* internal/app (enrichment*.go), with the input stream it feeds           *)
(* (internal/fzf/input.go), the part of RunPicker that drives it, and the  *)
(* callback protocol of internal/callback and internal/sessionipc.         *)
(*                                                                         *)
(* The local records of the launch directory are shown first.  A source    *)
(* goroutine loads zoxide's records meanwhile and, if the launch view is   *)
(* still the one on screen, publishes them as a new generation and appends *)
(* them to fzf's input.  Key events of the user run concurrently; each     *)
(* reserves the coordinator until fzf has acknowledged its action and, for *)
(* an action that reloads, the exact load.                                 *)
(*                                                                         *)
(* The session actor is reduced to what SessionActor shows of it: a        *)
(* current generation, replaced by a navigation when its build completes   *)
(* and by Enrich when the base generation is current and nothing builds.   *)
(* One critical section of the gate is one step; what a thread does after  *)
(* the gate is unlocked are steps of their own.                            *)
(***************************************************************************)
EXTENDS Naturals, FiniteSets

CONSTANTS
    Events,     \* the key events of the session; also their event IDs
    NoEvent,    \* no event
    Environment \* what the environment may do, out of EnvironmentEvents

ASSUME EventsAssumption ==
    /\ IsFiniteSet(Events) /\ NoEvent \notin Events
    /\ Events \cap {"source", "picker", "parent"} = {}

(* fzf exits, the parent context is cancelled, the callback process goes   *)
(* away, a finalization request is lost or delayed, a load times out.      *)
EnvironmentEvents ==
    {"fzf exits", "parent ends", "caller gone", "lost finalization", "load timeout"}
ASSUME EnvironmentAssumption == Environment \subseteq EnvironmentEvents

VARIABLES
    (* guarded by the gate *)
    active,             \* zoxide may still publish
    initialGeneration,  \* set by Activate, which also closes ready; 0 before
    baseGeneration,
    terminal,           \* no event is accepted any more
    terminalErr,        \* the causes joined so far
    terminalFinalized,  \* Wait has returned them
    committing,
    inFlight,
    eventCancels,       \* events inside session.Handle
    pendingEvents,      \* events answered and not yet released
    discardRequested,
    traceOutcome,
    (* the input stream *)
    closed, locked,
    shown,              \* the generation fzf displays, 0 for the empty list
    (* contexts *)
    parentDone,
    cancelledWith,      \* the cause of enrichment.ctx, {} while it is live
    eventCancelled,     \* events whose context is cancelled
    (* the session actor *)
    generation, building,
    (* the source goroutine *)
    source, sourceErr, discarded, commitBase, verdict, published, emitted,
    (* RunPicker, the parent's AfterFunc, and every thread's finish *)
    picker, parentStop, finishing,
    (* per event: the handler and the callback process *)
    pc, effect, target, ack

gateVars   == <<active, initialGeneration, baseGeneration, terminal, terminalErr,
                terminalFinalized, committing, inFlight, eventCancels,
                pendingEvents, discardRequested, traceOutcome>>
streamVars == <<closed, locked, shown>>
ctxVars    == <<parentDone, cancelledWith, eventCancelled>>
actorVars  == <<generation, building>>
sourceVars == <<source, sourceErr, discarded, commitBase, verdict, published, emitted>>
pickerVars == <<picker, parentStop>>
eventVars  == <<pc, effect, target, ack>>
vars == <<gateVars, streamVars, ctxVars, actorVars, sourceVars, pickerVars,
          finishing, eventVars>>

-----------------------------------------------------------------------------

Causes  == {"canceled", "parent", "source", "callback", "picker", "stale", "pending"}
Threads == Events \cup {"source", "picker", "parent"}

(* Generation 1 is the launch view; an event and the source add one each.  *)
MaxGeneration == Cardinality(Events) + 2
Generations   == 0..MaxGeneration

Reservations == [generation : Generations, closeInput : BOOLEAN,
                 finalized : BOOLEAN, loadRequested : BOOLEAN]
NoReservations == [e \in {} |-> 0]
Reserved == DOMAIN pendingEvents

(* What session.Handle made of the event: a change without a reload, a     *)
(* mode change that restores its own view, a navigation, the restore       *)
(* opcode, an invalid path, accept or abort, an error.                     *)
Effects == {"none", "plain", "mode", "reload", "restore", "invalid", "terminal", "error"}

Outcomes    == {"none", "published", "discarded", "failed"}
SourceSteps == {"loading", "awaiting", "activated", "checked", "beginning", "snapshot",
                "appending", "publishing", "enriching", "exposing", "deciding",
                "interrupted", "exit", "done"}
PickerSteps == {"building", "publishing", "activating", "fzf", "cleanup", "joining", "joined"}
FinishSteps == [step : {"no", "fail", "closeInput", "close", "cancel"}, cause : SUBSET Causes]
EventSteps  == {"idle", "waiting", "handling", "building", "handled", "suppressed",
                "resolved", "stopSource", "answered", "acking", "loading", "validated",
                "copied", "loaded", "written", "loadFailed", "refused", "end"}

GateType ==
    /\ active \in BOOLEAN /\ terminal \in BOOLEAN /\ committing \in BOOLEAN
    /\ initialGeneration \in 0..1 /\ baseGeneration \in Generations
    /\ terminalErr \in SUBSET Causes /\ terminalFinalized \in BOOLEAN
    /\ inFlight \in 0..1 /\ eventCancels \in SUBSET Events
    /\ Reserved \subseteq Events /\ pendingEvents \in [Reserved -> Reservations]
    /\ discardRequested \in BOOLEAN /\ traceOutcome \in Outcomes

ThreadType ==
    /\ closed \in BOOLEAN /\ locked \in BOOLEAN /\ shown \in Generations
    /\ parentDone \in BOOLEAN /\ cancelledWith \in SUBSET Causes
    /\ eventCancelled \in SUBSET Events
    /\ generation \in Generations /\ building \in Events \cup {NoEvent}
    /\ source \in SourceSteps /\ sourceErr \in SUBSET Causes /\ discarded \in BOOLEAN
    /\ commitBase \in Generations /\ verdict \in SUBSET Causes
    /\ published \in BOOLEAN /\ emitted \in Outcomes
    /\ picker \in PickerSteps /\ parentStop \in {"armed", "ran", "disarmed"}
    /\ finishing \in [Threads -> FinishSteps]

EventType ==
    /\ pc \in [Events -> EventSteps] /\ effect \in [Events -> Effects]
    /\ target \in [Events -> Generations] /\ ack \in [Events -> {"none", "applied", "unapplied"}]

TypeOK == GateType /\ ThreadType /\ EventType

NotFinishing == [step |-> "no", cause |-> {}]

Init ==
    /\ active = TRUE /\ terminal = FALSE /\ committing = FALSE
    /\ initialGeneration = 0 /\ baseGeneration = 0
    /\ terminalErr = {} /\ terminalFinalized = FALSE
    /\ inFlight = 0 /\ eventCancels = {}
    /\ pendingEvents = NoReservations
    /\ discardRequested = FALSE /\ traceOutcome = "none"
    /\ closed = FALSE /\ locked = FALSE /\ shown = 0
    /\ parentDone = FALSE /\ cancelledWith = {} /\ eventCancelled = {}
    /\ generation = 0 /\ building = NoEvent
    /\ source = "loading" /\ sourceErr = {} /\ discarded = FALSE
    /\ commitBase = 0 /\ verdict = {} /\ published = FALSE /\ emitted = "none"
    /\ picker = "building" /\ parentStop = "armed"
    /\ finishing = [t \in Threads |-> NotFinishing]
    /\ pc = [e \in Events |-> "idle"]
    /\ effect = [e \in Events |-> "none"]
    /\ target = [e \in Events |-> 0]
    /\ ack = [e \in Events |-> "none"]

-----------------------------------------------------------------------------
(* Deactivation, termination, and the closing and cancelling that follow   *)

parentCause == IF parentDone THEN {"parent"} ELSE {}

deactivateLocked(cause) ==
    /\ active' = FALSE
    /\ terminalErr' = IF active \/ ~terminalFinalized
                      THEN terminalErr \cup cause \cup parentCause ELSE terminalErr

(* finish(effective) lies ahead of thread t: close the stream, cancel ctx. *)
finish(t) ==
    finishing' = [finishing EXCEPT ![t] = [step |-> "close", cause |-> terminalErr']]

(* Mutant: the events inside the actor are no longer counted.              *)
TerminalizeForgets(t, cause, discard) ==
    /\ terminal' = TRUE
    /\ discardRequested' = discard
    /\ deactivateLocked(cause)
    /\ pendingEvents' = NoReservations
    /\ inFlight' = 0
    /\ eventCancelled' = eventCancelled \cup eventCancels
    /\ finish(t)
    /\ UNCHANGED <<initialGeneration, baseGeneration, terminalFinalized, committing,
                   eventCancels, traceOutcome>>

(* The body Stop and failCallbackApplication share.                        *)
Terminalize(t, cause, discard) ==
    /\ terminal' = TRUE
    /\ discardRequested' = discard
    /\ deactivateLocked(cause)
    /\ pendingEvents' = NoReservations
    /\ inFlight' = Cardinality(eventCancels)
    /\ eventCancelled' = eventCancelled \cup eventCancels
    /\ finish(t)
    /\ UNCHANGED <<initialGeneration, baseGeneration, terminalFinalized, committing,
                   eventCancels, traceOutcome>>

Stop(t, cause) == Terminalize(t, cause, ~parentDone)

(* enrichment.cancel under cancelOnce; the first cause stands.             *)
cancelSource(cause) ==
    cancelledWith' = IF cancelledWith # {} THEN cancelledWith
                     ELSE IF cause = {} THEN {"canceled"} ELSE cause

(* Mutant: closing the stream does not go on to cancel the context.        *)
CloseOnly(t) ==
    /\ finishing[t].step \in {"closeInput", "close"}
    /\ ~locked
    /\ closed' = TRUE
    /\ finishing' = [finishing EXCEPT ![t] = NotFinishing]
    /\ UNCHANGED <<gateVars, locked, shown, ctxVars, actorVars, sourceVars, pickerVars, eventVars>>

(* InputStream.closeWithError: waits while AppendAfter holds the stream.   *)
CloseInput(t) ==
    /\ finishing[t].step \in {"closeInput", "close"}
    /\ ~locked
    /\ closed' = TRUE
    /\ finishing' = [finishing EXCEPT ![t] =
           IF @.step = "close" THEN [@ EXCEPT !.step = "cancel"] ELSE NotFinishing]
    /\ UNCHANGED <<gateVars, locked, shown, ctxVars, actorVars, sourceVars, pickerVars, eventVars>>

FinishCancel(t) ==
    /\ finishing[t].step = "cancel"
    /\ cancelSource(finishing[t].cause)
    /\ finishing' = [finishing EXCEPT ![t] = NotFinishing]
    /\ UNCHANGED <<gateVars, streamVars, parentDone, eventCancelled, actorVars, sourceVars,
                   pickerVars, eventVars>>

failCallbackApplication(e) ==
    /\ finishing[e].step = "fail"
    /\ Terminalize(e, {"callback"}, TRUE)
    /\ UNCHANGED <<streamVars, parentDone, cancelledWith, actorVars, sourceVars, pickerVars, eventVars>>

-----------------------------------------------------------------------------
(* RunPicker and the parent context                                        *)

(* The initial Apply publishes the launch view, or fails.                  *)
BuildInitial ==
    /\ picker = "building"
    /\ \/ generation' = 1 /\ picker' = "publishing"
       \/ UNCHANGED generation /\ picker' = "cleanup"
    /\ UNCHANGED <<gateVars, streamVars, ctxVars, building, sourceVars, parentStop, finishing, eventVars>>

(* input.Append of the launch records                                      *)
PublishInitial ==
    /\ picker = "publishing" /\ ~locked
    /\ IF closed THEN picker' = "cleanup" /\ UNCHANGED shown
                 ELSE picker' = "activating" /\ shown' = generation
    /\ UNCHANGED <<gateVars, closed, locked, ctxVars, actorVars, sourceVars, parentStop,
                   finishing, eventVars>>

Activate ==
    /\ picker = "activating"
    /\ IF ~active \/ parentDone
       THEN picker' = "cleanup" /\ UNCHANGED <<initialGeneration, baseGeneration>>
       ELSE /\ picker' = "fzf"
            /\ initialGeneration' = generation /\ baseGeneration' = generation
    /\ UNCHANGED <<active, terminal, terminalErr, terminalFinalized, committing, inFlight,
                   eventCancels, pendingEvents, discardRequested, traceOutcome, streamVars,
                   ctxVars, actorVars, sourceVars, parentStop, finishing, eventVars>>

(* fzf exits, for whatever reason.                                         *)
FzfExits ==
    /\ "fzf exits" \in Environment
    /\ picker = "fzf"
    /\ picker' = "cleanup"
    /\ UNCHANGED <<gateVars, streamVars, ctxVars, actorVars, sourceVars, parentStop,
                   finishing, eventVars>>

(* cleanup: Stop with the picker's own error if there is one, then Wait    *)
CleanupStop ==
    /\ picker = "cleanup"
    /\ \E cause \in {{}, {"picker"}} : Stop("picker", cause)
    /\ picker' = "joining"
    /\ UNCHANGED <<streamVars, parentDone, cancelledWith, actorVars, sourceVars, parentStop, eventVars>>

Wait ==
    /\ picker = "joining" /\ finishing["picker"].step = "no"
    /\ source = "done"
    /\ terminalErr' = IF terminalFinalized THEN terminalErr ELSE terminalErr \cup parentCause
    /\ terminalFinalized' = TRUE
    /\ picker' = "joined"
    /\ UNCHANGED <<active, initialGeneration, baseGeneration, terminal, committing, inFlight,
                   eventCancels, pendingEvents, discardRequested, traceOutcome, streamVars,
                   ctxVars, actorVars, sourceVars, parentStop, finishing, eventVars>>

ParentEnds ==
    /\ "parent ends" \in Environment
    /\ ~parentDone
    /\ parentDone' = TRUE
    /\ cancelledWith' = IF cancelledWith = {} THEN {"parent"} ELSE cancelledWith
    /\ UNCHANGED <<gateVars, streamVars, eventCancelled, actorVars, sourceVars, pickerVars,
                   finishing, eventVars>>

(* The AfterFunc registered with the parent context                        *)
ParentStops ==
    /\ parentDone /\ parentStop = "armed"
    /\ parentStop' = "ran"
    /\ Stop("parent", {"parent"})
    /\ UNCHANGED <<streamVars, parentDone, cancelledWith, actorVars, sourceVars, picker, eventVars>>

-----------------------------------------------------------------------------
(* The source goroutine: run, commit and what they call                    *)

finishSource(cause) ==
    /\ deactivateLocked(cause)
    /\ IF active THEN finish("source") ELSE UNCHANGED finishing
    /\ UNCHANGED <<initialGeneration, baseGeneration, terminal, terminalFinalized, committing,
                   inFlight, eventCancels, pendingEvents, discardRequested, traceOutcome,
                   eventCancelled>>

(* One step of run that leaves the stream, the actor and the events alone. *)
RunStep ==
    UNCHANGED <<streamVars, parentDone, cancelledWith, actorVars, sourceErr, discarded,
                commitBase, verdict, published, emitted, pickerVars, eventVars>>
KeepGate == UNCHANGED <<gateVars, eventCancelled, finishing>>

(* LoadInitialZoxide returns records, a soft failure (discarded), a hard   *)
(* error of its own, or the cause of its cancelled context, with the       *)
(* metrics of the cancelled process (discarded) or without any.            *)
LoadInitialZoxide ==
    /\ source = "loading"
    /\ \/ discarded' \in BOOLEAN /\ sourceErr' = {}
       \/ discarded' = FALSE /\ sourceErr' = {"source"}
       \/ cancelledWith # {} /\ discarded' \in BOOLEAN /\ sourceErr' = cancelledWith
    /\ IF parentDone
       THEN /\ source' = "exit"
            /\ IF sourceErr' # {} THEN finishSource(sourceErr') ELSE Stop("source", {"parent"})
       ELSE source' = "awaiting" /\ KeepGate
    /\ UNCHANGED <<streamVars, parentDone, cancelledWith, actorVars, commitBase, verdict, published,
                   emitted, pickerVars, eventVars>>

waitForActivation ==
    /\ source = "awaiting"
    /\ \/ initialGeneration # 0 /\ source' = "activated" /\ KeepGate
       \/ /\ cancelledWith # {}
          /\ source' = "interrupted"
          /\ IF parentDone THEN Stop("source", {"parent"}) ELSE KeepGate
    /\ RunStep

isActive ==
    /\ source = "activated"
    /\ source' = IF active THEN "checked" ELSE "interrupted"
    /\ KeepGate
    /\ RunStep

retainInterruptedSourceError ==
    /\ source = "interrupted" /\ finishing["source"].step = "no"
    /\ IF sourceErr = {} \/ ("canceled" \in sourceErr /\ ~parentDone)
       THEN KeepGate ELSE finishSource(sourceErr)
    /\ source' = "exit"
    /\ RunStep

Activated ==
    /\ source = "checked"
    /\ \/ parentDone /\ Stop("source", {"parent"}) /\ source' = "exit"
       \/ /\ ~parentDone /\ (sourceErr # {} \/ discarded)
          /\ finishSource(sourceErr) /\ source' = "exit"
       \/ ~parentDone /\ sourceErr = {} /\ ~discarded /\ source' = "beginning" /\ KeepGate
    /\ RunStep

(* Waits until no event holds a reservation, unless the session ends or    *)
(* an event has taken the launch view away.                                *)
beginCommit ==
    /\ source = "beginning" /\ finishing["source"].step = "no"
    /\ \/ /\ ~active \/ terminal \/ (inFlight > 0 /\ cancelledWith # {} /\ ~parentDone)
          /\ committing' = FALSE /\ source' = "exit"
          /\ UNCHANGED <<terminal, active, terminalErr, pendingEvents, inFlight, discardRequested,
                         eventCancelled, finishing>>
       \/ /\ active /\ ~terminal /\ inFlight = 0
          /\ committing' = TRUE /\ source' = "snapshot"
          /\ UNCHANGED <<terminal, active, terminalErr, pendingEvents, inFlight, discardRequested,
                         eventCancelled, finishing>>
       \/ /\ active /\ ~terminal /\ inFlight > 0 /\ parentDone
          /\ Stop("source", {"parent"}) /\ UNCHANGED source
    /\ UNCHANGED <<initialGeneration, baseGeneration, terminalFinalized, eventCancels, traceOutcome>>
    /\ RunStep

CommitStep ==
    UNCHANGED <<parentDone, cancelledWith, eventCancelled, building, sourceErr, discarded,
                emitted, pickerVars, finishing, eventVars>>

(* actor.Snapshot at the base generation, and the merge with its records:  *)
(* there may be nothing to add.  The commit goes on with its own copy of   *)
(* the base generation.                                                    *)
Snapshot ==
    /\ source = "snapshot"
    /\ commitBase' = baseGeneration
    /\ \/ /\ cancelledWith # {} \/ generation # baseGeneration
          /\ verdict' = parentCause /\ source' = "deciding"
          /\ baseGeneration' = IF "canceled" \in cancelledWith THEN baseGeneration ELSE generation
       \/ /\ cancelledWith = {} /\ generation = baseGeneration
          /\ verdict' = {} /\ source' \in {"deciding", "appending"}
          /\ UNCHANGED baseGeneration
    /\ UNCHANGED <<active, initialGeneration, terminal, terminalErr, terminalFinalized, committing,
                   inFlight, eventCancels, pendingEvents, discardRequested, traceOutcome,
                   streamVars, generation, published>>
    /\ CommitStep

(* AppendAfter takes the stream, then its callback looks at the gate.      *)
AppendAfter ==
    /\ source = "appending" /\ ~locked
    /\ IF closed
       THEN source' = "deciding" /\ verdict' = parentCause /\ UNCHANGED locked
       ELSE source' = "publishing" /\ locked' = TRUE /\ UNCHANGED verdict
    /\ UNCHANGED <<gateVars, closed, shown, generation, commitBase, published>>
    /\ CommitStep

publish ==
    /\ source = "publishing"
    /\ IF active /\ ~terminal
       THEN source' = "enriching" /\ UNCHANGED <<locked, verdict>>
       ELSE source' = "deciding" /\ locked' = FALSE /\ verdict' = parentCause
    /\ UNCHANGED <<gateVars, closed, shown, generation, commitBase, published>>
    /\ CommitStep

enrichError ==
    IF cancelledWith # {} THEN cancelledWith
    ELSE IF generation # commitBase THEN {"stale"}
    ELSE IF building # NoEvent THEN {"pending"}
    ELSE {}

(* actor.Enrich; its error releases the stream, and a cancellation is not  *)
(* an error of the picker.                                                 *)
Enrich ==
    /\ source = "enriching"
    /\ IF enrichError = {}
       THEN /\ generation' = generation + 1
            /\ published' = TRUE
            /\ source' = "exposing"
            /\ UNCHANGED <<locked, verdict>>
       ELSE /\ verdict' = parentCause \cup
                  IF "canceled" \in enrichError THEN {} ELSE enrichError
            /\ locked' = FALSE
            /\ source' = "deciding"
            /\ UNCHANGED <<generation, published>>
    /\ UNCHANGED <<gateVars, closed, shown, commitBase>>
    /\ CommitStep

(* The batch becomes readable, and the stream is released.                 *)
Expose ==
    /\ source = "exposing"
    /\ shown' = generation
    /\ locked' = FALSE
    /\ verdict' = {}
    /\ source' = "deciding"
    /\ UNCHANGED <<gateVars, closed, generation, commitBase, published>>
    /\ CommitStep

setTraceDecision ==
    traceOutcome' = IF traceOutcome # "none" THEN traceOutcome
                    ELSE IF published THEN "published"
                    ELSE IF verdict = {} THEN "discarded" ELSE "failed"

finishCommit ==
    /\ source = "deciding"
    /\ setTraceDecision
    /\ baseGeneration' = IF published THEN generation ELSE baseGeneration
    /\ deactivateLocked(verdict)
    /\ committing' = FALSE
    /\ IF active \/ terminalErr' # {} THEN finish("source") ELSE UNCHANGED finishing
    /\ source' = "exit"
    /\ UNCHANGED <<initialGeneration, terminal, terminalFinalized, inFlight, eventCancels,
                   pendingEvents, discardRequested, eventCancelled>>
    /\ RunStep

(* The lifecycle the trace ends with when no commit has decided it: a      *)
(* failed source, or a load that was dropped.                              *)
lifecycle ==
    IF traceOutcome # "none" THEN traceOutcome
    ELSE IF parentDone THEN "failed"
    ELSE IF sourceErr = {} THEN IF discarded THEN "failed" ELSE "discarded"
    ELSE IF ("canceled" \in sourceErr \/ discarded) /\ discardRequested THEN "discarded"
    ELSE "failed"

emitSourceTerminal ==
    /\ source = "exit" /\ finishing["source"].step = "no"
    /\ parentStop' = IF parentStop = "armed" THEN "disarmed" ELSE parentStop
    /\ emitted' = lifecycle
    /\ source' = "done"
    /\ UNCHANGED <<gateVars, streamVars, ctxVars, actorVars, sourceErr, discarded, commitBase,
                   verdict, published, picker, finishing, eventVars>>

-----------------------------------------------------------------------------
(* An event: HandleEvent in the picker, up to its answer                   *)

(* if inFlight > 0 { inFlight-- }                                          *)
released == IF inFlight > 0 THEN inFlight - 1 ELSE 0

EventStep(e, next) ==
    /\ pc' = [pc EXCEPT ![e] = next]
    /\ UNCHANGED <<closed, locked, parentDone, sourceVars, pickerVars>>
Keep == UNCHANGED <<gateVars, shown, cancelledWith, eventCancelled, actorVars, finishing,
                    effect, target, ack>>

(* An event that is over leaves no result behind, except accept or abort.  *)
Settle(e, next) ==
    /\ EventStep(e, next)
    /\ IF next \in {"end", "refused"} /\ effect[e] # "terminal"
       THEN effect' = [effect EXCEPT ![e] = "none"] /\ target' = [target EXCEPT ![e] = 0]
       ELSE UNCHANGED <<effect, target>>

(* The callback server is up from activation on.                           *)
Arrive(e) ==
    /\ pc[e] = "idle" /\ initialGeneration # 0
    /\ EventStep(e, "waiting")
    /\ Keep

(* The callback process goes away, or the server closes.                   *)
CallerGone(e) ==
    /\ "caller gone" \in Environment
    /\ pc[e] \in {"waiting", "handling", "building"} /\ e \notin eventCancelled
    /\ eventCancelled' = eventCancelled \cup {e}
    /\ EventStep(e, pc[e])
    /\ UNCHANGED <<gateVars, shown, cancelledWith, actorVars, finishing, effect, target, ack>>

reserveEvent(e) ==
    /\ pc[e] = "waiting"
    /\ \/ terminal /\ EventStep(e, "refused") /\ UNCHANGED <<eventCancels, inFlight>>
       \/ /\ ~terminal /\ ~committing /\ inFlight = 0
          /\ eventCancels' = eventCancels \cup {e}
          /\ inFlight' = inFlight + 1
          /\ EventStep(e, "handling")
       \/ /\ ~terminal /\ (committing \/ inFlight > 0) /\ e \in eventCancelled
          /\ EventStep(e, "refused") /\ UNCHANGED <<eventCancels, inFlight>>
    /\ UNCHANGED <<active, initialGeneration, baseGeneration, terminal, terminalErr,
                   terminalFinalized, committing, pendingEvents, discardRequested, traceOutcome,
                   shown, cancelledWith, eventCancelled, actorVars, finishing, effect, target, ack>>

(* session.Handle: an error, a change that needs no build, or a build.     *)
Handle(e) ==
    /\ pc[e] = "handling"
    /\ \/ /\ \E f \in {"plain", "mode", "restore", "invalid", "terminal", "error"} :
                effect' = [effect EXCEPT ![e] = f]
          /\ target' = [target EXCEPT ![e] = generation]
          /\ EventStep(e, "handled")
          /\ UNCHANGED building
       \/ building' = e /\ EventStep(e, "building") /\ UNCHANGED <<effect, target>>
    /\ UNCHANGED <<gateVars, shown, cancelledWith, eventCancelled, generation, finishing, ack>>

BuildEnds(e) ==
    /\ pc[e] = "building"
    /\ \/ /\ generation' = generation + 1
          /\ target' = [target EXCEPT ![e] = generation + 1]
          /\ effect' = [effect EXCEPT ![e] = "reload"]
       \/ effect' = [effect EXCEPT ![e] = "error"] /\ UNCHANGED <<generation, target>>
    /\ building' = NoEvent
    /\ EventStep(e, "handled")
    /\ UNCHANGED <<gateVars, shown, cancelledWith, eventCancelled, finishing, ack>>

(* While zoxide may still publish, a mode change does not reload its view. *)
suppressActiveRestore(e) ==
    /\ pc[e] = "handled"
    /\ effect' = [effect EXCEPT ![e] = IF @ = "mode" /\ active THEN "plain" ELSE @]
    /\ EventStep(e, "suppressed")
    /\ UNCHANGED <<gateVars, shown, cancelledWith, eventCancelled, actorVars, finishing, target, ack>>

Reloads(e) == effect[e] \in {"mode", "reload", "restore"}

(* Mutant: resolveEvent does not look at the reload generation.            *)
navigationMissed(e) == FALSE

navigation(e) == effect[e] = "reload"

(* Mutant: a reload leaves the initial input open.                         *)
ReservationKeepsInput(e) ==
    [generation |-> IF Reloads(e) THEN target[e] ELSE 0,
     closeInput |-> effect[e] = "invalid",
     finalized |-> FALSE, loadRequested |-> FALSE]

Reservation(e) ==
    [generation |-> IF navigation(e) \/ effect[e] \in {"mode", "restore"} THEN target[e] ELSE 0,
     closeInput |-> navigation(e) \/ effect[e] \in {"restore", "invalid"},
     finalized |-> FALSE, loadRequested |-> FALSE]

(* Accept and abort end the session; a reload, a restore or an invalid     *)
(* path end the launch view and with it the enrichment.                    *)
Deactivates(e) ==
    effect[e] = "terminal" \/ (active /\ (navigation(e) \/ effect[e] \in {"restore", "invalid"}))

(* Mutant: the discard is not recorded for the trace.                      *)
DiscardUnrecorded == UNCHANGED discardRequested /\ deactivateLocked({})

DiscardInitial == discardRequested' = TRUE /\ deactivateLocked({})

resolveEvent(e) ==
    /\ pc[e] = "suppressed"
    /\ eventCancels' = eventCancels \ {e}
    /\ \/ /\ effect[e] = "error" \/ terminal
          /\ inFlight' = released
          /\ Settle(e, IF effect[e] = "error" \/ terminalErr # {} THEN "refused" ELSE "resolved")
          /\ UNCHANGED <<active, baseGeneration, terminal, terminalErr, pendingEvents,
                         discardRequested, finishing>>
       \/ /\ effect[e] # "error" /\ ~terminal
          /\ pendingEvents' = [f \in Reserved \cup {e} |->
                                 IF f = e THEN Reservation(e) ELSE pendingEvents[f]]
          /\ terminal' = (effect[e] = "terminal")
          /\ IF Deactivates(e)
             THEN /\ DiscardInitial
                  /\ finishing' = [finishing EXCEPT ![e].cause = terminalErr']
                  /\ Settle(e, "stopSource")
             ELSE /\ Settle(e, "resolved")
                  /\ UNCHANGED <<discardRequested, active, terminalErr, finishing>>
          /\ baseGeneration' = IF navigation(e) /\ active THEN target[e] ELSE baseGeneration
          /\ UNCHANGED inFlight
    /\ UNCHANGED <<initialGeneration, terminalFinalized, committing, traceOutcome, shown,
                   cancelledWith, eventCancelled, actorVars, ack>>

(* The rest of HandleEvent: setBaseGeneration, and cancelSource with the   *)
(* cause as it was under the gate.                                         *)
answerEvent(e) ==
    /\ pc[e] \in {"resolved", "stopSource"}
    /\ baseGeneration' = IF effect[e] = "reload" THEN target[e] ELSE baseGeneration
    /\ IF pc[e] = "stopSource" THEN cancelSource(finishing[e].cause) ELSE UNCHANGED cancelledWith
    /\ finishing' = [finishing EXCEPT ![e] = NotFinishing]
    /\ EventStep(e, "answered")
    /\ UNCHANGED <<active, initialGeneration, terminal, terminalErr, terminalFinalized, committing,
                   inFlight, eventCancels, pendingEvents, discardRequested, traceOutcome, shown,
                   eventCancelled, actorVars, effect, target, ack>>

-----------------------------------------------------------------------------
(* The callback process and the finalizations                              *)

(* dispatchEvent writes the action and reports whether fzf has it all.  An *)
(* answer the server could not write is reported unapplied as well.        *)
dispatchEvent(e) ==
    /\ pc[e] = "answered"
    /\ \E a \in {"applied", "unapplied"} :
          /\ ack' = [ack EXCEPT ![e] = a]
          /\ shown' = IF a = "applied" /\ effect[e] = "invalid" THEN 0 ELSE shown
    /\ EventStep(e, "acking")
    /\ UNCHANGED <<gateVars, cancelledWith, eventCancelled, actorVars, finishing, effect, target>>

(* fzf runs the load command of an action it has been given.               *)
AfterAck(e) == IF ack[e] = "applied" /\ Reloads(e) THEN "loading" ELSE "end"

(* The client gives up on the finalization, which may still arrive.        *)
LoseAck(e) ==
    /\ "lost finalization" \in Environment
    /\ pc[e] = "acking"
    /\ ack' \in {ack, [ack EXCEPT ![e] = "none"]}
    /\ Settle(e, AfterAck(e))
    /\ UNCHANGED <<gateVars, shown, cancelledWith, eventCancelled, actorVars, finishing>>

Unfinalized(e) == e \in Reserved /\ ~pendingEvents[e].finalized
Finalized(e)   == e \in Reserved /\ pendingEvents[e].finalized

(* Mutant: the acknowledgement of the action releases a reload as well.    *)
FinalizeEventReleases(e) ==
    /\ ack[e] # "none"
    /\ ack' = [ack EXCEPT ![e] = "none"]
    /\ Settle(e, IF pc[e] = "acking" THEN AfterAck(e) ELSE pc[e])
    /\ IF Unfinalized(e) /\ ack[e] = "applied"
       THEN /\ pendingEvents' = [f \in Reserved \ {e} |-> pendingEvents[f]]
            /\ inFlight' = released
            /\ finishing' = [finishing EXCEPT ![e].step = "closeInput"]
       ELSE UNCHANGED <<pendingEvents, inFlight, finishing>>
    /\ UNCHANGED <<active, initialGeneration, baseGeneration, terminal, terminalErr,
                   terminalFinalized, committing, eventCancels, discardRequested, traceOutcome,
                   shown, cancelledWith, eventCancelled, actorVars>>

FinalizeEvent(e) ==
    /\ ack[e] # "none"
    /\ ack' = [ack EXCEPT ![e] = "none"]
    /\ Settle(e, IF pc[e] = "acking" THEN AfterAck(e) ELSE pc[e])
    /\ \/ /\ ~Unfinalized(e)
          /\ UNCHANGED <<pendingEvents, inFlight, finishing>>
       \/ /\ Unfinalized(e) /\ ack[e] = "unapplied"
          /\ finishing' = [finishing EXCEPT ![e].step = "fail"]
          /\ UNCHANGED <<pendingEvents, inFlight>>
       \/ /\ Unfinalized(e) /\ ack[e] = "applied"
          /\ IF pendingEvents[e].generation = 0
             THEN /\ pendingEvents' = [f \in Reserved \ {e} |-> pendingEvents[f]]
                  /\ inFlight' = released
             ELSE /\ pendingEvents' = [pendingEvents EXCEPT ![e].finalized = TRUE]
                  /\ UNCHANGED inFlight
          /\ finishing' = IF pendingEvents[e].closeInput
                          THEN [finishing EXCEPT ![e].step = "closeInput"] ELSE finishing
    /\ UNCHANGED <<active, initialGeneration, baseGeneration, terminal, terminalErr,
                   terminalFinalized, committing, eventCancels, discardRequested, traceOutcome,
                   shown, cancelledWith, eventCancelled, actorVars>>

validateLoadLocked(e) ==
    /\ e \in Reserved
    /\ pendingEvents[e].generation = target[e]
    /\ pendingEvents[e].finalized /\ ~pendingEvents[e].loadRequested

(* LoadGeneration: fzf starts a reload once its initial input has ended;   *)
(* the load then waits for the event's own finalization.                   *)
ValidateLoad(e) ==
    /\ pc[e] = "loading" /\ closed
    /\ \/ e \notin Reserved /\ EventStep(e, "loadFailed")
       \/ validateLoadLocked(e) /\ EventStep(e, "validated")
    /\ Keep

(* The client's load times out, while it waits or later.                   *)
LoadTimeout(e) ==
    /\ "load timeout" \in Environment
    /\ pc[e] \in {"loading", "validated"} /\ closed
    /\ EventStep(e, "loadFailed")
    /\ Keep

LoadSnapshot(e) ==
    /\ pc[e] = "validated"
    /\ EventStep(e, IF generation = target[e] THEN "copied" ELSE "loadFailed")
    /\ Keep

BeginLoad(e) ==
    /\ pc[e] = "copied"
    /\ \/ ~validateLoadLocked(e) /\ EventStep(e, "loadFailed") /\ UNCHANGED pendingEvents
       \/ /\ validateLoadLocked(e)
          /\ pendingEvents' = [pendingEvents EXCEPT ![e].loadRequested = TRUE]
          /\ EventStep(e, "loaded")
    /\ UNCHANGED <<active, initialGeneration, baseGeneration, terminal, terminalErr,
                   terminalFinalized, committing, inFlight, eventCancels, discardRequested,
                   traceOutcome, shown, cancelledWith, eventCancelled, actorVars, finishing,
                   effect, target, ack>>

dispatchLoad(e) ==
    /\ pc[e] = "loaded"
    /\ \/ shown' = target[e] /\ EventStep(e, "written")
       \/ UNCHANGED shown /\ EventStep(e, "loadFailed")
    /\ UNCHANGED <<gateVars, cancelledWith, eventCancelled, actorVars, finishing, effect, target, ack>>

(* Mutant: an unapplied load is released like an applied one.              *)
FinalizeLoadAnyway(e) ==
    /\ pc[e] \in {"written", "loadFailed"}
    /\ Settle(e, "end")
    /\ IF Finalized(e)
       THEN /\ pendingEvents' = [f \in Reserved \ {e} |-> pendingEvents[f]]
            /\ inFlight' = released
       ELSE UNCHANGED <<pendingEvents, inFlight>>
    /\ UNCHANGED <<active, initialGeneration, baseGeneration, terminal, terminalErr,
                   terminalFinalized, committing, eventCancels, discardRequested, traceOutcome,
                   shown, cancelledWith, eventCancelled, actorVars, finishing, ack>>

FinalizeLoad(e) ==
    /\ pc[e] \in {"written", "loadFailed"}
    /\ Settle(e, "end")
    /\ \/ /\ ~Finalized(e)
          /\ UNCHANGED <<pendingEvents, inFlight, finishing>>
       \/ /\ Finalized(e) /\ pc[e] = "loadFailed"
          /\ finishing' = [finishing EXCEPT ![e].step = "fail"]
          /\ UNCHANGED <<pendingEvents, inFlight>>
       \/ /\ Finalized(e) /\ pc[e] = "written"
          /\ pendingEvents' = [f \in Reserved \ {e} |-> pendingEvents[f]]
          /\ inFlight' = released
          /\ finishing' = IF pendingEvents[e].closeInput
                          THEN [finishing EXCEPT ![e].step = "closeInput"] ELSE finishing
    /\ UNCHANGED <<active, initialGeneration, baseGeneration, terminal, terminalErr,
                   terminalFinalized, committing, eventCancels, discardRequested, traceOutcome,
                   shown, cancelledWith, eventCancelled, actorVars, ack>>

LoseLoadAck(e) ==
    /\ "lost finalization" \in Environment
    /\ pc[e] \in {"written", "loadFailed"}
    /\ Settle(e, "end")
    /\ UNCHANGED <<gateVars, shown, cancelledWith, eventCancelled, actorVars, finishing, ack>>

-----------------------------------------------------------------------------

SourceStep ==
    \/ waitForActivation \/ isActive \/ retainInterruptedSourceError
    \/ Activated \/ beginCommit \/ Snapshot \/ AppendAfter \/ publish \/ Enrich
    \/ Expose \/ finishCommit \/ emitSourceTerminal

PickerStep == BuildInitial \/ PublishInitial \/ Activate \/ CleanupStop \/ Wait

HandlerStep(e) ==
    \/ reserveEvent(e) \/ Handle(e) \/ BuildEnds(e) \/ suppressActiveRestore(e)
    \/ resolveEvent(e) \/ answerEvent(e) \/ failCallbackApplication(e)

CallbackStep(e) ==
    \/ dispatchEvent(e) \/ ValidateLoad(e) \/ LoadSnapshot(e) \/ BeginLoad(e)
    \/ dispatchLoad(e)

FinishStep(t) == CloseInput(t) \/ FinishCancel(t)

Next ==
    \/ LoadInitialZoxide \/ SourceStep
    \/ PickerStep \/ FzfExits \/ ParentEnds \/ ParentStops
    \/ \E t \in Threads : FinishStep(t)
    \/ \E e \in Events :
          \/ Arrive(e) \/ CallerGone(e) \/ HandlerStep(e) \/ CallbackStep(e)
          \/ FinalizeEvent(e) \/ FinalizeLoad(e)
          \/ LoseAck(e) \/ LoadTimeout(e) \/ LoseLoadAck(e)

Spec == Init /\ [][Next]_vars

(* Every goroutine and callback process runs on, and a finalization that   *)
(* is on its way and not lost arrives.  The source is only sure to return  *)
(* once its context is cancelled (its timeout may be zero), a blocked      *)
(* caller need not go away, a load need not time out and the user need not *)
(* leave fzf.  No step repeats, so it is enough that something runs as     *)
(* long as something can.                                                  *)
Progress ==
    \/ LoadInitialZoxide /\ cancelledWith # {}
    \/ SourceStep \/ PickerStep \/ ParentStops
    \/ \E t \in Threads : FinishStep(t)
    \/ \E e \in Events :
          HandlerStep(e) \/ CallbackStep(e) \/ FinalizeEvent(e) \/ FinalizeLoad(e)

FairSpec == Spec /\ WF_vars(Progress)

-----------------------------------------------------------------------------
(* Properties                                                              *)

(* The gate's counter agrees with the two maps it summarises, through all  *)
(* of reserveEvent, resolveEvent, both finalizations, Stop and a callback  *)
(* failure; an event in the actor, a reservation and a commit of the       *)
(* source exclude each other; and so Enrich is never refused because the   *)
(* session moved on or was building, which RunPicker would return as an    *)
(* error.                                                                  *)
GateExclusion ==
    /\ inFlight = Cardinality(eventCancels) + Cardinality(Reserved)
    /\ inFlight + (IF committing THEN 1 ELSE 0) <= 1
    /\ terminalErr \cap {"stale", "pending"} = {}

(* What fzf displays is the current generation (or the empty list of an    *)
(* invalid path) whenever an event reads the actor's snapshot, whenever    *)
(* the session is at rest between events, and from the moment accept has   *)
(* been resolved: the item under the cursor belongs to the records it is   *)
(* looked up in, and nothing replaces them before they are validated.      *)
ViewIsCurrent ==
    \/ \E e \in Events : pc[e] = "handling"
    \/ inFlight = 0 /\ ~committing /\ ~terminal /\ picker = "fzf"
    \/ \E e \in Events : effect[e] = "terminal" /\ e \notin eventCancels
                          /\ pc[e] \notin {"handled", "suppressed", "refused"}
    => shown \in {0, generation}

(* The source's one trace record tells what happened: "published" exactly  *)
(* if the actor took the records, and "failed" never for a load that only  *)
(* the user's leaving of the launch view cancelled.                        *)
TraceTellsWhatHappened ==
    source = "done" =>
        /\ emitted = "published" <=> published
        /\ emitted = "failed" =>
              \/ parentDone \/ terminalErr # {}
              \/ "source" \in sourceErr
              \/ sourceErr = {} /\ discarded

(* A reservation that a live session releases has been honoured: fzf shows *)
(* the very generation the event made it reload.                           *)
ReleasedWhenShown ==
    [][\A e \in Reserved :
          /\ e \notin DOMAIN pendingEvents' /\ ~terminal'
          /\ pendingEvents[e].generation # 0
          => shown = pendingEvents[e].generation]_vars

(* Only the launch view is enriched: once the user has moved to another    *)
(* generation, zoxide's late answer is dropped, however it is scheduled.   *)
OnlyLaunchViewEnriched ==
    [][~published /\ published' => generation = initialGeneration]_vars

(* Stop and Wait return although the source, the stream and the gate are   *)
(* in use, whoever stopped the coordinator before.                         *)
CleanupJoins == []<>(picker \notin {"cleanup", "joining"})

(* The callback of a reservation has lost its finalization.                *)
Orphaned(e) ==
    /\ e \in Reserved /\ ack[e] = "none"
    /\ pc[e] = "end" \/ (pc[e] = "loading" /\ Unfinalized(e))

(* An event that waits for the gate gets it or is refused, and a reload is *)
(* loaded, since the input stream it waits for is closed; even while the   *)
(* source never returns.  Only a lost finalization can keep them waiting,  *)
(* and not even that keeps the cleanup waiting.                            *)
EventsProceed ==
    []<>(/\ picker \notin {"cleanup", "joining"}
         /\ \/ \A e \in Events : pc[e] \notin {"waiting", "loading"}
            \/ \E e \in Events : Orphaned(e))
=============================================================================
