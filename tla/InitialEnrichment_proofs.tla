----------------------- MODULE InitialEnrichment_proofs -----------------------
(***************************************************************************)
(* Proofs about the coordinator of InitialEnrichment, for any set of       *)
(* events and whatever the environment does.                               *)
(*                                                                         *)
(* The gate is a lock with three kinds of holders: an event inside the     *)
(* actor, an event that waits for its finalizations, and the source while  *)
(* it commits.  HeldInv says that it has one holder at most and that the   *)
(* counter tells so; the other parts of EnrichmentInv say what holds of    *)
(* the actor, the screen, the causes and the trace as long as somebody     *)
(* has it, and what a session that has become terminal has given up.       *)
(***************************************************************************)
EXTENDS InitialEnrichment, TLAPS, FiniteSetTheorems

(* Where an event is when it is inside session.Handle, when its load is    *)
(* under way, and when it has been resolved; where the source commits.     *)
Handling   == {"handling", "building", "handled", "suppressed"}
Loading    == {"loading", "validated", "copied", "loaded", "written", "loadFailed"}
Answered   == {"resolved", "stopSource", "answered", "acking"} \cup Loading
Committing == {"snapshot", "appending", "publishing", "enriching", "exposing", "deciding"}
Fresh      == {"idle", "waiting", "handling", "building"}

(* The events that may be cancelled are those inside the actor. *)
HandlerInv == eventCancels = {e \in Events : pc[e] \in Handling}

CommitInv == committing <=> source \in Committing

(* The gate has one holder at most, and inFlight counts it. *)
HeldInv ==
    \/ inFlight = 0 /\ eventCancels = {} /\ Reserved = {}
    \/ /\ inFlight = 1 /\ ~committing
       /\ \E e \in Events : \/ eventCancels = {e} /\ Reserved = {}
                            \/ eventCancels = {} /\ Reserved = {e}

(* A resolved event has its reservation, unless the session has ended and  *)
(* with it every use of the gate.                                          *)
AnsweredInv ==
    \A e \in Events : pc[e] \in Answered =>
        e \in Reserved \/ (terminal /\ ~committing /\ inFlight = 0)

BuildingInv == building # NoEvent => building \in Events /\ pc[building] = "building"

(* What is true before the launch view is activated. *)
LaunchInv ==
    /\ initialGeneration = 0 =>
          /\ \A e \in Events : pc[e] = "idle"
          /\ source \notin Committing \cup {"activated", "checked", "beginning"}
    /\ initialGeneration # 0 => /\ picker \notin {"building", "publishing", "activating"}
                                /\ generation # 0
    /\ picker \in {"publishing", "activating"} => generation = 1
    /\ picker \in {"building", "publishing"} => shown = 0

(* The result of an event belongs to the generation it left behind. *)
EffectOf(e) ==
    /\ pc[e] \in Fresh => effect[e] = "none"
    /\ pc[e] \in Answered => effect[e] # "error"
    /\ pc[e] \in {"handled", "suppressed"} \cup Answered /\ effect[e] # "error" =>
          target[e] = generation
    /\ pc[e] \in Loading => Reloads(e)
    /\ ack[e] # "none" => pc[e] \in {"acking", "end"} \cup Loading
EffectInv == \A e \in Events : EffectOf(e)

(* What a reservation waits for. *)
ReservedOf(e) ==
    /\ pc[e] \in Answered \cup {"end"}
    /\ pendingEvents[e].generation \in {0, generation}
    /\ pc[e] \in Answered =>
          pendingEvents[e].generation = IF Reloads(e) THEN target[e] ELSE 0
    /\ pc[e] = "written" => shown = generation
ReservedInv == \A e \in Reserved : ReservedOf(e)

(* A navigation that the actor has made and the gate has not yet seen. *)
Reloading(e) == pc[e] \in {"handled", "suppressed"} /\ effect[e] = "reload"

(* Accept or abort has been resolved. *)
Accepted(e) == effect[e] = "terminal" /\ pc[e] \in Answered \cup {"end"}

(* After accept nobody changes the generation or the screen. *)
AcceptInv ==
    \A e \in Events : Accepted(e) =>
        /\ terminal /\ ~committing /\ eventCancels = {}
        /\ \A f \in Reserved : pendingEvents[f].generation = 0

(* Who is to blame for a screen that is behind the actor. *)
ViewInv ==
    \/ shown \in {0, generation}
    \/ source = "exposing"
    \/ \E e \in Events : Reloading(e)
    \/ \E e \in Reserved : pendingEvents[e].generation # 0
    \/ terminal /\ eventCancels = {} /\ \A e \in Events : ~Accepted(e)

(* The source commits to the launch view, which stays until it is done. *)
BaseInv ==
    /\ source \in {"appending", "publishing", "enriching"} => commitBase = generation
    /\ source \in {"snapshot", "appending", "publishing", "enriching"} =>
          generation = initialGeneration
    /\ published => source \in {"exposing", "deciding", "exit", "done"}
    /\ initialGeneration # 0 /\ active /\ ~terminal /\ ~published =>
          generation = initialGeneration \/ \E e \in Events : Reloading(e)

(* Every event and the source have added one generation at most. *)
Built    == {e \in Events : pc[e] \notin Fresh}
CountInv == generation <= Cardinality(Built) + 1 + (IF published THEN 1 ELSE 0)

(* No cause is the stale or the pending generation of a refused Enrich. *)
RealCauses   == Causes \ {"stale", "pending"}
RealFinishes == [step : {"no", "fail", "closeInput", "close", "cancel"}, cause : SUBSET RealCauses]
CauseInv ==
    /\ terminalErr \in SUBSET RealCauses /\ cancelledWith \in SUBSET RealCauses
    /\ sourceErr \in SUBSET RealCauses /\ verdict \in SUBSET RealCauses
    /\ finishing \in [Threads -> RealFinishes]

(* The commit decides the trace's outcome, if it gets that far. *)
OutcomeInv ==
    /\ terminalFinalized => source = "done"
    /\ traceOutcome # "none" => source \in {"exit", "done"}
    /\ published => source \in {"exposing", "deciding"} \/ traceOutcome = "published"
    /\ traceOutcome = "published" => published
    /\ traceOutcome = "failed" => terminalErr # {}
    /\ source = "done" => (emitted = "published" <=> published)

(* A reason why a load may be reported as failed, and the mark that it was *)
(* dropped on purpose.                                                     *)
Excused      == terminalErr # {} \/ parentDone
DiscardKnown == discardRequested \/ parentDone

(* A context is cancelled with more than "canceled" only if there was an   *)
(* error, and whoever cancels the load has recorded the discard before.    *)
BlameInv ==
    /\ cancelledWith \subseteq {"canceled"} \/ Excused
    /\ sourceErr \subseteq {"canceled", "source"} \/ Excused
    /\ \A t \in Threads : finishing[t].cause = {} \/ Excused
    /\ source = "done" /\ emitted = "failed" =>
          Excused \/ "source" \in sourceErr \/ (sourceErr = {} /\ discarded)
Ending == {"close", "cancel"}
DiscardInv ==
    /\ "canceled" \in sourceErr => DiscardKnown
    /\ source = "loading" =>
          /\ "canceled" \in cancelledWith => DiscardKnown
          /\ \A t \in Threads : finishing[t].step \in Ending => DiscardKnown
    /\ \A e \in Events : pc[e] = "stopSource" => DiscardKnown

GateInv ==
    /\ HandlerInv /\ CommitInv /\ HeldInv /\ AnsweredInv /\ BuildingInv
    /\ LaunchInv /\ EffectInv /\ ReservedInv /\ AcceptInv /\ ViewInv /\ BaseInv

EnrichmentInv ==
    TypeOK /\ GateInv /\ CauseInv /\ CountInv /\ OutcomeInv /\ BlameInv /\ DiscardInv

-----------------------------------------------------------------------------
(* Frames: what a kind of step leaves alone                                *)

(* The steps of everybody but the events, and the failure of a callback. *)
OutsideAction ==
    \/ LoadInitialZoxide \/ SourceStep \/ PickerStep \/ FzfExits \/ ParentEnds \/ ParentStops
    \/ \E t \in Threads : FinishStep(t)
    \/ \E e \in Events : failCallbackApplication(e)

(* The steps of an event, except the failure of its callback.         *)
EventAction(e) ==
    \/ Arrive(e) \/ CallerGone(e) \/ reserveEvent(e) \/ Handle(e) \/ BuildEnds(e)
    \/ suppressActiveRestore(e) \/ resolveEvent(e) \/ answerEvent(e) \/ CallbackStep(e)
    \/ FinalizeEvent(e) \/ FinalizeLoad(e) \/ LoseAck(e) \/ LoadTimeout(e) \/ LoseLoadAck(e)

(* A step that ends the session gives up the reservations. *)
Terminalized ==
    /\ terminal' = TRUE /\ active' = FALSE
    /\ pendingEvents' = NoReservations /\ inFlight' = Cardinality(eventCancels)

SameReservations == UNCHANGED <<terminal, pendingEvents, inFlight>>

(* The events are not involved. *)
EventsStay == UNCHANGED <<pc, effect, target, ack, building, eventCancels>>

(* Only events are involved. *)
SourceStays ==
    UNCHANGED <<source, commitBase, published, committing, initialGeneration, picker,
                sourceErr, discarded, verdict, emitted, parentDone, parentStop,
                terminalFinalized, traceOutcome>>

(* The screen and the generation stay; so does the commit. *)
Unseen == UNCHANGED <<generation, shown, committing, commitBase, published>>

(* The steps of the source before and after its commit, of the picker and  *)
(* of the contexts that neither show nor publish anything.                 *)
Calm ==
    \/ LoadInitialZoxide \/ waitForActivation \/ isActive \/ retainInterruptedSourceError
    \/ Activated \/ emitSourceTerminal \/ CleanupStop \/ Wait \/ FzfExits
    \/ ParentEnds \/ ParentStops \/ \E t \in Threads : FinishStep(t)
    \/ \E e \in Events : failCallbackApplication(e)

CalmFrame ==
    /\ EventsStay /\ Unseen /\ UNCHANGED initialGeneration
    /\ UNCHANGED active \/ active' = FALSE
    /\ SameReservations \/ Terminalized
    /\ \/ UNCHANGED source
       \/ source' \notin Committing /\ source \notin Committing
    /\ source' \in {"activated", "checked", "beginning"} => initialGeneration # 0
    /\ picker' # picker => picker \notin {"building", "publishing", "activating"} /\ picker' \in {"cleanup", "joining", "joined"}
    /\ published => source' = source \/ source' \in {"exit", "done"}

LEMMA CalmSteps ==
    ASSUME TypeOK, LaunchInv, BaseInv, Calm
    PROVE  CalmFrame
<1> USE DEF CalmFrame, EventsStay, Unseen, SameReservations, gateVars, streamVars, ctxVars,
            actorVars, sourceVars, pickerVars, eventVars, LaunchInv, BaseInv, Committing,
            Terminalize, Terminalized, deactivateLocked
<1>1. CASE LoadInitialZoxide
  BY <1>1 DEF LoadInitialZoxide, finishSource, Stop, KeepGate
<1>2. CASE waitForActivation
  BY <1>2 DEF waitForActivation, Stop, KeepGate, RunStep
<1>3. CASE isActive
  BY <1>3 DEF isActive, KeepGate, RunStep
<1>4. CASE retainInterruptedSourceError
  BY <1>4 DEF retainInterruptedSourceError, finishSource, KeepGate, RunStep
<1>5. CASE Activated
  BY <1>5 DEF Activated, finishSource, Stop, KeepGate, RunStep
<1>6. CASE emitSourceTerminal
  BY <1>6 DEF emitSourceTerminal
<1>7. CASE CleanupStop
  BY <1>7 DEF CleanupStop, Stop
<1>8. CASE Wait
  BY <1>8 DEF Wait
<1>9. CASE FzfExits
  BY <1>9 DEF FzfExits
<1>10. CASE ParentEnds
  BY <1>10 DEF ParentEnds
<1>11. CASE ParentStops
  BY <1>11 DEF ParentStops, Stop
<1>12. CASE \E t \in Threads : FinishStep(t)
  BY <1>12 DEF FinishStep, CloseInput, FinishCancel
<1>13. CASE \E e \in Events : failCallbackApplication(e)
  BY <1>13 DEF failCallbackApplication
<1> QED
  BY <1>1, <1>2, <1>3, <1>4, <1>5, <1>6, <1>7, <1>8, <1>9, <1>10, <1>11, <1>12, <1>13 DEF Calm

(* What the proofs use of the types and of cardinalities. *)
LEMMA Small ==
    /\ Cardinality({}) = 0
    /\ \A e : Cardinality({e}) = 1
    /\ DOMAIN NoReservations = {}
BY FS_EmptySet, FS_Singleton DEF NoReservations

LEMMA CalmKeepsGateInv ==
    ASSUME TypeOK, GateInv, CalmFrame
    PROVE  GateInv'
<1> USE DEF CalmFrame, EventsStay, Unseen
<1>1. HandlerInv' /\ BuildingInv' /\ EffectInv'
  BY DEF GateInv, HandlerInv, BuildingInv, EffectInv, EffectOf, Reloads
<1>2. CommitInv'
  BY DEF GateInv, CommitInv, TypeOK, GateType
<1>3. HeldInv'
  BY Small DEF GateInv, HeldInv, Reserved, SameReservations, Terminalized
<1>4. AnsweredInv'
  <2>1. CASE SameReservations
    BY <2>1 DEF GateInv, AnsweredInv, Reserved, SameReservations
  <2>2. CASE Terminalized
    <3> SUFFICES ASSUME NEW e \in Events, pc[e] \in Answered
                 PROVE  ~committing /\ inFlight' = 0
      BY <2>2 DEF AnsweredInv, Terminalized
    <3>1. eventCancels = {} /\ ~committing
      BY DEF GateInv, HeldInv, AnsweredInv
    <3> QED
      BY <2>2, <3>1, Small DEF Terminalized
  <2> QED
    BY <2>1, <2>2
<1>5. LaunchInv'
  BY DEF GateInv, LaunchInv, Committing
<1>6. ReservedInv'
  BY Small DEF GateInv, ReservedInv, ReservedOf, Reloads, Reserved, SameReservations, Terminalized
<1>7. AcceptInv'
  BY Small DEF GateInv, AcceptInv, Accepted, Reserved, SameReservations, Terminalized
<1>8. ViewInv'
  <2>1. CASE SameReservations
    BY <2>1 DEF GateInv, ViewInv, Reserved, SameReservations, Accepted, Reloading, Committing
  <2>2. CASE Terminalized
    <3>1. CASE \E e \in Reserved : pendingEvents[e].generation # 0
      BY <2>2, <3>1 DEF GateInv, ViewInv, HeldInv, AcceptInv, Accepted, Terminalized
    <3>2. CASE ~\E e \in Reserved : pendingEvents[e].generation # 0
      BY <2>2, <3>2 DEF GateInv, ViewInv, Terminalized, Accepted, Reloading, Committing
    <3> QED
      BY <3>1, <3>2
  <2> QED
    BY <2>1, <2>2
<1>9. BaseInv'
  BY DEF GateInv, BaseInv, Reloading, Committing, SameReservations, Terminalized
<1> QED
  BY <1>1, <1>2, <1>3, <1>4, <1>5, <1>6, <1>7, <1>8, <1>9 DEF GateInv

(* A step of the commit: the events, the gate and the picker stay. *)
CommitFrame ==
    EventsStay /\ SameReservations /\ UNCHANGED <<initialGeneration, picker>>

LEMMA CommitKeeps ==
    ASSUME TypeOK, GateInv, CommitFrame, UNCHANGED committing
    PROVE  HandlerInv' /\ HeldInv' /\ AnsweredInv' /\ BuildingInv' /\ AcceptInv'
BY DEF GateInv, CommitFrame, EventsStay, SameReservations, HandlerInv, HeldInv, AnsweredInv,
       BuildingInv, AcceptInv, Accepted, Reserved

LEMMA SourceKeepsGateInv ==
    ASSUME TypeOK, GateInv, beginCommit \/ Snapshot \/ AppendAfter \/ publish \/ Enrich
                            \/ Expose \/ finishCommit
    PROVE  GateInv'
<1> USE DEF gateVars, streamVars, ctxVars, actorVars, sourceVars, pickerVars, eventVars,
            RunStep, CommitStep, CommitFrame, EventsStay, SameReservations
<1>1. CASE beginCommit
  <2>1. CASE committing' = TRUE
    <3>1. /\ CommitFrame /\ UNCHANGED <<generation, shown, commitBase, published, active>>
          /\ source = "beginning" /\ source' = "snapshot" /\ active /\ ~terminal /\ inFlight = 0
      BY <1>1, <2>1 DEF beginCommit, Stop, Terminalize, GateInv, CommitInv, Committing
    <3>2. HandlerInv' /\ BuildingInv' /\ EffectInv' /\ CommitInv' /\ HeldInv'
      BY <2>1, <3>1 DEF GateInv, HandlerInv, BuildingInv, EffectInv, EffectOf, Reloads, CommitInv,
            Committing, HeldInv, Reserved
    <3>3. AnsweredInv' /\ AcceptInv'
      BY <3>1 DEF GateInv, AnsweredInv, HeldInv, AcceptInv, Accepted, Reserved
    <3>4. LaunchInv' /\ ReservedInv'
      BY <3>1 DEF GateInv, LaunchInv, ReservedInv, ReservedOf, Reloads, Reserved, Committing
    <3>5. ViewInv'
      BY <3>1 DEF GateInv, ViewInv, Accepted, Reloading, Reserved
    <3>6. \A e \in Events : ~Reloading(e)
      BY <3>1 DEF GateInv, HeldInv, HandlerInv, Reloading, Handling
    <3>7. BaseInv'
      BY <3>1, <3>6 DEF GateInv, BaseInv, LaunchInv, Committing, Reloading
    <3> QED
      BY <3>2, <3>3, <3>4, <3>5, <3>7 DEF GateInv
  <2>2. CASE committing' # TRUE
    <3>1. CalmFrame
      BY <1>1, <2>2 DEF beginCommit, Stop, Terminalize, Terminalized, deactivateLocked, CalmFrame,
            Unseen, GateInv, CommitInv, BaseInv, LaunchInv, Committing, TypeOK, GateType
    <3> QED
      BY <3>1, CalmKeepsGateInv
  <2> QED
    BY <2>1, <2>2
<1>2. CASE Snapshot \/ AppendAfter \/ publish
  <2>1. /\ CommitFrame /\ UNCHANGED <<generation, shown, published, active, committing>>
        /\ source \in {"snapshot", "appending", "publishing"}
        /\ source' \in {"appending", "publishing", "enriching", "deciding"}
        /\ source' # "deciding" => commitBase' = generation
    BY <1>2 DEF Snapshot, AppendAfter, publish, GateInv, BaseInv
  <2>2. EffectInv' /\ CommitInv' /\ LaunchInv' /\ ReservedInv'
    BY <2>1 DEF GateInv, EffectInv, EffectOf, Reloads, CommitInv, LaunchInv, Committing, ReservedInv,
          ReservedOf, Reserved
  <2>3. ViewInv' /\ BaseInv'
    BY <2>1 DEF GateInv, ViewInv, BaseInv, Accepted, Reloading, Reserved
  <2> QED
    BY <2>1, <2>2, <2>3, CommitKeeps DEF GateInv
<1>3. CASE Enrich \/ Expose \/ finishCommit
  <2>1. committing /\ source \in Committing
    BY <1>3 DEF Enrich, Expose, finishCommit, GateInv, CommitInv, Committing
  <2>2. /\ inFlight = 0 /\ eventCancels = {} /\ Reserved = {}
        /\ \A e \in Events : pc[e] \notin Handling /\ pc[e] \notin Answered /\ ~Reloading(e)
        /\ \A e \in Events : ~Accepted(e)
    BY <2>1 DEF GateInv, HeldInv, HandlerInv, AnsweredInv, AcceptInv, Reloading, Handling
  <2>3. initialGeneration # 0 /\ generation # 0 /\ generation \in Nat
    BY <2>1 DEF GateInv, LaunchInv, TypeOK, ThreadType, Generations
  <2>4. EffectInv' /\ ReservedInv'
    BY <1>3, <2>2 DEF Enrich, Expose, finishCommit, GateInv, EffectInv, EffectOf, Reloads, Handling,
          ReservedInv, Reserved
  <2>5. CASE Enrich
    <3>1. /\ CommitFrame /\ UNCHANGED <<shown, active, committing>> /\ source = "enriching"
          /\ \/ source' = "exposing" /\ generation' = generation + 1 /\ published' = TRUE
             \/ source' = "deciding" /\ UNCHANGED <<generation, published>>
      BY <2>5 DEF Enrich
    <3>2. CommitInv' /\ LaunchInv' /\ ViewInv' /\ BaseInv'
      BY <2>2, <2>3, <3>1 DEF GateInv, CommitInv, LaunchInv, Committing, ViewInv, BaseInv, Reserved,
            Reloading, Accepted
    <3> QED
      BY <2>4, <3>1, <3>2, CommitKeeps DEF GateInv
  <2>6. CASE Expose
    <3>1. /\ CommitFrame /\ UNCHANGED <<generation, published, active, committing>>
          /\ source = "exposing" /\ source' = "deciding" /\ shown' = generation
      BY <2>6 DEF Expose
    <3>2. CommitInv' /\ LaunchInv' /\ ViewInv' /\ BaseInv'
      BY <2>2, <2>3, <3>1 DEF GateInv, CommitInv, LaunchInv, Committing, ViewInv, BaseInv, Reserved,
            Reloading
    <3> QED
      BY <2>4, <3>1, <3>2, CommitKeeps DEF GateInv
  <2>7. CASE finishCommit
    <3>1. /\ CommitFrame /\ UNCHANGED <<generation, shown, published>> /\ active' = FALSE
          /\ source = "deciding" /\ source' = "exit" /\ committing' = FALSE
      BY <2>7 DEF finishCommit, deactivateLocked
    <3>2. HandlerInv' /\ HeldInv' /\ AnsweredInv' /\ BuildingInv' /\ AcceptInv'
      BY <2>2, <3>1 DEF GateInv, HandlerInv, HeldInv, AnsweredInv, BuildingInv, AcceptInv, Accepted,
            Reserved
    <3>3. CommitInv' /\ LaunchInv' /\ ViewInv' /\ BaseInv'
      BY <2>2, <2>3, <3>1 DEF GateInv, CommitInv, LaunchInv, Committing, ViewInv, BaseInv, Reserved,
            Reloading, Accepted
    <3> QED
      BY <2>4, <3>2, <3>3 DEF GateInv
  <2> QED
    BY <1>3, <2>5, <2>6, <2>7
<1> QED
  BY <1>1, <1>2, <1>3

LEMMA LaunchKeepsGateInv ==
    ASSUME TypeOK, GateInv, BuildInitial \/ PublishInitial \/ Activate
    PROVE  GateInv'
<1> USE DEF gateVars, streamVars, ctxVars, actorVars, sourceVars, pickerVars, eventVars,
            EventsStay, SameReservations
<1>1. initialGeneration = 0 /\ source \notin Committing
  BY DEF BuildInitial, PublishInitial, Activate, GateInv, LaunchInv
<1>2. /\ EventsStay /\ SameReservations /\ UNCHANGED <<source, committing, active, commitBase, published>>
  BY DEF BuildInitial, PublishInitial, Activate
<1>3. HandlerInv' /\ CommitInv' /\ HeldInv' /\ AnsweredInv' /\ BuildingInv' /\ AcceptInv'
  BY <1>2 DEF GateInv, HandlerInv, CommitInv, HeldInv, AnsweredInv, BuildingInv, AcceptInv,
        Accepted, Reserved
<1>4. /\ \A e \in Events : pc[e] = "idle"
      /\ Reserved = {}
  BY <1>1 DEF GateInv, LaunchInv, ReservedInv, ReservedOf, Answered, Loading, TypeOK, GateType
<1>5. EffectInv' /\ ReservedInv'
  BY <1>2, <1>4 DEF GateInv, EffectInv, EffectOf, Reloads, ReservedInv, Reserved, Fresh, Answered, Loading
<1>6. LaunchInv' /\ ViewInv' /\ BaseInv'
  <2>1. CASE BuildInitial
    BY <1>1, <1>2, <1>4, <2>1 DEF BuildInitial, GateInv, LaunchInv, ViewInv, BaseInv, Committing, Reserved
  <2>2. CASE PublishInitial
    BY <1>1, <1>2, <1>4, <2>2 DEF PublishInitial, GateInv, LaunchInv, ViewInv, BaseInv, Committing,
          Reserved, Accepted, Reloading
  <2>3. CASE Activate
    BY <1>1, <1>2, <1>4, <2>3 DEF Activate, GateInv, LaunchInv, ViewInv, BaseInv, Committing, Reserved,
          Accepted, Reloading
  <2> QED
    BY <2>1, <2>2, <2>3
<1> QED
  BY <1>3, <1>5, <1>6 DEF GateInv

-----------------------------------------------------------------------------
(* The steps of one event                                                  *)

(* Event e moves to x; the source, the commit and the picker stay. *)
Moves(e, x) ==
    /\ pc' = [pc EXCEPT ![e] = x]
    /\ UNCHANGED <<source, picker, committing, initialGeneration, commitBase, published>>

(* The reservations stay, and what they wait for. *)
SameWaits ==
    /\ Reserved' = Reserved
    /\ \A f \in Reserved : pendingEvents'[f].generation = pendingEvents[f].generation

(* Finalizations arrive or are lost. *)
AcksShrink == \A f \in Events : ack'[f] \in {ack[f], "none"}

(* The event moves, and nothing else that the invariant speaks of. *)
MovesOnly(e, x) ==
    /\ Moves(e, x) /\ SameWaits /\ AcksShrink
    /\ UNCHANGED <<eventCancels, inFlight, terminal, active, generation, building, shown>>

LEMMA MovedState ==
    ASSUME TypeOK, NEW e \in Events, NEW x, pc' = [pc EXCEPT ![e] = x]
    PROVE  pc'[e] = x /\ \A f \in Events : f # e => pc'[f] = pc[f]
BY DEF TypeOK, EventType

(* A step of an event that leaves the gate, the generation and the screen. *)
LEMMA QuietMove ==
    ASSUME TypeOK, GateInv, NEW e \in Events, NEW x, MovesOnly(e, x),
           UNCHANGED <<effect, target>>,
           \/ pc[e] = "idle" /\ x = "waiting" /\ initialGeneration # 0
           \/ pc[e] = "waiting" /\ x = "refused"
           \/ pc[e] \in {"resolved", "stopSource"} /\ x = "answered"
           \/ pc[e] = "acking" /\ x = "loading" /\ Reloads(e)
           \/ pc[e] \in Loading /\ x \in Loading \ {"written"}
           \/ x = pc[e]
    PROVE  GateInv'
<1> USE DEF MovesOnly, Moves, SameWaits
<1>1. pc'[e] = x /\ \A f \in Events : f # e => pc'[f] = pc[f]
  BY MovedState
<1>2. HandlerInv'
  BY <1>1 DEF GateInv, HandlerInv, Handling, Loading
<1>3. CommitInv' /\ HeldInv'
  BY DEF GateInv, CommitInv, HeldInv
<1>4. AnsweredInv'
  BY <1>1 DEF GateInv, AnsweredInv, Answered, Loading
<1>5. BuildingInv' /\ LaunchInv'
  BY <1>1 DEF GateInv, BuildingInv, LaunchInv, Loading
<1>6. EffectInv'
  BY <1>1 DEF GateInv, EffectInv, EffectOf, Reloads, Answered, Loading, Fresh, AcksShrink
<1>7. ReservedInv'
  BY <1>1 DEF GateInv, ReservedInv, ReservedOf, Reloads, Answered, Loading, TypeOK, GateType
<1>8. AcceptInv'
  BY <1>1 DEF GateInv, AcceptInv, Accepted, EffectInv, EffectOf, Answered, Loading, Fresh
<1>9. ViewInv' /\ BaseInv'
  BY <1>1 DEF GateInv, ViewInv, BaseInv, Reloading, Accepted, EffectInv, EffectOf, Answered, Loading, Fresh
<1> QED
  BY <1>2, <1>3, <1>4, <1>5, <1>6, <1>7, <1>8, <1>9 DEF GateInv

(* Settle keeps the result of accept and forgets the others. *)
Forgets(e) ==
    IF effect[e] = "terminal" THEN UNCHANGED <<effect, target>>
    ELSE effect' = [effect EXCEPT ![e] = "none"] /\ target' = [target EXCEPT ![e] = 0]

LEMMA ForgottenState ==
    ASSUME TypeOK, NEW e \in Events, Forgets(e)
    PROVE  /\ effect'[e] = "terminal" <=> effect[e] = "terminal"
           /\ effect'[e] = "terminal" \/ effect'[e] = "none"
           /\ \A f \in Events : f # e => effect'[f] = effect[f] /\ target'[f] = target[f]
BY DEF TypeOK, EventType, Forgets

(* An event ends and its reservation stays as it is. *)
LEMMA EndMove ==
    ASSUME TypeOK, GateInv, NEW e \in Events, MovesOnly(e, "end"), Forgets(e),
           pc[e] \in Answered \cup {"end"}
    PROVE  GateInv'
<1> USE DEF MovesOnly, Moves, SameWaits
<1>1. pc'[e] = "end" /\ \A f \in Events : f # e => pc'[f] = pc[f]
  BY MovedState
<1>2. /\ effect'[e] = "terminal" <=> effect[e] = "terminal"
      /\ \A f \in Events : f # e => effect'[f] = effect[f] /\ target'[f] = target[f]
  BY ForgottenState
<1>3. HandlerInv'
  BY <1>1 DEF GateInv, HandlerInv, Handling, Answered, Loading
<1>4. CommitInv' /\ HeldInv'
  BY DEF GateInv, CommitInv, HeldInv
<1>5. AnsweredInv'
  BY <1>1 DEF GateInv, AnsweredInv, Answered, Loading
<1>6. BuildingInv' /\ LaunchInv'
  BY <1>1 DEF GateInv, BuildingInv, LaunchInv, Answered, Loading
<1>7. EffectInv'
  BY <1>1, <1>2 DEF GateInv, EffectInv, EffectOf, Reloads, Answered, Loading, Fresh, AcksShrink
<1>8. ReservedInv'
  BY <1>1, <1>2 DEF GateInv, ReservedInv, ReservedOf, Reloads, Answered, Loading, TypeOK, GateType
<1>9. AcceptInv'
  BY <1>1, <1>2 DEF GateInv, AcceptInv, Accepted
<1>10. ViewInv' /\ BaseInv'
  BY <1>1, <1>2 DEF GateInv, ViewInv, BaseInv, Reloading, Accepted, Answered, Loading
<1> QED
  BY <1>3, <1>4, <1>5, <1>6, <1>7, <1>8, <1>9, <1>10 DEF GateInv

(* An event ends and is released, having shown what it was to show. *)
LEMMA ReleaseMove ==
    ASSUME TypeOK, GateInv, NEW e \in Events, Moves(e, "end"), Forgets(e), AcksShrink,
           UNCHANGED <<eventCancels, terminal, active, generation, building, shown>>,
           e \in Reserved, Reserved' = Reserved \ {e}, inFlight' = released,
           pendingEvents[e].generation = 0 \/ shown = generation
    PROVE  GateInv'
<1> USE DEF Moves
<1>1. pc'[e] = "end" /\ \A f \in Events : f # e => pc'[f] = pc[f]
  BY MovedState
<1>2. /\ effect'[e] = "terminal" <=> effect[e] = "terminal"
      /\ \A f \in Events : f # e => effect'[f] = effect[f] /\ target'[f] = target[f]
  BY ForgottenState
<1>3. /\ pc[e] \in Answered \cup {"end"}
      /\ Reserved = {e} /\ eventCancels = {} /\ ~committing /\ inFlight = 1
  BY DEF GateInv, ReservedInv, ReservedOf, HeldInv
<1>4. Reserved' = {} /\ inFlight' = 0
  BY <1>3 DEF released
<1>5. HandlerInv'
  BY <1>1, <1>3 DEF GateInv, HandlerInv, Handling, Answered, Loading
<1>6. CommitInv' /\ HeldInv'
  BY <1>3, <1>4 DEF GateInv, CommitInv, HeldInv
<1>7. AnsweredInv'
  BY <1>1, <1>3, <1>4 DEF GateInv, AnsweredInv, Answered, Loading
<1>8. BuildingInv' /\ LaunchInv'
  BY <1>1, <1>3 DEF GateInv, BuildingInv, LaunchInv, Answered, Loading
<1>9. EffectInv'
  BY <1>1, <1>2 DEF GateInv, EffectInv, EffectOf, Reloads, Answered, Loading, Fresh, AcksShrink
<1>10. ReservedInv' /\ AcceptInv'
  BY <1>1, <1>2, <1>3, <1>4 DEF GateInv, ReservedInv, AcceptInv, Accepted
<1>11. ViewInv' /\ BaseInv'
  BY <1>1, <1>2, <1>3, <1>4 DEF GateInv, ViewInv, BaseInv, Reloading, Accepted, Answered, Loading,
        CommitInv, Committing
<1> QED
  BY <1>5, <1>6, <1>7, <1>8, <1>9, <1>10, <1>11 DEF GateInv

(* The steps of an event that do not reach the gate. *)
LEMMA CallbackKeepsGateInv ==
    ASSUME TypeOK, GateInv, NEW e \in Events,
           \/ Arrive(e) \/ CallerGone(e) \/ answerEvent(e) \/ ValidateLoad(e) \/ LoadTimeout(e)
           \/ LoadSnapshot(e) \/ BeginLoad(e) \/ LoseAck(e) \/ LoseLoadAck(e)
    PROVE  GateInv'
<1> USE DEF EventStep, Keep, Settle, gateVars, actorVars, sourceVars, pickerVars, Moves, SameWaits,
            AcksShrink, Reserved
<1>1. CASE Arrive(e)
  <2>1. MovesOnly(e, "waiting") /\ UNCHANGED <<effect, target>> /\ pc[e] = "idle" /\ initialGeneration # 0
    BY <1>1 DEF Arrive, MovesOnly
  <2> QED
    BY <2>1, QuietMove
<1>2. CASE CallerGone(e)
  <2>1. MovesOnly(e, pc[e]) /\ UNCHANGED <<effect, target>>
    BY <1>2 DEF CallerGone, MovesOnly
  <2> QED
    BY <2>1, QuietMove
<1>3. CASE answerEvent(e)
  <2>1. MovesOnly(e, "answered") /\ UNCHANGED <<effect, target>> /\ pc[e] \in {"resolved", "stopSource"}
    BY <1>3 DEF answerEvent, MovesOnly
  <2> QED
    BY <2>1, QuietMove
<1>4. CASE ValidateLoad(e) \/ LoadTimeout(e) \/ LoadSnapshot(e)
  <2>1. PICK x \in {"loadFailed", "validated", "copied"} : EventStep(e, x)
    BY <1>4 DEF ValidateLoad, LoadTimeout, LoadSnapshot
  <2>2. MovesOnly(e, x) /\ UNCHANGED <<effect, target>> /\ pc[e] \in Loading
    BY <1>4, <2>1 DEF ValidateLoad, LoadTimeout, LoadSnapshot, MovesOnly, Loading
  <2>3. x \in Loading \ {"written"}
    BY <2>1 DEF Loading
  <2> QED
    BY <2>2, <2>3, QuietMove
<1>5. CASE BeginLoad(e)
  <2>1. PICK x \in {"loadFailed", "loaded"} : EventStep(e, x)
    BY <1>5 DEF BeginLoad
  <2>2. pc[e] \in Loading /\ x \in Loading \ {"written"}
    BY <1>5, <2>1 DEF BeginLoad, Loading
  <2>3. SameWaits
    <3>1. CASE UNCHANGED pendingEvents
      BY <3>1
    <3>2. CASE e \in Reserved /\ pendingEvents' = [pendingEvents EXCEPT ![e].loadRequested = TRUE]
      <4>1. pendingEvents[e] \in Reservations
        BY <3>2 DEF TypeOK, GateType
      <4>2. [pendingEvents[e] EXCEPT !.loadRequested = TRUE].generation = pendingEvents[e].generation
        BY <4>1 DEF Reservations
      <4> QED
        BY <3>2, <4>2
    <3> QED
      BY <1>5, <3>1, <3>2 DEF BeginLoad, validateLoadLocked
  <2>4. MovesOnly(e, x) /\ UNCHANGED <<effect, target>>
    BY <1>5, <2>1, <2>3 DEF BeginLoad, MovesOnly
  <2> QED
    BY <2>2, <2>4, QuietMove
<1>6. CASE LoseAck(e)
  <2>1. pc[e] = "acking" /\ pc[e] \in Answered
    BY <1>6 DEF LoseAck, Answered
  <2>2. AcksShrink
    BY <1>6 DEF LoseAck, TypeOK, EventType
  <2>3. CASE AfterAck(e) = "loading"
    <3>1. Reloads(e)
      BY <2>3 DEF AfterAck
    <3>2. MovesOnly(e, "loading") /\ UNCHANGED <<effect, target>>
      BY <1>6, <2>2, <2>3 DEF LoseAck, MovesOnly
    <3> QED
      BY <2>1, <3>1, <3>2, QuietMove
  <2>4. CASE AfterAck(e) = "end"
    <3>1. MovesOnly(e, "end") /\ Forgets(e)
      BY <1>6, <2>2, <2>4 DEF LoseAck, MovesOnly, Forgets
    <3> QED
      BY <2>1, <3>1, EndMove
  <2> QED
    BY <2>3, <2>4 DEF AfterAck
<1>7. CASE LoseLoadAck(e)
  <2>1. MovesOnly(e, "end") /\ Forgets(e) /\ pc[e] \in Answered
    BY <1>7 DEF LoseLoadAck, MovesOnly, Forgets, Answered, Loading
  <2> QED
    BY <2>1, EndMove
<1> QED
  BY <1>1, <1>2, <1>3, <1>4, <1>5, <1>6, <1>7

LEMMA FinalizeKeepsGateInv ==
    ASSUME TypeOK, GateInv, NEW e \in Events, FinalizeEvent(e) \/ FinalizeLoad(e)
    PROVE  GateInv'
<1> USE DEF EventStep, Keep, Settle, actorVars, sourceVars, pickerVars, Moves
<1>1. CASE FinalizeEvent(e)
  <2>1. AcksShrink
    BY <1>1 DEF FinalizeEvent, AcksShrink, TypeOK, EventType
  <2>2. pc[e] \in {"acking", "end"} \cup Loading
    BY <1>1 DEF FinalizeEvent, GateInv, EffectInv, EffectOf
  <2>3. CASE SameWaits /\ inFlight' = inFlight
    <3>0. pc[e] \in Answered \cup {"end"}
      BY <2>2 DEF Answered
    <3>1. CASE pc[e] \in Loading
      <4>1. MovesOnly(e, pc[e]) /\ UNCHANGED <<effect, target>>
        BY <1>1, <2>1, <2>3, <3>1 DEF FinalizeEvent, MovesOnly, Loading
      <4> QED
        BY <4>1, QuietMove
    <3>2. CASE pc[e] = "end" \/ (pc[e] = "acking" /\ AfterAck(e) = "end")
      <4>1. MovesOnly(e, "end") /\ Forgets(e)
        BY <1>1, <2>1, <2>3, <3>2 DEF FinalizeEvent, MovesOnly, Forgets
      <4> QED
        BY <3>0, <4>1, EndMove
    <3>3. CASE pc[e] = "acking" /\ AfterAck(e) # "end"
      <4>1. AfterAck(e) = "loading" /\ Reloads(e)
        BY <3>3 DEF AfterAck
      <4>2. MovesOnly(e, "loading") /\ UNCHANGED <<effect, target>>
        BY <1>1, <2>1, <2>3, <3>3, <4>1 DEF FinalizeEvent, MovesOnly
      <4> QED
        BY <3>3, <4>1, <4>2, QuietMove
    <3> QED
      BY <2>2, <3>1, <3>2, <3>3
  <2>4. CASE /\ e \in Reserved /\ pendingEvents[e].generation = 0
             /\ pendingEvents' = [f \in Reserved \ {e} |-> pendingEvents[f]]
             /\ inFlight' = released
    <3>1. initialGeneration # 0 /\ generation # 0
      BY <2>2 DEF GateInv, LaunchInv, Loading
    <3>2. pc[e] \in Answered => ~Reloads(e)
      BY <2>4, <3>1 DEF GateInv, ReservedInv, ReservedOf, EffectInv, EffectOf, Reloads
    <3>3. pc[e] = "end" \/ (pc[e] = "acking" /\ AfterAck(e) = "end")
      BY <2>2, <3>2 DEF GateInv, EffectInv, EffectOf, Answered, AfterAck
    <3>4. Moves(e, "end") /\ Forgets(e)
      BY <1>1, <3>3 DEF FinalizeEvent, Forgets
    <3>5. Reserved' = Reserved \ {e}
      BY <2>4 DEF Reserved
    <3>6. UNCHANGED <<eventCancels, terminal, active, generation, building, shown>>
      BY <1>1 DEF FinalizeEvent
    <3> QED
      BY <2>1, <2>4, <3>4, <3>5, <3>6, ReleaseMove
  <2>5. CASE /\ e \in Reserved /\ inFlight' = inFlight
             /\ pendingEvents' = [pendingEvents EXCEPT ![e].finalized = TRUE]
    <3>1. pendingEvents[e] \in Reservations
      BY <2>5 DEF TypeOK, GateType
    <3>2. [pendingEvents[e] EXCEPT !.finalized = TRUE].generation = pendingEvents[e].generation
      BY <3>1 DEF Reservations
    <3>3. SameWaits
      BY <2>5, <3>2 DEF SameWaits, Reserved
    <3> QED
      BY <2>3, <2>5, <3>3
  <2>6. UNCHANGED pendingEvents => SameWaits
    BY DEF SameWaits, Reserved
  <2> QED
    BY <1>1, <2>3, <2>4, <2>5, <2>6 DEF FinalizeEvent, Unfinalized
<1>2. CASE FinalizeLoad(e)
  <2>1. AcksShrink
    BY <1>2 DEF FinalizeLoad, AcksShrink
  <2>2. pc[e] \in Answered /\ Forgets(e) /\ Moves(e, "end")
    BY <1>2 DEF FinalizeLoad, Forgets, Answered, Loading
  <2>3. CASE UNCHANGED <<pendingEvents, inFlight>>
    <3>1. MovesOnly(e, "end")
      BY <1>2, <2>1, <2>3 DEF FinalizeLoad, MovesOnly, SameWaits, Reserved
    <3> QED
      BY <2>2, <3>1, EndMove
  <2>4. CASE /\ Finalized(e) /\ pc[e] = "written"
             /\ pendingEvents' = [f \in Reserved \ {e} |-> pendingEvents[f]]
             /\ inFlight' = released
    <3>1. e \in Reserved /\ shown = generation
      BY <2>4 DEF Finalized, GateInv, ReservedInv, ReservedOf
    <3>2. Reserved' = Reserved \ {e}
      BY <2>4 DEF Reserved
    <3>3. UNCHANGED <<eventCancels, terminal, active, generation, building, shown>>
      BY <1>2 DEF FinalizeLoad
    <3> QED
      BY <2>1, <2>2, <2>4, <3>1, <3>2, <3>3, ReleaseMove
  <2> QED
    BY <1>2, <2>3, <2>4 DEF FinalizeLoad
<1> QED
  BY <1>1, <1>2

(* What fzf is given: the action, and the load. *)
LEMMA DispatchKeepsGateInv ==
    ASSUME TypeOK, GateInv, NEW e \in Events, dispatchEvent(e) \/ dispatchLoad(e)
    PROVE  GateInv'
<1> USE DEF EventStep, gateVars, actorVars, sourceVars, pickerVars, Moves
<1>1. /\ pc'[e] \in {"acking", "written", "loadFailed"}
      /\ pc'[e] = "acking" <=> pc[e] = "answered"
      /\ pc'[e] = "acking" \/ pc[e] = "loaded"
      /\ \A f \in Events : f # e => pc'[f] = pc[f]
      /\ Moves(e, pc'[e])
  BY DEF dispatchEvent, dispatchLoad, TypeOK, EventType
<1>2. /\ UNCHANGED <<eventCancels, pendingEvents, inFlight, terminal, active, generation, building,
                     effect, target>>
      /\ UNCHANGED shown \/ (pc[e] = "answered" /\ shown' = 0) \/ (pc[e] = "loaded" /\ shown' = target[e])
      /\ pc'[e] = "written" => shown' = target[e]
  BY DEF dispatchEvent, dispatchLoad, TypeOK, EventType
<1>3. \A f \in Events : ack'[f] = ack[f] \/ (f = e /\ pc'[e] = "acking")
  BY DEF dispatchEvent, dispatchLoad, TypeOK, EventType
<1>4. /\ pc[e] \in Answered /\ pc'[e] \in Answered /\ pc[e] # "idle"
      /\ pc'[e] # "acking" => pc[e] \in Loading
  BY <1>1 DEF Answered, Loading
<1>5. target[e] = generation /\ initialGeneration # 0
  BY <1>4 DEF GateInv, EffectInv, EffectOf, LaunchInv
<1>6. HandlerInv'
  BY <1>1, <1>2 DEF GateInv, HandlerInv, Handling
<1>7. CommitInv' /\ HeldInv' /\ AnsweredInv'
  BY <1>1, <1>2, <1>4 DEF GateInv, CommitInv, HeldInv, AnsweredInv, Reserved
<1>8. BuildingInv' /\ LaunchInv'
  BY <1>1, <1>2, <1>5 DEF GateInv, BuildingInv, LaunchInv
<1>9. EffectInv'
  BY <1>1, <1>2, <1>3, <1>4 DEF GateInv, EffectInv, EffectOf, Reloads, Answered, Loading, Fresh
<1>10. ReservedInv'
  <2>1. \A f \in Reserved : pc[f] = "written" => pc[e] = "loaded" \/ shown' = shown
    BY <1>1, <1>2, <1>4 DEF GateInv, HeldInv, AnsweredInv
  <2> QED
    BY <1>1, <1>2, <1>4, <1>5, <2>1 DEF GateInv, ReservedInv, ReservedOf, Reloads, Reserved, TypeOK, GateType
<1>11. AcceptInv'
  BY <1>1, <1>2, <1>4 DEF GateInv, AcceptInv, Accepted, Reserved
<1>12. ViewInv' /\ BaseInv'
  BY <1>1, <1>2, <1>4, <1>5 DEF GateInv, ViewInv, BaseInv, Reloading, Accepted, Reserved, Answered, Loading
<1> QED
  BY <1>6, <1>7, <1>8, <1>9, <1>10, <1>11, <1>12 DEF GateInv

LEMMA ReserveKeepsGateInv ==
    ASSUME TypeOK, GateInv, NEW e \in Events, reserveEvent(e)
    PROVE  GateInv'
<1> USE DEF EventStep, actorVars, sourceVars, pickerVars, Moves, Reserved
<1>1. CASE eventCancels' = eventCancels /\ inFlight' = inFlight /\ EventStep(e, "refused")
  <2>1. MovesOnly(e, "refused") /\ UNCHANGED <<effect, target>> /\ pc[e] = "waiting"
    BY <1>1 DEF reserveEvent, MovesOnly, SameWaits, AcksShrink
  <2> QED
    BY <2>1, QuietMove
<1>2. CASE /\ ~terminal /\ ~committing /\ inFlight = 0
           /\ eventCancels' = eventCancels \cup {e}
           /\ inFlight' = inFlight + 1
           /\ EventStep(e, "handling")
  <2>1. pc[e] = "waiting" /\ pc'[e] = "handling" /\ \A f \in Events : f # e => pc'[f] = pc[f]
    BY <1>2, MovedState DEF reserveEvent
  <2>2. /\ UNCHANGED <<pendingEvents, terminal, active, generation, building, shown, effect, target,
                       ack, committing, initialGeneration, source, picker, commitBase, published>>
        /\ eventCancels = {} /\ Reserved = {} /\ eventCancels' = {e} /\ inFlight' = 1
    BY <1>2 DEF reserveEvent, GateInv, HeldInv
  <2>3. \A f \in Events : pc[f] \notin Answered /\ ~Accepted(f)
    BY <1>2, <2>2 DEF GateInv, AnsweredInv, AcceptInv
  <2>4. HandlerInv' /\ CommitInv' /\ HeldInv' /\ ReservedInv'
    BY <1>2, <2>1, <2>2 DEF GateInv, HandlerInv, CommitInv, HeldInv, Handling, ReservedInv
  <2>5. AnsweredInv' /\ AcceptInv'
    BY <2>1, <2>2, <2>3 DEF AnsweredInv, AcceptInv, Accepted, Answered, Loading
  <2>6. BuildingInv' /\ LaunchInv' /\ EffectInv'
    BY <2>1, <2>2 DEF GateInv, BuildingInv, LaunchInv, EffectInv, EffectOf, Reloads, Answered, Loading, Fresh
  <2>7. ViewInv' /\ BaseInv'
    BY <1>2, <2>1, <2>2 DEF GateInv, ViewInv, BaseInv, Reloading
  <2> QED
    BY <2>4, <2>5, <2>6, <2>7 DEF GateInv
<1> QED
  BY <1>1, <1>2 DEF reserveEvent

(* Inside the actor: nobody else holds the gate, and fzf shows what the    *)
(* actor has until the event itself has built something.                   *)
LEMMA AloneInActor ==
    ASSUME TypeOK, GateInv, NEW e \in Events, pc[e] \in Handling
    PROVE  /\ eventCancels = {e} /\ Reserved = {} /\ inFlight = 1 /\ ~committing
           /\ source \notin Committing /\ initialGeneration # 0 /\ generation # 0
           /\ \A f \in Events : f # e => pc[f] \notin Handling
           /\ \A f \in Events : pc[f] \notin Answered /\ ~Accepted(f)
           /\ Reloading(e) \/ shown \in {0, generation}
<1>1. /\ eventCancels = {e} /\ Reserved = {} /\ inFlight = 1 /\ ~committing
  BY DEF GateInv, HeldInv, HandlerInv
<1>2. source \notin Committing /\ initialGeneration # 0 /\ generation # 0
  BY <1>1 DEF GateInv, CommitInv, LaunchInv, Handling
<1>3. \A f \in Events : f # e => pc[f] \notin Handling
  BY <1>1 DEF GateInv, HandlerInv
<1>4. \A f \in Events : pc[f] \notin Answered /\ ~Accepted(f)
  BY <1>1 DEF GateInv, AnsweredInv, AcceptInv
<1>5. Reloading(e) \/ shown \in {0, generation}
  BY <1>1, <1>2, <1>3 DEF GateInv, ViewInv, Reloading, Handling, Committing
<1> QED
  BY <1>1, <1>2, <1>3, <1>4, <1>5

LEMMA ActorKeepsGateInv ==
    ASSUME TypeOK, GateInv, NEW e \in Events, Handle(e) \/ BuildEnds(e) \/ suppressActiveRestore(e)
    PROVE  GateInv'
<1> USE DEF EventStep, gateVars, actorVars, sourceVars, pickerVars, Moves
<1>1. /\ pc[e] \in {"handling", "building", "handled"} /\ pc'[e] \in {"building", "handled", "suppressed"}
      /\ pc[e] = "handled" <=> pc'[e] = "suppressed"
      /\ pc[e] = "building" => pc'[e] = "handled"
      /\ \A f \in Events : f # e => pc'[f] = pc[f]
  BY DEF Handle, BuildEnds, suppressActiveRestore, TypeOK, EventType
<1>2. UNCHANGED <<eventCancels, pendingEvents, inFlight, terminal, active, shown, ack,
                  committing, initialGeneration, source, picker, commitBase, published>>
  BY DEF Handle, BuildEnds, suppressActiveRestore
<1>3. /\ \A f \in Events : f # e => effect'[f] = effect[f] /\ target'[f] = target[f]
      /\ pc'[e] = "building" => effect'[e] = effect[e]
  BY DEF Handle, BuildEnds, suppressActiveRestore, TypeOK, EventType
<1>b. \/ building' = e /\ pc'[e] = "building"
      \/ building' = NoEvent
      \/ building' = building /\ pc[e] # "building"
  BY DEF Handle, BuildEnds, suppressActiveRestore, TypeOK, EventType
<1>4. \/ UNCHANGED generation
      \/ generation' = generation + 1 /\ pc[e] = "building" /\ effect'[e] = "reload" /\ target'[e] = generation'
  BY DEF Handle, BuildEnds, suppressActiveRestore, TypeOK, EventType
<1>5. pc'[e] # "building" => effect'[e] = "error" \/ target'[e] = generation'
  BY DEF Handle, BuildEnds, suppressActiveRestore, TypeOK, EventType, GateInv, EffectInv, EffectOf
<1>6. pc[e] = "handled" => (effect[e] = "reload" <=> effect'[e] = "reload")
  BY DEF Handle, BuildEnds, suppressActiveRestore, TypeOK, EventType
<1>7. /\ eventCancels = {e} /\ Reserved = {} /\ inFlight = 1 /\ ~committing
      /\ source \notin Committing /\ initialGeneration # 0 /\ generation # 0
      /\ \A f \in Events : f # e => pc[f] \notin Handling
      /\ \A f \in Events : pc[f] \notin Answered /\ ~Accepted(f)
      /\ Reloading(e) \/ shown \in {0, generation}
  BY <1>1, AloneInActor DEF Handling
<1>8. generation \in Nat /\ generation' # 0
  BY <1>4, <1>7 DEF TypeOK, ThreadType, Generations
<1>9. HandlerInv' /\ CommitInv' /\ HeldInv' /\ ReservedInv'
  BY <1>1, <1>2, <1>7 DEF GateInv, HandlerInv, CommitInv, HeldInv, Handling, ReservedInv, Reserved
<1>10. AnsweredInv' /\ AcceptInv'
  BY <1>1, <1>2, <1>3, <1>7 DEF AnsweredInv, AcceptInv, Accepted, Answered, Loading
<1>11. BuildingInv'
  BY <1>1, <1>b DEF GateInv, BuildingInv
<1>12. LaunchInv'
  BY <1>1, <1>2, <1>7, <1>8 DEF GateInv, LaunchInv
<1>13. EffectInv'
  BY <1>1, <1>2, <1>3, <1>5, <1>7 DEF GateInv, EffectInv, EffectOf, Reloads, Answered, Loading, Fresh, Handling
<1>14. ViewInv'
  <2>1. CASE effect'[e] = "reload" /\ pc'[e] # "building"
    BY <1>1, <2>1 DEF ViewInv, Reloading
  <2>2. CASE ~(effect'[e] = "reload" /\ pc'[e] # "building")
    <3>1. generation' = generation /\ ~Reloading(e)
      BY <1>1, <1>4, <1>6, <2>2 DEF Reloading
    <3> QED
      BY <1>2, <1>7, <3>1 DEF ViewInv
  <2> QED
    BY <2>1, <2>2
<1>15. BaseInv'
  <2>1. \A f \in Events : Reloading(f) => f = e /\ pc[e] = "handled" /\ effect[e] = "reload"
    BY <1>1, <1>7 DEF Reloading, Handling
  <2>2. \/ generation' = generation /\ ~Reloading(e)
        \/ pc'[e] \in {"handled", "suppressed"} /\ effect'[e] = "reload"
    BY <1>1, <1>4, <1>6 DEF Reloading
  <2> QED
    BY <1>2, <1>7, <2>1, <2>2 DEF GateInv, BaseInv, Reloading, Committing
<1> QED
  BY <1>9, <1>10, <1>11, <1>12, <1>13, <1>14, <1>15 DEF GateInv

(* resolveEvent turns the handler's hold on the gate into a reservation.   *)
LEMMA ResolveKeepsGateInv ==
    ASSUME TypeOK, GateInv, NEW e \in Events, resolveEvent(e)
    PROVE  GateInv'
<1> USE DEF EventStep, actorVars, sourceVars, pickerVars, Moves
<1>1. /\ pc[e] = "suppressed"
      /\ pc'[e] \in {"refused", "resolved", "stopSource"}
      /\ \A f \in Events : f # e => pc'[f] = pc[f]
      /\ UNCHANGED <<generation, building, shown, ack, committing, initialGeneration, source,
                     picker, commitBase, published>>
  BY DEF resolveEvent, Settle, TypeOK, EventType
<1>2. /\ eventCancels = {e} /\ Reserved = {} /\ inFlight = 1 /\ ~committing
      /\ source \notin Committing /\ initialGeneration # 0 /\ generation # 0
      /\ \A f \in Events : f # e => pc[f] \notin Handling
      /\ \A f \in Events : pc[f] \notin Answered /\ ~Accepted(f)
      /\ Reloading(e) \/ shown \in {0, generation}
  BY <1>1, AloneInActor DEF Handling
<1>3. eventCancels' = {}
  BY <1>2 DEF resolveEvent
<1>4. HandlerInv' /\ CommitInv' /\ BuildingInv' /\ LaunchInv'
  BY <1>1, <1>2, <1>3 DEF GateInv, HandlerInv, CommitInv, BuildingInv, LaunchInv, Handling
<1>5. /\ \A f \in Events : f # e => effect'[f] = effect[f] /\ target'[f] = target[f]
      /\ pc'[e] # "refused" => UNCHANGED <<effect, target>>
  BY DEF resolveEvent, Settle, TypeOK, EventType
<1>6. pc'[e] # "refused" => effect[e] # "error" /\ target[e] = generation
  <2>1. pc'[e] # "refused" => effect[e] # "error"
    BY DEF resolveEvent, Settle, TypeOK, EventType
  <2> QED
    BY <1>1, <2>1 DEF GateInv, EffectInv, EffectOf
<1>7. EffectInv'
  BY <1>1, <1>2, <1>5, <1>6 DEF GateInv, EffectInv, EffectOf, Reloads, Answered, Loading, Fresh
<1>8. CASE effect[e] = "error" \/ terminal
  <2>1. /\ UNCHANGED <<active, terminal, pendingEvents>> /\ inFlight' = 0
        /\ pc'[e] # "refused" => terminal
    BY <1>2, <1>8 DEF resolveEvent, released, Settle, TypeOK, EventType
  <2>2. HeldInv' /\ AnsweredInv' /\ ReservedInv'
    BY <1>1, <1>2, <1>3, <2>1 DEF HeldInv, AnsweredInv, ReservedInv, Reserved, Answered, Loading
  <2>3. AcceptInv'
    BY <1>1, <1>2, <1>3, <1>5, <2>1 DEF AcceptInv, Accepted, Answered, Loading, Reserved
  <2>4. effect[e] = "terminal" \/ effect[e] = "error" => shown \in {0, generation}
    BY <1>2 DEF Reloading
  <2>5. ViewInv'
    BY <1>1, <1>2, <1>3, <1>5, <1>8, <2>1, <2>4 DEF ViewInv, Accepted, Answered, Loading, Reloading
  <2>6. BaseInv'
    BY <1>1, <1>2, <1>8, <2>1 DEF GateInv, BaseInv, Reloading, Committing, Handling
  <2> QED
    BY <1>4, <1>7, <2>2, <2>3, <2>5, <2>6 DEF GateInv
<1>9. CASE effect[e] # "error" /\ ~terminal
  <2>1. /\ pendingEvents' = [f \in Reserved \cup {e} |-> IF f = e THEN Reservation(e) ELSE pendingEvents[f]]
        /\ terminal' = (effect[e] = "terminal") /\ UNCHANGED inFlight
        /\ UNCHANGED active \/ active' = FALSE
        /\ effect[e] = "reload" => active' = FALSE
        /\ pc'[e] # "refused"
    BY <1>9 DEF resolveEvent, Settle, DiscardInitial, deactivateLocked, Deactivates, navigation, TypeOK,
          EventType, GateType
  <2>2. Reserved' = {e} /\ pendingEvents'[e] = Reservation(e)
    BY <1>2, <2>1 DEF Reserved
  <2>3. pendingEvents'[e].generation = IF Reloads(e) THEN generation ELSE 0
    BY <1>6, <2>1, <2>2 DEF Reservation, Reloads, navigation
  <2>4. HeldInv' /\ AnsweredInv'
    BY <1>1, <1>2, <1>3, <2>1, <2>2 DEF HeldInv, AnsweredInv, Answered, Loading
  <2>5. ReservedInv'
    BY <1>1, <1>5, <1>6, <2>1, <2>2, <2>3 DEF ReservedInv, ReservedOf, Reloads, Answered
  <2>6. AcceptInv'
    BY <1>1, <1>2, <1>3, <1>5, <2>1, <2>2, <2>3 DEF AcceptInv, Accepted, Reloads, Answered, Loading
  <2>7. ViewInv'
    BY <1>1, <1>2, <2>2, <2>3 DEF ViewInv, Reloading, Reloads
  <2>8. BaseInv'
    BY <1>1, <1>2, <1>9, <2>1 DEF GateInv, BaseInv, Reloading, Committing, Handling
  <2> QED
    BY <1>4, <1>7, <2>4, <2>5, <2>6, <2>7, <2>8 DEF GateInv
<1> QED
  BY <1>8, <1>9

-----------------------------------------------------------------------------
(* The causes                                                              *)

LEMMA RealTypes ==
    /\ {} \in SUBSET RealCauses
    /\ \A c \in {"canceled", "parent", "source", "callback", "picker"} : {c} \in SUBSET RealCauses
    /\ parentCause \in SUBSET RealCauses
    /\ NotFinishing \in RealFinishes
    /\ \A c \in SUBSET RealCauses : [step |-> "close", cause |-> c] \in RealFinishes
    /\ \A r \in RealFinishes :
          /\ r.cause \in SUBSET RealCauses
          /\ [r EXCEPT !.step = "cancel"] \in RealFinishes
          /\ [r EXCEPT !.step = "fail"] \in RealFinishes
          /\ [r EXCEPT !.step = "closeInput"] \in RealFinishes
          /\ \A c \in SUBSET RealCauses : [r EXCEPT !.cause = c] \in RealFinishes
BY DEF RealCauses, Causes, RealFinishes, NotFinishing, parentCause

LEMMA DeactivatedCauses ==
    ASSUME CauseInv, NEW c \in SUBSET RealCauses, deactivateLocked(c)
    PROVE  terminalErr' \in SUBSET RealCauses
BY RealTypes DEF CauseInv, deactivateLocked

LEMMA FinishedCauses ==
    ASSUME CauseInv, NEW t \in Threads, terminalErr' \in SUBSET RealCauses, finish(t)
    PROVE  finishing' \in [Threads -> RealFinishes]
BY RealTypes DEF CauseInv, finish

LEMMA StoppedCauses ==
    ASSUME CauseInv, NEW t \in Threads, NEW c \in SUBSET RealCauses,
           deactivateLocked(c), finish(t)
    PROVE  terminalErr' \in SUBSET RealCauses /\ finishing' \in [Threads -> RealFinishes]
BY DeactivatedCauses, FinishedCauses

LEMMA CancelledCauses ==
    ASSUME CauseInv, NEW c \in SUBSET RealCauses, cancelSource(c)
    PROVE  cancelledWith' \in SUBSET RealCauses
BY RealTypes DEF CauseInv, cancelSource

LEMMA OutsideCauses ==
    ASSUME TypeOK, GateInv, CauseInv, OutsideAction
    PROVE  CauseInv'
<1> USE RealTypes DEF gateVars, streamVars, ctxVars, actorVars, sourceVars, pickerVars, eventVars,
            RunStep, CommitStep, KeepGate, Stop, Terminalize, finishSource
<1>t. {"source", "picker", "parent"} \subseteq Threads
  BY DEF Threads
<1>1. CASE LoadInitialZoxide
  <2>1. sourceErr' \in SUBSET RealCauses
    BY <1>1 DEF LoadInitialZoxide, CauseInv
  <2>2. terminalErr' \in SUBSET RealCauses /\ finishing' \in [Threads -> RealFinishes]
    <3>1. CASE KeepGate
      BY <3>1 DEF CauseInv
    <3>2. CASE finishSource(sourceErr')
      BY <1>t, <2>1, <3>2, StoppedCauses, DeactivatedCauses DEF CauseInv
    <3>3. CASE Stop("source", {"parent"})
      BY <1>t, <3>3, StoppedCauses
    <3> QED
      BY <1>1, <3>1, <3>2, <3>3 DEF LoadInitialZoxide
  <2> QED
    BY <1>1, <2>1, <2>2 DEF LoadInitialZoxide, CauseInv
<1>2. CASE waitForActivation \/ isActive \/ retainInterruptedSourceError \/ Activated
  <2>1. CASE KeepGate
    BY <1>2, <2>1 DEF waitForActivation, isActive, retainInterruptedSourceError, Activated, CauseInv
  <2>2. CASE finishSource(sourceErr)
    <3>1. terminalErr' \in SUBSET RealCauses /\ finishing' \in [Threads -> RealFinishes]
      BY <1>t, <2>2, StoppedCauses, DeactivatedCauses DEF CauseInv
    <3> QED
      BY <1>2, <3>1 DEF waitForActivation, isActive, retainInterruptedSourceError, Activated, CauseInv
  <2>3. CASE Stop("source", {"parent"})
    <3>1. terminalErr' \in SUBSET RealCauses /\ finishing' \in [Threads -> RealFinishes]
      BY <1>t, <2>3, StoppedCauses
    <3> QED
      BY <1>2, <3>1 DEF waitForActivation, isActive, retainInterruptedSourceError, Activated, CauseInv
  <2> QED
    BY <1>2, <2>1, <2>2, <2>3 DEF waitForActivation, isActive, retainInterruptedSourceError, Activated
<1>3. CASE beginCommit
  <2>1. CASE Stop("source", {"parent"})
    <3>1. terminalErr' \in SUBSET RealCauses /\ finishing' \in [Threads -> RealFinishes]
      BY <1>t, <2>1, StoppedCauses
    <3> QED
      BY <1>3, <3>1 DEF beginCommit, CauseInv
  <2>2. CASE UNCHANGED <<terminalErr, finishing>>
    BY <1>3, <2>2 DEF beginCommit, CauseInv
  <2> QED
    BY <1>3, <2>1, <2>2 DEF beginCommit
<1>4. CASE Snapshot \/ AppendAfter \/ publish \/ Expose
  BY <1>4 DEF Snapshot, AppendAfter, publish, Expose, CauseInv
<1>5. CASE Enrich
  <2>1. committing /\ source = "enriching"
    BY <1>5 DEF Enrich, GateInv, CommitInv, Committing
  <2>2. building = NoEvent /\ generation = commitBase
    BY <2>1 DEF GateInv, HeldInv, HandlerInv, BuildingInv, Handling, BaseInv
  <2>3. enrichError \in SUBSET RealCauses
    BY <2>2 DEF enrichError, CauseInv
  <2> QED
    BY <1>5, <2>3 DEF Enrich, CauseInv
<1>6. CASE finishCommit
  <2>1. terminalErr' \in SUBSET RealCauses
    BY <1>6, DeactivatedCauses DEF finishCommit, CauseInv
  <2>2. finishing' \in [Threads -> RealFinishes]
    BY <1>6, <1>t, <2>1, FinishedCauses DEF finishCommit, CauseInv
  <2> QED
    BY <1>6, <2>1, <2>2 DEF finishCommit, CauseInv
<1>7. CASE emitSourceTerminal \/ BuildInitial \/ PublishInitial \/ Activate \/ FzfExits \/ Wait
  BY <1>7 DEF emitSourceTerminal, BuildInitial, PublishInitial, Activate, FzfExits, Wait, CauseInv
<1>8. CASE CleanupStop
  <2>1. PICK cause \in {{}, {"picker"}} : Stop("picker", cause)
    BY <1>8 DEF CleanupStop
  <2>2. terminalErr' \in SUBSET RealCauses /\ finishing' \in [Threads -> RealFinishes]
    BY <1>t, <2>1, StoppedCauses
  <2> QED
    BY <1>8, <2>2 DEF CleanupStop, CauseInv
<1>9. CASE ParentEnds
  BY <1>9 DEF ParentEnds, CauseInv
<1>10. CASE ParentStops
  <2>1. terminalErr' \in SUBSET RealCauses /\ finishing' \in [Threads -> RealFinishes]
    BY <1>t, <1>10, StoppedCauses DEF ParentStops
  <2> QED
    BY <1>10, <2>1 DEF ParentStops, CauseInv
<1>11. CASE \E t \in Threads : FinishStep(t)
  <2>1. PICK t \in Threads : CloseInput(t) \/ FinishCancel(t)
    BY <1>11 DEF FinishStep
  <2>2. finishing[t] \in RealFinishes /\ finishing[t].cause \in SUBSET RealCauses
    BY DEF CauseInv
  <2>3. finishing' \in [Threads -> RealFinishes]
    BY <2>1, <2>2 DEF CloseInput, FinishCancel, CauseInv
  <2>4. cancelledWith' \in SUBSET RealCauses
    BY <2>1, <2>2, CancelledCauses DEF CloseInput, FinishCancel, CauseInv
  <2> QED
    BY <2>1, <2>3, <2>4 DEF CloseInput, FinishCancel, CauseInv
<1>12. CASE \E e \in Events : failCallbackApplication(e)
  <2>1. PICK e \in Events : failCallbackApplication(e)
    BY <1>12
  <2>2. terminalErr' \in SUBSET RealCauses /\ finishing' \in [Threads -> RealFinishes]
    BY <2>1, StoppedCauses DEF failCallbackApplication, Threads
  <2> QED
    BY <2>1, <2>2 DEF failCallbackApplication, CauseInv
<1> QED
  BY <1>1, <1>2, <1>3, <1>4, <1>5, <1>6, <1>7, <1>8, <1>9, <1>10, <1>11, <1>12
  DEF OutsideAction, SourceStep, PickerStep

LEMMA EventCauses ==
    ASSUME TypeOK, CauseInv, NEW e \in Events, EventAction(e)
    PROVE  CauseInv'
<1> USE RealTypes DEF EventStep, Keep, Settle, gateVars, actorVars, sourceVars, pickerVars
<1>1. CASE \/ Arrive(e) \/ CallerGone(e) \/ reserveEvent(e) \/ Handle(e) \/ BuildEnds(e)
           \/ suppressActiveRestore(e) \/ LoseAck(e) \/ LoadTimeout(e) \/ LoseLoadAck(e)
  BY <1>1 DEF Arrive, CallerGone, reserveEvent, Handle, BuildEnds, suppressActiveRestore, LoseAck,
        LoadTimeout, LoseLoadAck, CauseInv
<1>2. CASE CallbackStep(e)
  BY <1>2 DEF CallbackStep, dispatchEvent, ValidateLoad, LoadSnapshot, BeginLoad, dispatchLoad, CauseInv
<1>3. CASE FinalizeEvent(e) \/ FinalizeLoad(e)
  <2>1. e \in Threads /\ finishing[e] \in RealFinishes
    BY DEF CauseInv, Threads
  <2>2. finishing' \in [Threads -> RealFinishes]
    <3>1. \/ finishing' = finishing
          \/ finishing' = [finishing EXCEPT ![e].step = "fail"]
          \/ finishing' = [finishing EXCEPT ![e].step = "closeInput"]
      BY <1>3 DEF FinalizeEvent, FinalizeLoad
    <3> QED
      BY <2>1, <3>1 DEF CauseInv
  <2> QED
    BY <1>3, <2>2 DEF FinalizeEvent, FinalizeLoad, CauseInv
<1>4. CASE resolveEvent(e)
  <2>1. e \in Threads /\ finishing[e] \in RealFinishes
    BY DEF CauseInv, Threads
  <2>2. terminalErr' \in SUBSET RealCauses
    BY <1>4, DeactivatedCauses DEF resolveEvent, DiscardInitial, CauseInv
  <2>3. finishing' \in [Threads -> RealFinishes]
    <3>1. finishing' = finishing \/ finishing' = [finishing EXCEPT ![e].cause = terminalErr']
      BY <1>4 DEF resolveEvent
    <3>2. [finishing[e] EXCEPT !.cause = terminalErr'] \in RealFinishes
      BY <2>1, <2>2
    <3> QED
      BY <3>1, <3>2 DEF CauseInv
  <2> QED
    BY <1>4, <2>2, <2>3 DEF resolveEvent, CauseInv
<1>5. CASE answerEvent(e)
  <2>1. e \in Threads /\ finishing[e].cause \in SUBSET RealCauses
    BY DEF CauseInv, Threads
  <2>2. finishing' \in [Threads -> RealFinishes]
    BY <1>5 DEF answerEvent, CauseInv
  <2>3. cancelledWith' \in SUBSET RealCauses
    BY <1>5, <2>1, CancelledCauses DEF answerEvent, CauseInv
  <2> QED
    BY <1>5, <2>2, <2>3 DEF answerEvent, CauseInv
<1> QED
  BY <1>1, <1>2, <1>3, <1>4, <1>5 DEF EventAction

-----------------------------------------------------------------------------
(* The generations are bounded                                             *)

LEMMA BuiltBound ==
    ASSUME NEW S \in SUBSET Events, NEW T \in SUBSET S
    PROVE  /\ Cardinality(S) \in Nat /\ Cardinality(T) \in Nat
           /\ Cardinality(T) <= Cardinality(S) /\ Cardinality(S) <= Cardinality(Events)
           /\ \A e \in S : e \notin T => Cardinality(T) + 1 <= Cardinality(S)
<1>1. IsFiniteSet(Events) /\ IsFiniteSet(S) /\ IsFiniteSet(T)
  BY EventsAssumption, FS_Subset
<1>2. /\ Cardinality(S) \in Nat /\ Cardinality(T) \in Nat
      /\ Cardinality(T) <= Cardinality(S) /\ Cardinality(S) <= Cardinality(Events)
  BY <1>1, FS_Subset, FS_CardinalityType
<1>3. ASSUME NEW e \in S, e \notin T PROVE Cardinality(T) + 1 <= Cardinality(S)
  <2>1. T \cup {e} \in SUBSET S
    BY <1>3
  <2>2. Cardinality(T \cup {e}) = Cardinality(T) + 1
    BY <1>1, <1>3, FS_AddElement
  <2> QED
    BY <1>1, <2>1, <2>2, FS_Subset
<1> QED
  BY <1>2, <1>3

LEMMA EventPath ==
    ASSUME TypeOK, NEW e \in Events, EventAction(e)
    PROVE  /\ \A f \in Events : f # e => pc'[f] = pc[f]
           /\ pc'[e] \in EventSteps
           /\ pc'[e] \in Fresh => pc[e] \in Fresh
           /\ UNCHANGED published
           /\ \/ UNCHANGED generation
              \/ generation' = generation + 1 /\ pc[e] \in Fresh /\ pc'[e] \notin Fresh
<1> USE DEF EventStep, Keep, Settle, gateVars, actorVars, sourceVars, pickerVars, TypeOK, EventType,
            EventSteps, Fresh
<1>1. CASE Arrive(e) \/ CallerGone(e) \/ reserveEvent(e) \/ Handle(e) \/ suppressActiveRestore(e)
  BY <1>1 DEF Arrive, CallerGone, reserveEvent, Handle, suppressActiveRestore
<1>2. CASE BuildEnds(e)
  BY <1>2 DEF BuildEnds
<1>3. CASE resolveEvent(e) \/ answerEvent(e)
  BY <1>3 DEF resolveEvent, answerEvent
<1>4. CASE CallbackStep(e)
  BY <1>4 DEF CallbackStep, dispatchEvent, ValidateLoad, LoadSnapshot, BeginLoad, dispatchLoad
<1>5. CASE FinalizeEvent(e) \/ FinalizeLoad(e)
  BY <1>5 DEF FinalizeEvent, FinalizeLoad, AfterAck
<1>6. CASE LoseAck(e) \/ LoadTimeout(e) \/ LoseLoadAck(e)
  BY <1>6 DEF LoseAck, LoadTimeout, LoseLoadAck, AfterAck
<1> QED
  BY <1>1, <1>2, <1>3, <1>4, <1>5, <1>6 DEF EventAction

LEMMA OutsidePath ==
    ASSUME TypeOK, GateInv, OutsideAction
    PROVE  /\ UNCHANGED pc
           /\ \/ UNCHANGED <<generation, published>>
              \/ generation' = 1 /\ UNCHANGED published
              \/ generation' = generation + 1 /\ ~published /\ published'
<1> USE DEF gateVars, streamVars, ctxVars, actorVars, sourceVars, pickerVars, eventVars, RunStep, CommitStep
<1>1. CASE Calm
  BY <1>1, CalmSteps DEF GateInv, CalmFrame, EventsStay, Unseen
<1>2. CASE BuildInitial \/ PublishInitial \/ Activate
  BY <1>2 DEF BuildInitial, PublishInitial, Activate
<1>3. CASE beginCommit \/ Snapshot \/ AppendAfter \/ publish \/ Expose \/ finishCommit
  BY <1>3 DEF beginCommit, Snapshot, AppendAfter, publish, Expose, finishCommit
<1>4. CASE Enrich
  BY <1>4 DEF Enrich, GateInv, BaseInv
<1> QED
  BY <1>1, <1>2, <1>3, <1>4 DEF OutsideAction, SourceStep, PickerStep, Calm

LEMMA CountStep ==
    ASSUME TypeOK, GateInv, CountInv, OutsideAction \/ (\E e \in Events : EventAction(e))
    PROVE  CountInv' /\ generation' \in Generations
<1>1. /\ Built \in SUBSET Events /\ Built' \in SUBSET Events /\ generation \in Nat
      /\ Cardinality(Events) \in Nat /\ published \in BOOLEAN
  BY EventsAssumption, FS_CardinalityType DEF Built, TypeOK, ThreadType, Generations
<1>2. CountInv' /\ generation' \in Nat
  <2>1. CASE OutsideAction
    <3>1. Built' = Built
      BY <2>1, OutsidePath DEF Built
    <3>2. Cardinality(Built) \in Nat
      BY <1>1, BuiltBound
    <3> QED
      BY <1>1, <2>1, <3>1, <3>2, OutsidePath DEF CountInv
  <2>2. CASE \E e \in Events : EventAction(e)
    <3>1. PICK e \in Events : EventAction(e)
      BY <2>2
    <3>2. Built \in SUBSET Built' /\ (pc[e] \in Fresh /\ pc'[e] \notin Fresh => e \in Built' /\ e \notin Built)
      BY <3>1, EventPath DEF Built
    <3>3. /\ Cardinality(Built') \in Nat /\ Cardinality(Built) \in Nat
          /\ Cardinality(Built) <= Cardinality(Built')
          /\ pc[e] \in Fresh /\ pc'[e] \notin Fresh => Cardinality(Built) + 1 <= Cardinality(Built')
      BY <1>1, <3>2, BuiltBound
    <3>4. \/ generation' = generation
          \/ generation' = generation + 1 /\ Cardinality(Built) + 1 <= Cardinality(Built')
      BY <3>1, <3>3, EventPath
    <3>5. published' = published
      BY <3>1, EventPath
    <3> QED
      BY <1>1, <3>3, <3>4, <3>5 DEF CountInv
  <2> QED
    BY <2>1, <2>2
<1>3. Cardinality(Built') \in Nat /\ Cardinality(Built') <= Cardinality(Events)
  BY <1>1, BuiltBound
<1> QED
  BY <1>1, <1>2, <1>3 DEF CountInv, Generations, MaxGeneration

-----------------------------------------------------------------------------
(* Type correctness                                                        *)

Acks == {"none", "applied", "unapplied"}

LEMMA ReservationTypes ==
    ASSUME TypeOK
    PROVE  /\ NoReservations \in [{} -> Reservations]
           /\ \A e \in Events : Reservation(e) \in Reservations
           /\ \A r \in Reservations : /\ [r EXCEPT !.finalized = TRUE] \in Reservations
                                      /\ [r EXCEPT !.loadRequested = TRUE] \in Reservations
<1>1. 0 \in Generations /\ \A e \in Events : target[e] \in Generations
  BY EventsAssumption, FS_CardinalityType DEF Generations, MaxGeneration, TypeOK, EventType
<1>2. ASSUME NEW e \in Events PROVE Reservation(e) \in Reservations
  BY <1>1, <1>2 DEF Reservation, Reservations, navigation
<1>3. ASSUME NEW r \in Reservations
      PROVE  [r EXCEPT !.finalized = TRUE] \in Reservations /\ [r EXCEPT !.loadRequested = TRUE] \in Reservations
  BY DEF Reservations
<1>4. NoReservations \in [{} -> Reservations]
  BY DEF NoReservations
<1> QED
  BY <1>2, <1>3, <1>4

PendingType == Reserved \subseteq Events /\ pendingEvents \in [Reserved -> Reservations]

LEMMA PendingStep ==
    ASSUME TypeOK, GateInv, OutsideAction \/ (\E e \in Events : EventAction(e))
    PROVE  PendingType'
<1>0. PendingType /\ Reserved = DOMAIN pendingEvents
  BY DEF PendingType, TypeOK, GateType, Reserved
<1>1. CASE UNCHANGED pendingEvents
  BY <1>0, <1>1 DEF PendingType, Reserved
<1>2. CASE pendingEvents' = NoReservations
  BY <1>2, Small, ReservationTypes DEF PendingType, Reserved
<1>3. CASE \E e \in Reserved : pendingEvents' = [f \in Reserved \ {e} |-> pendingEvents[f]]
  BY <1>0, <1>3 DEF PendingType, Reserved
<1>4. CASE \E e \in Events : pendingEvents' = [f \in Reserved \cup {e} |->
                                 IF f = e THEN Reservation(e) ELSE pendingEvents[f]]
  BY <1>0, <1>4, ReservationTypes DEF PendingType, Reserved
<1>5. CASE \E e \in Reserved : \/ pendingEvents' = [pendingEvents EXCEPT ![e].finalized = TRUE]
                               \/ pendingEvents' = [pendingEvents EXCEPT ![e].loadRequested = TRUE]
  <2>1. PICK e \in Reserved : \/ pendingEvents' = [pendingEvents EXCEPT ![e].finalized = TRUE]
                              \/ pendingEvents' = [pendingEvents EXCEPT ![e].loadRequested = TRUE]
    BY <1>5
  <2>2. /\ [pendingEvents[e] EXCEPT !.finalized = TRUE] \in Reservations
        /\ [pendingEvents[e] EXCEPT !.loadRequested = TRUE] \in Reservations
    BY <1>0, ReservationTypes DEF PendingType
  <2> QED
    BY <1>0, <2>1, <2>2 DEF PendingType, Reserved
<1>6. CASE OutsideAction
  <2> USE DEF gateVars, RunStep, CommitStep
  <2>1. CASE Calm
    BY <1>1, <1>2, <2>1, CalmSteps DEF GateInv, CalmFrame, SameReservations, Terminalized
  <2>2. CASE BuildInitial \/ PublishInitial \/ Activate
    BY <1>1, <2>2 DEF BuildInitial, PublishInitial, Activate
  <2>3. CASE beginCommit
    BY <1>1, <1>2, <2>3 DEF beginCommit, Stop, Terminalize
  <2>4. CASE Snapshot \/ AppendAfter \/ publish \/ Enrich \/ Expose \/ finishCommit
    BY <1>1, <2>4 DEF Snapshot, AppendAfter, publish, Enrich, Expose, finishCommit
  <2> QED
    BY <1>6, <2>1, <2>2, <2>3, <2>4 DEF OutsideAction, SourceStep, PickerStep, Calm
<1>7. CASE \E e \in Events : EventAction(e)
  <2> USE DEF Keep, gateVars
  <2>1. PICK e \in Events : EventAction(e)
    BY <1>7
  <2>2. CASE \/ Arrive(e) \/ CallerGone(e) \/ reserveEvent(e) \/ Handle(e) \/ BuildEnds(e)
             \/ suppressActiveRestore(e) \/ answerEvent(e) \/ LoseAck(e) \/ LoadTimeout(e)
             \/ LoseLoadAck(e) \/ dispatchEvent(e) \/ ValidateLoad(e) \/ LoadSnapshot(e) \/ dispatchLoad(e)
    BY <1>1, <2>2 DEF Arrive, CallerGone, reserveEvent, Handle, BuildEnds, suppressActiveRestore,
          answerEvent, LoseAck, LoadTimeout, LoseLoadAck, dispatchEvent, ValidateLoad, LoadSnapshot,
          dispatchLoad
  <2>3. CASE BeginLoad(e)
    BY <1>1, <1>5, <2>3 DEF BeginLoad, validateLoadLocked
  <2>4. CASE FinalizeEvent(e)
    BY <1>1, <1>3, <1>5, <2>4 DEF FinalizeEvent, Unfinalized
  <2>5. CASE FinalizeLoad(e)
    BY <1>1, <1>3, <2>5 DEF FinalizeLoad, Finalized
  <2>6. CASE resolveEvent(e)
    BY <1>1, <1>4, <2>6 DEF resolveEvent
  <2> QED
    BY <2>1, <2>2, <2>3, <2>4, <2>5, <2>6 DEF EventAction, CallbackStep
<1> QED
  BY <1>6, <1>7

(* The variables whose type no other lemma gives. *)
FlagType ==
    /\ active \in BOOLEAN /\ terminal \in BOOLEAN /\ committing \in BOOLEAN
    /\ terminalFinalized \in BOOLEAN /\ discardRequested \in BOOLEAN
    /\ closed \in BOOLEAN /\ locked \in BOOLEAN /\ parentDone \in BOOLEAN
    /\ discarded \in BOOLEAN /\ published \in BOOLEAN
PlainType ==
    /\ initialGeneration \in 0..1 /\ baseGeneration \in Generations
    /\ eventCancels \in SUBSET Events /\ traceOutcome \in Outcomes
    /\ shown \in Generations /\ eventCancelled \in SUBSET Events
    /\ building \in Events \cup {NoEvent} /\ source \in SourceSteps
    /\ commitBase \in Generations /\ emitted \in Outcomes
    /\ picker \in PickerSteps /\ parentStop \in {"armed", "ran", "disarmed"}

LEMMA TypeParts ==
    TypeOK <=> /\ FlagType /\ PlainType /\ EventType /\ PendingType
               /\ inFlight \in 0..1 /\ generation \in Generations
               /\ terminalErr \in SUBSET Causes /\ cancelledWith \in SUBSET Causes
               /\ sourceErr \in SUBSET Causes /\ verdict \in SUBSET Causes
               /\ finishing \in [Threads -> FinishSteps]
BY DEF TypeOK, GateType, ThreadType, EventType, FlagType, PlainType, PendingType

LEMMA OutsideFlags ==
    ASSUME TypeOK, OutsideAction
    PROVE  FlagType'
<1> USE DEF gateVars, streamVars, ctxVars, sourceVars, RunStep, CommitStep, KeepGate, Stop, Terminalize,
            finishSource, deactivateLocked, FlagType
<1>0. FlagType
  BY TypeParts
<1>1. CASE LoadInitialZoxide
  BY <1>0, <1>1 DEF LoadInitialZoxide
<1>2. CASE waitForActivation
  BY <1>0, <1>2 DEF waitForActivation
<1>3. CASE isActive
  BY <1>0, <1>3 DEF isActive
<1>4. CASE retainInterruptedSourceError
  BY <1>0, <1>4 DEF retainInterruptedSourceError
<1>5. CASE Activated
  BY <1>0, <1>5 DEF Activated
<1>6. CASE beginCommit
  BY <1>0, <1>6 DEF beginCommit
<1>7. CASE Snapshot
  BY <1>0, <1>7 DEF Snapshot
<1>8. CASE AppendAfter
  BY <1>0, <1>8 DEF AppendAfter
<1>9. CASE publish
  BY <1>0, <1>9 DEF publish
<1>10. CASE Enrich
  BY <1>0, <1>10 DEF Enrich
<1>11. CASE Expose
  BY <1>0, <1>11 DEF Expose
<1>12. CASE finishCommit
  BY <1>0, <1>12 DEF finishCommit
<1>13. CASE emitSourceTerminal
  BY <1>0, <1>13 DEF emitSourceTerminal
<1>14. CASE BuildInitial
  BY <1>0, <1>14 DEF BuildInitial
<1>15. CASE PublishInitial
  BY <1>0, <1>15 DEF PublishInitial
<1>16. CASE Activate
  BY <1>0, <1>16 DEF Activate
<1>17. CASE CleanupStop
  BY <1>0, <1>17 DEF CleanupStop
<1>18. CASE Wait
  BY <1>0, <1>18 DEF Wait
<1>19. CASE FzfExits
  BY <1>0, <1>19 DEF FzfExits
<1>20. CASE ParentEnds
  BY <1>0, <1>20 DEF ParentEnds
<1>21. CASE ParentStops
  BY <1>0, <1>21 DEF ParentStops
<1>22. CASE \E t \in Threads : FinishStep(t)
  BY <1>0, <1>22 DEF FinishStep, CloseInput, FinishCancel
<1>23. CASE \E e \in Events : failCallbackApplication(e)
  BY <1>0, <1>23 DEF failCallbackApplication
<1> QED
  BY <1>1, <1>2, <1>3, <1>4, <1>5, <1>6, <1>7, <1>8, <1>9, <1>10, <1>11, <1>12, <1>13,
     <1>14, <1>15, <1>16, <1>17, <1>18, <1>19, <1>20, <1>21, <1>22, <1>23
  DEF OutsideAction, SourceStep, PickerStep

LEMMA OutsideTypes ==
    ASSUME TypeOK, GateInv, OutsideAction, generation' \in Generations
    PROVE  PlainType' /\ EventType'
<1> USE DEF gateVars, streamVars, ctxVars, actorVars, sourceVars, pickerVars, eventVars, RunStep,
            CommitStep, KeepGate, Stop, Terminalize, finishSource
<1>0. PlainType /\ generation \in Generations /\ 0 \in Generations
  BY TypeParts, EventsAssumption, FS_CardinalityType DEF Generations, MaxGeneration
<1>1. EventType'
  <2>1. UNCHANGED <<pc, effect, target, ack>>
    <3>1. CASE Calm
      BY <3>1, CalmSteps DEF GateInv, CalmFrame, EventsStay
    <3>2. CASE ~Calm
      BY <3>2 DEF OutsideAction, SourceStep, PickerStep, Calm, BuildInitial, PublishInitial, Activate,
            beginCommit, Snapshot, AppendAfter, publish, Enrich, Expose, finishCommit
    <3> QED
      BY <3>1, <3>2
  <2> QED
    BY <2>1 DEF TypeOK, EventType
<1>2. PlainType'
  <2>1. eventCancelled \cup eventCancels \in SUBSET Events
    BY <1>0 DEF PlainType
  <2>2. CASE LoadInitialZoxide \/ waitForActivation \/ isActive
    BY <1>0, <2>1, <2>2 DEF LoadInitialZoxide, waitForActivation, isActive, PlainType, SourceSteps
  <2>3. CASE retainInterruptedSourceError \/ Activated \/ beginCommit
    BY <1>0, <2>1, <2>3 DEF retainInterruptedSourceError, Activated, beginCommit, PlainType, SourceSteps
  <2>4. CASE Snapshot \/ AppendAfter \/ publish \/ Enrich \/ Expose
    BY <1>0, <2>4 DEF Snapshot, AppendAfter, publish, Enrich, Expose, PlainType, SourceSteps
  <2>5. CASE finishCommit \/ emitSourceTerminal
    BY <1>0, <2>5 DEF finishCommit, emitSourceTerminal, setTraceDecision, lifecycle, PlainType,
          SourceSteps, Outcomes
  <2>6. CASE BuildInitial \/ PublishInitial \/ CleanupStop \/ Wait \/ FzfExits
    BY <1>0, <2>1, <2>6 DEF BuildInitial, PublishInitial, CleanupStop, Wait, FzfExits, PlainType, PickerSteps
  <2>7. CASE Activate
    <3>1. generation = 1
      BY <2>7 DEF Activate, GateInv, LaunchInv
    <3> QED
      BY <1>0, <2>7, <3>1 DEF Activate, PlainType, PickerSteps
  <2>8. CASE ParentEnds \/ ParentStops \/ (\E t \in Threads : FinishStep(t))
             \/ (\E e \in Events : failCallbackApplication(e))
    BY <1>0, <2>1, <2>8 DEF ParentEnds, ParentStops, FinishStep, CloseInput, FinishCancel,
          failCallbackApplication, PlainType
  <2> QED
    BY <2>2, <2>3, <2>4, <2>5, <2>6, <2>7, <2>8 DEF OutsideAction, SourceStep, PickerStep
<1> QED
  BY <1>1, <1>2

LEMMA EventFlags ==
    ASSUME TypeOK, NEW e \in Events, EventAction(e)
    PROVE  FlagType'
<1> USE DEF EventStep, Keep, Settle, gateVars, actorVars, sourceVars, pickerVars, FlagType
<1>0. FlagType
  BY TypeParts
<1>1. CASE resolveEvent(e)
  BY <1>0, <1>1 DEF resolveEvent, DiscardInitial, deactivateLocked
<1>2. CASE Arrive(e)
  BY <1>0, <1>2 DEF Arrive
<1>3. CASE CallerGone(e)
  BY <1>0, <1>3 DEF CallerGone
<1>4. CASE reserveEvent(e)
  BY <1>0, <1>4 DEF reserveEvent
<1>5. CASE Handle(e)
  BY <1>0, <1>5 DEF Handle
<1>6. CASE BuildEnds(e)
  BY <1>0, <1>6 DEF BuildEnds
<1>7. CASE suppressActiveRestore(e)
  BY <1>0, <1>7 DEF suppressActiveRestore
<1>8. CASE answerEvent(e)
  BY <1>0, <1>8 DEF answerEvent
<1>9. CASE dispatchEvent(e)
  BY <1>0, <1>9 DEF dispatchEvent
<1>10. CASE ValidateLoad(e)
  BY <1>0, <1>10 DEF ValidateLoad
<1>11. CASE LoadSnapshot(e)
  BY <1>0, <1>11 DEF LoadSnapshot
<1>12. CASE BeginLoad(e)
  BY <1>0, <1>12 DEF BeginLoad
<1>13. CASE dispatchLoad(e)
  BY <1>0, <1>13 DEF dispatchLoad
<1>14. CASE FinalizeEvent(e)
  BY <1>0, <1>14 DEF FinalizeEvent
<1>15. CASE FinalizeLoad(e)
  BY <1>0, <1>15 DEF FinalizeLoad
<1>16. CASE LoseAck(e)
  BY <1>0, <1>16 DEF LoseAck
<1>17. CASE LoadTimeout(e)
  BY <1>0, <1>17 DEF LoadTimeout
<1>18. CASE LoseLoadAck(e)
  BY <1>0, <1>18 DEF LoseLoadAck
<1> QED
  BY <1>1, <1>2, <1>3, <1>4, <1>5, <1>6, <1>7, <1>8, <1>9, <1>10, <1>11, <1>12, <1>13,
     <1>14, <1>15, <1>16, <1>17, <1>18
  DEF EventAction, CallbackStep

LEMMA EventTypes ==
    ASSUME TypeOK, GateInv, NEW e \in Events, EventAction(e), generation' \in Generations
    PROVE  PlainType' /\ EventType'
<1> USE DEF EventStep, Keep, gateVars, actorVars, sourceVars, pickerVars
<1>0. PlainType /\ EventType /\ generation \in Generations /\ 0 \in Generations
  BY TypeParts, EventsAssumption, FS_CardinalityType DEF Generations, MaxGeneration
<1>1. pc' \in [Events -> EventSteps]
  <2>1. pc'[e] \in EventSteps /\ \A f \in Events : f # e => pc'[f] = pc[f]
    BY EventPath
  <2>2. \E x : pc' = [pc EXCEPT ![e] = x]
    BY DEF EventAction, CallbackStep, Arrive, CallerGone, reserveEvent, Handle, BuildEnds,
          suppressActiveRestore, resolveEvent, answerEvent, dispatchEvent, ValidateLoad, LoadSnapshot,
          BeginLoad, dispatchLoad, FinalizeEvent, FinalizeLoad, LoseAck, LoadTimeout, LoseLoadAck, Settle
  <2> QED
    BY <1>0, <2>1, <2>2 DEF EventType
<1>2. CASE Arrive(e) \/ CallerGone(e) \/ reserveEvent(e)
  BY <1>0, <1>1, <1>2 DEF Arrive, CallerGone, reserveEvent, PlainType, EventType
<1>3. CASE Handle(e) \/ BuildEnds(e) \/ suppressActiveRestore(e)
  BY <1>0, <1>1, <1>3 DEF Handle, BuildEnds, suppressActiveRestore, PlainType, EventType, Effects
<1>4. CASE resolveEvent(e)
  <2>1. PlainType'
    BY <1>0, <1>4 DEF resolveEvent, Settle, DiscardInitial, PlainType, EventType
  <2>2. EventType'
    BY <1>0, <1>1, <1>4 DEF resolveEvent, Settle, EventType, Effects
  <2> QED
    BY <2>1, <2>2
<1>5. CASE answerEvent(e)
  BY <1>0, <1>1, <1>5 DEF answerEvent, PlainType, EventType
<1>6. CASE dispatchEvent(e) \/ dispatchLoad(e)
  BY <1>0, <1>1, <1>6 DEF dispatchEvent, dispatchLoad, PlainType, EventType
<1>7. CASE ValidateLoad(e) \/ LoadSnapshot(e) \/ BeginLoad(e) \/ LoadTimeout(e)
  BY <1>0, <1>1, <1>7 DEF ValidateLoad, LoadSnapshot, BeginLoad, LoadTimeout, PlainType, EventType
<1>8. CASE FinalizeEvent(e) \/ FinalizeLoad(e) \/ LoseAck(e) \/ LoseLoadAck(e)
  <2>1. PlainType'
    BY <1>0, <1>8 DEF FinalizeEvent, FinalizeLoad, LoseAck, LoseLoadAck, Settle, PlainType
  <2>2. EventType'
    BY <1>0, <1>1, <1>8 DEF FinalizeEvent, FinalizeLoad, LoseAck, LoseLoadAck, Settle, EventType, Effects
  <2> QED
    BY <2>1, <2>2
<1> QED
  BY <1>2, <1>3, <1>4, <1>5, <1>6, <1>7, <1>8 DEF EventAction, CallbackStep

LEMMA TypeStep ==
    ASSUME TypeOK, GateInv, HeldInv', CauseInv', generation' \in Generations,
           OutsideAction \/ (\E e \in Events : EventAction(e))
    PROVE  TypeOK'
<1>1. FlagType' /\ PlainType' /\ EventType'
  BY OutsideFlags, OutsideTypes, EventFlags, EventTypes
<1>2. PendingType'
  BY PendingStep
<1>3. inFlight' \in 0..1
  BY DEF HeldInv
<1>4. /\ terminalErr' \in SUBSET Causes /\ cancelledWith' \in SUBSET Causes
      /\ sourceErr' \in SUBSET Causes /\ verdict' \in SUBSET Causes
  BY DEF CauseInv, RealCauses
<1>5. finishing' \in [Threads -> FinishSteps]
  <2>1. RealFinishes \subseteq FinishSteps
    BY DEF RealFinishes, FinishSteps, RealCauses
  <2> QED
    BY <2>1 DEF CauseInv
<1> QED
  BY <1>1, <1>2, <1>3, <1>4, <1>5
  DEF TypeOK, GateType, ThreadType, EventType, FlagType, PlainType, PendingType

-----------------------------------------------------------------------------
(* The trace                                                               *)

(* What every step does to the causes and to those who pass them on. *)
FinishFrame(t) ==
    /\ finishing'[t].cause \in {finishing[t].cause, {}, terminalErr'}
    /\ finishing'[t].step \in Ending /\ source' = "loading" => finishing[t].step \in Ending \/ DiscardKnown'
BlameFrame ==
    /\ terminalErr \subseteq terminalErr' /\ (parentDone => parentDone')
    /\ DiscardKnown => DiscardKnown'
    /\ \A t \in Threads : FinishFrame(t)
    /\ \/ cancelledWith' = cancelledWith
       \/ parentDone'
       \/ /\ source = "loading" => DiscardKnown
          /\ \E t \in Threads : cancelledWith' \in {{"canceled"}, finishing[t].cause}
    /\ \/ sourceErr' = sourceErr
       \/ source = "loading" /\ sourceErr' \in {{}, {"source"}, cancelledWith}
    /\ \A e \in Events : pc'[e] = "stopSource" => pc[e] = "stopSource" \/ DiscardKnown'
    /\ source' = "loading" => source = "loading"

LEMMA BlameStep ==
    ASSUME CauseInv, CauseInv', BlameInv, DiscardInv, BlameFrame,
           source' = "done" /\ emitted' = "failed" =>
               Excused' \/ "source" \in sourceErr' \/ (sourceErr' = {} /\ discarded')
    PROVE  BlameInv' /\ DiscardInv'
<1>1. Excused => Excused'
  BY DEF Excused, BlameFrame
<1>2. \A t \in Threads : finishing'[t].cause = {} \/ Excused'
  BY <1>1 DEF BlameInv, BlameFrame, FinishFrame, Excused
<1>3. cancelledWith' \subseteq {"canceled"} \/ Excused'
  BY <1>1 DEF BlameInv, BlameFrame, Excused
<1>4. sourceErr' \subseteq {"canceled", "source"} \/ Excused'
  BY <1>1 DEF BlameInv, BlameFrame
<1>5. "canceled" \in sourceErr' => DiscardKnown'
  BY DEF DiscardInv, BlameFrame
<1>6. source' = "loading" /\ "canceled" \in cancelledWith' => DiscardKnown'
  BY DEF DiscardInv, BlameFrame, DiscardKnown
<1>7. ASSUME NEW t \in Threads, source' = "loading", finishing'[t].step \in Ending PROVE DiscardKnown'
  BY <1>7 DEF DiscardInv, BlameFrame, FinishFrame
<1>8. \A e \in Events : pc'[e] = "stopSource" => DiscardKnown'
  BY DEF DiscardInv, BlameFrame
<1> QED
  BY <1>2, <1>3, <1>4, <1>5, <1>6, <1>7, <1>8 DEF BlameInv, DiscardInv

LEMMA FramesOfFinish ==
    ASSUME CauseInv, NEW t \in Threads, finish(t), source' = "loading" => DiscardKnown'
    PROVE  \A u \in Threads : FinishFrame(u)
<1>1. \A u \in Threads : finishing'[u] = IF u = t THEN [step |-> "close", cause |-> terminalErr'] ELSE finishing[u]
  BY DEF CauseInv, finish
<1> QED
  BY <1>1 DEF FinishFrame

LEMMA Unfinished ==
    ASSUME UNCHANGED finishing PROVE \A u \in Threads : FinishFrame(u)
BY DEF FinishFrame

LEMMA MoreCauses ==
    ASSUME NEW c, deactivateLocked(c) PROVE terminalErr \subseteq terminalErr'
BY DEF deactivateLocked

(* Stop, finishSource and failCallbackApplication. *)
LEMMA StopBlame ==
    ASSUME CauseInv, NEW t \in Threads, NEW c, deactivateLocked(c),
           finish(t) \/ UNCHANGED finishing,
           \/ DiscardKnown'
           \/ source' # "loading" /\ UNCHANGED discardRequested,
           UNCHANGED <<parentDone, cancelledWith, pc>>,
           \/ sourceErr' = sourceErr
           \/ source = "loading" /\ sourceErr' \in {{}, {"source"}, cancelledWith},
           source' = "loading" => source = "loading"
    PROVE  BlameFrame
<1>1. terminalErr \subseteq terminalErr'
  BY MoreCauses
<1>2. DiscardKnown => DiscardKnown'
  BY DEF DiscardKnown
<1>3. \A u \in Threads : FinishFrame(u)
  BY FramesOfFinish, Unfinished
<1> QED
  BY <1>1, <1>2, <1>3 DEF BlameFrame

LEMMA SourceBlame ==
    ASSUME TypeOK, CauseInv, DiscardInv, LoadInitialZoxide \/ SourceStep
    PROVE  BlameFrame
<1> USE DEF gateVars, streamVars, ctxVars, actorVars, sourceVars, pickerVars, eventVars, RunStep, CommitStep
<1>s. "source" \in Threads
  BY DEF Threads
<1>1. CASE LoadInitialZoxide
  <2>1. /\ sourceErr' \in {{}, {"source"}, cancelledWith} /\ source = "loading" /\ source' # "loading"
        /\ UNCHANGED <<parentDone, cancelledWith, pc>>
    BY <1>1 DEF LoadInitialZoxide
  <2>2. CASE KeepGate
    <3>1. \A u \in Threads : FinishFrame(u)
      BY <2>2, Unfinished DEF KeepGate
    <3> QED
      BY <2>1, <2>2, <3>1 DEF KeepGate, BlameFrame, DiscardKnown
  <2>3. CASE finishSource(sourceErr')
    BY <1>s, <2>1, <2>3, StopBlame DEF finishSource
  <2>4. CASE Stop("source", {"parent"})
    <3>1. DiscardKnown'
      BY <2>1, <2>4 DEF Stop, Terminalize, DiscardKnown
    <3> QED
      BY <1>s, <2>1, <2>4, <3>1, StopBlame DEF Stop, Terminalize
  <2> QED
    BY <1>1, <2>2, <2>3, <2>4 DEF LoadInitialZoxide
<1>2. CASE \/ waitForActivation \/ isActive \/ retainInterruptedSourceError \/ Activated \/ beginCommit
  <2>1. source' # "loading" /\ UNCHANGED <<parentDone, cancelledWith, pc, sourceErr>>
    BY <1>2 DEF waitForActivation, isActive, retainInterruptedSourceError, Activated, beginCommit
  <2>2. CASE UNCHANGED <<terminalErr, discardRequested, finishing>>
    <3>1. \A u \in Threads : FinishFrame(u)
      BY <2>2, Unfinished
    <3> QED
      BY <2>1, <2>2, <3>1 DEF BlameFrame, DiscardKnown
  <2>3. CASE finishSource(sourceErr)
    BY <1>s, <2>1, <2>3, StopBlame DEF finishSource
  <2>4. CASE Stop("source", {"parent"})
    <3>1. DiscardKnown'
      BY <2>1, <2>4 DEF Stop, Terminalize, DiscardKnown
    <3> QED
      BY <1>s, <2>1, <2>4, <3>1, StopBlame DEF Stop, Terminalize
  <2> QED
    BY <1>2, <2>2, <2>3, <2>4
    DEF waitForActivation, isActive, retainInterruptedSourceError, Activated, beginCommit, KeepGate
<1>3. CASE Snapshot \/ AppendAfter \/ publish \/ Enrich \/ Expose \/ emitSourceTerminal
  <2>1. /\ source' # "loading"
        /\ UNCHANGED <<parentDone, cancelledWith, pc, sourceErr, terminalErr, discardRequested, finishing>>
    BY <1>3 DEF Snapshot, AppendAfter, publish, Enrich, Expose, emitSourceTerminal
  <2>2. \A u \in Threads : FinishFrame(u)
    BY <2>1, Unfinished
  <2> QED
    BY <2>1, <2>2 DEF BlameFrame, DiscardKnown
<1>4. CASE finishCommit
  BY <1>s, <1>4, StopBlame DEF finishCommit
<1> QED
  BY <1>1, <1>2, <1>3, <1>4 DEF SourceStep

LEMMA PickerBlame ==
    ASSUME TypeOK, CauseInv, DiscardInv,
           \/ PickerStep \/ FzfExits \/ ParentEnds \/ ParentStops
           \/ \E t \in Threads : FinishStep(t)
           \/ \E e \in Events : failCallbackApplication(e)
    PROVE  BlameFrame
<1> USE DEF gateVars, streamVars, ctxVars, actorVars, sourceVars, pickerVars, eventVars
<1>1. CASE BuildInitial \/ PublishInitial \/ Activate \/ Wait \/ FzfExits \/ ParentEnds
  <2>1. /\ UNCHANGED <<source, pc, sourceErr, discardRequested, finishing>>
        /\ terminalErr \subseteq terminalErr' /\ (parentDone => parentDone')
        /\ cancelledWith' = cancelledWith \/ parentDone'
    <3>1. CASE BuildInitial
      BY <3>1 DEF BuildInitial
    <3>2. CASE PublishInitial
      BY <3>2 DEF PublishInitial
    <3>3. CASE Activate
      BY <3>3 DEF Activate
    <3>4. CASE FzfExits
      BY <3>4 DEF FzfExits
    <3>5. CASE Wait
      BY <3>5 DEF Wait
    <3>6. CASE ParentEnds
      BY <3>6 DEF ParentEnds
    <3> QED
      BY <1>1, <3>1, <3>2, <3>3, <3>4, <3>5, <3>6
  <2>2. \A u \in Threads : FinishFrame(u)
    BY <2>1, Unfinished
  <2> QED
    BY <2>1, <2>2 DEF BlameFrame, DiscardKnown
<1>2. CASE CleanupStop
  <2>1. PICK cause \in {{}, {"picker"}} : Stop("picker", cause)
    BY <1>2 DEF CleanupStop
  <2>2. UNCHANGED <<source, parentDone, cancelledWith, pc, sourceErr>> /\ "picker" \in Threads
    BY <1>2 DEF CleanupStop, Threads
  <2>3. DiscardKnown'
    BY <2>1, <2>2 DEF Stop, Terminalize, DiscardKnown
  <2> QED
    BY <2>1, <2>2, <2>3, StopBlame DEF Stop, Terminalize
<1>3. CASE ParentStops
  <2>1. UNCHANGED <<source, parentDone, cancelledWith, pc, sourceErr>> /\ "parent" \in Threads /\ parentDone
    BY <1>3 DEF ParentStops, Threads
  <2>2. DiscardKnown'
    BY <2>1 DEF DiscardKnown
  <2> QED
    BY <1>3, <2>1, <2>2, StopBlame DEF ParentStops, Stop, Terminalize
<1>4. CASE \E e \in Events : failCallbackApplication(e)
  <2>1. PICK e \in Events : failCallbackApplication(e)
    BY <1>4
  <2>2. UNCHANGED <<source, parentDone, cancelledWith, pc, sourceErr>> /\ e \in Threads
    BY <2>1 DEF failCallbackApplication, Threads
  <2>3. DiscardKnown'
    BY <2>1 DEF failCallbackApplication, Terminalize, DiscardKnown
  <2> QED
    BY <2>1, <2>2, <2>3, StopBlame DEF failCallbackApplication, Terminalize
<1>5. CASE \E t \in Threads : FinishStep(t)
  <2>1. PICK t \in Threads : CloseInput(t) \/ FinishCancel(t)
    BY <1>5 DEF FinishStep
  <2>2. UNCHANGED <<source, parentDone, pc, sourceErr, terminalErr, discardRequested>>
    BY <2>1 DEF CloseInput, FinishCancel
  <2>3. \A u \in Threads : u # t => finishing'[u] = finishing[u]
    BY <2>1 DEF CloseInput, FinishCancel, CauseInv
  <2>4. \/ finishing'[t] = NotFinishing
        \/ finishing[t].step = "close" /\ finishing'[t] = [finishing[t] EXCEPT !.step = "cancel"]
    BY <2>1 DEF CloseInput, FinishCancel, CauseInv
  <2>5. FinishFrame(t)
    <3>1. finishing[t] \in RealFinishes
      BY DEF CauseInv
    <3> QED
      BY <2>4, <3>1 DEF FinishFrame, NotFinishing, RealFinishes, Ending
  <2>6. \A u \in Threads : FinishFrame(u)
    BY <2>3, <2>5 DEF FinishFrame
  <2>7. \/ cancelledWith' = cancelledWith
        \/ /\ source = "loading" => DiscardKnown
           /\ cancelledWith' \in {{"canceled"}, finishing[t].cause}
    BY <2>1 DEF CloseInput, FinishCancel, cancelSource, DiscardInv, Ending
  <2> QED
    BY <2>2, <2>6, <2>7 DEF BlameFrame, DiscardKnown
<1> QED
  BY <1>1, <1>2, <1>3, <1>4, <1>5 DEF PickerStep

LEMMA EventBlame ==
    ASSUME TypeOK, CauseInv, DiscardInv, NEW e \in Events, EventAction(e)
    PROVE  BlameFrame
<1> USE DEF EventStep, Keep, Settle, gateVars, actorVars, sourceVars, pickerVars
<1>p. pc \in [Events -> EventSteps]
  BY DEF TypeOK, EventType
<1>t. e \in Threads /\ finishing[e] \in RealFinishes
  BY DEF CauseInv, Threads
<1>1. CASE \/ Arrive(e) \/ CallerGone(e) \/ reserveEvent(e) \/ Handle(e) \/ BuildEnds(e)
           \/ suppressActiveRestore(e) \/ CallbackStep(e) \/ LoseAck(e) \/ LoadTimeout(e) \/ LoseLoadAck(e)
  <2>1. UNCHANGED <<source, parentDone, cancelledWith, sourceErr, terminalErr, discardRequested, finishing>>
    BY <1>1 DEF Arrive, CallerGone, reserveEvent, Handle, BuildEnds, suppressActiveRestore, CallbackStep,
          dispatchEvent, ValidateLoad, LoadSnapshot, BeginLoad, dispatchLoad, LoseAck, LoadTimeout, LoseLoadAck
  <2>2. \E x : pc' = [pc EXCEPT ![e] = x] /\ (x # "stopSource" \/ x = pc[e])
    BY <1>1 DEF Arrive, CallerGone, reserveEvent, Handle, BuildEnds, suppressActiveRestore, CallbackStep,
          dispatchEvent, ValidateLoad, LoadSnapshot, BeginLoad, dispatchLoad, LoseAck, LoadTimeout,
          LoseLoadAck, AfterAck
  <2>3. \A f \in Events : pc'[f] = "stopSource" => pc[f] = "stopSource"
    BY <1>p, <2>2
  <2>4. \A u \in Threads : FinishFrame(u)
    BY <2>1, Unfinished
  <2> QED
    BY <2>1, <2>3, <2>4 DEF BlameFrame, DiscardKnown
<1>2. CASE FinalizeEvent(e) \/ FinalizeLoad(e)
  <2>1. UNCHANGED <<source, parentDone, cancelledWith, sourceErr, terminalErr, discardRequested>>
    BY <1>2 DEF FinalizeEvent, FinalizeLoad
  <2>2. \A f \in Events : pc'[f] = "stopSource" => pc[f] = "stopSource"
    BY <1>2, <1>p DEF FinalizeEvent, FinalizeLoad, AfterAck
  <2>3. \/ finishing' = finishing
        \/ \E x \in {"fail", "closeInput"} : finishing' = [finishing EXCEPT ![e].step = x]
    BY <1>2 DEF FinalizeEvent, FinalizeLoad
  <2>4. ASSUME NEW x \in {"fail", "closeInput"}
        PROVE  /\ [finishing[e] EXCEPT !.step = x].step \notin Ending
               /\ [finishing[e] EXCEPT !.step = x].cause = finishing[e].cause
    BY <1>t DEF RealFinishes, Ending
  <2>5. \A u \in Threads : FinishFrame(u)
    BY <1>t, <2>3, <2>4 DEF FinishFrame, CauseInv
  <2> QED
    BY <2>1, <2>2, <2>5 DEF BlameFrame, DiscardKnown
<1>3. CASE resolveEvent(e)
  <2>1. UNCHANGED <<source, parentDone, cancelledWith, sourceErr>> /\ terminalErr \subseteq terminalErr'
    BY <1>3, MoreCauses DEF resolveEvent, DiscardInitial
  <2>2. /\ DiscardKnown => DiscardKnown'
        /\ \A f \in Events : pc'[f] = "stopSource" => pc[f] = "stopSource" \/ DiscardKnown'
    BY <1>3, <1>p DEF resolveEvent, DiscardInitial, DiscardKnown
  <2>3. finishing' = finishing \/ finishing' = [finishing EXCEPT ![e].cause = terminalErr']
    BY <1>3 DEF resolveEvent
  <2>4. /\ [finishing[e] EXCEPT !.cause = terminalErr'].step = finishing[e].step
        /\ [finishing[e] EXCEPT !.cause = terminalErr'].cause = terminalErr'
    BY <1>t DEF RealFinishes
  <2>5. \A u \in Threads : FinishFrame(u)
    BY <1>t, <2>3, <2>4 DEF FinishFrame, CauseInv
  <2> QED
    BY <2>1, <2>2, <2>5 DEF BlameFrame
<1>4. CASE answerEvent(e)
  <2>1. UNCHANGED <<source, parentDone, sourceErr, terminalErr, discardRequested>>
    BY <1>4 DEF answerEvent
  <2>2. \A f \in Events : pc'[f] = "stopSource" => pc[f] = "stopSource"
    BY <1>4, <1>p DEF answerEvent
  <2>3. finishing' = [finishing EXCEPT ![e] = NotFinishing]
    BY <1>4 DEF answerEvent
  <2>4. \A u \in Threads : FinishFrame(u)
    BY <1>t, <2>3 DEF FinishFrame, CauseInv, NotFinishing, Ending
  <2>5. \/ cancelledWith' = cancelledWith
        \/ DiscardKnown /\ cancelledWith' \in {{"canceled"}, finishing[e].cause}
    BY <1>4 DEF answerEvent, cancelSource, DiscardInv
  <2> QED
    BY <1>t, <2>1, <2>2, <2>4, <2>5 DEF BlameFrame, DiscardKnown
<1> QED
  BY <1>1, <1>2, <1>3, <1>4 DEF EventAction

LEMMA BlameOfAll ==
    ASSUME TypeOK, CauseInv, DiscardInv, OutsideAction \/ (\E e \in Events : EventAction(e))
    PROVE  BlameFrame
BY SourceBlame, PickerBlame, EventBlame DEF OutsideAction

(* The one record of the source. *)
LEMMA EmittedTruth ==
    ASSUME TypeOK, OutcomeInv, BlameInv, DiscardInv, source = "exit"
    PROVE  /\ lifecycle = "published" <=> published
           /\ lifecycle = "failed" =>
                 Excused \/ "source" \in sourceErr \/ (sourceErr = {} /\ discarded)
<1>1. CASE traceOutcome # "none"
  BY <1>1 DEF lifecycle, OutcomeInv, Excused
<1>2. CASE traceOutcome = "none"
  <2>1. ~published
    BY <1>2 DEF OutcomeInv
  <2>2. lifecycle # "published"
    BY <1>2 DEF lifecycle
  <2>3. CASE parentDone \/ sourceErr = {}
    BY <1>2, <2>1, <2>2, <2>3 DEF lifecycle, Excused
  <2>4. CASE ~parentDone /\ sourceErr # {}
    <3>1. CASE "canceled" \in sourceErr
      <4>1. discardRequested
        BY <2>4, <3>1 DEF DiscardInv, DiscardKnown
      <4> QED
        BY <1>2, <2>1, <2>4, <3>1, <4>1 DEF lifecycle
    <3>2. CASE "canceled" \notin sourceErr
      <4>1. "source" \in sourceErr \/ Excused
        BY <2>4, <3>2 DEF BlameInv
      <4> QED
        BY <2>1, <2>2, <4>1
    <3> QED
      BY <3>1, <3>2
  <2> QED
    BY <2>3, <2>4
<1> QED
  BY <1>1, <1>2

(* What OutcomeInv and the record speak of. *)
RecordStays == UNCHANGED <<source, terminalFinalized, traceOutcome, published, emitted, sourceErr, discarded>>

RecordTruth ==
    source' = "done" /\ emitted' = "failed" =>
        Excused' \/ "source" \in sourceErr' \/ (sourceErr' = {} /\ discarded')

LEMMA RecordStep ==
    ASSUME TypeOK, GateInv, OutcomeInv, BlameInv, DiscardInv, BlameFrame,
           OutsideAction \/ (\E e \in Events : EventAction(e))
    PROVE  OutcomeInv' /\ RecordTruth
<1> USE DEF gateVars, streamVars, ctxVars, actorVars, sourceVars, pickerVars, eventVars, RunStep, CommitStep
<1>0. terminalErr \subseteq terminalErr' /\ (Excused => Excused')
  BY DEF BlameFrame, Excused
<1>1. CASE RecordStays
  BY <1>0, <1>1 DEF RecordStays, OutcomeInv, RecordTruth, BlameInv
<1>2. CASE LoadInitialZoxide
  <2>1. /\ source = "loading" /\ source' \in {"awaiting", "exit"}
        /\ UNCHANGED <<terminalFinalized, traceOutcome, published, emitted>>
    BY <1>2 DEF LoadInitialZoxide, KeepGate, finishSource, Stop, Terminalize
  <2> QED
    BY <1>0, <2>1 DEF OutcomeInv, RecordTruth
<1>3. CASE \/ waitForActivation \/ isActive \/ retainInterruptedSourceError \/ Activated \/ beginCommit
           \/ Snapshot \/ AppendAfter \/ publish
  <2>1. /\ source \notin {"exposing", "deciding", "exit", "done"} /\ source' \notin {"exposing", "done"}
        /\ UNCHANGED <<terminalFinalized, traceOutcome, published, emitted>>
    BY <1>3 DEF waitForActivation, isActive, retainInterruptedSourceError, Activated, beginCommit, Snapshot,
          AppendAfter, publish, KeepGate, finishSource, Stop, Terminalize
  <2> QED
    BY <1>0, <2>1 DEF OutcomeInv, RecordTruth
<1>4. CASE Enrich \/ Expose
  <2>1. /\ source \in {"enriching", "exposing"} /\ source' \in {"exposing", "deciding"}
        /\ UNCHANGED <<terminalFinalized, traceOutcome>>
    BY <1>4 DEF Enrich, Expose
  <2> QED
    BY <1>0, <2>1 DEF OutcomeInv, RecordTruth
<1>5. CASE finishCommit
  <2>1. /\ source = "deciding" /\ source' = "exit" /\ UNCHANGED <<terminalFinalized, published>>
        /\ traceOutcome = "none" /\ ~terminalFinalized
    BY <1>5 DEF finishCommit, OutcomeInv, TypeOK, GateType
  <2>2. /\ published => traceOutcome' = "published"
        /\ ~published => traceOutcome' \in {"discarded", "failed"}
        /\ traceOutcome' = "failed" => verdict # {}
    BY <1>5, <2>1 DEF finishCommit, setTraceDecision
  <2>3. verdict \subseteq terminalErr'
    BY <1>5, <2>1 DEF finishCommit, deactivateLocked
  <2>4. traceOutcome' = "failed" => terminalErr' # {}
    BY <2>2, <2>3
  <2> QED
    BY <2>1, <2>2, <2>4 DEF OutcomeInv, RecordTruth
<1>6. CASE emitSourceTerminal
  <2>1. /\ source = "exit" /\ source' = "done" /\ emitted' = lifecycle
        /\ UNCHANGED <<terminalFinalized, traceOutcome, published, terminalErr, sourceErr, discarded, parentDone>>
    BY <1>6 DEF emitSourceTerminal
  <2>2. OutcomeInv'
    BY <2>1, EmittedTruth DEF OutcomeInv
  <2>3. RecordTruth
    BY <1>0, <2>1, EmittedTruth DEF RecordTruth
  <2> QED
    BY <2>2, <2>3
<1>7. CASE Wait
  <2>1. source = "done" /\ UNCHANGED <<source, traceOutcome, published, emitted, sourceErr, discarded>>
    BY <1>7 DEF Wait
  <2> QED
    BY <1>0, <2>1 DEF OutcomeInv, RecordTruth, BlameInv
<1>8. ASSUME \/ BuildInitial \/ PublishInitial \/ Activate \/ FzfExits \/ ParentEnds
             \/ CleanupStop \/ ParentStops
             \/ \E t \in Threads : FinishStep(t)
             \/ \E e \in Events : failCallbackApplication(e)
      PROVE  RecordStays
  BY <1>8 DEF RecordStays, BuildInitial, PublishInitial, Activate, FzfExits, ParentEnds, CleanupStop,
        ParentStops, FinishStep, CloseInput, FinishCancel, failCallbackApplication, Stop, Terminalize
<1>9. ASSUME NEW e \in Events, EventAction(e)
      PROVE  RecordStays
  <2> USE DEF RecordStays, EventStep, Keep, Settle
  <2>1. CASE \/ Arrive(e) \/ CallerGone(e) \/ reserveEvent(e) \/ Handle(e) \/ BuildEnds(e)
             \/ suppressActiveRestore(e) \/ resolveEvent(e) \/ answerEvent(e)
    BY <2>1 DEF Arrive, CallerGone, reserveEvent, Handle, BuildEnds, suppressActiveRestore, resolveEvent,
          answerEvent
  <2>2. CASE \/ CallbackStep(e) \/ FinalizeEvent(e) \/ FinalizeLoad(e) \/ LoseAck(e)
             \/ LoadTimeout(e) \/ LoseLoadAck(e)
    BY <2>2 DEF CallbackStep, dispatchEvent, ValidateLoad, LoadSnapshot, BeginLoad, dispatchLoad,
          FinalizeEvent, FinalizeLoad, LoseAck, LoadTimeout, LoseLoadAck
  <2> QED
    BY <1>9, <2>1, <2>2 DEF EventAction
<1> QED
  BY <1>1, <1>2, <1>3, <1>4, <1>5, <1>6, <1>7, <1>8, <1>9 DEF OutsideAction, SourceStep, PickerStep

-----------------------------------------------------------------------------
(* The invariant, and what follows from it                                 *)

(* The coordinator starts in a state that satisfies EnrichmentInv.         *)
LEMMA InitEnrichmentInv == Init => EnrichmentInv
<1> SUFFICES ASSUME Init PROVE EnrichmentInv
  OBVIOUS
<1> USE DEF Init
<1>0. Reserved = {}
  BY Small DEF Reserved
<1>1. TypeOK
  <2>1. 0 \in Generations
    BY EventsAssumption, FS_CardinalityType DEF Generations, MaxGeneration
  <2>2. GateType
    <3>1. pendingEvents \in [Reserved -> Reservations]
      BY <1>0 DEF NoReservations
    <3>2. Reserved \subseteq Events /\ inFlight \in 0..1 /\ initialGeneration \in 0..1
      BY <1>0
    <3> QED
      BY <2>1, <3>1, <3>2 DEF GateType, Outcomes
  <2>3. ThreadType
    BY <2>1 DEF ThreadType, SourceSteps, Outcomes, PickerSteps, FinishSteps, NotFinishing
  <2>4. EventType
    BY <2>1 DEF EventType, EventSteps, Effects
  <2> QED
    BY <2>2, <2>3, <2>4 DEF TypeOK
<1>2. HandlerInv /\ CommitInv /\ HeldInv /\ AnsweredInv /\ BuildingInv
  BY <1>0 DEF HandlerInv, CommitInv, HeldInv, AnsweredInv, BuildingInv, Handling, Committing, Answered, Loading
<1>3. LaunchInv /\ EffectInv /\ ReservedInv /\ AcceptInv /\ ViewInv /\ BaseInv
  BY <1>0 DEF LaunchInv, EffectInv, EffectOf, ReservedInv, AcceptInv, Accepted, ViewInv, BaseInv, Committing,
        Fresh, Answered, Loading
<1>4. CauseInv
  BY DEF CauseInv, RealFinishes, NotFinishing
<1>5. CountInv
  <2>1. Built \in SUBSET Events
    BY DEF Built
  <2>2. Cardinality(Built) \in Nat
    BY <2>1, BuiltBound
  <2> QED
    BY <2>2 DEF CountInv
<1>6. OutcomeInv /\ BlameInv /\ DiscardInv
  BY DEF OutcomeInv, BlameInv, DiscardInv, NotFinishing, Ending
<1> QED
  BY <1>1, <1>2, <1>3, <1>4, <1>5, <1>6 DEF EnrichmentInv, GateInv

LEMMA StepsOfNext ==
    ASSUME Next PROVE OutsideAction \/ (\E e \in Events : EventAction(e))
BY DEF Next, OutsideAction, EventAction, HandlerStep

(* Every step of the coordinator preserves EnrichmentInv.                  *)
LEMMA NextEnrichmentInv == EnrichmentInv /\ [Next]_vars => EnrichmentInv'
<1> SUFFICES ASSUME EnrichmentInv, [Next]_vars PROVE EnrichmentInv'
  OBVIOUS
<1>0. TypeOK /\ GateInv /\ CauseInv /\ CountInv /\ OutcomeInv /\ BlameInv /\ DiscardInv
  BY DEF EnrichmentInv
<1>1. CASE Next
  <2>1. OutsideAction \/ (\E e \in Events : EventAction(e))
    BY <1>1, StepsOfNext
  <2>2. GateInv'
    <3>1. CASE OutsideAction
      <4>1. CASE Calm
        BY <1>0, <4>1, CalmSteps, CalmKeepsGateInv DEF GateInv
      <4>2. CASE BuildInitial \/ PublishInitial \/ Activate
        BY <1>0, <4>2, LaunchKeepsGateInv
      <4>3. CASE beginCommit \/ Snapshot \/ AppendAfter \/ publish \/ Enrich \/ Expose \/ finishCommit
        BY <1>0, <4>3, SourceKeepsGateInv
      <4> QED
        BY <3>1, <4>1, <4>2, <4>3 DEF OutsideAction, SourceStep, PickerStep, Calm
    <3>2. ASSUME NEW e \in Events, EventAction(e) PROVE GateInv'
      BY <1>0, <3>2, CallbackKeepsGateInv, FinalizeKeepsGateInv, DispatchKeepsGateInv,
         ReserveKeepsGateInv, ActorKeepsGateInv, ResolveKeepsGateInv DEF EventAction, CallbackStep
    <3> QED
      BY <2>1, <3>1, <3>2
  <2>3. CauseInv'
    BY <1>0, <2>1, OutsideCauses, EventCauses
  <2>4. CountInv' /\ generation' \in Generations
    BY <1>0, <2>1, CountStep
  <2>5. TypeOK'
    BY <1>0, <2>1, <2>2, <2>3, <2>4, TypeStep DEF GateInv
  <2>6. BlameFrame
    BY <1>0, <2>1, BlameOfAll
  <2>7. OutcomeInv' /\ RecordTruth
    BY <1>0, <2>1, <2>6, RecordStep
  <2>8. BlameInv' /\ DiscardInv'
    BY <1>0, <2>3, <2>6, <2>7, BlameStep DEF RecordTruth
  <2> QED
    BY <2>2, <2>3, <2>4, <2>5, <2>7, <2>8 DEF EnrichmentInv
<1>2. CASE UNCHANGED vars
  <2> USE DEF vars, gateVars, streamVars, ctxVars, actorVars, sourceVars, pickerVars, eventVars
  <2>1. TypeOK'
    BY <1>0, <1>2 DEF TypeOK, GateType, ThreadType, EventType, Reserved
  <2>2. CalmFrame
    BY <1>0, <1>2 DEF CalmFrame, EventsStay, Unseen, SameReservations, GateInv, LaunchInv
  <2>3. GateInv'
    BY <1>0, <1>2, CalmKeepsGateInv, <2>2
  <2>4. CauseInv' /\ CountInv'
    BY <1>0, <1>2 DEF CauseInv, CountInv, Built
  <2>5. OutcomeInv' /\ BlameInv' /\ DiscardInv'
    BY <1>0, <1>2 DEF OutcomeInv, BlameInv, DiscardInv, Excused, DiscardKnown
  <2> QED
    BY <2>1, <2>3, <2>4, <2>5 DEF EnrichmentInv
<1> QED
  BY <1>1, <1>2

(* EnrichmentInv holds of every state the coordinator reaches, whatever    *)
(* fzf, the callbacks and the parent context do.                           *)
THEOREM EnrichmentInvariance == Spec => []EnrichmentInv
BY InitEnrichmentInv, NextEnrichmentInv, PTL DEF Spec

(* The coordinator, the stream, the source and the events stay well typed; *)
(* the generation stays within one per event, the launch and the source.   *)
THEOREM EnrichmentTypeCorrect == Spec => []TypeOK
<1>1. EnrichmentInv => TypeOK
  BY DEF EnrichmentInv
<1> QED
  BY <1>1, EnrichmentInvariance, PTL

(* The gate's counter agrees with its two maps through reserveEvent,       *)
(* resolveEvent, both finalizations, Stop and a callback failure; its      *)
(* holders exclude each other; and Enrich is never refused as stale or     *)
(* pending.                                                                *)
THEOREM GateExcludes == Spec => []GateExclusion
<1>1. EnrichmentInv => GateExclusion
  <2> SUFFICES ASSUME EnrichmentInv PROVE GateExclusion
    OBVIOUS
  <2>1. terminalErr \cap {"stale", "pending"} = {}
    BY DEF EnrichmentInv, CauseInv, RealCauses
  <2>2. /\ inFlight = Cardinality(eventCancels) + Cardinality(Reserved)
        /\ inFlight + (IF committing THEN 1 ELSE 0) <= 1
    <3>1. HeldInv
      BY DEF EnrichmentInv, GateInv
    <3>2. CASE inFlight = 0 /\ eventCancels = {} /\ Reserved = {}
      BY <3>2, Small
    <3>3. CASE /\ inFlight = 1 /\ ~committing
               /\ \E e \in Events : \/ eventCancels = {e} /\ Reserved = {}
                                    \/ eventCancels = {} /\ Reserved = {e}
      <4>1. \/ Cardinality(eventCancels) = 1 /\ Cardinality(Reserved) = 0
            \/ Cardinality(eventCancels) = 0 /\ Cardinality(Reserved) = 1
        BY <3>3, Small
      <4> QED
        BY <3>3, <4>1
    <3> QED
      BY <3>1, <3>2, <3>3 DEF HeldInv
  <2> QED
    BY <2>1, <2>2 DEF GateExclusion
<1> QED
  BY <1>1, EnrichmentInvariance, PTL

(* fzf displays the actor's generation or the empty list whenever an event *)
(* reads the actor's snapshot, at rest between events, and from the moment *)
(* accept has been resolved on.                                            *)
THEOREM ScreenIsCurrent == Spec => []ViewIsCurrent
<1>1. EnrichmentInv => ViewIsCurrent
  <2> SUFFICES ASSUME EnrichmentInv PROVE ViewIsCurrent
    OBVIOUS
  <2>0. TypeOK /\ GateInv
    BY DEF EnrichmentInv
  <2>1. ASSUME NEW e \in Events, pc[e] = "handling" PROVE shown \in {0, generation}
    BY <2>0, <2>1, AloneInActor DEF Handling, Reloading
  <2>2. ASSUME inFlight = 0, ~committing, ~terminal PROVE shown \in {0, generation}
    <3>1. Reserved = {} /\ source # "exposing" /\ \A e \in Events : ~Reloading(e)
      BY <2>0, <2>2 DEF GateInv, HeldInv, HandlerInv, CommitInv, Committing, Reloading, Handling
    <3> QED
      BY <2>0, <2>2, <3>1 DEF GateInv, ViewInv
  <2>3. ASSUME NEW e \in Events, effect[e] = "terminal", e \notin eventCancels,
               pc[e] \notin {"handled", "suppressed", "refused"}
        PROVE  shown \in {0, generation}
    <3>1. Accepted(e)
      <4>1. pc[e] \in EventSteps /\ pc[e] \notin Fresh
        BY <2>0, <2>3 DEF TypeOK, EventType, GateInv, EffectInv, EffectOf
      <4> QED
        BY <2>3, <4>1 DEF EventSteps, Fresh, Accepted, Answered, Loading
    <3>2. /\ source # "exposing" /\ \A f \in Events : ~Reloading(f)
          /\ \A f \in Reserved : pendingEvents[f].generation = 0
      BY <2>0, <3>1 DEF GateInv, AcceptInv, HandlerInv, CommitInv, Committing, Reloading, Handling
    <3> QED
      BY <2>0, <3>1, <3>2 DEF GateInv, ViewInv
  <2> QED
    BY <2>1, <2>2, <2>3 DEF ViewIsCurrent
<1> QED
  BY <1>1, EnrichmentInvariance, PTL

(* The source's trace record says "published" exactly if the actor took    *)
(* the records, and "failed" only if something has failed.                 *)
THEOREM TraceIsTrue == Spec => []TraceTellsWhatHappened
<1>1. EnrichmentInv => TraceTellsWhatHappened
  BY DEF EnrichmentInv, OutcomeInv, BlameInv, Excused, TraceTellsWhatHappened
<1> QED
  BY <1>1, EnrichmentInvariance, PTL

(* Only the launch view is enriched: zoxide's late answer is dropped once  *)
(* the user has moved to another generation (publish, Enrich).             *)
THEOREM LateAnswersAreDropped == Spec => OnlyLaunchViewEnriched
<1>1. ASSUME EnrichmentInv, [Next]_vars
      PROVE  [~published /\ published' => generation = initialGeneration]_vars
  <2>0. TypeOK /\ GateInv
    BY <1>1 DEF EnrichmentInv
  <2>1. CASE Enrich
    BY <2>0, <2>1 DEF Enrich, GateInv, BaseInv
  <2>2. CASE Next /\ ~Enrich
    <3> USE DEF sourceVars, RunStep, CommitStep
    <3>1. CASE Calm
      BY <2>0, <3>1, CalmSteps DEF GateInv, CalmFrame, Unseen
    <3>2. CASE BuildInitial \/ PublishInitial \/ Activate
      BY <3>2 DEF BuildInitial, PublishInitial, Activate
    <3>3. CASE beginCommit \/ Snapshot \/ AppendAfter \/ publish \/ Expose \/ finishCommit
      BY <3>3 DEF beginCommit, Snapshot, AppendAfter, publish, Expose, finishCommit
    <3>4. CASE \E e \in Events : EventAction(e)
      BY <2>0, <3>4, EventPath
    <3> QED
      BY <2>2, <3>1, <3>2, <3>3, <3>4, StepsOfNext DEF OutsideAction, SourceStep, PickerStep, Calm
  <2> QED
    BY <1>1, <2>1, <2>2
<1> QED
  BY <1>1, EnrichmentInvariance, PTL DEF Spec, OnlyLaunchViewEnriched

(* A reservation that a live session releases has been honoured: fzf shows *)
(* the generation that the event made it reload (FinalizeEvent,            *)
(* FinalizeLoad).                                                          *)
THEOREM ReleaseMeansShown == Spec => ReleasedWhenShown
<1> DEFINE Honoured ==
      \A e \in Reserved :
          /\ e \notin DOMAIN pendingEvents' /\ ~terminal'
          /\ pendingEvents[e].generation # 0
          => shown = pendingEvents[e].generation
<1>1. ASSUME EnrichmentInv, [Next]_vars PROVE [Honoured]_vars
  <2>0. TypeOK /\ GateInv
    BY <1>1 DEF EnrichmentInv
  <2>1. CASE UNCHANGED pendingEvents \/ terminal' = TRUE
    BY <2>1 DEF Reserved
  <2>2. CASE OutsideAction
    <3> USE DEF gateVars, RunStep, CommitStep
    <3>1. CASE Calm
      BY <2>0, <2>1, <3>1, CalmSteps DEF GateInv, CalmFrame, SameReservations, Terminalized
    <3>2. CASE BuildInitial \/ PublishInitial \/ Activate
      BY <2>1, <3>2 DEF BuildInitial, PublishInitial, Activate
    <3>3. CASE beginCommit
      BY <2>1, <3>3 DEF beginCommit, Stop, Terminalize
    <3>4. CASE Snapshot \/ AppendAfter \/ publish \/ Enrich \/ Expose \/ finishCommit
      BY <2>1, <3>4 DEF Snapshot, AppendAfter, publish, Enrich, Expose, finishCommit
    <3> QED
      BY <2>2, <3>1, <3>2, <3>3, <3>4 DEF OutsideAction, SourceStep, PickerStep, Calm
  <2>3. ASSUME NEW e \in Events, EventAction(e) PROVE Honoured
    <3> USE DEF Keep, gateVars
    <3>0. PendingType /\ Reserved = DOMAIN pendingEvents
      BY <2>0 DEF PendingType, TypeOK, GateType, Reserved
    <3>1. CASE \/ Arrive(e) \/ CallerGone(e) \/ reserveEvent(e) \/ Handle(e) \/ BuildEnds(e)
               \/ suppressActiveRestore(e) \/ answerEvent(e) \/ LoseAck(e) \/ LoadTimeout(e)
               \/ LoseLoadAck(e) \/ dispatchEvent(e) \/ ValidateLoad(e) \/ LoadSnapshot(e) \/ dispatchLoad(e)
      <4>1. UNCHANGED pendingEvents
        BY <3>1 DEF Arrive, CallerGone, reserveEvent, Handle, BuildEnds, suppressActiveRestore,
              answerEvent, LoseAck, LoadTimeout, LoseLoadAck, dispatchEvent, ValidateLoad, LoadSnapshot,
              dispatchLoad
      <4> QED
        BY <4>1 DEF Reserved
    <3>2. CASE Reserved \subseteq DOMAIN pendingEvents'
      BY <3>2
    <3>3. CASE pendingEvents' = [f \in Reserved \ {e} |-> pendingEvents[f]]
               /\ (e \in Reserved => pendingEvents[e].generation \in {0, shown})
      BY <3>3
    <3>4. CASE BeginLoad(e)
      BY <3>0, <3>2, <3>4 DEF BeginLoad
    <3>5. CASE resolveEvent(e)
      BY <3>0, <3>2, <3>5 DEF resolveEvent
    <3>6. CASE FinalizeEvent(e)
      BY <3>0, <3>2, <3>3, <3>6 DEF FinalizeEvent
    <3>7. CASE FinalizeLoad(e)
      <4>1. pc[e] = "written" /\ e \in Reserved => pendingEvents[e].generation \in {0, shown}
        BY <2>0 DEF GateInv, ReservedInv, ReservedOf
      <4> QED
        BY <3>0, <3>2, <3>3, <3>7, <4>1 DEF FinalizeLoad
    <3> QED
      BY <2>3, <3>1, <3>4, <3>5, <3>6, <3>7 DEF EventAction, CallbackStep
  <2> QED
    BY <1>1, <2>2, <2>3, StepsOfNext
<1> QED
  BY <1>1, EnrichmentInvariance, PTL DEF Spec, ReleasedWhenShown
=============================================================================
