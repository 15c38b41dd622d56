---------------------------- MODULE SessionActor ----------------------------
(***************************************************************************)
(* The session actor: internal/session/actor.go, actor_api.go and the      *)
(* Handle driver of events.go.                                             *)
(*                                                                         *)
(* One goroutine (run) owns the current snapshot.  Callers hand it         *)
(* commands over an unbuffered channel and wait on a buffered reply        *)
(* channel, so a command is received in one step and answered in the step  *)
(* that decides it.  A navigation is answered only after a generator       *)
(* goroutine has built its records; while it runs, one newer command may   *)
(* supersede it and waits as the replacement.  An Add call arrives with a  *)
(* directory tree it has just created on disk, and whoever refuses the     *)
(* call removes that tree again.                                           *)
(*                                                                         *)
(* A member of Calls is one call of session.Handle or of Actor.Enrich,     *)
(* with the context it runs under.                                         *)
(***************************************************************************)
EXTENDS Naturals

CONSTANTS
    Calls,          \* the calls made to the actor during the session
    NoCall,         \* stands for a nil command
    MaxGeneration   \* stands for math.MaxUint64, the last generation number

ASSUME NoCallAssumption == NoCall \notin Calls
ASSUME MaxGenerationAssumption == MaxGeneration \in Nat \ {0}

VARIABLES
    (* local state of Actor.run *)
    current,        \* the published snapshot: generation, state, records
    pending,        \* the transition whose generator is outstanding
    replacement,    \* the command that superseded it, or NoCall
    shutdownErr,    \* why the actor is going down, or "none"
    sessionArmed,   \* sessionDone is still selected on
    phase,          \* "running", "exiting" (done not yet closed), "done"
    nextID,         \* the last generation number handed out
    (* generator goroutines *)
    build,          \* per generation number: where its generator stands
    stopped,        \* generators whose own build context was cancelled
    (* the environment *)
    sessionEnded,   \* the session context is cancelled
    closer,         \* the goroutine inside Actor.Close
    (* the calls *)
    pc, kind, base, cancelled, tree, reply

actorVars == <<current, pending, replacement, shutdownErr, sessionArmed,
               phase, nextID>>
buildVars == <<build, stopped>>
callVars  == <<pc, kind, base, cancelled, tree, reply>>
envVars   == <<sessionEnded, closer>>
vars      == <<actorVars, buildVars, envVars, callVars>>

-----------------------------------------------------------------------------

Generations == 1..MaxGeneration
CallOrNone  == Calls \cup {NoCall}

Errors == {"closed", "superseded", "stale", "transition pending", "limit",
           "cancelled", "session ended", "build failed", "invalid event"}

(* What a call asks of the actor: a proposal without and with a Build, a   *)
(* proposal with a Build and a freshly created tree, an enrichment.        *)
Kinds == {"none", "state", "navigate", "add", "enrich"}

Snapshots == [generation : 0..MaxGeneration,
              state : CallOrNone, records : CallOrNone]

Transitions == [id : 0..MaxGeneration, command : CallOrNone,
                retiring : BOOLEAN, replyErr : Errors \cup {"none"}]

NoTransition == [id |-> 0, command |-> NoCall,
                 retiring |-> FALSE, replyErr |-> "none"]

TypeOK ==
    /\ current \in Snapshots
    /\ pending \in Transitions
    /\ replacement \in CallOrNone
    /\ shutdownErr \in {"none", "closed", "session ended"}
    /\ sessionArmed \in BOOLEAN
    /\ phase \in {"running", "exiting", "done"}
    /\ nextID \in 0..MaxGeneration
    /\ build \in [Generations -> {"none", "running", "ok", "failed", "delivered"}]
    /\ stopped \in SUBSET Generations
    /\ sessionEnded \in BOOLEAN
    /\ closer \in {"idle", "sending", "waiting", "returned"}
    /\ pc \in [Calls -> {"idle", "observed", "created", "sending", "received", "returned"}]
    /\ kind \in [Calls -> Kinds]
    /\ base \in [Calls -> 0..MaxGeneration]
    /\ cancelled \in [Calls -> BOOLEAN]
    /\ tree \in [Calls -> {"none", "made", "removed"}]
    /\ reply \in [Calls -> Errors \cup {"none", "ok"}]

Init ==
    /\ current = [generation |-> 0, state |-> NoCall, records |-> NoCall]
    /\ pending = NoTransition
    /\ replacement = NoCall
    /\ shutdownErr = "none"
    /\ sessionArmed = TRUE
    /\ phase = "running"
    /\ nextID = 0
    /\ build = [id \in Generations |-> "none"]
    /\ stopped = {}
    /\ sessionEnded = FALSE
    /\ closer = "idle"
    /\ pc = [c \in Calls |-> "idle"]
    /\ kind = [c \in Calls |-> "none"]
    /\ base = [c \in Calls |-> 0]
    /\ cancelled = [c \in Calls |-> FALSE]
    /\ tree = [c \in Calls |-> "none"]
    /\ reply = [c \in Calls |-> "none"]

-----------------------------------------------------------------------------
(* Answering calls.  An answer table says what a step does to each call:   *)
(* nothing ("none"), keep it until later ("hold"), or reply.  An error     *)
(* reply first removes the tree the call brought along (replyApplyError,   *)
(* and the rollbacks of Apply and Handle).  A rollback is taken to succeed *)
(* (types.go:319-327): its failure would only be joined to the error.      *)

NoAnswer == [c \in Calls |-> "none"]
AnswerOne(c, r) == [NoAnswer EXCEPT ![c] = r]

replyApplyError(answers) ==
    tree' = [c \in Calls |-> IF answers[c] \in Errors /\ tree[c] = "made"
                             THEN "removed" ELSE tree[c]]

Answer(answers) ==
    /\ replyApplyError(answers)
    /\ reply' = [c \in Calls |-> IF answers[c] \in {"none", "hold"}
                                 THEN reply[c] ELSE answers[c]]
    /\ pc' = [c \in Calls |-> IF answers[c] = "none" THEN pc[c]
                              ELSE IF answers[c] = "hold" THEN "received"
                              ELSE "returned"]

(* Waiting inside run's select: not exiting, and not about to.             *)
Serving == phase = "running" /\ (shutdownErr = "none" \/ pending.command # NoCall)

(* Mutant: the transition is cancelled and not marked.                     *)
RetireUnmarked(err) ==
    /\ pending' = [pending EXCEPT !.replyErr = err]
    /\ stopped' = stopped \cup {pending.id}

(* pending.retiring = true; pending.replyErr = err; pending.cancel(err)    *)
Retire(err) ==
    /\ pending' = [pending EXCEPT !.retiring = TRUE, !.replyErr = err]
    /\ stopped' = stopped \cup {pending.id}

(* Mutant: a shutdown waits for the transition without retiring it.        *)
ShutdownWaits(err) == UNCHANGED <<pending, stopped>>

(* A shutdown retires a transition that is not retired already.            *)
RetireForShutdown(err) ==
    IF pending.command # NoCall /\ ~pending.retiring
    THEN Retire(err)
    ELSE UNCHANGED <<pending, stopped>>

-----------------------------------------------------------------------------
(* start(command), run when cur is the current snapshot, with the          *)
(* generators at b and answers already given in the same step              *)

NeedsBuild(c) == kind[c] \in {"navigate", "add"}

startError(c, cur) ==
    IF cancelled[c] THEN "cancelled"
    ELSE IF base[c] # cur.generation THEN "stale"
    ELSE IF NeedsBuild(c) /\ nextID = MaxGeneration THEN "limit"
    ELSE "none"

start(c, cur, b, answers) ==
    \/ /\ startError(c, cur) # "none"
       /\ Answer([answers EXCEPT ![c] = startError(c, cur)])
       /\ current' = cur
       /\ pending' = NoTransition
       /\ build' = b
       /\ UNCHANGED nextID
    \/ /\ startError(c, cur) = "none" /\ ~NeedsBuild(c)
       /\ Answer([answers EXCEPT ![c] = "ok"])
       /\ current' = [cur EXCEPT !.state = c]
       /\ pending' = NoTransition
       /\ build' = b
       /\ UNCHANGED nextID
    \/ /\ startError(c, cur) = "none" /\ NeedsBuild(c)
       /\ Answer([answers EXCEPT ![c] = "hold"])
       /\ current' = cur
       /\ nextID' = nextID + 1
       /\ build' = [b EXCEPT ![nextID + 1] = "running"]
       /\ pending' = [id |-> nextID + 1, command |-> c,
                      retiring |-> FALSE, replyErr |-> "none"]

-----------------------------------------------------------------------------
(* Actor.run: one action per case of its select                            *)

applyError(c) ==
    IF shutdownErr # "none" THEN shutdownErr
    ELSE IF cancelled[c] THEN "cancelled"
    ELSE IF base[c] # current.generation THEN "stale"
    ELSE IF pending.command # NoCall /\ (pending.retiring \/ replacement # NoCall)
         THEN "transition pending"
    ELSE "none"

ReceiveApply(c) ==
    /\ Serving
    /\ pc[c] = "sending" /\ kind[c] # "enrich"
    /\ \/ /\ applyError(c) # "none"
          /\ Answer(AnswerOne(c, applyError(c)))
          /\ UNCHANGED <<current, pending, replacement, nextID, build, stopped>>
       \/ /\ applyError(c) = "none" /\ pending.command = NoCall
          /\ start(c, current, build, NoAnswer)
          /\ UNCHANGED <<replacement, stopped>>
       \/ /\ applyError(c) = "none" /\ pending.command # NoCall
          /\ Retire("superseded")
          /\ replacement' = c
          /\ Answer(AnswerOne(c, "hold"))
          /\ UNCHANGED <<current, nextID, build>>
    /\ UNCHANGED <<shutdownErr, sessionArmed, phase, envVars,
                   kind, base, cancelled>>

(* Mutant: an enrichment does not compare its base generation.             *)
enrichErrorNoStale(c) ==
    IF shutdownErr # "none" THEN shutdownErr
    ELSE IF cancelled[c] THEN "cancelled"
    ELSE IF sessionEnded THEN "session ended"
    ELSE IF pending.command # NoCall THEN "transition pending"
    ELSE IF nextID = MaxGeneration THEN "limit"
    ELSE "none"

enrichError(c) ==
    IF shutdownErr # "none" THEN shutdownErr
    ELSE IF cancelled[c] THEN "cancelled"
    ELSE IF sessionEnded THEN "session ended"
    ELSE IF base[c] # current.generation THEN "stale"
    ELSE IF pending.command # NoCall THEN "transition pending"
    ELSE IF nextID = MaxGeneration THEN "limit"
    ELSE "none"

ReceiveEnrich(c) ==
    /\ Serving
    /\ pc[c] = "sending" /\ kind[c] = "enrich"
    /\ \/ /\ enrichError(c) # "none"
          /\ Answer(AnswerOne(c, enrichError(c)))
          /\ UNCHANGED <<current, nextID>>
       \/ /\ enrichError(c) = "none"
          /\ Answer(AnswerOne(c, "ok"))
          /\ nextID' = nextID + 1
          /\ current' = [current EXCEPT !.generation = nextID + 1, !.records = c]
    /\ UNCHANGED <<pending, replacement, shutdownErr, sessionArmed,
                   phase, build, stopped, envVars, kind, base, cancelled>>

(* Mutant: a late result is used although its transition was retired.      *)
completionErrorLate(id) ==
    IF cancelled[pending.command] THEN "cancelled"
    ELSE IF sessionEnded THEN "session ended"
    ELSE IF build[id] = "failed" THEN "build failed"
    ELSE IF base[pending.command] # current.generation THEN "stale"
    ELSE "none"

(* The generator goroutine of generation id has its completion received.   *)
completionError(id) ==
    IF pending.retiring THEN pending.replyErr
    ELSE IF cancelled[pending.command] THEN "cancelled"
    ELSE IF sessionEnded THEN "session ended"
    ELSE IF build[id] = "failed" THEN "build failed"
    ELSE IF base[pending.command] # current.generation THEN "stale"
    ELSE "none"

completed(id) ==
    IF completionError(id) = "none"
    THEN [generation |-> id, state |-> pending.command, records |-> pending.command]
    ELSE current

completionAnswer(id) ==
    AnswerOne(pending.command,
              IF completionError(id) = "none" THEN "ok" ELSE completionError(id))

(* Every completion the actor can receive is the pending one's: the guard  *)
(* on the id at the top of the case never skips (NoRollbackUnderBuild).    *)
ReceiveCompletion(id) ==
    /\ Serving
    /\ build[id] \in {"ok", "failed"}
    /\ IF pending.command = NoCall \/ pending.id # id
       THEN /\ build' = [build EXCEPT ![id] = "delivered"]
            /\ UNCHANGED <<current, pending, replacement, nextID, stopped, pc, tree, reply>>
       ELSE /\ stopped' = stopped \cup {id}
            /\ IF replacement # NoCall /\ shutdownErr = "none"
               THEN /\ replacement' = NoCall
                    /\ start(replacement, completed(id),
                             [build EXCEPT ![id] = "delivered"], completionAnswer(id))
               ELSE /\ Answer(completionAnswer(id))
                    /\ current' = completed(id)
                    /\ pending' = NoTransition
                    /\ build' = [build EXCEPT ![id] = "delivered"]
                    /\ UNCHANGED <<replacement, nextID>>
    /\ UNCHANGED <<shutdownErr, sessionArmed, phase, envVars,
                   kind, base, cancelled>>

(* case <-callerDone: armed while a transition is pending and not retiring *)
ReceiveCallerDone ==
    /\ Serving
    /\ pending.command # NoCall /\ ~pending.retiring
    /\ cancelled[pending.command]
    /\ Retire("cancelled")
    /\ UNCHANGED <<current, replacement, shutdownErr, sessionArmed, phase, nextID,
                   build, envVars, callVars>>

(* case <-sessionDone                                                      *)
ReceiveSessionDone ==
    /\ Serving
    /\ sessionArmed /\ sessionEnded
    /\ shutdownErr' = "session ended"
    /\ sessionArmed' = FALSE
    /\ RetireForShutdown("session ended")
    /\ UNCHANGED <<current, replacement, phase, nextID, build, envVars, callVars>>

(* A closeCommand.  closeOnce lets one through, so the branch for a second *)
(* one is never taken.                                                     *)
ReceiveClose ==
    /\ Serving
    /\ closer = "sending"
    /\ closer' = "waiting"
    /\ shutdownErr' = "closed"
    /\ sessionArmed' = FALSE
    /\ RetireForShutdown("closed")
    /\ UNCHANGED <<current, replacement, phase, nextID, build, sessionEnded, callVars>>

(* The check at the top of the loop, then the deferred close(actor.done).  *)
Exit ==
    /\ phase = "running"
    /\ shutdownErr # "none" /\ pending.command = NoCall
    /\ IF replacement # NoCall
       THEN Answer(AnswerOne(replacement, shutdownErr))
       ELSE UNCHANGED <<pc, tree, reply>>
    /\ replacement' = NoCall
    /\ closer' = IF closer = "waiting" THEN "returned" ELSE closer
    /\ phase' = "exiting"
    /\ UNCHANGED <<current, pending, shutdownErr, sessionArmed, nextID, buildVars,
                   sessionEnded, kind, base, cancelled>>

CloseDone ==
    /\ phase = "exiting"
    /\ phase' = "done"
    /\ UNCHANGED <<current, pending, replacement, shutdownErr, sessionArmed, nextID,
                   buildVars, envVars, callVars>>

-----------------------------------------------------------------------------
(* A generator goroutine returns, then waits to send its completion.  It   *)
(* may return at any time, with records or with an error.                  *)

BuildReturns(id) ==
    /\ build[id] = "running"
    /\ \E result \in {"ok", "failed"} : build' = [build EXCEPT ![id] = result]
    /\ UNCHANGED <<actorVars, stopped, envVars, callVars>>

(* The build context: cancelled by the actor, or with the session context. *)
BuildCancelled(id) == id \in stopped \/ sessionEnded

-----------------------------------------------------------------------------
(* Handle and Enrich, up to the point where the actor takes over           *)

(* actor.Current: answered by run, or refused by enqueue.                  *)
Observe(c) ==
    /\ pc[c] = "idle"
    /\ \/ /\ Serving /\ shutdownErr = "none" /\ ~cancelled[c]
          /\ base' = [base EXCEPT ![c] = current.generation]
          /\ pc' = [pc EXCEPT ![c] = "observed"]
          /\ UNCHANGED <<tree, reply>>
       \/ /\ (Serving /\ shutdownErr # "none") \/ phase = "done"
          /\ Answer(AnswerOne(c, shutdownErr))
          /\ UNCHANGED base
       \/ /\ cancelled[c]
          /\ Answer(AnswerOne(c, "cancelled"))
          /\ UNCHANGED base
    /\ UNCHANGED <<actorVars, buildVars, envVars, kind, cancelled>>

(* enqueue's two early checks; past them the caller blocks in its select.  *)
enqueue(c) ==
    \/ /\ cancelled[c]
       /\ Answer(AnswerOne(c, "cancelled"))
    \/ /\ ~cancelled[c] /\ phase = "done"
       /\ Answer(AnswerOne(c, shutdownErr))
    \/ /\ ~cancelled[c] /\ phase # "done"
       /\ pc' = [pc EXCEPT ![c] = "sending"]
       /\ UNCHANGED <<tree, reply>>

(* Reduce refuses the event, or yields a proposal; Enrich has no reduction. *)
Propose(c) ==
    /\ pc[c] = "observed"
    /\ \/ /\ \E k \in {"state", "navigate", "enrich"} : kind' = [kind EXCEPT ![c] = k]
          /\ enqueue(c)
       \/ /\ Answer(AnswerOne(c, "invalid event"))
          /\ UNCHANGED kind
    /\ UNCHANGED <<actorVars, buildVars, envVars, base, cancelled>>

(* Reduce yields an Add intent and CreateDirectoryTree succeeds.  (When it *)
(* fails the proposal is the error state: Propose with kind "state".)      *)
CreateTree(c) ==
    /\ pc[c] = "observed"
    /\ pc' = [pc EXCEPT ![c] = "created"]
    /\ kind' = [kind EXCEPT ![c] = "add"]
    /\ tree' = [tree EXCEPT ![c] = "made"]
    /\ UNCHANGED <<actorVars, buildVars, envVars, base, cancelled, reply>>

ProposeAdd(c) ==
    /\ pc[c] = "created"
    /\ enqueue(c)
    /\ UNCHANGED <<actorVars, buildVars, envVars, kind, base, cancelled>>

(* enqueue's select: the context or done wins over the send.               *)
AbandonSend(c) ==
    /\ pc[c] = "sending"
    /\ \/ cancelled[c]   /\ Answer(AnswerOne(c, "cancelled"))
       \/ phase = "done" /\ Answer(AnswerOne(c, shutdownErr))
    /\ UNCHANGED <<actorVars, buildVars, envVars, kind, base, cancelled>>

-----------------------------------------------------------------------------
(* The environment: contexts end, somebody closes the actor                *)

CancelCall(c) ==
    /\ pc[c] # "returned" /\ ~cancelled[c]
    /\ cancelled' = [cancelled EXCEPT ![c] = TRUE]
    /\ UNCHANGED <<actorVars, buildVars, envVars, pc, kind, base, tree, reply>>

EndSession ==
    /\ ~sessionEnded
    /\ sessionEnded' = TRUE
    /\ UNCHANGED <<actorVars, buildVars, closer, callVars>>

Close ==
    /\ \/ closer = "idle" /\ closer' = "sending"
       \/ closer = "sending" /\ phase = "done" /\ closer' = "returned"
    /\ UNCHANGED <<actorVars, buildVars, sessionEnded, callVars>>

-----------------------------------------------------------------------------

ActorStep ==
    \/ \E c \in Calls : ReceiveApply(c) \/ ReceiveEnrich(c)
    \/ \E id \in Generations : ReceiveCompletion(id)
    \/ ReceiveCallerDone \/ ReceiveSessionDone \/ ReceiveClose
    \/ Exit \/ CloseDone

CallStep(c) ==
    Observe(c) \/ Propose(c) \/ CreateTree(c) \/ ProposeAdd(c) \/ AbandonSend(c)

Next ==
    \/ ActorStep
    \/ \E id \in Generations : BuildReturns(id)
    \/ \E c \in Calls : CallStep(c) \/ CancelCall(c)
    \/ EndSession \/ Close

(* A ready channel operation or case of a select is eventually taken, and  *)
(* a generator returns once its context is cancelled.  Nothing is assumed  *)
(* of a generator that was not, and nobody has to call, cancel or close.   *)
(* No step repeats, so it is enough that something runs as long as         *)
(* something can.                                                          *)
Progress ==
    \/ ActorStep
    \/ \E id \in Generations : BuildReturns(id) /\ BuildCancelled(id)
    \/ \E c \in Calls : CallStep(c) /\ pc[c] # "idle"
    \/ Close /\ closer = "sending"

Spec == Init /\ [][Next]_vars
FairSpec == Spec /\ WF_vars(Progress)
-----------------------------------------------------------------------------
(* Properties                                                              *)

(* An Add's directory tree is on disk exactly when its call is still open  *)
(* or was answered with success: every one of the refusals in Handle,      *)
(* Apply and run removes it, and no published location loses it.           *)
TreeMatchesOutcome ==
    \A c \in Calls :
        kind[c] = "add" =>
            /\ reply[c] \in {"none", "ok"} => tree[c] = "made"
            /\ reply[c] \in Errors         => tree[c] = "removed"

(* At most one generator goroutine is alive, the pending transition's, and *)
(* while it reads the filesystem for an Add the tree the Add created is    *)
(* still there: run answers, and so rolls back, a retired transition only  *)
(* when its generator has come back.                                       *)
NoRollbackUnderBuild ==
    \A id \in Generations :
        build[id] \in {"running", "ok", "failed"} =>
            /\ pending.command # NoCall /\ pending.id = id
            /\ kind[pending.command] = "add" => tree[pending.command] = "made"

(* When run has returned, every generator goroutine it started has         *)
(* delivered its completion: none is left blocked on the command channel,  *)
(* and no call is left waiting for a reply nobody will send.               *)
NothingOutlivesActor ==
    phase # "running" =>
        /\ \A id \in Generations : build[id] \in {"none", "delivered"}
        /\ \A c \in Calls : pc[c] # "received"

(* Publication is optimistic concurrency control: of the calls that        *)
(* observed the same generation, at most one gets to replace the records.  *)
NoLostUpdate ==
    \A c, d \in Calls :
        /\ c # d
        /\ reply[c] = "ok" /\ kind[c] # "state"
        /\ reply[d] = "ok" /\ kind[d] # "state"
        => base[c] # base[d]

(* A held command still has the current generation as its base, so the     *)
(* stale checks that start and the completion case repeat never fire.      *)
HeldCommandsAreFresh ==
    /\ pending.command # NoCall => base[pending.command] = current.generation
    /\ replacement # NoCall => base[replacement] = current.generation

(* A transition that run has retired (superseded, cancelled, shut down) is *)
(* never published afterwards, whatever its generator returns.             *)
RetiredNeverPublished ==
    [][\A c \in Calls :
        pending.command = c /\ pending.retiring => reply'[c] # "ok"]_vars

(* Nobody waits for ever, even for a generator that would run until its    *)
(* context is cancelled: Close returns; a call whose context ends gets its *)
(* answer, whether it is blocked on the channel, pending or parked; and a  *)
(* superseding command is not starved by the transition it supersedes.     *)
NobodyIsStuck ==
    []<>(/\ closer \in {"idle", "returned"}
         /\ replacement = NoCall
         /\ \A c \in Calls : cancelled[c] => pc[c] \in {"idle", "returned"})

-----------------------------------------------------------------------------
(* The promise to the callers, and how its state is read off the actor's.  *)

Outcome(c) ==
    IF reply[c] = "none" THEN "open" ELSE IF reply[c] = "ok" THEN "won" ELSE "refused"

Promise == INSTANCE SessionPromise WITH
    generation <- current.generation,
    state      <- current.state,
    records    <- current.records,
    outcome    <- [c \in Calls |-> Outcome(c)]

(* Seen by its callers, the actor is the compare-and-swap view of          *)
(* SessionPromise: supersession, cancellation and shutdown only refuse.    *)
ImplementsPromise == Promise!Spec

-----------------------------------------------------------------------------
(* The inductive invariant behind the safety properties                    *)

PendingInv ==
    IF pending.command = NoCall
    THEN pending = NoTransition
    ELSE /\ pending.id = nextID /\ nextID \in Generations
         /\ current.generation < pending.id
         /\ build[pending.id] \in {"running", "ok", "failed"}
         /\ pc[pending.command] = "received"
         /\ NeedsBuild(pending.command)
         /\ base[pending.command] = current.generation
         /\ pending.retiring => pending.replyErr \in Errors

ReplacementInv ==
    replacement # NoCall =>
        /\ IF pending.command = NoCall THEN shutdownErr # "none" ELSE pending.retiring
        /\ replacement # pending.command
        /\ pc[replacement] = "received"
        /\ kind[replacement] # "enrich"
        /\ base[replacement] = current.generation

BuildInv ==
    \A id \in Generations :
        /\ build[id] \in {"running", "ok", "failed"} =>
               pending.command # NoCall /\ pending.id = id
        /\ id > nextID => build[id] = "none"

CallInv ==
    \A c \in Calls :
        /\ pc[c] = "returned" <=> reply[c] # "none"
        /\ pc[c] = "received" => c = pending.command \/ c = replacement
        /\ pc[c] \in {"idle", "observed"} => kind[c] = "none"
        /\ pc[c] = "created" => kind[c] = "add"
        /\ pc[c] \in {"sending", "received"} => kind[c] # "none"
        /\ kind[c] # "add" => tree[c] = "none"
        /\ base[c] <= current.generation
        /\ reply[c] = "ok" /\ kind[c] # "state" => base[c] < current.generation

PhaseInv ==
    /\ current.generation <= nextID
    /\ phase # "running" =>
           /\ shutdownErr # "none"
           /\ pending.command = NoCall /\ replacement = NoCall

(* What run maintains between two iterations, from which the safety        *)
(* properties follow: how the held commands, the generators and the calls  *)
(* outside fit together.                                                   *)
ActorInv ==
    /\ TypeOK
    /\ PendingInv
    /\ ReplacementInv
    /\ BuildInv
    /\ CallInv
    /\ PhaseInv
    /\ TreeMatchesOutcome
    /\ NoLostUpdate
=============================================================================
