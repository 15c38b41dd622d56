------------------------ MODULE SessionActor_proofs ------------------------
(***************************************************************************)
(* Proofs about the session actor, for any set of calls and any generation *)
(* limit.  ActorInv is inductive; the safety properties of SessionActor    *)
(* follow from it.                                                         *)
(***************************************************************************)
EXTENDS SessionActor, TLAPS

(* The actor starts in a state that satisfies its invariant.               *)
LEMMA InitActorInv == Init => ActorInv
<1> SUFFICES ASSUME Init PROVE ActorInv
  OBVIOUS
<1> USE NoCallAssumption, MaxGenerationAssumption DEF Init, Errors
<1>1. TypeOK
  <2>1. current \in Snapshots
    BY DEF Snapshots, CallOrNone
  <2>2. pending \in Transitions
    BY DEF Transitions, NoTransition, CallOrNone
  <2>3. /\ sessionArmed \in BOOLEAN
        /\ sessionEnded \in BOOLEAN
    OBVIOUS
  <2>4. /\ replacement \in CallOrNone
        /\ shutdownErr \in {"none", "closed", "session ended"}
        /\ phase \in {"running", "exiting", "done"}
        /\ nextID \in 0..MaxGeneration
        /\ closer \in {"idle", "sending", "waiting", "returned"}
    BY DEF CallOrNone
  <2>5. cancelled \in [Calls -> BOOLEAN]
    OBVIOUS
  <2> QED
    BY <2>1, <2>2, <2>3, <2>4, <2>5 DEF TypeOK, Generations, Kinds
<1>2. PendingInv /\ ReplacementInv
  BY DEF PendingInv, ReplacementInv, NoTransition
<1>3. BuildInv /\ CallInv /\ PhaseInv
  BY DEF BuildInv, CallInv, PhaseInv, Generations
<1>4. TreeMatchesOutcome /\ NoLostUpdate
  BY DEF TreeMatchesOutcome, NoLostUpdate
<1> QED
  BY <1>1, <1>2, <1>3, <1>4 DEF ActorInv

-----------------------------------------------------------------------------
(* What the answer tables of the actions do to pc, tree and reply          *)

Answers == [Calls -> Errors \cup {"none", "hold", "ok"}]

(* An answer table leaves pc, tree and reply well typed.                   *)
LEMMA AnswerType ==
  ASSUME TypeOK, NEW answers \in Answers, Answer(answers)
  PROVE  /\ pc' \in [Calls -> {"idle", "observed", "created", "sending", "received", "returned"}]
         /\ tree' \in [Calls -> {"none", "made", "removed"}]
         /\ reply' \in [Calls -> Errors \cup {"none", "ok"}]
  BY DEF TypeOK, Answer, replyApplyError, Answers, Errors

(* Refusing c marks it returned and removes its tree.                      *)
LEMMA AnswerRefusal ==
  ASSUME TypeOK, NEW c \in Calls, NEW r \in Errors, Answer(AnswerOne(c, r))
  PROVE  /\ reply' = [reply EXCEPT ![c] = r]
         /\ pc' = [pc EXCEPT ![c] = "returned"]
         /\ tree' = [tree EXCEPT ![c] = IF tree[c] = "made" THEN "removed" ELSE tree[c]]
<1>1. /\ AnswerOne(c, r)[c] = r
      /\ \A d \in Calls \ {c} : AnswerOne(c, r)[d] = "none"
  BY DEF AnswerOne, NoAnswer
<1>2. reply' = [reply EXCEPT ![c] = r]
  BY <1>1 DEF Answer, TypeOK, Errors
<1>3. pc' = [pc EXCEPT ![c] = "returned"]
  BY <1>1 DEF Answer, TypeOK, Errors
<1>4. tree' = [tree EXCEPT ![c] = IF tree[c] = "made" THEN "removed" ELSE tree[c]]
  BY <1>1 DEF Answer, replyApplyError, TypeOK, Errors
<1> QED
  BY <1>2, <1>3, <1>4

(* A success touches only its own call, and no tree.                       *)
LEMMA AnswerSuccess ==
  ASSUME TypeOK, NEW c \in Calls, Answer(AnswerOne(c, "ok"))
  PROVE  /\ reply' = [reply EXCEPT ![c] = "ok"]
         /\ pc' = [pc EXCEPT ![c] = "returned"]
         /\ tree' = tree
<1>1. /\ AnswerOne(c, "ok")[c] = "ok"
      /\ \A d \in Calls \ {c} : AnswerOne(c, "ok")[d] = "none"
  BY DEF AnswerOne, NoAnswer
<1>2. reply' = [reply EXCEPT ![c] = "ok"]
  BY <1>1 DEF Answer, TypeOK
<1>3. pc' = [pc EXCEPT ![c] = "returned"]
  BY <1>1 DEF Answer, TypeOK
<1>4. tree' = tree
  BY <1>1 DEF Answer, replyApplyError, TypeOK, Errors
<1> QED
  BY <1>2, <1>3, <1>4

(* Holding a command answers nobody.                                       *)
LEMMA AnswerHold ==
  ASSUME TypeOK, NEW c \in Calls, Answer(AnswerOne(c, "hold"))
  PROVE  /\ reply' = reply
         /\ pc' = [pc EXCEPT ![c] = "received"]
         /\ tree' = tree
<1>1. /\ AnswerOne(c, "hold")[c] = "hold"
      /\ \A d \in Calls \ {c} : AnswerOne(c, "hold")[d] = "none"
  BY DEF AnswerOne, NoAnswer
<1>2. reply' = reply
  BY <1>1 DEF Answer, TypeOK
<1>3. pc' = [pc EXCEPT ![c] = "received"]
  BY <1>1 DEF Answer, TypeOK
<1>4. tree' = tree
  BY <1>1 DEF Answer, replyApplyError, TypeOK, Errors
<1> QED
  BY <1>2, <1>3, <1>4

(* A completion that refuses p and starts c settles both in one step.      *)
LEMMA AnswerBoth ==
  ASSUME TypeOK, NEW p \in Calls, NEW c \in Calls, p # c,
         NEW r \in Errors, NEW x \in Errors \cup {"ok", "hold"},
         Answer([AnswerOne(p, r) EXCEPT ![c] = x])
  PROVE  /\ reply' \in [Calls -> Errors \cup {"none", "ok"}]
         /\ pc' \in [Calls -> {"idle", "observed", "created", "sending", "received", "returned"}]
         /\ tree' \in [Calls -> {"none", "made", "removed"}]
         /\ reply'[p] = r /\ pc'[p] = "returned"
         /\ tree'[p] = IF tree[p] = "made" THEN "removed" ELSE tree[p]
         /\ x = "hold" => reply'[c] = reply[c] /\ pc'[c] = "received"
         /\ x # "hold" => reply'[c] = x /\ pc'[c] = "returned"
         /\ x \in Errors => tree'[c] = IF tree[c] = "made" THEN "removed" ELSE tree[c]
         /\ x \notin Errors => tree'[c] = tree[c]
         /\ \A d \in Calls \ {p, c} :
               reply'[d] = reply[d] /\ pc'[d] = pc[d] /\ tree'[d] = tree[d]
<1> DEFINE a == [AnswerOne(p, r) EXCEPT ![c] = x]
<1>1. /\ a[p] = r /\ a[c] = x
      /\ \A d \in Calls \ {p, c} : a[d] = "none"
  BY DEF AnswerOne, NoAnswer
<1>2. Answer(a)
  OBVIOUS
<1>3. /\ r \notin {"none", "hold", "ok"} /\ "none" \notin Errors
      /\ x # "none" /\ (x \in Errors <=> x \notin {"hold", "ok"})
  BY DEF Errors
<1>4. a \in Answers
  BY DEF AnswerOne, NoAnswer, Answers
<1> HIDE DEF a
<1>5. \A d \in Calls :
        /\ reply'[d] = IF a[d] \in {"none", "hold"} THEN reply[d] ELSE a[d]
        /\ pc'[d] = IF a[d] = "none" THEN pc[d]
                    ELSE IF a[d] = "hold" THEN "received" ELSE "returned"
        /\ tree'[d] = IF a[d] \in Errors /\ tree[d] = "made" THEN "removed" ELSE tree[d]
  BY <1>2 DEF Answer, replyApplyError
<1>7. /\ reply' \in [Calls -> Errors \cup {"none", "ok"}]
      /\ pc' \in [Calls -> {"idle", "observed", "created", "sending", "received", "returned"}]
      /\ tree' \in [Calls -> {"none", "made", "removed"}]
  BY <1>2, <1>4, AnswerType
<1>8. /\ reply'[p] = r /\ pc'[p] = "returned"
      /\ tree'[p] = IF tree[p] = "made" THEN "removed" ELSE tree[p]
  BY <1>1, <1>3, <1>5
<1>9. /\ x = "hold" => reply'[c] = reply[c] /\ pc'[c] = "received"
      /\ x # "hold" => reply'[c] = x /\ pc'[c] = "returned"
      /\ x \notin Errors => tree'[c] = tree[c]
  BY <1>1, <1>3, <1>5
<1>10. x \in Errors => tree'[c] = IF tree[c] = "made" THEN "removed" ELSE tree[c]
  BY <1>1, <1>5
<1>11. \A d \in Calls \ {p, c} :
          reply'[d] = reply[d] /\ pc'[d] = pc[d] /\ tree'[d] = tree[d]
  BY <1>1, <1>3, <1>5
<1> QED
  BY <1>7, <1>8, <1>9, <1>10, <1>11

-----------------------------------------------------------------------------
(* The actions preserve the invariant                                      *)

(* A call that run does not hold can be refused at any time, whatever else *)
(* it was about to ask.                                                    *)
LEMMA RefuseInv ==
  ASSUME ActorInv, NEW c \in Calls, NEW r \in Errors, NEW k \in Kinds,
         pc[c] \in {"idle", "observed", "created", "sending"},
         Answer(AnswerOne(c, r)),
         kind' = [kind EXCEPT ![c] = k],
         k = kind[c] \/ (kind[c] = "none" /\ k # "add"),
         UNCHANGED <<actorVars, buildVars, envVars, base, cancelled>>
  PROVE  ActorInv'
<1> USE NoCallAssumption, MaxGenerationAssumption
<1>1. TypeOK /\ PendingInv /\ ReplacementInv /\ BuildInv /\ CallInv /\ PhaseInv
      /\ TreeMatchesOutcome /\ NoLostUpdate
  BY DEF ActorInv
<1>2. /\ reply' = [reply EXCEPT ![c] = r]
      /\ pc' = [pc EXCEPT ![c] = "returned"]
      /\ tree' = [tree EXCEPT ![c] = IF tree[c] = "made" THEN "removed" ELSE tree[c]]
  BY <1>1, AnswerRefusal
<1>3. UNCHANGED <<current, pending, replacement, shutdownErr, sessionArmed, phase,
                  nextID, build, stopped, sessionEnded, closer, base, cancelled>>
  BY DEF actorVars, buildVars, envVars
<1>4. r # "none" /\ r # "ok"
  BY DEF Errors
<1>5. TypeOK'
  BY <1>1, <1>2, <1>3 DEF TypeOK
<1>6. PendingInv'
  BY <1>1, <1>2, <1>3 DEF TypeOK, PendingInv, NeedsBuild, Transitions, CallOrNone
<1>7. ReplacementInv'
  BY <1>1, <1>2, <1>3 DEF TypeOK, ReplacementInv, CallOrNone
<1>8. BuildInv' /\ PhaseInv'
  BY <1>1, <1>3 DEF BuildInv, PhaseInv
<1>9. CallInv'
  BY <1>1, <1>2, <1>3, <1>4, ZenonT(30) DEF TypeOK, CallInv
<1>10. TreeMatchesOutcome'
  BY <1>1, <1>2, <1>3, <1>4 DEF TypeOK, CallInv, TreeMatchesOutcome
<1>11. NoLostUpdate'
  <2>1. \A d \in Calls : reply'[d] = "ok" => reply[d] = "ok" /\ kind'[d] = kind[d]
    BY <1>1, <1>2, <1>4 DEF TypeOK
  <2> QED
    BY <1>1, <1>3, <2>1 DEF NoLostUpdate
<1> QED
  BY <1>5, <1>6, <1>7, <1>8, <1>9, <1>10, <1>11 DEF ActorInv

(* The errors run and its callers reply with.                              *)
LEMMA ErrorTypes ==
  ASSUME ActorInv, NEW c \in Calls
  PROVE  /\ shutdownErr # "none" => shutdownErr \in Errors
         /\ applyError(c) # "none" => applyError(c) \in Errors
         /\ enrichError(c) # "none" => enrichError(c) \in Errors
         /\ \A cur : startError(c, cur) # "none" => startError(c, cur) \in Errors
         /\ {"cancelled", "invalid event", "superseded", "closed", "session ended"}
                \subseteq Errors
<1>1. TypeOK
  BY DEF ActorInv
<1>2. shutdownErr # "none" => shutdownErr \in Errors
  BY <1>1 DEF TypeOK, Errors
<1>3. applyError(c) # "none" => applyError(c) \in Errors
  BY <1>2 DEF applyError, Errors
<1>4. enrichError(c) # "none" => enrichError(c) \in Errors
  BY <1>2 DEF enrichError, Errors
<1>5. \A cur : startError(c, cur) # "none" => startError(c, cur) \in Errors
  BY DEF startError, Errors
<1>6. {"cancelled", "invalid event", "superseded", "closed", "session ended"} \subseteq Errors
  BY DEF Errors
<1> QED
  BY <1>2, <1>3, <1>4, <1>5, <1>6

(* applyEnrichment (the actor's arm for an enrichment) keeps the invariant:
   it answers at once, refused or with the next generation. *)
LEMMA ReceiveEnrichInv ==
  ASSUME ActorInv, NEW c \in Calls, ReceiveEnrich(c)
  PROVE  ActorInv'
<1> USE NoCallAssumption, MaxGenerationAssumption
<1>1. TypeOK /\ PendingInv /\ ReplacementInv /\ BuildInv /\ CallInv /\ PhaseInv
      /\ TreeMatchesOutcome /\ NoLostUpdate
  BY DEF ActorInv
<1>2. /\ UNCHANGED <<pending, replacement, shutdownErr, sessionArmed, phase,
                     build, stopped, sessionEnded, closer, kind, base, cancelled>>
      /\ Serving /\ pc[c] = "sending" /\ kind[c] = "enrich"
  BY DEF ReceiveEnrich, envVars
<1>3. CASE enrichError(c) # "none"
  <2>1. Answer(AnswerOne(c, enrichError(c))) /\ UNCHANGED <<current, nextID>>
    BY <1>3 DEF ReceiveEnrich
  <2>2. kind' = [kind EXCEPT ![c] = kind[c]] /\ kind[c] \in Kinds
    BY <1>1, <1>2 DEF TypeOK
  <2> QED
    BY <1>2, <1>3, <2>1, <2>2, ErrorTypes, RefuseInv
    DEF actorVars, buildVars, envVars
<1>4. CASE enrichError(c) = "none"
  <2>1. /\ Answer(AnswerOne(c, "ok")) /\ nextID' = nextID + 1
        /\ current' = [current EXCEPT !.generation = nextID + 1, !.records = c]
    BY <1>4 DEF ReceiveEnrich
  <2>2. /\ reply' = [reply EXCEPT ![c] = "ok"]
        /\ pc' = [pc EXCEPT ![c] = "returned"] /\ tree' = tree
    BY <1>1, <2>1, AnswerSuccess
  <2>3. /\ shutdownErr = "none" /\ base[c] = current.generation
        /\ pending.command = NoCall /\ nextID # MaxGeneration
    BY <1>4 DEF enrichError
  <2>4. /\ nextID \in Nat /\ nextID' \in 0..MaxGeneration
        /\ current \in Snapshots /\ current'.generation = nextID + 1
        /\ current.generation \in Nat /\ current.generation < current'.generation
    BY <1>1, <2>1, <2>3 DEF TypeOK, PhaseInv, Snapshots
  <2>5. current' \in Snapshots
    BY <2>1, <2>4 DEF Snapshots, CallOrNone
  <2>6. TypeOK'
    BY <1>1, <1>2, <2>2, <2>4, <2>5 DEF TypeOK
  <2>7. PendingInv' /\ ReplacementInv'
    BY <1>1, <1>2, <2>2, <2>3 DEF PendingInv, ReplacementInv, NoTransition
  <2>8. BuildInv' /\ PhaseInv'
    BY <1>1, <1>2, <2>1, <2>3, <2>4 DEF BuildInv, PhaseInv, Generations, TypeOK, Serving
  <2>9. CallInv'
    BY <1>1, <1>2, <2>2, <2>3, <2>4 DEF CallInv, TypeOK
  <2>10. TreeMatchesOutcome'
    BY <1>1, <1>2, <2>2 DEF TreeMatchesOutcome, TypeOK
  <2>11. NoLostUpdate'
    BY <1>1, <1>2, <2>2, <2>3, <2>4 DEF NoLostUpdate, CallInv, TypeOK
  <2> QED
    BY <2>6, <2>7, <2>8, <2>9, <2>10, <2>11 DEF ActorInv
<1> QED
  BY <1>3, <1>4

(* start, called for c in a state where nothing is pending and nothing is  *)
(* parked; it is the whole of ReceiveApply's second case.                  *)
LEMMA StartInv ==
  ASSUME ActorInv, NEW c \in Calls,
         Serving, pc[c] = "sending", kind[c] # "enrich",
         applyError(c) = "none", pending.command = NoCall,
         start(c, current, build, NoAnswer),
         UNCHANGED <<replacement, stopped, shutdownErr, sessionArmed, phase,
                     sessionEnded, closer, kind, base, cancelled>>
  PROVE  ActorInv'
<1> USE NoCallAssumption, MaxGenerationAssumption
<1>1. TypeOK /\ PendingInv /\ ReplacementInv /\ BuildInv /\ CallInv /\ PhaseInv
      /\ TreeMatchesOutcome /\ NoLostUpdate
  BY DEF ActorInv
<1>2. pending = NoTransition /\ shutdownErr = "none" /\ replacement = NoCall
  BY <1>1 DEF PendingInv, ReplacementInv, applyError
<1>3. \A r : [NoAnswer EXCEPT ![c] = r] = AnswerOne(c, r)
  BY DEF AnswerOne
<1>4. CASE startError(c, current) # "none"
  <2>1. Answer(AnswerOne(c, startError(c, current)))
    BY <1>3, <1>4 DEF start
  <2>2. UNCHANGED <<current, pending, nextID, build>>
    BY <1>2, <1>4 DEF start
  <2>3. kind' = [kind EXCEPT ![c] = kind[c]] /\ kind[c] \in Kinds
    BY <1>1 DEF TypeOK
  <2> QED
    BY <1>4, <2>1, <2>2, <2>3, ErrorTypes, RefuseInv
    DEF actorVars, buildVars, envVars
<1>5. CASE startError(c, current) = "none" /\ ~NeedsBuild(c)
  <2>1. /\ Answer(AnswerOne(c, "ok"))
        /\ current' = [current EXCEPT !.state = c]
        /\ UNCHANGED <<pending, nextID, build>>
    BY <1>2, <1>3, <1>5 DEF start
  <2>2. /\ reply' = [reply EXCEPT ![c] = "ok"]
        /\ pc' = [pc EXCEPT ![c] = "returned"] /\ tree' = tree
    BY <1>1, <2>1, AnswerSuccess
  <2>3. current' \in Snapshots /\ current'.generation = current.generation
    BY <1>1, <2>1 DEF TypeOK, Snapshots, CallOrNone
  <2>4. kind[c] = "state"
    BY <1>1, <1>5 DEF TypeOK, Kinds, NeedsBuild, CallInv
  <2>5. TypeOK'
    BY <1>1, <2>1, <2>2, <2>3 DEF TypeOK
  <2>6. PendingInv' /\ ReplacementInv' /\ BuildInv' /\ PhaseInv'
    BY <1>1, <1>2, <2>1, <2>3
    DEF PendingInv, ReplacementInv, BuildInv, PhaseInv, NoTransition
  <2>7. CallInv'
    BY <1>1, <2>1, <2>2, <2>3, <2>4 DEF TypeOK, CallInv
  <2>8. TreeMatchesOutcome'
    BY <1>1, <2>2, <2>4 DEF TypeOK, TreeMatchesOutcome
  <2>9. NoLostUpdate'
    BY <1>1, <2>2, <2>4 DEF TypeOK, NoLostUpdate
  <2> QED
    BY <2>5, <2>6, <2>7, <2>8, <2>9 DEF ActorInv
<1>6. CASE startError(c, current) = "none" /\ NeedsBuild(c)
  <2>1. /\ Answer(AnswerOne(c, "hold"))
        /\ current' = current /\ nextID' = nextID + 1
        /\ build' = [build EXCEPT ![nextID + 1] = "running"]
        /\ pending' = [id |-> nextID + 1, command |-> c,
                       retiring |-> FALSE, replyErr |-> "none"]
    BY <1>3, <1>6 DEF start
  <2>2. /\ reply' = reply /\ tree' = tree
        /\ pc' = [pc EXCEPT ![c] = "received"]
    BY <1>1, <2>1, AnswerHold
  <2>3. nextID # MaxGeneration /\ base[c] = current.generation
    BY <1>6 DEF startError
  <2>40. nextID \in 0..MaxGeneration
    BY <1>1 DEF TypeOK
  <2>4. nextID + 1 \in Generations /\ nextID \in Nat
    BY <2>3, <2>40 DEF Generations
  <2>50. pending' \in Transitions /\ nextID' \in 0..MaxGeneration
    BY <2>1, <2>4 DEF Transitions, CallOrNone, Generations
  <2>51. /\ build' \in [Generations -> {"none", "running", "ok", "failed", "delivered"}]
         /\ build'[nextID + 1] = "running"
    BY <1>1, <2>1, <2>4 DEF TypeOK
  <2>5. /\ pending'.id = nextID + 1 /\ pending'.command = c
        /\ pending'.retiring = FALSE
    BY <2>1
  <2>6. TypeOK'
    BY <1>1, <2>1, <2>2, <2>50, <2>51 DEF TypeOK
  <2>7. PendingInv'
    <3>1. pc'[c] = "received" /\ NeedsBuild(c)' /\ base'[c] = current.generation
      BY <1>1, <1>6, <2>2, <2>3 DEF TypeOK, NeedsBuild
    <3>2. current.generation \in 0..MaxGeneration /\ current.generation <= nextID
      BY <1>1 DEF TypeOK, PhaseInv, Snapshots
    <3>3. current.generation < nextID + 1
      BY <2>4, <3>2
    <3> QED
      BY <2>1, <2>4, <2>5, <2>51, <3>1, <3>3 DEF PendingInv
  <2>8. ReplacementInv'
    BY <1>2 DEF ReplacementInv
  <2>9. BuildInv'
    BY <1>1, <1>2, <2>1, <2>4 DEF TypeOK, BuildInv, Generations
  <2>10. PhaseInv'
    BY <1>1, <2>1, <2>4 DEF TypeOK, PhaseInv, Snapshots, Serving
  <2>11. CallInv'
    BY <1>1, <1>2, <2>1, <2>2 DEF TypeOK, CallInv
  <2>12. TreeMatchesOutcome' /\ NoLostUpdate'
    BY <1>1, <2>2 DEF TreeMatchesOutcome, NoLostUpdate
  <2> QED
    BY <2>6, <2>7, <2>8, <2>9, <2>10, <2>11, <2>12 DEF ActorInv
<1> QED
  BY <1>4, <1>5, <1>6

(* Retiring the pending transition and whatever shutdown goes with it.     *)
LEMMA RetireInv ==
  ASSUME ActorInv, NEW err \in Errors, pending.command # NoCall, Retire(err),
         shutdownErr' \in {"none", "closed", "session ended"},
         shutdownErr # "none" => shutdownErr' # "none",
         sessionArmed' \in BOOLEAN,
         closer' \in {"idle", "sending", "waiting", "returned"},
         UNCHANGED <<current, replacement, phase, nextID, build, sessionEnded, callVars>>
  PROVE  ActorInv'
<1> USE NoCallAssumption, MaxGenerationAssumption
<1>1. TypeOK /\ PendingInv /\ ReplacementInv /\ BuildInv /\ CallInv /\ PhaseInv
      /\ TreeMatchesOutcome /\ NoLostUpdate
  BY DEF ActorInv
<1>2. UNCHANGED <<pc, kind, base, cancelled, tree, reply>>
  BY DEF callVars
<1>3. /\ pending' = [pending EXCEPT !.retiring = TRUE, !.replyErr = err]
      /\ stopped' = stopped \cup {pending.id}
  BY DEF Retire
<1>4. /\ pending' \in Transitions /\ pending'.id = pending.id
      /\ pending'.command = pending.command /\ pending'.retiring
      /\ pending'.replyErr = err
  BY <1>1, <1>3 DEF TypeOK, Transitions
<1>49. pending.id \in Generations
  BY <1>1 DEF PendingInv
<1>50. stopped' \in SUBSET Generations
  BY <1>1, <1>3, <1>49 DEF TypeOK
<1>5. TypeOK'
  BY <1>1, <1>2, <1>4, <1>50 DEF TypeOK
<1>6. PendingInv'
  BY <1>1, <1>2, <1>4 DEF PendingInv, NeedsBuild
<1>7. ReplacementInv'
  BY <1>1, <1>2, <1>4 DEF ReplacementInv
<1>8. BuildInv' /\ CallInv' /\ PhaseInv'
  BY <1>1, <1>2, <1>4 DEF BuildInv, CallInv, PhaseInv
<1>9. TreeMatchesOutcome' /\ NoLostUpdate'
  BY <1>1, <1>2 DEF TreeMatchesOutcome, NoLostUpdate
<1> QED
  BY <1>5, <1>6, <1>7, <1>8, <1>9 DEF ActorInv

(* The actor's arm for a command (apply, then the start or the wait of a
   candidate build) keeps the invariant. *)
LEMMA ReceiveApplyInv ==
  ASSUME ActorInv, NEW c \in Calls, ReceiveApply(c)
  PROVE  ActorInv'
<1> USE NoCallAssumption, MaxGenerationAssumption
<1>1. TypeOK /\ PendingInv /\ ReplacementInv /\ BuildInv /\ CallInv /\ PhaseInv
      /\ TreeMatchesOutcome /\ NoLostUpdate
  BY DEF ActorInv
<1>2. /\ UNCHANGED <<shutdownErr, sessionArmed, phase, sessionEnded, closer,
                     kind, base, cancelled>>
      /\ Serving /\ pc[c] = "sending" /\ kind[c] # "enrich"
  BY DEF ReceiveApply, envVars
<1>3. CASE applyError(c) # "none"
  <2>1. /\ Answer(AnswerOne(c, applyError(c)))
        /\ UNCHANGED <<current, pending, replacement, nextID, build, stopped>>
    BY <1>3 DEF ReceiveApply
  <2>2. kind' = [kind EXCEPT ![c] = kind[c]] /\ kind[c] \in Kinds
    BY <1>1, <1>2 DEF TypeOK
  <2> QED
    BY <1>2, <1>3, <2>1, <2>2, ErrorTypes, RefuseInv
    DEF actorVars, buildVars, envVars
<1>4. CASE applyError(c) = "none" /\ pending.command = NoCall
  <2>1. start(c, current, build, NoAnswer) /\ UNCHANGED <<replacement, stopped>>
    BY <1>4 DEF ReceiveApply
  <2> QED
    BY <1>2, <1>4, <2>1, StartInv
<1>5. CASE applyError(c) = "none" /\ pending.command # NoCall
  <2>1. /\ Retire("superseded") /\ replacement' = c
        /\ Answer(AnswerOne(c, "hold"))
        /\ UNCHANGED <<current, nextID, build>>
    BY <1>5 DEF ReceiveApply
  <2>2. /\ reply' = reply /\ tree' = tree
        /\ pc' = [pc EXCEPT ![c] = "received"]
    BY <1>1, <2>1, AnswerHold
  <2>3. ~pending.retiring /\ replacement = NoCall /\ base[c] = current.generation
    BY <1>5 DEF applyError
  <2>4. /\ pending' \in Transitions /\ pending'.id = pending.id
        /\ pending'.command = pending.command /\ pending'.retiring
        /\ pending'.replyErr = "superseded"
        /\ stopped' = stopped \cup {pending.id}
    BY <1>1, <2>1 DEF TypeOK, Transitions, Retire, Errors
  <2>49. pending.id \in Generations
    BY <1>1, <1>5 DEF PendingInv
  <2>50. stopped' \in SUBSET Generations /\ replacement' \in CallOrNone
    BY <1>1, <2>1, <2>4, <2>49 DEF TypeOK, CallOrNone
  <2>5. TypeOK'
    BY <1>1, <1>2, <2>1, <2>2, <2>4, <2>50 DEF TypeOK
  <2>6. PendingInv'
    BY <1>1, <1>2, <1>5, <2>1, <2>2, <2>4, ZenonT(30)
    DEF TypeOK, PendingInv, NeedsBuild, Transitions, CallOrNone, Errors
  <2>7. ReplacementInv'
    BY <1>1, <1>2, <1>5, <2>1, <2>2, <2>3, <2>4
    DEF TypeOK, PendingInv, ReplacementInv
  <2>8. BuildInv' /\ PhaseInv'
    BY <1>1, <1>2, <2>1, <2>4 DEF BuildInv, PhaseInv, Serving
  <2>9. CallInv'
    <3>1. \A d \in Calls : d # c => pc'[d] = pc[d]
      BY <1>1, <2>2 DEF TypeOK
    <3>2. pc'[c] = "received"
      BY <1>1, <2>2 DEF TypeOK
    <3> QED
      BY <1>1, <1>2, <2>1, <2>2, <2>3, <2>4, <3>1, <3>2 DEF CallInv
  <2>10. TreeMatchesOutcome' /\ NoLostUpdate'
    BY <1>1, <1>2, <2>2 DEF TreeMatchesOutcome, NoLostUpdate
  <2> QED
    BY <2>5, <2>6, <2>7, <2>8, <2>9, <2>10 DEF ActorInv
<1> QED
  BY <1>3, <1>4, <1>5

(* A completion, with nothing parked behind it or a shutdown under way:    *)
(* the pending call is answered and the actor is free.                     *)
LEMMA CompletionInv ==
  ASSUME ActorInv, NEW id \in Generations, Serving,
         pending.command # NoCall, pending.id = id,
         replacement = NoCall \/ shutdownErr # "none",
         Answer(completionAnswer(id)),
         current' = completed(id),
         pending' = NoTransition,
         build' = [build EXCEPT ![id] = "delivered"],
         stopped' = stopped \cup {id},
         UNCHANGED <<replacement, nextID, shutdownErr, sessionArmed, phase,
                     sessionEnded, closer, kind, base, cancelled>>
  PROVE  ActorInv'
<1> USE NoCallAssumption, MaxGenerationAssumption
<1> DEFINE p == pending.command
<1>1. TypeOK /\ PendingInv /\ ReplacementInv /\ BuildInv /\ CallInv /\ PhaseInv
      /\ TreeMatchesOutcome /\ NoLostUpdate
  BY DEF ActorInv
<1>2. p \in Calls /\ pc[p] = "received" /\ kind[p] \in {"navigate", "add"}
  BY <1>1 DEF TypeOK, Transitions, CallOrNone, PendingInv, NeedsBuild
<1>30. current.generation \in 0..MaxGeneration
  BY <1>1 DEF TypeOK, Snapshots
<1>3. /\ base[p] = current.generation /\ current.generation \in Nat
      /\ current.generation < id /\ id = nextID /\ id \in Nat
  BY <1>1, <1>30 DEF PendingInv, Generations
<1>4. reply[p] = "none" /\ kind[p] # "state" /\ p # replacement
  BY <1>1, <1>2 DEF CallInv, ReplacementInv
<1>5. NoTransition \in Transitions /\ NoTransition.command = NoCall
  BY DEF NoTransition, Transitions, CallOrNone
<1>6. build' \in [Generations -> {"none", "running", "ok", "failed", "delivered"}]
      /\ stopped' \in SUBSET Generations
  BY <1>1 DEF TypeOK
<1>7. BuildInv'
  <2>1. \A g \in Generations : g # id => build'[g] = build[g]
    BY <1>1 DEF TypeOK
  <2>2. build'[id] = "delivered"
    BY <1>1 DEF TypeOK
  <2>3. ~(id > nextID)
    BY <1>3
  <2> QED
    BY <1>1, <1>5, <2>1, <2>2, <2>3 DEF BuildInv
<1>8. CASE completionError(id) = "none"
  <2>1. Answer(AnswerOne(p, "ok"))
    BY <1>8 DEF completionAnswer
  <2>2. /\ reply' = [reply EXCEPT ![p] = "ok"]
        /\ pc' = [pc EXCEPT ![p] = "returned"] /\ tree' = tree
    BY <1>1, <1>2, <2>1, AnswerSuccess
  <2>3. current' = [generation |-> id, state |-> p, records |-> p]
    BY <1>8 DEF completed
  <2>4. current' \in Snapshots /\ current'.generation = id
    BY <1>2, <2>3 DEF Snapshots, CallOrNone, Generations
  <2>5. replacement = NoCall
    BY <1>1, <1>8 DEF completionError, PendingInv, ReplacementInv, Errors
  <2>6. TypeOK'
    BY <1>1, <1>5, <1>6, <2>2, <2>4 DEF TypeOK
  <2>7. PendingInv' /\ ReplacementInv'
    BY <1>5, <2>5 DEF PendingInv, ReplacementInv
  <2>8. PhaseInv'
    BY <1>1, <1>3, <2>4 DEF PhaseInv, Serving
  <2>9. /\ reply'[p] = "ok" /\ pc'[p] = "returned"
        /\ \A d \in Calls : d # p => reply'[d] = reply[d] /\ pc'[d] = pc[d]
    BY <1>1, <1>2, <2>2 DEF TypeOK
  <2>10. \A d \in Calls : base[d] \in Nat /\ base[d] <= current.generation /\ base[d] < id
    <3>1. \A d \in Calls : base[d] \in 0..MaxGeneration /\ base[d] <= current.generation
      BY <1>1 DEF TypeOK, CallInv
    <3> QED
      BY <1>3, <3>1
  <2>11. CallInv'
    <3>1. \A d \in Calls : d # p => pc'[d] # "received"
      BY <1>1, <2>5, <2>9 DEF CallInv
    <3> QED
      BY <1>1, <1>2, <1>3, <2>2, <2>4, <2>9, <2>10, <3>1 DEF CallInv
  <2>12. TreeMatchesOutcome'
    BY <1>1, <1>2, <1>4, <2>2, <2>9 DEF TreeMatchesOutcome, Errors
  <2>13. NoLostUpdate'
    <3>1. \A d \in Calls : d # p /\ reply'[d] = "ok" /\ kind[d] # "state" =>
                              reply[d] = "ok" /\ base[d] < base[p]
      BY <1>1, <1>3, <2>9 DEF CallInv
    <3> QED
      BY <1>1, <1>2, <1>3, <2>10, <3>1 DEF NoLostUpdate
  <2> QED
    BY <1>7, <2>6, <2>7, <2>8, <2>11, <2>12, <2>13 DEF ActorInv
<1>9. CASE completionError(id) # "none"
  <2> DEFINE r == completionError(id)
  <2>1. r \in Errors
    BY <1>1, <1>9 DEF completionError, PendingInv, Errors
  <2>2. Answer(AnswerOne(p, r)) /\ current' = current
    BY <1>9 DEF completionAnswer, completed
  <2> HIDE DEF r
  <2>3. /\ reply' = [reply EXCEPT ![p] = r]
        /\ pc' = [pc EXCEPT ![p] = "returned"]
        /\ tree' = [tree EXCEPT ![p] = IF tree[p] = "made" THEN "removed" ELSE tree[p]]
    BY <1>1, <1>2, <2>1, <2>2, AnswerRefusal
  <2>4. r # "none" /\ r # "ok"
    BY <2>1 DEF Errors
  <2>5. TypeOK'
    BY <1>1, <1>5, <1>6, <2>1, <2>2, <2>3 DEF TypeOK
  <2>6. PendingInv'
    BY <1>5 DEF PendingInv
  <2>7. ReplacementInv'
    BY <1>1, <1>2, <1>4, <1>5, <2>2, <2>3 DEF TypeOK, CallOrNone, ReplacementInv
  <2>8. PhaseInv'
    BY <1>1, <2>2 DEF PhaseInv, Serving
  <2>9. CallInv'
    BY <1>1, <1>2, <2>2, <2>3, <2>4, ZenonT(30) DEF TypeOK, CallInv
  <2>10. TreeMatchesOutcome'
    BY <1>1, <1>2, <1>4, <2>1, <2>3, <2>4, ZenonT(30) DEF TypeOK, CallInv, TreeMatchesOutcome
  <2>11. NoLostUpdate'
    BY <1>1, <1>2, <2>3, <2>4 DEF TypeOK, NoLostUpdate
  <2> QED
    BY <1>7, <2>5, <2>6, <2>7, <2>8, <2>9, <2>10, <2>11 DEF ActorInv
<1> QED
  BY <1>8, <1>9

(* A completion with a replacement parked behind it: the pending call is   *)
(* refused, since it was retired when the replacement came, and start runs *)
(* for the replacement in the same step.                                   *)
LEMMA CompletionStartInv ==
  ASSUME ActorInv, NEW id \in Generations, Serving,
         pending.command # NoCall, pending.id = id,
         replacement # NoCall, shutdownErr = "none",
         start(replacement, completed(id),
               [build EXCEPT ![id] = "delivered"], completionAnswer(id)),
         replacement' = NoCall,
         stopped' = stopped \cup {id},
         UNCHANGED <<shutdownErr, sessionArmed, phase, sessionEnded, closer,
                     kind, base, cancelled>>
  PROVE  ActorInv'
<1> USE NoCallAssumption, MaxGenerationAssumption
<1> DEFINE p == pending.command
           c == replacement
           r == pending.replyErr
           b == [build EXCEPT ![id] = "delivered"]
<1>1. TypeOK /\ PendingInv /\ ReplacementInv /\ BuildInv /\ CallInv /\ PhaseInv
      /\ TreeMatchesOutcome /\ NoLostUpdate
  BY DEF ActorInv
<1>2. /\ p \in Calls /\ c \in Calls /\ p # c /\ pending.retiring
      /\ pc[p] = "received" /\ pc[c] = "received" /\ r \in Errors
  BY <1>1 DEF TypeOK, Transitions, CallOrNone, PendingInv, ReplacementInv
<1>3. /\ base[p] = current.generation /\ base[c] = current.generation
      /\ current.generation \in Nat /\ current.generation < id /\ id = nextID
      /\ kind[c] # "enrich" /\ kind[c] # "none" /\ reply[c] = "none" /\ reply[p] = "none"
  BY <1>1, <1>2 DEF TypeOK, Snapshots, PendingInv, ReplacementInv, CallInv
<1>4. r # "none" /\ r # "ok"
  BY <1>2 DEF Errors
<1>5. completionError(id) = r
  BY <1>2 DEF completionError
<1>6. completed(id) = current /\ completionAnswer(id) = AnswerOne(p, r)
  BY <1>4, <1>5 DEF completed, completionAnswer
<1>7. /\ b \in [Generations -> {"none", "running", "ok", "failed", "delivered"}]
      /\ stopped' \in SUBSET Generations
      /\ NoTransition \in Transitions /\ NoTransition.command = NoCall
  BY <1>1 DEF TypeOK, NoTransition, Transitions, CallOrNone
<1>8. start(c, current, b, AnswerOne(p, r))
  BY <1>6
<1>9. /\ \A g \in Generations : b[g] \notin {"running", "ok", "failed"}
      /\ \A g \in Generations : g > nextID => b[g] = "none"
      /\ nextID \in 0..MaxGeneration
  BY <1>1, <1>3 DEF TypeOK, BuildInv
<1> HIDE DEF b
<1>10. ASSUME NEW x \in Errors \cup {"ok"},
              Answer([AnswerOne(p, r) EXCEPT ![c] = x]),
              x = "ok" => kind[c] = "state",
              current' \in Snapshots, current'.generation = current.generation,
              pending' = NoTransition, build' = b, UNCHANGED nextID
       PROVE  ActorInv'
  <2>1. /\ reply' \in [Calls -> Errors \cup {"none", "ok"}]
        /\ pc' \in [Calls -> {"idle", "observed", "created", "sending", "received", "returned"}]
        /\ tree' \in [Calls -> {"none", "made", "removed"}]
    BY <1>1, <1>2, <1>10, AnswerBoth
  <2>2. /\ reply'[p] = r /\ pc'[p] = "returned"
        /\ tree'[p] = IF tree[p] = "made" THEN "removed" ELSE tree[p]
    BY <1>1, <1>2, <1>10, AnswerBoth
  <2>3. x # "hold" /\ x # "none" /\ "ok" \notin Errors /\ "none" \notin Errors
    BY DEF Errors
  <2>4. /\ reply'[c] = x /\ pc'[c] = "returned"
        /\ x \in Errors => tree'[c] = IF tree[c] = "made" THEN "removed" ELSE tree[c]
        /\ x \notin Errors => tree'[c] = tree[c]
    BY <1>1, <1>2, <1>10, <2>3, AnswerBoth
  <2>5. \A d \in Calls \ {p, c} :
           reply'[d] = reply[d] /\ pc'[d] = pc[d] /\ tree'[d] = tree[d]
    BY <1>1, <1>2, <1>10, AnswerBoth, SMTT(30)
  <2>6. TypeOK'
    BY <1>1, <1>7, <1>10, <2>1 DEF TypeOK, CallOrNone
  <2>7. PendingInv' /\ ReplacementInv' /\ PhaseInv' /\ BuildInv'
    BY <1>1, <1>7, <1>9, <1>10
    DEF PendingInv, ReplacementInv, PhaseInv, BuildInv, Serving
  <2>8. CallInv'
    <3>1. /\ reply'[c] # "none" /\ reply'[p] # "none" /\ reply'[p] # "ok"
          /\ reply'[c] = "ok" => kind[c] = "state"
      BY <1>4, <1>10, <2>2, <2>3, <2>4
    <3>2. (kind[p] # "add" => tree'[p] = "none") /\ (kind[c] # "add" => tree'[c] = "none")
      BY <1>1, <1>2, <2>2, <2>3, <2>4 DEF CallInv
    <3>3. \A d \in Calls : pc'[d] # "received"
      BY <1>1, <1>2, <2>2, <2>4, <2>5 DEF CallInv
    <3> QED
      BY <1>1, <1>2, <1>10, <2>2, <2>4, <2>5, <3>1, <3>2, <3>3 DEF CallInv
  <2>9. TreeMatchesOutcome'
    BY <1>1, <1>2, <1>3, <1>4, <1>10, <2>2, <2>3, <2>4, <2>5
    DEF TreeMatchesOutcome
  <2>10. NoLostUpdate'
    <3>1. \A d \in Calls : reply'[d] = "ok" /\ kind[d] # "state" => reply[d] = "ok"
      BY <1>4, <1>10, <2>2, <2>4, <2>5
    <3> QED
      BY <1>1, <3>1 DEF NoLostUpdate
  <2> QED
    BY <2>6, <2>7, <2>8, <2>9, <2>10 DEF ActorInv
<1>11. CASE startError(c, current) # "none"
  <2>1. startError(c, current) \in Errors
    BY <1>2, <1>11, ErrorTypes
  <2>2. /\ Answer([AnswerOne(p, r) EXCEPT ![c] = startError(c, current)])
        /\ current' = current /\ pending' = NoTransition /\ build' = b
        /\ UNCHANGED nextID
    BY <1>8, <1>11 DEF start
  <2>3. current \in Snapshots /\ startError(c, current) # "ok"
    BY <1>1, <2>1 DEF TypeOK, Errors
  <2> QED
    BY <1>10, <2>1, <2>2, <2>3
<1>12. CASE startError(c, current) = "none" /\ ~NeedsBuild(c)
  <2>1. /\ Answer([AnswerOne(p, r) EXCEPT ![c] = "ok"])
        /\ current' = [current EXCEPT !.state = c]
        /\ pending' = NoTransition /\ build' = b
        /\ UNCHANGED nextID
    BY <1>8, <1>12 DEF start
  <2>2. current' \in Snapshots /\ current'.generation = current.generation
    BY <1>1, <1>2, <2>1 DEF TypeOK, Snapshots, CallOrNone
  <2>3. kind[c] = "state"
    BY <1>1, <1>2, <1>3, <1>12 DEF TypeOK, Kinds, NeedsBuild
  <2> QED
    BY <1>10, <2>1, <2>2, <2>3
<1>13. CASE startError(c, current) = "none" /\ NeedsBuild(c)
  <2>1. /\ Answer([AnswerOne(p, r) EXCEPT ![c] = "hold"])
        /\ current' = current /\ nextID' = nextID + 1
        /\ build' = [b EXCEPT ![nextID + 1] = "running"]
        /\ pending' = [id |-> nextID + 1, command |-> c,
                       retiring |-> FALSE, replyErr |-> "none"]
    BY <1>8, <1>13 DEF start
  <2>2. nextID # MaxGeneration
    BY <1>13 DEF startError
  <2>3. nextID + 1 \in Generations /\ nextID \in Nat /\ current.generation < nextID + 1
    BY <1>3, <1>9, <2>2 DEF Generations
  <2>4. /\ reply' \in [Calls -> Errors \cup {"none", "ok"}]
        /\ pc' \in [Calls -> {"idle", "observed", "created", "sending", "received", "returned"}]
        /\ tree' \in [Calls -> {"none", "made", "removed"}]
        /\ reply'[p] = r /\ pc'[p] = "returned"
        /\ tree'[p] = IF tree[p] = "made" THEN "removed" ELSE tree[p]
    BY <1>1, <1>2, <2>1, AnswerBoth
  <2>5. /\ reply'[c] = reply[c] /\ pc'[c] = "received" /\ tree'[c] = tree[c]
        /\ \A d \in Calls \ {p, c} :
              reply'[d] = reply[d] /\ pc'[d] = pc[d] /\ tree'[d] = tree[d]
    <3>1. "hold" \notin Errors
      BY DEF Errors
    <3> QED
      BY <1>1, <1>2, <2>1, <3>1, AnswerBoth
  <2>6. pending' \in Transitions /\ nextID' \in 0..MaxGeneration
    BY <1>2, <2>1, <2>3 DEF Transitions, CallOrNone, Generations
  <2>7. /\ build' \in [Generations -> {"none", "running", "ok", "failed", "delivered"}]
        /\ build'[nextID + 1] = "running"
    BY <1>7, <2>1, <2>3
  <2>8. pending'.id = nextID + 1 /\ pending'.command = c /\ pending'.retiring = FALSE
    BY <2>1
  <2>9. TypeOK'
    BY <1>1, <1>7, <2>1, <2>4, <2>6, <2>7 DEF TypeOK, CallOrNone
  <2>10. PendingInv'
    <3>1. /\ kind'[c] \in {"navigate", "add"}
          /\ base'[c] = current.generation /\ c # NoCall
      BY <1>2, <1>3, <1>13 DEF NeedsBuild
    <3> QED
      BY <2>1, <2>3, <2>5, <2>7, <2>8, <3>1 DEF PendingInv, NeedsBuild
  <2>11. ReplacementInv'
    BY DEF ReplacementInv
  <2>12. BuildInv'
    BY <1>2, <1>7, <1>9, <2>1, <2>3, <2>8 DEF BuildInv, Generations
  <2>13. PhaseInv'
    BY <1>1, <1>3, <2>1, <2>3 DEF PhaseInv, Serving
  <2>14. CallInv'
    <3>1. reply'[p] # "none" /\ reply'[p] # "ok" /\ (kind[p] # "add" => tree'[p] = "none")
      BY <1>1, <1>2, <1>4, <2>4 DEF CallInv
    <3> QED
      BY <1>1, <1>2, <2>1, <2>4, <2>5, <2>8, <3>1 DEF CallInv
  <2>15. TreeMatchesOutcome'
    BY <1>1, <1>2, <1>3, <1>4, <2>4, <2>5 DEF TreeMatchesOutcome
  <2>16. NoLostUpdate'
    <3>1. \A d \in Calls : reply'[d] = "ok" => reply[d] = "ok"
      BY <1>4, <2>4, <2>5
    <3> QED
      BY <1>1, <3>1 DEF NoLostUpdate
  <2> QED
    BY <2>9, <2>10, <2>11, <2>12, <2>13, <2>14, <2>15, <2>16 DEF ActorInv
<1> QED
  BY <1>11, <1>12, <1>13

(* The actor's arm for a finished build (publish or refuse, then start the
   command that waited) keeps the invariant. *)
LEMMA ReceiveCompletionInv ==
  ASSUME ActorInv, NEW id \in Generations, ReceiveCompletion(id)
  PROVE  ActorInv'
<1>1. pending.command # NoCall /\ pending.id = id
  BY DEF ActorInv, BuildInv, ReceiveCompletion
<1>2. /\ Serving /\ stopped' = stopped \cup {id}
      /\ UNCHANGED <<shutdownErr, sessionArmed, phase, sessionEnded, closer,
                     kind, base, cancelled>>
  BY <1>1 DEF ReceiveCompletion, envVars
<1>3. CASE replacement # NoCall /\ shutdownErr = "none"
  BY <1>1, <1>2, <1>3, CompletionStartInv DEF ReceiveCompletion
<1>4. CASE ~(replacement # NoCall /\ shutdownErr = "none")
  BY <1>1, <1>2, <1>4, CompletionInv DEF ReceiveCompletion
<1> QED
  BY <1>3, <1>4

(* The steps of run that only retire, shut down or leave.                  *)
LEMMA ShutdownInv ==
  ASSUME ActorInv, ReceiveCallerDone \/ ReceiveSessionDone \/ ReceiveClose
  PROVE  ActorInv'
<1> USE NoCallAssumption, MaxGenerationAssumption
<1>1. TypeOK /\ PendingInv /\ ReplacementInv /\ BuildInv /\ CallInv /\ PhaseInv
      /\ TreeMatchesOutcome /\ NoLostUpdate
  BY DEF ActorInv
<1>2. "cancelled" \in Errors /\ "closed" \in Errors /\ "session ended" \in Errors
  BY DEF Errors
<1>3. UNCHANGED <<current, replacement, phase, nextID, build, sessionEnded, callVars>>
      /\ Serving
  BY DEF ReceiveCallerDone, ReceiveSessionDone, ReceiveClose, envVars
<1>4. /\ shutdownErr' \in {"none", "closed", "session ended"}
      /\ shutdownErr # "none" => shutdownErr' # "none"
  BY <1>1 DEF TypeOK, ReceiveCallerDone, ReceiveSessionDone, ReceiveClose
<1>5. sessionArmed' \in BOOLEAN
  BY <1>1 DEF TypeOK, ReceiveCallerDone, ReceiveSessionDone, ReceiveClose
<1>6. closer' \in {"idle", "sending", "waiting", "returned"}
  BY <1>1 DEF TypeOK, ReceiveCallerDone, ReceiveSessionDone, ReceiveClose, envVars
<1>7. CASE \E err \in Errors : pending.command # NoCall /\ Retire(err)
  BY <1>3, <1>4, <1>5, <1>6, <1>7, RetireInv
<1>8. CASE UNCHANGED <<pending, stopped>>
  <2>1. UNCHANGED <<pc, kind, base, cancelled, tree, reply>>
    BY <1>3 DEF callVars
  <2>2. TypeOK'
    BY <1>1, <1>3, <1>4, <1>5, <1>6, <1>8, <2>1 DEF TypeOK
  <2>3. PendingInv' /\ ReplacementInv' /\ BuildInv' /\ CallInv' /\ PhaseInv'
        /\ TreeMatchesOutcome' /\ NoLostUpdate'
    BY <1>1, <1>3, <1>4, <1>8, <2>1
    DEF PendingInv, ReplacementInv, BuildInv, CallInv, PhaseInv, TreeMatchesOutcome,
        NoLostUpdate, NeedsBuild
  <2> QED
    BY <2>2, <2>3 DEF ActorInv
<1> QED
  BY <1>2, <1>7, <1>8
  DEF ReceiveCallerDone, ReceiveSessionDone, ReceiveClose, RetireForShutdown

(* The return of run, which the loop takes once nothing is pending, keeps the
   invariant. *)
LEMMA ExitInv ==
  ASSUME ActorInv, Exit
  PROVE  ActorInv'
<1> USE NoCallAssumption, MaxGenerationAssumption
<1>1. TypeOK /\ PendingInv /\ ReplacementInv /\ BuildInv /\ CallInv /\ PhaseInv
      /\ TreeMatchesOutcome /\ NoLostUpdate
  BY DEF ActorInv
<1>2. /\ UNCHANGED <<current, pending, shutdownErr, sessionArmed, nextID, build,
                     stopped, sessionEnded, kind, base, cancelled>>
      /\ replacement' = NoCall /\ phase' = "exiting"
      /\ shutdownErr # "none" /\ pending.command = NoCall
  BY DEF Exit, buildVars
<1>3. closer' \in {"idle", "sending", "waiting", "returned"}
  BY <1>1 DEF TypeOK, Exit
<1>4. PendingInv' /\ ReplacementInv' /\ BuildInv' /\ PhaseInv'
  BY <1>1, <1>2 DEF PendingInv, ReplacementInv, BuildInv, PhaseInv
<1>5. CASE replacement = NoCall
  <2>1. UNCHANGED <<pc, tree, reply>>
    BY <1>5 DEF Exit
  <2>2. TypeOK'
    BY <1>1, <1>2, <1>3, <2>1 DEF TypeOK, CallOrNone
  <2>3. CallInv' /\ TreeMatchesOutcome' /\ NoLostUpdate'
    BY <1>1, <1>2, <1>5, <2>1 DEF CallInv, TreeMatchesOutcome, NoLostUpdate
  <2> QED
    BY <1>4, <2>2, <2>3 DEF ActorInv
<1>6. CASE replacement # NoCall
  <2>1. replacement \in Calls /\ shutdownErr \in Errors /\ Answer(AnswerOne(replacement, shutdownErr))
    BY <1>1, <1>2, <1>6 DEF TypeOK, CallOrNone, Errors, Exit
  <2>2. PICK c \in Calls : c = replacement
    BY <2>1
  <2>3. PICK r \in Errors : r = shutdownErr
    BY <2>1
  <2>4. /\ reply' = [reply EXCEPT ![c] = r]
        /\ pc' = [pc EXCEPT ![c] = "returned"]
        /\ tree' = [tree EXCEPT ![c] = IF tree[c] = "made" THEN "removed" ELSE tree[c]]
    BY <1>1, <2>1, <2>2, <2>3, AnswerRefusal
  <2>5. r # "none" /\ r # "ok" /\ pc[c] = "received" /\ reply[c] = "none"
    BY <1>1, <1>6, <2>2 DEF Errors, ReplacementInv, CallInv
  <2>6. TypeOK'
    BY <1>1, <1>2, <1>3, <2>4 DEF TypeOK, CallOrNone
  <2>7. CallInv'
    BY <1>1, <1>2, <2>2, <2>4, <2>5, ZenonT(30) DEF TypeOK, CallInv
  <2>8. TreeMatchesOutcome'
    BY <1>1, <1>2, <2>4, <2>5 DEF TypeOK, TreeMatchesOutcome
  <2>9. NoLostUpdate'
    BY <1>1, <1>2, <2>4, <2>5 DEF TypeOK, NoLostUpdate
  <2> QED
    BY <1>4, <2>6, <2>7, <2>8, <2>9 DEF ActorInv
<1> QED
  BY <1>5, <1>6

(* Steps that leave the actor's own data and every reply alone.            *)
LEMMA QuietInv ==
  ASSUME ActorInv,
         \/ CloseDone \/ EndSession \/ Close
         \/ \E id \in Generations : BuildReturns(id)
         \/ \E c \in Calls : CancelCall(c)
  PROVE  ActorInv'
<1> USE NoCallAssumption, MaxGenerationAssumption
<1>1. TypeOK /\ PendingInv /\ ReplacementInv /\ BuildInv /\ CallInv /\ PhaseInv
      /\ TreeMatchesOutcome /\ NoLostUpdate
  BY DEF ActorInv
<1>2. ASSUME UNCHANGED <<current, pending, replacement, shutdownErr, sessionArmed, nextID,
                          build, stopped, pc, kind, base, cancelled, tree, reply>>,
             phase' \in {"running", "exiting", "done"}, phase = "running" => phase' = "running",
             closer' \in {"idle", "sending", "waiting", "returned"},
             sessionEnded' \in BOOLEAN
      PROVE  ActorInv'
  <2>1. TypeOK'
    BY <1>1, <1>2 DEF TypeOK
  <2>2. PendingInv' /\ ReplacementInv' /\ BuildInv' /\ CallInv' /\ PhaseInv'
        /\ TreeMatchesOutcome' /\ NoLostUpdate'
    BY <1>1, <1>2
    DEF PendingInv, ReplacementInv, BuildInv, CallInv, PhaseInv, TreeMatchesOutcome,
        NoLostUpdate, NeedsBuild
  <2> QED
    BY <2>1, <2>2 DEF ActorInv
<1>3. CASE CloseDone \/ Close
  <2>1. UNCHANGED <<current, pending, replacement, shutdownErr, sessionArmed, nextID,
                    build, stopped, sessionEnded, pc, kind, base, cancelled, tree, reply>>
    BY <1>3 DEF CloseDone, Close, actorVars, buildVars, envVars, callVars
  <2>2. phase' \in {"running", "exiting", "done"} /\ (phase = "running" => phase' = "running")
    BY <1>1, <1>3 DEF CloseDone, Close, actorVars, TypeOK
  <2>3. closer' \in {"idle", "sending", "waiting", "returned"}
    BY <1>1, <1>3 DEF CloseDone, Close, envVars, TypeOK
  <2>4. sessionEnded' \in BOOLEAN
    BY <1>1, <2>1 DEF TypeOK
  <2> QED
    BY <1>2, <2>1, <2>2, <2>3, <2>4
<1>4. CASE EndSession
  <2>1. UNCHANGED <<current, pending, replacement, shutdownErr, sessionArmed, nextID, phase,
                    build, stopped, closer, pc, kind, base, cancelled, tree, reply>>
    BY <1>4 DEF EndSession, actorVars, buildVars, callVars
  <2>2. sessionEnded' \in BOOLEAN
    BY <1>4 DEF EndSession
  <2>3. /\ phase' \in {"running", "exiting", "done"}
        /\ closer' \in {"idle", "sending", "waiting", "returned"}
    BY <1>1, <2>1 DEF TypeOK
  <2> QED
    BY <1>2, <2>1, <2>2, <2>3
<1>5. ASSUME NEW id \in Generations, BuildReturns(id)
      PROVE  ActorInv'
  <2>1. PICK result \in {"ok", "failed"} : build' = [build EXCEPT ![id] = result]
    BY <1>5 DEF BuildReturns
  <2>2. /\ UNCHANGED <<current, pending, replacement, shutdownErr, sessionArmed, phase,
                       nextID, stopped, sessionEnded, closer, pc, kind, base, cancelled, tree, reply>>
        /\ build[id] = "running"
    BY <1>5 DEF BuildReturns, actorVars, envVars, callVars
  <2>3. TypeOK'
    BY <1>1, <2>1, <2>2 DEF TypeOK
  <2>4. PendingInv'
    BY <1>1, <2>1, <2>2 DEF TypeOK, PendingInv, NeedsBuild
  <2>5. BuildInv'
    BY <1>1, <2>1, <2>2, ZenonT(30) DEF TypeOK, BuildInv
  <2>6. ReplacementInv' /\ CallInv' /\ PhaseInv' /\ TreeMatchesOutcome' /\ NoLostUpdate'
    BY <1>1, <2>2 DEF ReplacementInv, CallInv, PhaseInv, TreeMatchesOutcome, NoLostUpdate
  <2> QED
    BY <2>3, <2>4, <2>5, <2>6 DEF ActorInv
<1>6. ASSUME NEW c \in Calls, CancelCall(c)
      PROVE  ActorInv'
  <2>1. UNCHANGED <<current, pending, replacement, shutdownErr, sessionArmed, phase, nextID,
                    build, stopped, sessionEnded, closer, pc, kind, base, tree, reply>>
    BY <1>6 DEF CancelCall, actorVars, buildVars, envVars
  <2>2. cancelled' \in [Calls -> BOOLEAN]
    BY <1>1, <1>6 DEF TypeOK, CancelCall
  <2>3. TypeOK'
    BY <1>1, <2>1, <2>2 DEF TypeOK
  <2>4. PendingInv' /\ ReplacementInv' /\ BuildInv' /\ CallInv' /\ PhaseInv'
        /\ TreeMatchesOutcome' /\ NoLostUpdate'
    BY <1>1, <2>1
    DEF PendingInv, ReplacementInv, BuildInv, CallInv, PhaseInv, TreeMatchesOutcome,
        NoLostUpdate, NeedsBuild
  <2> QED
    BY <2>3, <2>4 DEF ActorInv
<1> QED
  BY <1>3, <1>4, <1>5, <1>6

(* The steps a call takes before run receives it.                          *)
LEMMA CallStepInv ==
  ASSUME ActorInv, NEW c \in Calls, CallStep(c)
  PROVE  ActorInv'
<1> USE NoCallAssumption, MaxGenerationAssumption
<1>1. TypeOK /\ PendingInv /\ ReplacementInv /\ BuildInv /\ CallInv /\ PhaseInv
      /\ TreeMatchesOutcome /\ NoLostUpdate
  BY DEF ActorInv
<1>2. /\ UNCHANGED <<actorVars, buildVars, envVars, cancelled>>
      /\ UNCHANGED <<current, pending, replacement, shutdownErr, sessionArmed, phase, nextID,
                     build, stopped, sessionEnded, closer, cancelled>>
      /\ pc[c] \in {"idle", "observed", "created", "sending"}
  BY DEF CallStep, Observe, Propose, CreateTree, ProposeAdd, AbandonSend,
         actorVars, buildVars, envVars
<1>3. /\ "cancelled" \in Errors /\ "invalid event" \in Errors
      /\ kind[c] \in Kinds /\ kind = [kind EXCEPT ![c] = kind[c]]
      /\ phase = "done" => shutdownErr \in Errors
      /\ shutdownErr # "none" => shutdownErr \in Errors
  BY <1>1 DEF Errors, TypeOK, PhaseInv
<1>4. ASSUME NEW r \in Errors, NEW k \in Kinds, Answer(AnswerOne(c, r)), UNCHANGED base,
             kind' = [kind EXCEPT ![c] = k],
             k = kind[c] \/ (kind[c] = "none" /\ k # "add")
      PROVE  ActorInv'
  BY <1>2, <1>4, RefuseInv
<1>5. ASSUME NEW q \in {"observed", "created", "sending"},
             pc' = [pc EXCEPT ![c] = q],
             NEW k \in Kinds, kind' = [kind EXCEPT ![c] = k],
             q = "observed" => k = "none",
             q = "created" => k = "add",
             q = "sending" => k # "none",
             NEW b \in 0..current.generation, base' = [base EXCEPT ![c] = b],
             NEW t \in {"none", "made"}, tree' = [tree EXCEPT ![c] = t],
             k = "add" <=> t = "made",
             UNCHANGED reply
      PROVE  ActorInv'
  <2>1. /\ pc'[c] = q /\ kind'[c] = k /\ base'[c] = b /\ tree'[c] = t
        /\ \A d \in Calls : d # c => /\ pc'[d] = pc[d] /\ kind'[d] = kind[d]
                                     /\ base'[d] = base[d] /\ tree'[d] = tree[d]
    BY <1>1, <1>5 DEF TypeOK
  <2>2. b \in 0..MaxGeneration /\ b <= current.generation
    <3>1. current.generation \in 0..MaxGeneration
      BY <1>1 DEF TypeOK, Snapshots
    <3> QED
      BY <3>1
  <2>3. TypeOK'
    BY <1>1, <1>2, <1>5, <2>2 DEF TypeOK
  <2>4. PendingInv' /\ ReplacementInv'
    <3>1. c # pending.command /\ c # replacement
      BY <1>1, <1>2 DEF PendingInv, ReplacementInv
    <3>2. pending.command \in Calls \cup {NoCall} /\ replacement \in Calls \cup {NoCall}
      BY <1>1 DEF TypeOK, Transitions, CallOrNone
    <3> QED
      BY <1>1, <1>2, <2>1, <3>1, <3>2 DEF PendingInv, ReplacementInv, NeedsBuild
  <2>5. BuildInv' /\ PhaseInv'
    BY <1>1, <1>2 DEF BuildInv, PhaseInv
  <2>6. reply[c] = "none"
    BY <1>1, <1>2 DEF CallInv
  <2>7. CallInv'
    BY <1>1, <1>2, <1>5, <2>1, <2>2, <2>6 DEF CallInv
  <2>8. TreeMatchesOutcome'
    BY <1>1, <1>5, <2>1, <2>6, ZenonT(30) DEF TreeMatchesOutcome, Errors
  <2>9. NoLostUpdate'
    BY <1>1, <1>5, <2>1, <2>6 DEF NoLostUpdate
  <2> QED
    BY <2>3, <2>4, <2>5, <2>7, <2>8, <2>9 DEF ActorInv
<1>6. /\ base[c] \in 0..current.generation /\ current.generation \in 0..current.generation
      /\ base = [base EXCEPT ![c] = base[c]] /\ tree = [tree EXCEPT ![c] = tree[c]]
  <2>1. /\ current.generation \in 0..MaxGeneration /\ base[c] \in 0..MaxGeneration
        /\ base[c] <= current.generation
    BY <1>1 DEF TypeOK, Snapshots, CallInv
  <2>2. base = [base EXCEPT ![c] = base[c]] /\ tree = [tree EXCEPT ![c] = tree[c]]
    BY <1>1 DEF TypeOK
  <2> QED
    BY <2>1, <2>2
<1>7. /\ pc[c] \in {"idle", "observed"} => kind[c] = "none" /\ tree[c] = "none"
      /\ pc[c] = "created" => kind[c] = "add" /\ tree[c] = "made"
  BY <1>1 DEF CallInv, TreeMatchesOutcome
<1>8. CASE Observe(c)
  <2>1. kind' = kind /\ pc[c] = "idle"
    BY <1>8 DEF Observe
  <2>2. CASE UNCHANGED base /\ \E r \in Errors : Answer(AnswerOne(c, r))
    BY <1>3, <1>4, <2>1, <2>2
  <2>3. CASE /\ base' = [base EXCEPT ![c] = current.generation]
             /\ pc' = [pc EXCEPT ![c] = "observed"] /\ UNCHANGED <<tree, reply>>
    BY <1>3, <1>5, <1>6, <1>7, <2>1, <2>3
  <2> QED
    BY <1>3, <1>8, <2>2, <2>3 DEF Observe
<1>9. CASE Propose(c)
  <2>1. UNCHANGED base /\ pc[c] = "observed"
    BY <1>9 DEF Propose
  <2>2. CASE Answer(AnswerOne(c, "invalid event")) /\ UNCHANGED kind
    BY <1>3, <1>4, <2>1, <2>2
  <2>3. ASSUME NEW k \in {"state", "navigate", "enrich"},
               kind' = [kind EXCEPT ![c] = k], enqueue(c)
        PROVE  ActorInv'
    <3>1. k \in Kinds /\ k # "add" /\ k # "none"
      BY DEF Kinds
    <3>2. CASE \E r \in Errors : Answer(AnswerOne(c, r))
      BY <1>4, <1>7, <2>1, <2>3, <3>1, <3>2
    <3>3. CASE pc' = [pc EXCEPT ![c] = "sending"] /\ UNCHANGED <<tree, reply>>
      BY <1>5, <1>6, <1>7, <2>1, <2>3, <3>1, <3>3
    <3> QED
      BY <1>3, <2>3, <3>2, <3>3 DEF enqueue
  <2> QED
    BY <1>9, <2>2, <2>3 DEF Propose
<1>10. CASE CreateTree(c)
  <2>1. /\ pc[c] = "observed" /\ UNCHANGED <<base, reply>>
        /\ pc' = [pc EXCEPT ![c] = "created"]
        /\ kind' = [kind EXCEPT ![c] = "add"]
        /\ tree' = [tree EXCEPT ![c] = "made"]
    BY <1>10 DEF CreateTree
  <2>2. "add" \in Kinds
    BY DEF Kinds
  <2> QED
    BY <1>5, <1>6, <2>1, <2>2
<1>11. CASE ProposeAdd(c)
  <2>1. pc[c] = "created" /\ enqueue(c) /\ UNCHANGED <<kind, base>>
    BY <1>11 DEF ProposeAdd
  <2>2. CASE \E r \in Errors : Answer(AnswerOne(c, r))
    BY <1>3, <1>4, <2>1, <2>2
  <2>3. CASE pc' = [pc EXCEPT ![c] = "sending"] /\ UNCHANGED <<tree, reply>>
    BY <1>3, <1>5, <1>6, <1>7, <2>1, <2>3
  <2> QED
    BY <1>3, <2>1, <2>2, <2>3 DEF enqueue
<1>12. CASE AbandonSend(c)
  <2>1. UNCHANGED <<kind, base>>
    BY <1>12 DEF AbandonSend
  <2>2. \E r \in Errors : Answer(AnswerOne(c, r))
    BY <1>3, <1>12 DEF AbandonSend
  <2> QED
    BY <1>3, <1>4, <2>1, <2>2
<1> QED
  BY <1>8, <1>9, <1>10, <1>11, <1>12 DEF CallStep

(* Stuttering changes nothing the invariant looks at.                      *)
LEMMA StutterInv ==
  ASSUME ActorInv, UNCHANGED vars
  PROVE  ActorInv'
<1>1. UNCHANGED <<current, pending, replacement, shutdownErr, sessionArmed, phase, nextID,
                  build, stopped, sessionEnded, closer, pc, kind, base, cancelled, tree, reply>>
  BY DEF vars, actorVars, buildVars, envVars, callVars
<1>2. TypeOK'
  BY <1>1 DEF ActorInv, TypeOK
<1>3. PendingInv' /\ ReplacementInv' /\ BuildInv' /\ CallInv' /\ PhaseInv'
      /\ TreeMatchesOutcome' /\ NoLostUpdate'
  BY <1>1
  DEF ActorInv, PendingInv, ReplacementInv, BuildInv, CallInv, PhaseInv, TreeMatchesOutcome,
      NoLostUpdate, NeedsBuild
<1> QED
  BY <1>2, <1>3 DEF ActorInv

-----------------------------------------------------------------------------
(* The theorems                                                            *)

(* Every step of callers, builder and actor keeps the invariant. *)
LEMMA NextActorInv == ActorInv /\ [Next]_vars => ActorInv'
<1> SUFFICES ASSUME ActorInv, [Next]_vars PROVE ActorInv'
  OBVIOUS
<1>1. CASE ActorStep
  BY <1>1, ReceiveApplyInv, ReceiveEnrichInv, ReceiveCompletionInv, ShutdownInv, ExitInv, QuietInv
  DEF ActorStep
<1>2. CASE \E id \in Generations : BuildReturns(id)
  BY <1>2, QuietInv
<1>3. CASE \E c \in Calls : CallStep(c) \/ CancelCall(c)
  BY <1>3, CallStepInv, QuietInv
<1>4. CASE EndSession \/ Close
  BY <1>4, QuietInv
<1>5. CASE UNCHANGED vars
  BY <1>5, StutterInv
<1> QED
  BY <1>1, <1>2, <1>3, <1>4, <1>5 DEF Next

(* ActorInv holds throughout every run of the actor.                       *)
THEOREM ActorInvariance == Spec => []ActorInv
  BY InitActorInv, NextActorInv, PTL DEF Spec

(* The actor's state is well typed for any calls and any generation limit. *)
THEOREM ActorTypeCorrect == Spec => []TypeOK
<1>1. ActorInv => TypeOK
  BY DEF ActorInv
<1> QED
  BY <1>1, ActorInvariance, PTL

(* An Add's tree is on disk exactly while its call is open or successful.  *)
THEOREM TreesFollowOutcomes == Spec => []TreeMatchesOutcome
<1>1. ActorInv => TreeMatchesOutcome
  BY DEF ActorInv
<1> QED
  BY <1>1, ActorInvariance, PTL

(* No tree is removed under a generator that reads it, and no generator    *)
(* other than the pending one is ever alive.                               *)
THEOREM BuildsKeepTheirTree == Spec => []NoRollbackUnderBuild
<1>1. ActorInv => NoRollbackUnderBuild
  <2> SUFFICES ASSUME ActorInv, NEW id \in Generations,
                      build[id] \in {"running", "ok", "failed"}
               PROVE  /\ pending.command # NoCall /\ pending.id = id
                      /\ kind[pending.command] = "add" => tree[pending.command] = "made"
    BY DEF NoRollbackUnderBuild
  <2>1. pending.command # NoCall /\ pending.id = id
    BY DEF ActorInv, BuildInv
  <2>2. pending.command \in Calls /\ pc[pending.command] = "received"
    BY <2>1 DEF ActorInv, TypeOK, Transitions, CallOrNone, PendingInv
  <2>3. reply[pending.command] = "none"
    BY <2>2 DEF ActorInv, CallInv
  <2> QED
    BY <2>1, <2>2, <2>3 DEF ActorInv, TreeMatchesOutcome
<1> QED
  BY <1>1, ActorInvariance, PTL

(* Once run has left its loop no generator and no call waits for it.       *)
THEOREM ActorLeavesNothingBehind == Spec => []NothingOutlivesActor
<1>1. ActorInv => NothingOutlivesActor
  <2> SUFFICES ASSUME ActorInv, phase # "running" PROVE NothingOutlivesActor
    BY DEF NothingOutlivesActor
  <2>1. pending.command = NoCall /\ replacement = NoCall
    BY DEF ActorInv, PhaseInv
  <2>2. \A id \in Generations : build[id] \in {"none", "delivered"}
    BY <2>1 DEF ActorInv, BuildInv, TypeOK
  <2>3. \A c \in Calls : pc[c] # "received"
    BY <2>1, NoCallAssumption DEF ActorInv, CallInv
  <2> QED
    BY <2>2, <2>3 DEF NothingOutlivesActor
<1> QED
  BY <1>1, ActorInvariance, PTL

(* Two successful record changes never started from the same generation.   *)
THEOREM UpdatesAreNotLost == Spec => []NoLostUpdate
<1>1. ActorInv => NoLostUpdate
  BY DEF ActorInv
<1> QED
  BY <1>1, ActorInvariance, PTL

(* The commands run holds were proposed against the current generation.    *)
THEOREM HeldCommandsStayFresh == Spec => []HeldCommandsAreFresh
<1>1. ActorInv => HeldCommandsAreFresh
  BY DEF ActorInv, PendingInv, ReplacementInv, HeldCommandsAreFresh
<1> QED
  BY <1>1, ActorInvariance, PTL

-----------------------------------------------------------------------------
(* The actor implements SessionPromise.  Every step either refuses some    *)
(* open calls, or lets one call observe the generation, or lets one call   *)
(* win; the three are what SessionPromise allows.                          *)

(* Nobody but the winners gets more than a refusal, and only once. *)
SettlesOthers(winners) ==
    \A d \in Calls \ winners :
        reply'[d] = reply[d] \/ (reply[d] = "none" /\ reply'[d] \in Errors)

Refuses == SettlesOthers({}) /\ UNCHANGED <<current, base>>

Observes(c) ==
    /\ reply[c] = "none"
    /\ base' = [base EXCEPT ![c] = current.generation]
    /\ UNCHANGED <<current, reply>>

Wins(c) ==
    /\ reply[c] = "none" /\ reply'[c] = "ok"
    /\ SettlesOthers({c})
    /\ base[c] = current.generation
    /\ UNCHANGED base
    /\ ~(pending.command = c /\ pending.retiring)

WinsState(c) == Wins(c) /\ current' = [current EXCEPT !.state = c]

WinsRecords(c) ==
    /\ Wins(c)
    /\ current'.generation > current.generation
    /\ current'.records = c
    /\ current'.state \in {c, current.state}

Allowed == Refuses \/ \E c \in Calls : Observes(c) \/ WinsState(c) \/ WinsRecords(c)

(* Refusing one open call is refusing.                                     *)
LEMMA RefusalRefuses ==
  ASSUME ActorInv, NEW c \in Calls, NEW r \in Errors, Answer(AnswerOne(c, r)),
         pc[c] # "returned", UNCHANGED <<current, base>>
  PROVE  Refuses
<1>1. TypeOK /\ CallInv
  BY DEF ActorInv
<1>2. reply' = [reply EXCEPT ![c] = r] /\ reply[c] = "none"
  BY <1>1, AnswerRefusal DEF CallInv
<1> QED
  BY <1>1, <1>2 DEF Refuses, SettlesOthers, TypeOK

(* Answering one open call with success lets it win over nobody else.      *)
LEMMA SuccessSettles ==
  ASSUME ActorInv, NEW c \in Calls, Answer(AnswerOne(c, "ok")), pc[c] # "returned"
  PROVE  reply[c] = "none" /\ reply'[c] = "ok" /\ SettlesOthers({c})
<1>1. TypeOK /\ CallInv
  BY DEF ActorInv
<1>2. reply' = [reply EXCEPT ![c] = "ok"] /\ reply[c] = "none"
  BY <1>1, AnswerSuccess DEF CallInv
<1> QED
  BY <1>1, <1>2 DEF SettlesOthers, TypeOK

(* Holding a call answers nobody.                                          *)
LEMMA HoldRefuses ==
  ASSUME ActorInv, NEW c \in Calls, Answer(AnswerOne(c, "hold")), UNCHANGED <<current, base>>
  PROVE  Refuses
<1>1. reply' = reply
  BY AnswerHold DEF ActorInv
<1> QED
  BY <1>1 DEF Refuses, SettlesOthers

(* The arm for an enrichment: refused, or published under the next         *)
(* generation.                                                             *)
LEMMA EnrichAllowed ==
  ASSUME ActorInv, NEW c \in Calls, ReceiveEnrich(c) PROVE Allowed
<1>1. UNCHANGED base /\ pc[c] = "sending" /\ kind[c] = "enrich"
  BY DEF ReceiveEnrich
<1>2. CASE enrichError(c) # "none"
  <2>1. Answer(AnswerOne(c, enrichError(c))) /\ UNCHANGED current /\ enrichError(c) \in Errors
    BY <1>2, ErrorTypes DEF ReceiveEnrich
  <2> QED
    BY <1>1, <2>1, RefusalRefuses DEF Allowed
<1>3. CASE enrichError(c) = "none"
  <2>1. /\ Answer(AnswerOne(c, "ok"))
        /\ current' = [current EXCEPT !.generation = nextID + 1, !.records = c]
    BY <1>3 DEF ReceiveEnrich
  <2>2. base[c] = current.generation /\ pending.command = NoCall
    BY <1>3 DEF enrichError
  <2>3. /\ current \in Snapshots /\ current.generation <= nextID /\ nextID \in Nat
        /\ current.generation \in Nat
    <3>1. current \in Snapshots /\ current.generation <= nextID /\ nextID \in 0..MaxGeneration
      BY DEF ActorInv, TypeOK, PhaseInv
    <3>2. current.generation \in 0..MaxGeneration
      BY <3>1 DEF Snapshots
    <3> QED
      BY <3>1, <3>2
  <2>4. /\ current'.generation > current.generation
        /\ current'.records = c /\ current'.state = current.state
    BY <2>1, <2>3 DEF Snapshots
  <2>5. Wins(c)
    BY <1>1, <2>1, <2>2, SuccessSettles, NoCallAssumption DEF Wins
  <2> QED
    BY <2>4, <2>5 DEF Allowed, WinsRecords
<1> QED
  BY <1>2, <1>3

(* The arm for a command: refused, held or started, and a command without  *)
(* a build changes the state at once.                                      *)
LEMMA ApplyAllowed ==
  ASSUME ActorInv, NEW c \in Calls, ReceiveApply(c) PROVE Allowed
<1>1. UNCHANGED base /\ pc[c] = "sending"
  BY DEF ReceiveApply
<1>2. CASE applyError(c) # "none"
  <2>1. Answer(AnswerOne(c, applyError(c))) /\ UNCHANGED current /\ applyError(c) \in Errors
    BY <1>2, ErrorTypes DEF ReceiveApply
  <2> QED
    BY <1>1, <2>1, RefusalRefuses DEF Allowed
<1>3. CASE applyError(c) = "none" /\ pending.command # NoCall
  <2>1. Answer(AnswerOne(c, "hold")) /\ UNCHANGED current
    BY <1>3 DEF ReceiveApply
  <2> QED
    BY <1>1, <2>1, HoldRefuses DEF Allowed
<1>4. CASE applyError(c) = "none" /\ pending.command = NoCall
  <2>1. start(c, current, build, NoAnswer)
    BY <1>4 DEF ReceiveApply
  <2>2. base[c] = current.generation
    BY <1>4 DEF applyError
  <2>3. CASE startError(c, current) # "none"
    <3>1. /\ Answer(AnswerOne(c, startError(c, current))) /\ current' = current
          /\ startError(c, current) \in Errors
      BY <2>1, <2>3, ErrorTypes DEF start, AnswerOne
    <3> QED
      BY <1>1, <3>1, RefusalRefuses DEF Allowed
  <2>4. CASE startError(c, current) = "none" /\ ~NeedsBuild(c)
    <3>1. Answer(AnswerOne(c, "ok")) /\ current' = [current EXCEPT !.state = c]
      BY <2>1, <2>4 DEF start, AnswerOne
    <3>2. Wins(c)
      BY <1>1, <1>4, <2>2, <3>1, SuccessSettles, NoCallAssumption DEF Wins
    <3> QED
      BY <3>1, <3>2 DEF Allowed, WinsState
  <2>5. CASE startError(c, current) = "none" /\ NeedsBuild(c)
    <3>1. Answer(AnswerOne(c, "hold")) /\ current' = current
      BY <2>1, <2>5 DEF start, AnswerOne
    <3> QED
      BY <1>1, <3>1, HoldRefuses DEF Allowed
  <2> QED
    BY <2>3, <2>4, <2>5
<1> QED
  BY <1>2, <1>3, <1>4

(* The arm for a finished build: the pending command is published or       *)
(* refused - always refused when a replacement waits, which retired it -   *)
(* and the replacement is then started as any command.                     *)
LEMMA CompletionAllowed ==
  ASSUME ActorInv, NEW id \in Generations, ReceiveCompletion(id) PROVE Allowed
<1> USE NoCallAssumption, MaxGenerationAssumption
<1> DEFINE p == pending.command
           c == replacement
           r == completionError(id)
<1>1. TypeOK /\ PendingInv /\ ReplacementInv /\ BuildInv /\ CallInv
  BY DEF ActorInv
<1>2. p # NoCall /\ pending.id = id /\ UNCHANGED base
  BY <1>1 DEF BuildInv, ReceiveCompletion
<1>3. /\ p \in Calls /\ pc[p] = "received" /\ reply[p] = "none"
      /\ base[p] = current.generation /\ current.generation < id
  BY <1>1, <1>2 DEF TypeOK, Transitions, CallOrNone, PendingInv, CallInv
<1>4. r # "none" => r \in Errors
  BY <1>1, <1>2 DEF completionError, PendingInv, Errors
<1>5. CASE ~(c # NoCall /\ shutdownErr = "none")
  <2>1. Answer(completionAnswer(id)) /\ current' = completed(id)
    BY <1>2, <1>5 DEF ReceiveCompletion
  <2>2. CASE r = "none"
    <3>1. /\ Answer(AnswerOne(p, "ok"))
          /\ current' = [generation |-> id, state |-> p, records |-> p]
      BY <2>1, <2>2 DEF completionAnswer, completed
    <3>2. ~pending.retiring
      BY <1>1, <1>2, <2>2 DEF completionError, PendingInv, Errors
    <3>3. Wins(p)
      BY <1>2, <1>3, <3>1, <3>2, SuccessSettles DEF Wins
    <3>4. /\ current'.generation = id /\ current'.records = p /\ current'.state = p
      BY <3>1
    <3>5. id > current.generation
      BY <1>1, <1>3 DEF TypeOK, Snapshots, Generations
    <3> QED
      BY <1>3, <3>3, <3>4, <3>5 DEF Allowed, WinsRecords
  <2>3. CASE r # "none"
    <3>1. Answer(AnswerOne(p, r)) /\ current' = current
      BY <2>1, <2>3 DEF completionAnswer, completed
    <3> QED
      BY <1>2, <1>3, <1>4, <2>3, <3>1, RefusalRefuses DEF Allowed
  <2> QED
    BY <2>2, <2>3
<1>6. CASE c # NoCall /\ shutdownErr = "none"
  <2>1. /\ c \in Calls /\ c # p /\ pending.retiring /\ pc[c] = "received"
        /\ base[c] = current.generation /\ reply[c] = "none"
    BY <1>1, <1>2, <1>6 DEF TypeOK, CallOrNone, ReplacementInv, CallInv
  <2>2. r \in Errors /\ r # "none"
    BY <1>1, <1>2, <2>1 DEF completionError, PendingInv, Errors
  <2>3. completed(id) = current /\ completionAnswer(id) = AnswerOne(p, r)
    BY <2>2 DEF completed, completionAnswer
  <2>4. PICK b : start(c, current, b, AnswerOne(p, r))
    BY <1>2, <1>6, <2>3 DEF ReceiveCompletion
  <2> HIDE DEF r, p, c
  <2>5. ASSUME NEW x \in Errors \cup {"ok", "hold"},
               Answer([AnswerOne(p, r) EXCEPT ![c] = x])
        PROVE  /\ reply'[p] = r
               /\ x = "hold" => reply'[c] = reply[c]
               /\ x # "hold" => reply'[c] = x
               /\ \A d \in Calls \ {p, c} : reply'[d] = reply[d]
    <3>1. reply'[p] = r
      BY <1>1, <1>3, <2>1, <2>2, <2>5, AnswerBoth
    <3>2. /\ x = "hold" => reply'[c] = reply[c]
          /\ x # "hold" => reply'[c] = x
      BY <1>1, <1>3, <2>1, <2>2, <2>5, AnswerBoth
    <3>3. \A d \in Calls \ {p, c} : reply'[d] = reply[d]
      BY <1>1, <1>3, <2>1, <2>2, <2>5, AnswerBoth
    <3> QED
      BY <3>1, <3>2, <3>3
  <2>6. CASE startError(c, current) # "none"
    <3>1. /\ Answer([AnswerOne(p, r) EXCEPT ![c] = startError(c, current)])
          /\ current' = current
          /\ startError(c, current) \in Errors /\ startError(c, current) # "hold"
      BY <2>1, <2>4, <2>6, ErrorTypes DEF start, Errors
    <3>2. /\ reply'[p] = r /\ reply'[c] \in Errors
          /\ \A d \in Calls \ {p, c} : reply'[d] = reply[d]
      BY <2>5, <3>1
    <3>3. SettlesOthers({})
      BY <1>3, <2>1, <2>2, <3>2 DEF SettlesOthers
    <3> QED
      BY <1>2, <3>1, <3>3 DEF Allowed, Refuses
  <2>7. CASE startError(c, current) = "none" /\ ~NeedsBuild(c)
    <3>1. /\ Answer([AnswerOne(p, r) EXCEPT ![c] = "ok"])
          /\ current' = [current EXCEPT !.state = c]
      BY <2>4, <2>7 DEF start
    <3>2. /\ reply'[p] = r /\ reply'[c] = "ok"
          /\ \A d \in Calls \ {p, c} : reply'[d] = reply[d]
      BY <2>5, <3>1
    <3>3. SettlesOthers({c})
      BY <1>3, <2>1, <2>2, <3>2 DEF SettlesOthers
    <3>4. Wins(c)
      BY <1>2, <2>1, <3>2, <3>3 DEF Wins, p
    <3> QED
      BY <2>1, <3>1, <3>4 DEF Allowed, WinsState
  <2>8. CASE startError(c, current) = "none" /\ NeedsBuild(c)
    <3>1. Answer([AnswerOne(p, r) EXCEPT ![c] = "hold"]) /\ current' = current
      BY <2>4, <2>8 DEF start
    <3>2. /\ reply'[p] = r /\ reply'[c] = reply[c]
          /\ \A d \in Calls \ {p, c} : reply'[d] = reply[d]
      BY <2>5, <3>1
    <3>3. SettlesOthers({})
      BY <1>3, <2>1, <2>2, <3>2 DEF SettlesOthers
    <3> QED
      BY <1>2, <3>1, <3>3 DEF Allowed, Refuses
  <2> QED
    BY <2>6, <2>7, <2>8
<1> QED
  BY <1>5, <1>6

(* A call's own steps observe, propose, or are refused.                    *)
LEMMA CallStepAllowed ==
  ASSUME ActorInv, NEW c \in Calls, CallStep(c) PROVE Allowed
<1>1. TypeOK /\ CallInv /\ PhaseInv
  BY DEF ActorInv
<1>2. UNCHANGED current /\ pc[c] # "returned" /\ reply[c] = "none"
  <2>1. UNCHANGED current /\ pc[c] # "returned"
    BY DEF CallStep, Observe, Propose, CreateTree, ProposeAdd, AbandonSend, actorVars
  <2> QED
    BY <1>1, <2>1 DEF CallInv
<1>3. /\ "cancelled" \in Errors /\ "invalid event" \in Errors
      /\ phase = "done" => shutdownErr \in Errors
      /\ shutdownErr # "none" => shutdownErr \in Errors
  BY <1>1 DEF Errors, TypeOK, PhaseInv
<1>4. CASE UNCHANGED base /\ \E r \in Errors : Answer(AnswerOne(c, r))
  BY <1>2, <1>4, RefusalRefuses DEF Allowed
<1>5. CASE UNCHANGED <<base, reply>>
  BY <1>2, <1>5 DEF Allowed, Refuses, SettlesOthers
<1>6. CASE Observe(c)
  <2>1. CASE base' = [base EXCEPT ![c] = current.generation] /\ UNCHANGED reply
    BY <1>2, <2>1 DEF Allowed, Observes
  <2> QED
    BY <1>3, <1>4, <1>6, <2>1 DEF Observe
<1>7. CASE UNCHANGED base /\ enqueue(c)
  BY <1>3, <1>4, <1>5, <1>7 DEF enqueue
<1> QED
  BY <1>3, <1>4, <1>5, <1>6, <1>7 DEF CallStep, Propose, CreateTree, ProposeAdd, AbandonSend

(* The other steps settle nobody, or the parked command as run returns.    *)
LEMMA OtherAllowed ==
  ASSUME ActorInv,
         \/ ReceiveCallerDone \/ ReceiveSessionDone \/ ReceiveClose
         \/ Exit \/ CloseDone \/ EndSession \/ Close
         \/ \E id \in Generations : BuildReturns(id)
         \/ \E c \in Calls : CancelCall(c)
         \/ UNCHANGED vars
  PROVE  Allowed
<1>1. TypeOK /\ CallInv /\ ReplacementInv
  BY DEF ActorInv
<1>2. CASE UNCHANGED <<current, base, reply>>
  BY <1>2 DEF Allowed, Refuses, SettlesOthers
<1>3. CASE Exit
  <2>1. CASE replacement = NoCall
    BY <1>2, <1>3, <2>1 DEF Exit
  <2>2. CASE replacement # NoCall
    <3>1. /\ replacement \in Calls /\ shutdownErr \in Errors /\ pc[replacement] = "received"
          /\ Answer(AnswerOne(replacement, shutdownErr)) /\ UNCHANGED <<current, base>>
      BY <1>1, <1>3, <2>2 DEF TypeOK, CallOrNone, Errors, Exit, ReplacementInv
    <3> QED
      BY <3>1, RefusalRefuses DEF Allowed
  <2> QED
    BY <2>1, <2>2
<1> QED
  BY <1>2, <1>3
  DEF ReceiveCallerDone, ReceiveSessionDone, ReceiveClose, CloseDone, EndSession, Close,
      BuildReturns, CancelCall, vars, actorVars, callVars

(* Every step of the actor is one of the three.                            *)
LEMMA NextAllowed == ActorInv /\ [Next]_vars => Allowed
<1> SUFFICES ASSUME ActorInv, [Next]_vars PROVE Allowed
  OBVIOUS
<1> QED
  BY EnrichAllowed, ApplyAllowed, CompletionAllowed, CallStepAllowed, OtherAllowed
  DEF Next, ActorStep

(* What a reply means to a caller.                                         *)
LEMMA OutcomeOfReply ==
  ASSUME TypeOK, TypeOK', NEW d \in Calls
  PROVE  /\ reply[d] = "none" => Outcome(d) = "open"
         /\ reply'[d] = "ok" => Outcome(d)' = "won"
         /\ reply'[d] \in Errors => Outcome(d)' = "refused"
         /\ reply'[d] = reply[d] => Outcome(d)' = Outcome(d)
  BY DEF Outcome, Errors

(* The three kinds of steps are steps of SessionPromise.                   *)
LEMMA AllowedIsPromised ==
  ASSUME TypeOK, TypeOK', Allowed
  PROVE  Promise!Next
<1> DEFINE outcome == [d \in Calls |-> Outcome(d)]
<1>1. ASSUME NEW W \in SUBSET Calls, SettlesOthers(W)
      PROVE  Promise!SettleOthers(W)
  <2> SUFFICES ASSUME NEW d \in Calls \ W
               PROVE  \/ outcome'[d] = outcome[d]
                      \/ outcome[d] = "open" /\ outcome'[d] = "refused"
    BY DEF Promise!SettleOthers
  <2>1. outcome[d] = Outcome(d) /\ outcome'[d] = Outcome(d)'
    OBVIOUS
  <2> QED
    BY <1>1, <2>1, OutcomeOfReply DEF SettlesOthers
<1>2. CASE Refuses
  BY <1>1, <1>2 DEF Refuses, Promise!Next, Promise!Refuse, Promise!view
<1>3. ASSUME NEW c \in Calls, Observes(c) PROVE Promise!Observe(c)
  <2>1. outcome' = outcome /\ outcome[c] = "open"
    BY <1>3, OutcomeOfReply DEF Observes
  <2> QED
    BY <1>3, <2>1 DEF Observes, Promise!Observe, Promise!view
<1>4. ASSUME NEW c \in Calls, Wins(c) PROVE Promise!Win(c)
  <2>1. outcome[c] = "open" /\ outcome'[c] = "won"
    BY <1>4, OutcomeOfReply DEF Wins
  <2> QED
    BY <1>1, <1>4, <2>1 DEF Wins, Promise!Win
<1>5. ASSUME NEW c \in Calls, WinsState(c) PROVE Promise!ChangeState(c)
  <2>1. current'.state = c /\ current'.generation = current.generation
        /\ current'.records = current.records
    BY <1>5 DEF WinsState, TypeOK, Snapshots
  <2> QED
    BY <1>4, <1>5, <2>1 DEF WinsState, Promise!ChangeState
<1>6. ASSUME NEW c \in Calls, WinsRecords(c) PROVE Promise!Publish(c)
  BY <1>4, <1>6 DEF WinsRecords, Promise!Publish
<1> QED
  BY <1>2, <1>3, <1>5, <1>6 DEF Allowed, Promise!Next

(* To its callers the actor is the compare-and-swap view of                *)
(* SessionPromise, whatever is superseded, cancelled or shut down.         *)
THEOREM ActorImplementsPromise == Spec => ImplementsPromise
<1>1. Init => Promise!Init
  <2> SUFFICES ASSUME Init PROVE Promise!Init
    OBVIOUS
  <2>1. [c \in Calls |-> Outcome(c)] = [c \in Calls |-> "open"]
    BY DEF Init, Outcome
  <2> QED
    BY <2>1 DEF Init, Promise!Init
<1>2. ActorInv /\ ActorInv' /\ [Next]_vars => [Promise!Next]_(Promise!vars)
  BY NextAllowed, AllowedIsPromised DEF ActorInv
<1> QED
  BY <1>1, <1>2, ActorInvariance, PTL DEF Spec, ImplementsPromise, Promise!Spec

(* A retired transition is never published: the only steps that answer a   *)
(* call with success are those in which it wins, and a retired one does    *)
(* not.                                                                    *)
THEOREM RetiredStaysUnpublished == Spec => RetiredNeverPublished
<1>1. ActorInv /\ [Next]_vars =>
        [\A c \in Calls : pending.command = c /\ pending.retiring => reply'[c] # "ok"]_vars
  <2> SUFFICES ASSUME ActorInv, [Next]_vars, NEW c \in Calls,
                      pending.command = c, pending.retiring
               PROVE  reply'[c] # "ok"
    OBVIOUS
  <2>1. reply[c] = "none"
    BY NoCallAssumption DEF ActorInv, PendingInv, CallInv
  <2>2. Allowed
    BY NextAllowed
  <2>3. ASSUME NEW W \in SUBSET Calls, SettlesOthers(W), c \notin W PROVE reply'[c] # "ok"
    BY <2>1, <2>3 DEF SettlesOthers, Errors
  <2>4. CASE Refuses
    BY <2>3, <2>4 DEF Refuses
  <2>5. ASSUME NEW d \in Calls, Observes(d) PROVE reply'[c] # "ok"
    BY <2>1, <2>5 DEF Observes
  <2>6. ASSUME NEW d \in Calls, Wins(d) PROVE reply'[c] # "ok"
    BY <2>3, <2>6 DEF Wins
  <2> QED
    BY <2>2, <2>4, <2>5, <2>6 DEF Allowed, WinsState, WinsRecords
<1> QED
  BY <1>1, ActorInvariance, PTL DEF Spec, RetiredNeverPublished
=============================================================================
