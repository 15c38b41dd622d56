--------------------------- MODULE Zoxide_proofs ---------------------------
(***************************************************************************)
(* Proofs about the two modules of the zoxide records.                     *)
(*                                                                         *)
(* ZoxideSource, for any number of calls, either policy and any choice of  *)
(* what may fail: ZoxideInv is inductive.  Its parts follow the code:      *)
(* whose load a cache holds (LoadInv), who holds the permit (PermitInv),   *)
(* how far a call and its two goroutines are (CallInv) and where every     *)
(* error that a call may still return has come from (ErrorInv).            *)
(*                                                                         *)
(* ZoxideRecords, for any output, any pieces and any limits: RecordsInv    *)
(* says which prefix of the output the writer has scanned and the parser   *)
(* has read (Scanned, Reads), MergeInv what is merged so far; cleaned      *)
(* paths tell files apart as the names in them do (OneKeyOneFile).         *)
(***************************************************************************)
EXTENDS ZoxideSource, ZoxideRecords, TLAPS, FiniteSetTheorems, SequenceTheorems, WellFoundedInduction

(* A load is under way only while the call that owns it joins it; a fresh  *)
(* cache is never waited for by anyone else.                               *)
LoadInv ==
    /\ \A k \in Caches : cache[k].load \notin {"none", "ready"} =>
          /\ cache[k].owner \in Callers
          /\ source[cache[k].owner] = "joining"
          /\ CacheOf(cache[k].owner) = k
    /\ \A k \in Caches : cache[k].load # "ready" => cache[k].outcome # "cancelled"
    /\ \A c \in Callers : source[c] = "joining" =>
          cache[CacheOf(c)].load # "none" /\ cache[CacheOf(c)].owner = c
    /\ \A c \in Callers : source[c] = "reading" =>
          /\ cache[CacheOf(c)].load = "ready"
          /\ policy = "fresh" => cache[c].owner = c

(* The permit lies in its channel or one call has it; it is kept while the *)
(* call's own cache exists.  The cached policy uses neither.               *)
Holds(c) == source[c] \in {"granted", "loading", "joining", "waiting", "reading"}

PermitInv ==
    /\ policy = "fresh" =>
          /\ \A c, d \in Callers : Holds(c) /\ Holds(d) => c = d
          /\ \A c \in Callers : Holds(c) => ~permit
          /\ \A c \in Callers : source[c] # "waiting"
          /\ \A c \in Callers : cache[c].load # "none" => source[c] \in {"joining", "reading"}
    /\ policy = "cached" => \A c \in Callers : source[c] \notin {"permit", "granted"}
    /\ \A k \in Caches : cache[k].load # "none" =>
          IF policy = "cached" THEN k = NoCaller ELSE k # NoCaller

(* A call hears each goroutine after that is done, and returns after both. *)
CallInv ==
    \A c \in Callers :
        /\ main[c] = "idle" => source[c] = "idle" /\ local[c] = "idle" /\ kind[c] = "none"
                               /\ heard[c] = {}
        /\ main[c] = "returned" => /\ source[c] \in {"idle", "done"}
                                   /\ local[c] \in {"idle", "done"}
                                   /\ kind[c] = "none" /\ heard[c] = {}
        /\ kind[c] = "load" => local[c] = "idle"
        /\ "local" \in heard[c] => local[c] = "done"
        /\ "source" \in heard[c] => source[c] = "done"
        /\ main[c] = "draining" => heard[c] # {}

(* An error of the call itself, and one that a call may return.            *)
Reasons == {"caller", "local", "factory"}

Own(c, e) == e # NoErr => /\ e[1] = c /\ e[2] \in Reasons
                          /\ e[2] = "caller" => cancelled[c]

Inherited(e) ==
    /\ policy = "cached" /\ cache[NoCaller].outcome = "cancelled"
    /\ e = cache[NoCaller].err

May(c, e) == Own(c, e) \/ Inherited(e)

(* An error is the call's own, or the one with which the owner of the      *)
(* shared load took that load along; until its goroutine is done, the      *)
(* errors of a call are its own.                                           *)
ErrorInv ==
    /\ \A k \in Caches : cache[k].outcome = "cancelled" =>
          /\ cache[k].owner \in Callers
          /\ cache[k].err # NoErr /\ Own(cache[k].owner, cache[k].err)
    /\ \A c \in Callers : source[c] # "done" => Own(c, cause[c]) /\ Own(c, localErr[c])
    /\ \A c \in Callers : May(c, cause[c]) /\ May(c, localErr[c])
    /\ \A c \in Callers : May(c, sourceRes[c].err) /\ May(c, first[c]) /\ May(c, result[c])

ZoxideInv == TypeOK /\ LoadInv /\ PermitInv /\ CallInv /\ ErrorInv

-----------------------------------------------------------------------------
(* What a step may do to the caches                                        *)

(* Everything but the caches stays.                                        *)
OnlyCache ==
    UNCHANGED <<policy, timed, permit, cancelled, cause, main, kind, heard, first, result,
                local, localErr, source, sourceRes>>

(* The load of k goes on, or is over with this outcome.                    *)
Advances(k) ==
    /\ cache' \in [Caches -> Loads]
    /\ \A j \in Caches \ {k} : cache'[j] = cache[j]
    /\ cache[k].load \notin {"none", "ready"}
    /\ cache'[k].owner = cache[k].owner
    /\ \/ /\ cache'[k].load \notin {"none", "ready"}
          /\ cache'[k].outcome = cache[k].outcome
       \/ /\ cache'[k].load = "ready"
          /\ cache'[k].outcome = "cancelled" =>
                cache'[k].err = cause[cache[k].owner] /\ cache'[k].err # NoErr

(* No load changes but for the cause of its context.                       *)
SameLoads ==
    /\ cache' \in [Caches -> Loads]
    /\ \A k \in Caches : /\ cache'[k].load = cache[k].load
                         /\ cache'[k].owner = cache[k].owner
                         /\ cache'[k].outcome = cache[k].outcome
                         /\ cache'[k].err = cache[k].err

(* Every error the code makes is one of Errs.                              *)
LEMMA ErrorTypes ==
    /\ NoErr \in Errs
    /\ \A c \in Callers : <<c, "caller">> \in Errs /\ <<c, "local">> \in Errs
                          /\ <<c, "factory">> \in Errs /\ <<c, "finished">> \in Errs
    /\ <<NoCaller, "missing">> \in Errs /\ <<NoCaller, "process error">> \in Errs
    /\ <<NoCaller, "limit">> \in Errs /\ <<NoCaller, "timeout">> \in Errs
    /\ <<NoCaller, "malformed">> \in Errs
    /\ \A c \in Callers : c \in Caches
    /\ NoCaller \in Caches
BY DEF NoErr, Errs, Caches

LEMMA NoLoadType == NoLoad \in Loads /\ NoLoad.load = "none" /\ NoLoad.outcome = "none"
BY ErrorTypes DEF NoLoad, Loads, Stages, Outcomes

LEMMA LoadedEffect ==
    ASSUME TypeOK, NEW k \in Caches, NEW r \in Loads, Loaded(k, r),
           cache[k].load \notin {"none", "ready"}, r.owner = cache[k].owner,
           \/ r.load \notin {"none", "ready"} /\ r.outcome = cache[k].outcome
           \/ /\ r.load = "ready"
              /\ r.outcome = "cancelled" => r.err = cause[cache[k].owner] /\ r.err # NoErr
    PROVE  OnlyCache /\ Advances(k)
<1>1. OnlyCache
  BY DEF Loaded, OnlyCache, configVars, callVars, localVars, sourceVars
<1>2. cache \in [Caches -> Loads] /\ cache' = [cache EXCEPT ![k] = r]
  BY DEF TypeOK, Loaded
<1>3. cache' \in [Caches -> Loads] /\ cache'[k] = r /\ \A j \in Caches \ {k} : cache'[j] = cache[j]
  BY <1>2
<1> QED
  BY <1>1, <1>3 DEF Advances

LEMMA RunEffect ==
    ASSUME TypeOK, LoadInv, NEW k \in Caches,
           RunStep(k) \/ ExceedLimit(k) \/ TimeoutFires(k)
    PROVE  OnlyCache /\ Advances(k)
<1>0. cache[k] \in Loads /\ cache \in [Caches -> Loads] /\ cause \in [Callers -> Errs]
  BY DEF TypeOK
<1> DEFINE r0 == cache[k]
<1>t. /\ r0.load \in Stages /\ r0.owner \in Caches /\ r0.over \in BOOLEAN /\ r0.cause \in Errs
      /\ r0.runErr \in Errs /\ r0.outcome \in Outcomes /\ r0.err \in Errs
  BY <1>0 DEF Loads
<1>1. CASE Spawn(k)
  <2>1. ASSUME NEW e \in Errs
        PROVE  /\ [r0 EXCEPT !.load = "exited", !.runErr = e] \in Loads
               /\ [r0 EXCEPT !.load = "exited", !.runErr = e].load = "exited"
               /\ [r0 EXCEPT !.load = "exited", !.runErr = e].owner = r0.owner
               /\ [r0 EXCEPT !.load = "exited", !.runErr = e].outcome = r0.outcome
    BY <1>0, <2>1 DEF Loads, Stages
  <2>2. /\ [r0 EXCEPT !.load = "live"] \in Loads
        /\ [r0 EXCEPT !.load = "live"].load = "live"
        /\ [r0 EXCEPT !.load = "live"].owner = r0.owner
        /\ [r0 EXCEPT !.load = "live"].outcome = r0.outcome
    BY <1>0 DEF Loads, Stages
  <2>3. CASE Loaded(k, [r0 EXCEPT !.load = "live"])
    BY <1>1, <2>2, <2>3, LoadedEffect DEF Spawn
  <2>4. ASSUME NEW e \in Errs, Loaded(k, [r0 EXCEPT !.load = "exited", !.runErr = e])
        PROVE  OnlyCache /\ Advances(k)
    BY <1>1, <2>1, <2>4, LoadedEffect DEF Spawn
  <2> QED
    BY <1>1, <2>3, <2>4, <1>t, ErrorTypes DEF Spawn
<1>2. CASE ExceedLimit(k)
  <2> DEFINE r == [r0 EXCEPT !.over = TRUE, !.cause = FirstCause(k, <<NoCaller, "limit">>)]
  <2>1. FirstCause(k, <<NoCaller, "limit">>) \in Errs
    BY <1>t, ErrorTypes DEF FirstCause
  <2>2. r \in Loads /\ r.load = r0.load /\ r.owner = r0.owner /\ r.outcome = r0.outcome
    BY <1>0, <2>1 DEF Loads
  <2>3. r0.load = "live" /\ Loaded(k, r)
    BY <1>2 DEF ExceedLimit
  <2> HIDE DEF r
  <2> QED
    BY <2>2, <2>3, LoadedEffect
<1>3. CASE TimeoutFires(k)
  <2> DEFINE r == [r0 EXCEPT !.cause = <<NoCaller, "timeout">>]
  <2>2. r \in Loads /\ r.load = r0.load /\ r.owner = r0.owner /\ r.outcome = r0.outcome
    BY <1>0, ErrorTypes DEF Loads
  <2>3. r0.load \in {"attempt", "live"} /\ Loaded(k, r)
    BY <1>3 DEF TimeoutFires, Running
  <2> HIDE DEF r
  <2> QED
    BY <2>2, <2>3, LoadedEffect
<1>4. CASE RunReturns(k)
  <2>1. PICK e \in Errs : Loaded(k, [r0 EXCEPT !.load = "exited", !.runErr = e])
    BY <1>4, <1>t, ErrorTypes DEF RunReturns
  <2> DEFINE r == [r0 EXCEPT !.load = "exited", !.runErr = e]
  <2>2. r \in Loads /\ r.load = "exited" /\ r.owner = r0.owner /\ r.outcome = r0.outcome
    BY <1>0, <2>1 DEF Loads, Stages
  <2>3. r0.load = "live" /\ Loaded(k, r)
    BY <1>4, <2>1 DEF RunReturns
  <2> HIDE DEF r
  <2> QED
    BY <2>2, <2>3, LoadedEffect
<1>5. CASE load(k)
  <2> DEFINE error(o) == CASE o = "cancelled" -> cause[r0.owner]
                           [] o = "malformed" -> <<NoCaller, "malformed">>
                           [] OTHER -> r0.runErr
             loaded(o) == [NoLoad EXCEPT !.load = "ready", !.owner = r0.owner, !.outcome = o,
                                         !.err = error(o)]
  <2>0. r0.load = "exited" /\ r0.owner \in Callers
    BY <1>5 DEF load, LoadInv
  <2>1. PICK o \in loadOutcome(k) : Loaded(k, loaded(o))
    BY <1>5 DEF load
  <2>2. o \in Outcomes /\ (o = "cancelled" => cause[r0.owner] # NoErr)
    BY <2>1 DEF loadOutcome, Outcomes
  <2>3. error(o) \in Errs /\ (o = "cancelled" => error(o) = cause[r0.owner])
    BY <2>0, <2>2, <1>0, <1>t, ErrorTypes
  <2> HIDE DEF error
  <2>4. /\ loaded(o) \in Loads /\ loaded(o).load = "ready" /\ loaded(o).owner = r0.owner
        /\ loaded(o).outcome = o /\ loaded(o).err = error(o)
    BY <1>t, <2>2, <2>3, ErrorTypes DEF NoLoad, Loads, Stages
  <2> HIDE DEF loaded
  <2> QED
    BY <2>0, <2>1, <2>2, <2>3, <2>4, LoadedEffect
<1> QED
  BY <1>1, <1>2, <1>3, <1>4, <1>5 DEF RunStep

LEMMA CancelEffect ==
    ASSUME TypeOK, NEW c \in Callers, NEW e \in Errs, CancelRun(c, e)
    PROVE  SameLoads
<1>1. cache \in [Caches -> Loads]
  BY DEF TypeOK
<1>2. ASSUME NEW k \in Caches
      PROVE  /\ [cache[k] EXCEPT !.cause = e] \in Loads
             /\ [cache[k] EXCEPT !.cause = e].load = cache[k].load
             /\ [cache[k] EXCEPT !.cause = e].owner = cache[k].owner
             /\ [cache[k] EXCEPT !.cause = e].outcome = cache[k].outcome
             /\ [cache[k] EXCEPT !.cause = e].err = cache[k].err
  BY <1>1, <1>2 DEF Loads
<1>3. ASSUME NEW k \in Caches
      PROVE  cache'[k] = cache[k] \/ cache'[k] = [cache[k] EXCEPT !.cause = e]
  BY <1>3 DEF CancelRun
<1>4. ASSUME NEW k \in Caches
      PROVE  cache'[k] \in Loads
  BY <1>1, <1>2, <1>3, <1>4
<1>5. cache' \in [Caches -> Loads]
  BY <1>4 DEF CancelRun
<1> QED
  BY <1>2, <1>3, <1>5 DEF SameLoads

-----------------------------------------------------------------------------
(* Types                                                                   *)

Steps(c) == CallerEnds(c) \/ Call(c) \/ SourceSteps(c) \/ BuildLocal(c) \/ CallSteps(c)

(* The types of what the call keeps, and of the rest.                      *)
CallOK ==
    /\ main \in [Callers -> {"idle", "collecting", "draining", "returned"}]
    /\ kind \in [Callers -> {"none", "load", "build"}]
    /\ heard \in [Callers -> SUBSET {"local", "source"}]
    /\ first \in [Callers -> Errs] /\ result \in [Callers -> Errs]
    /\ cause \in [Callers -> Errs]
    /\ local \in [Callers -> {"idle", "running", "done"}]
    /\ localErr \in [Callers -> Errs]
    /\ sourceRes \in [Callers -> Results]

LEMMA ResultTypes ==
    /\ NoResult \in Results /\ NoResult.err = NoErr
    /\ \A e \in Errs, o \in Outcomes : [err |-> e, outcome |-> o] \in Results
    /\ \A r \in Results : r.err \in Errs /\ r.outcome \in Outcomes
BY ErrorTypes DEF Results, NoResult, Outcomes

LEMMA ReturnsEffect ==
    ASSUME TypeOK, NEW c \in Callers, NEW e \in Errs, Returns(c, e)
    PROVE  /\ main' \in [Callers -> {"idle", "collecting", "draining", "returned"}]
           /\ kind' \in [Callers -> {"none", "load", "build"}]
           /\ heard' \in [Callers -> SUBSET {"local", "source"}]
           /\ first' \in [Callers -> Errs] /\ result' \in [Callers -> Errs]
           /\ cause' \in [Callers -> Errs]
           /\ localErr' \in [Callers -> Errs]
           /\ sourceRes' \in [Callers -> Results]
BY ErrorTypes, ResultTypes DEF TypeOK, Returns

(* What a call of a source step leaves alone, and the types of the rest.   *)
LEMMA SourceDoneType ==
    ASSUME TypeOK, NEW c \in Callers, NEW e \in Errs, NEW o \in Outcomes, SourceDone(c, e, o)
    PROVE  /\ source' = [source EXCEPT ![c] = "done"] /\ source' \in [Callers -> Sources]
           /\ sourceRes' = [sourceRes EXCEPT ![c] = [err |-> e, outcome |-> o]]
           /\ sourceRes' \in [Callers -> Results] /\ sourceRes'[c].err = e
BY ResultTypes DEF TypeOK, SourceDone, SourceStep, Sources

LEMMA InitialErrorType ==
    ASSUME TypeOK, NEW c \in Callers
    PROVE  initialError(c) \in Errs /\ CacheOf(c) \in Caches
           /\ cache[CacheOf(c)] \in Loads /\ cache[CacheOf(c)].outcome \in Outcomes
<1>1. CacheOf(c) \in Caches
  BY ErrorTypes DEF CacheOf
<1>2. cache[CacheOf(c)] \in Loads
  BY <1>1 DEF TypeOK
<1>3. cache[CacheOf(c)].err \in Errs /\ cache[CacheOf(c)].outcome \in Outcomes
  BY <1>2 DEF Loads
<1> QED
  BY <1>1, <1>2, <1>3, ErrorTypes DEF initialError, TypeOK

LEMMA LoadType ==
    ASSUME TypeOK, NEW c \in Callers, Load(c), cache[CacheOf(c)].load = "none"
    PROVE  LET k == CacheOf(c) IN
           /\ cache' \in [Caches -> Loads]
           /\ cache'[k].load = "attempt" /\ cache'[k].owner = c
           /\ cache'[k].outcome = cache[k].outcome /\ cache'[k].err = cache[k].err
           /\ \A j \in Caches \ {k} : cache'[j] = cache[j]
<1> DEFINE k == CacheOf(c)
           r == [cache[k] EXCEPT !.load = "attempt", !.owner = c, !.cause = cause[c]]
<1>1. k \in Caches /\ cache[k] \in Loads /\ cache \in [Caches -> Loads] /\ cause[c] \in Errs
      /\ c \in Caches
  BY InitialErrorType, ErrorTypes DEF TypeOK
<1>2. r \in Loads /\ r.load = "attempt" /\ r.owner = c /\ r.outcome = cache[k].outcome
      /\ r.err = cache[k].err
  BY <1>1 DEF Loads, Stages
<1>3. cache' = [cache EXCEPT ![k] = r]
  BY <1>1 DEF Load
<1> HIDE DEF r
<1> QED
  BY <1>1, <1>2, <1>3

LEMMA SourceTypes ==
    ASSUME TypeOK, NEW c \in Callers, SourceSteps(c)
    PROVE  TypeOK'
<1>0. UNCHANGED <<policy, timed, cancelled, cause, main, kind, heard, first, result, local, localErr>>
  BY DEF SourceSteps, LoadInitialZoxide, acquireFreshPermit, NewCache, Load, LoadReturns,
         loadInitialZoxide, SourceDone, Failed, SourceStep, configVars, callVars, localVars
<1>1. source' \in [Callers -> Sources]
  BY DEF TypeOK, Sources, SourceSteps, LoadInitialZoxide, acquireFreshPermit, NewCache, Load,
         LoadReturns, loadInitialZoxide, SourceDone, Failed, SourceStep
<1>2. permit' \in BOOLEAN
  BY DEF TypeOK, SourceSteps, LoadInitialZoxide, acquireFreshPermit, NewCache, Load,
         LoadReturns, loadInitialZoxide
<1>3. cache' \in [Caches -> Loads]
  <2>1. CASE UNCHANGED cache
    BY <2>1 DEF TypeOK
  <2>2. CASE Load(c)
    BY <2>1, <2>2, LoadType DEF Load
  <2>3. CASE loadInitialZoxide(c)
    BY <2>1, <2>3, NoLoadType, ErrorTypes DEF loadInitialZoxide, TypeOK
  <2> QED
    BY <2>1, <2>2, <2>3 DEF SourceSteps, LoadInitialZoxide, acquireFreshPermit, NewCache, LoadReturns
<1>4. sourceRes' \in [Callers -> Results]
  <2>1. CASE UNCHANGED sourceRes
    BY <2>1 DEF TypeOK
  <2>2. ASSUME NEW e \in Errs, NEW o \in Outcomes, SourceDone(c, e, o)
        PROVE  sourceRes' \in [Callers -> Results]
    BY <2>2, SourceDoneType
  <2>3. cause[c] \in Errs /\ <<c, "factory">> \in Errs /\ "none" \in Outcomes
    BY ErrorTypes DEF TypeOK, Outcomes
  <2>4. CASE loadInitialZoxide(c)
    <3>1. PICK o \in Outcomes : SourceDone(c, initialError(c), o)
      BY <2>3, <2>4, InitialErrorType DEF loadInitialZoxide
    <3> QED
      BY <2>2, <3>1, InitialErrorType
  <2>5. CASE LoadInitialZoxide(c)
    BY <2>1, <2>2, <2>3, <2>5 DEF LoadInitialZoxide, Failed, KeepSource
  <2>6. CASE acquireFreshPermit(c)
    BY <2>1, <2>2, <2>3, <2>6 DEF acquireFreshPermit, Failed, KeepSource
  <2>7. CASE NewCache(c)
    BY <2>1, <2>2, <2>3, <2>7 DEF NewCache, Failed, KeepSource
  <2>8. CASE Load(c)
    BY <2>1, <2>8 DEF Load, KeepSource
  <2>9. CASE LoadReturns(c)
    BY <2>1, <2>2, <2>3, <2>9 DEF LoadReturns, Failed, KeepSource
  <2> QED
    BY <2>4, <2>5, <2>6, <2>7, <2>8, <2>9 DEF SourceSteps
<1> QED
  BY <1>0, <1>1, <1>2, <1>3, <1>4 DEF TypeOK

(* What is sent is a name and an error.                                    *)
LEMMA SentType ==
    ASSUME TypeOK, NEW c \in Callers, NEW m \in Sent(c)
    PROVE  /\ m[1] \in {"local", "source"} /\ m[2] \in Errs
           /\ m[1] = "local" => local[c] = "done" /\ m[2] = localErr[c]
           /\ m[1] = "source" => source[c] = "done" /\ m[2] = sourceRes[c].err
BY ResultTypes DEF TypeOK, Sent

(* The steps of the call itself leave the permit and, but for the cause of *)
(* a context, the loads alone.                                             *)
LEMMA CallEffect ==
    ASSUME TypeOK, NEW c \in Callers, CallerEnds(c) \/ Call(c) \/ CallSteps(c) \/ BuildLocal(c)
    PROVE  /\ UNCHANGED <<policy, timed, permit>>
           /\ SameLoads
           /\ Call(c) \/ UNCHANGED source
           /\ source' \in [Callers -> Sources]
           /\ cancelled' \in [Callers -> BOOLEAN]
<1>0. /\ cancelled \in [Callers -> BOOLEAN] /\ source \in [Callers -> Sources]
      /\ cache \in [Caches -> Loads]
  BY DEF TypeOK
<1>1. ASSUME UNCHANGED cache PROVE SameLoads
  BY <1>0, <1>1 DEF SameLoads
<1>2. CASE CallerEnds(c)
  BY <1>0, <1>2, CancelEffect, ErrorTypes DEF CallerEnds, Cancel, configVars, sourceVars
<1>3. CASE Call(c)
  BY <1>0, <1>1, <1>3 DEF Call, configVars, Sources
<1>4. CASE BuildLocal(c)
  BY <1>0, <1>1, <1>4 DEF BuildLocal, configVars, sourceVars
<1>5. CASE ReturnLoad(c)
  BY <1>0, <1>1, <1>5 DEF ReturnLoad, KeepRest, configVars
<1>6. CASE Collect(c)
  <2>1. SameLoads
    BY <1>1, <1>6, CancelEffect, SentType DEF Collect, Cancel
  <2> QED
    BY <1>0, <1>6, <2>1 DEF Collect, KeepRest, configVars
<1>7. CASE ReturnBuild(c)
  BY <1>0, <1>7, CancelEffect, ErrorTypes DEF ReturnBuild, KeepRest, configVars
<1>8. CASE Drain(c)
  BY <1>0, <1>1, <1>8 DEF Drain, KeepRest, configVars
<1> QED
  BY <1>2, <1>3, <1>4, <1>5, <1>6, <1>7, <1>8 DEF CallSteps

LEMMA CallTypes ==
    ASSUME TypeOK, NEW c \in Callers, CallerEnds(c) \/ Call(c) \/ CallSteps(c) \/ BuildLocal(c)
    PROVE  TypeOK'
<1>0. CallOK /\ cancelled \in [Callers -> BOOLEAN] /\ cause[c] \in Errs /\ first[c] \in Errs
      /\ sourceRes[c].err \in Errs /\ <<c, "caller">> \in Errs /\ <<c, "local">> \in Errs
      /\ NoErr \in Errs
  BY ErrorTypes, ResultTypes DEF TypeOK, CallOK
<1>1. ASSUME NEW e \in Errs, Returns(c, e), UNCHANGED local
      PROVE  CallOK'
  BY <1>0, <1>1, ReturnsEffect DEF CallOK
<1>2. CASE CallerEnds(c)
  <2>1. cause' \in [Callers -> Errs]
    BY <1>0, <1>2 DEF CallerEnds, Cancel, CallOK
  <2>2. CallOK'
    BY <1>0, <1>2, <2>1 DEF CallOK, CallerEnds, callVars, localVars, sourceVars
  <2> QED
    BY <1>2, <2>2, CallEffect DEF TypeOK, CallOK, SameLoads
<1>3. CASE Call(c)
  <2>1. ASSUME Returns(c, cause[c]), UNCHANGED local PROVE CallOK'
    BY <1>0, <1>1, <2>1
  <2>2. ASSUME ~cancelled[c] PROVE CallOK'
    BY <1>0, <1>3, <2>2 DEF Call, CallOK, KeepSent
  <2>3. CallOK'
    BY <1>3, <2>1, <2>2 DEF Call
  <2> QED
    BY <1>3, <2>3, CallEffect DEF TypeOK, CallOK, SameLoads
<1>4. CASE BuildLocal(c)
  <2>1. PICK e \in Errs : localErr' = [localErr EXCEPT ![c] = e]
    BY <1>0, <1>4 DEF BuildLocal
  <2>2. CallOK'
    BY <1>0, <1>4, <2>1 DEF BuildLocal, CallOK, callVars, sourceVars
  <2> QED
    BY <1>4, <2>2, CallEffect DEF TypeOK, CallOK, SameLoads
<1>5. CASE ReturnLoad(c)
  <2>1. CallOK'
    BY <1>0, <1>1, <1>5 DEF ReturnLoad, KeepRest
  <2> QED
    BY <1>5, <2>1, CallEffect DEF TypeOK, CallOK, SameLoads, CallSteps
<1>6. CASE Collect(c)
  <2>1. PICK m \in Sent(c) :
          /\ heard' = [heard EXCEPT ![c] = @ \cup {m[1]}]
          /\ IF m[2] = NoErr
             THEN UNCHANGED <<main, first, cache, cause>>
             ELSE /\ main' = [main EXCEPT ![c] = "draining"]
                  /\ first' = [first EXCEPT ![c] = m[2]]
                  /\ Cancel(c, m[2])
    BY <1>6 DEF Collect
  <2>2. m[1] \in {"local", "source"} /\ m[2] \in Errs
    BY SentType
  <2>3. heard' \in [Callers -> SUBSET {"local", "source"}]
    BY <1>0, <2>1, <2>2 DEF CallOK
  <2>4. /\ main' \in [Callers -> {"idle", "collecting", "draining", "returned"}]
        /\ first' \in [Callers -> Errs] /\ cause' \in [Callers -> Errs]
    BY <1>0, <2>1, <2>2 DEF CallOK, Cancel
  <2>5. CallOK'
    BY <1>0, <1>6, <2>3, <2>4 DEF Collect, CallOK, KeepSent, KeepRest
  <2> QED
    BY <1>6, <2>5, CallEffect DEF TypeOK, CallOK, SameLoads, CallSteps
<1>7. CASE ReturnBuild(c)
  <2>1. PICK e \in Errs : Returns(c, e)
    BY <1>0, <1>7 DEF ReturnBuild
  <2>2. CallOK'
    BY <1>1, <1>7, <2>1 DEF ReturnBuild, KeepRest
  <2> QED
    BY <1>7, <2>2, CallEffect DEF TypeOK, CallOK, SameLoads, CallSteps
<1>8. CASE Drain(c)
  <2>1. ASSUME heard' = [heard EXCEPT ![c] = Both], KeepSent,
               UNCHANGED <<main, kind, first, result, cause>>
        PROVE  CallOK'
    BY <1>0, <1>8, <2>1 DEF Drain, CallOK, KeepSent, KeepRest, Both
  <2>2. ASSUME Returns(c, IF cancelled[c] THEN <<c, "caller">> ELSE first[c])
        PROVE  CallOK'
    <3>1. PICK e \in Errs : Returns(c, e)
      BY <1>0, <2>2
    <3> QED
      BY <1>1, <1>8, <3>1 DEF Drain, KeepRest
  <2>3. CallOK'
    BY <1>8, <2>1, <2>2 DEF Drain
  <2> QED
    BY <1>8, <2>3, CallEffect DEF TypeOK, CallOK, SameLoads, CallSteps
<1> QED
  BY <1>2, <1>3, <1>4, <1>5, <1>6, <1>7, <1>8 DEF CallSteps

LEMMA TypeStep ==
    ASSUME ZoxideInv, [Next]_vars
    PROVE  TypeOK'
<1>0. TypeOK /\ LoadInv
  BY DEF ZoxideInv
<1>1. CASE UNCHANGED vars
  BY <1>0, <1>1 DEF TypeOK, vars, configVars, callVars, localVars, sourceVars
<1>2. ASSUME NEW k \in Caches, RunStep(k) \/ ExceedLimit(k) \/ TimeoutFires(k)
      PROVE  TypeOK'
  <2>1. OnlyCache /\ Advances(k)
    BY <1>0, <1>2, RunEffect
  <2> QED
    BY <1>0, <2>1 DEF TypeOK, OnlyCache, Advances
<1> QED
  BY <1>0, <1>1, <1>2, SourceTypes, CallTypes DEF Next

-----------------------------------------------------------------------------
(* Loads and the permit                                                    *)

LEMMA PolicyIs == TypeOK => policy \in {"cached", "fresh"}
BY PoliciesAssumption DEF TypeOK

LEMMA LoadStep ==
    ASSUME ZoxideInv, [Next]_vars
    PROVE  LoadInv'
<1>0. TypeOK /\ LoadInv /\ PermitInv /\ CallInv /\ TypeOK'
  BY TypeStep DEF ZoxideInv
<1>c. policy \in {"cached", "fresh"} /\ NoCaller \notin Callers
      /\ \A c \in Callers : CacheOf(c) \in Caches /\ c \in Caches
  BY <1>0, PolicyIs, InitialErrorType, ErrorTypes, NoCallerAssumption
<1>1. ASSUME UNCHANGED <<policy, source>>, SameLoads
      PROVE  LoadInv'
  BY <1>0, <1>1, <1>c DEF LoadInv, SameLoads, CacheOf
<1>2. ASSUME NEW k \in Caches, RunStep(k) \/ ExceedLimit(k) \/ TimeoutFires(k)
      PROVE  LoadInv'
  <2>1. OnlyCache /\ Advances(k)
    BY <1>0, <1>2, RunEffect
  <2> QED
    BY <1>0, <1>c, <2>1 DEF LoadInv, OnlyCache, Advances, CacheOf
<1>3. ASSUME NEW c \in Callers, Call(c)
      PROVE  LoadInv'
  <2>1. SameLoads /\ policy' = policy
    BY <1>0, <1>3, CallEffect
  <2>2. source' = source \/ (source[c] = "idle" /\ source' = [source EXCEPT ![c] = "entered"])
    BY <1>0, <1>3 DEF Call, CallInv
  <2>3. \A d \in Callers : source'[d] # source[d] => source[d] = "idle" /\ source'[d] = "entered"
    BY <1>0, <2>2 DEF TypeOK
  <2> QED
    BY <1>0, <1>c, <2>1, <2>3 DEF LoadInv, SameLoads, CacheOf
<1>4. ASSUME NEW c \in Callers, NEW to, UNCHANGED <<policy, cache>>,
             source' = [source EXCEPT ![c] = to], source[c] \notin {"joining", "reading"},
             to \notin {"joining", "reading"}
      PROVE  LoadInv'
  BY <1>0, <1>c, <1>4 DEF LoadInv, CacheOf, TypeOK
<1>5. ASSUME NEW c \in Callers, LoadInitialZoxide(c) \/ acquireFreshPermit(c) \/ NewCache(c)
      PROVE  LoadInv'
  BY <1>4, <1>5 DEF LoadInitialZoxide, acquireFreshPermit, NewCache, SourceStep, SourceDone,
                    Failed, configVars
<1>6. ASSUME NEW c \in Callers, Load(c)
      PROVE  LoadInv'
  <2>0. policy' = policy /\ source[c] = "loading"
    BY <1>6 DEF Load, SourceStep, configVars
  <2>1. CASE cache[CacheOf(c)].load = "none"
    <3>1. source' = [source EXCEPT ![c] = "joining"]
      BY <1>6, <2>1 DEF Load, SourceStep
    <3>2. source'[c] = "joining" /\ \A d \in Callers \ {c} : source'[d] = source[d]
      BY <1>0, <3>1 DEF TypeOK
    <3> QED
      BY <1>0, <1>c, <2>0, <2>1, <3>2, <1>6, LoadType DEF LoadInv, CacheOf
  <2>2. CASE cache[CacheOf(c)].load # "none"
    BY <1>4, <1>6, <2>0, <2>2 DEF Load, SourceStep
  <2> QED
    BY <2>1, <2>2
<1>7. ASSUME NEW c \in Callers, LoadReturns(c)
      PROVE  LoadInv'
  <2>0. policy' = policy /\ cache' = cache
    BY <1>7 DEF LoadReturns, SourceStep, SourceDone, Failed, configVars
  <2>1. CASE source[c] \in {"joining", "waiting"} /\ cache[CacheOf(c)].load = "ready"
             /\ SourceStep(c, "reading")
    <3>1. source'[c] = "reading" /\ \A d \in Callers \ {c} : source'[d] = source[d]
      BY <1>0, <2>1 DEF SourceStep, TypeOK
    <3>2. policy = "fresh" => source[c] = "joining" /\ CacheOf(c) = c
      BY <1>0, <2>1 DEF PermitInv, CacheOf
    <3>3. policy = "fresh" => cache[c].owner = c
      BY <1>0, <3>2 DEF LoadInv
    <3> QED
      BY <1>0, <1>c, <2>0, <2>1, <3>1, <3>3 DEF LoadInv, CacheOf
  <2>2. CASE source[c] = "waiting" /\ Failed(c, cause[c])
    BY <1>4, <2>0, <2>2 DEF Failed, SourceDone, SourceStep
  <2> QED
    BY <1>7, <2>1, <2>2 DEF LoadReturns
<1>8. ASSUME NEW c \in Callers, loadInitialZoxide(c)
      PROVE  LoadInv'
  <2>0. policy' = policy /\ source[c] = "reading" /\ source'[c] = "done"
        /\ \A d \in Callers \ {c} : source'[d] = source[d]
    BY <1>0, <1>8 DEF loadInitialZoxide, SourceStep, SourceDone, TypeOK, configVars
  <2>1. CASE policy = "cached"
    <3>1. cache' = cache
      BY <1>8, <2>1 DEF loadInitialZoxide
    <3> QED
      BY <1>0, <1>c, <2>0, <3>1 DEF LoadInv, CacheOf
  <2>2. CASE policy = "fresh"
    <3>1. cache'[c] = NoLoad /\ \A j \in Caches \ {c} : cache'[j] = cache[j]
      BY <1>0, <1>c, <1>8, <2>2 DEF loadInitialZoxide, TypeOK
    <3>2. \A d \in Callers : CacheOf(d) = d /\ CacheOf(d)' = d
      BY <2>0, <2>2 DEF CacheOf
    <3>3. \A k \in Caches \ {c} : cache[k].load \notin {"none", "ready"} => cache[k].owner # c
      BY <1>0, <2>0 DEF LoadInv
    <3> QED
      BY <1>0, <1>c, <2>0, <2>2, <3>1, <3>2, <3>3, NoLoadType DEF LoadInv, CacheOf
  <2> QED
    BY <1>c, <2>1, <2>2
<1>9. CASE UNCHANGED vars
  BY <1>0, <1>1, <1>9 DEF vars, configVars, sourceVars, SameLoads, TypeOK
<1> QED
  <2>1. ASSUME NEW c \in Callers, CallerEnds(c) \/ CallSteps(c) \/ BuildLocal(c)
        PROVE  LoadInv'
    BY <1>0, <1>1, <1>3, <2>1, CallEffect
  <2> QED
    BY <1>2, <1>3, <1>5, <1>6, <1>7, <1>8, <1>9, <2>1 DEF Next, SourceSteps

(* The places a call's goroutine goes to, one goroutine at a time.         *)
LEMMA SourceMoves ==
    ASSUME TypeOK, NEW c \in Callers, SourceSteps(c)
    PROVE  /\ UNCHANGED <<policy, cancelled, cause, main, kind, heard, first, result, local, localErr>>
           /\ source[c] \notin {"idle", "done"} /\ source'[c] # "idle"
           /\ \A d \in Callers \ {c} : source'[d] = source[d]
BY DEF TypeOK, SourceSteps, LoadInitialZoxide, acquireFreshPermit, NewCache, Load, LoadReturns,
       loadInitialZoxide, SourceDone, Failed, SourceStep, configVars, callVars, localVars

LEMMA PermitStep ==
    ASSUME ZoxideInv, [Next]_vars
    PROVE  PermitInv'
<1>0. TypeOK /\ LoadInv /\ PermitInv /\ CallInv /\ TypeOK'
  BY TypeStep DEF ZoxideInv
<1>c. policy \in {"cached", "fresh"} /\ NoCaller \notin Callers
      /\ \A c \in Callers : CacheOf(c) \in Caches /\ c \in Caches
  BY <1>0, PolicyIs, InitialErrorType, ErrorTypes, NoCallerAssumption
<1>1. ASSUME UNCHANGED <<policy, permit, source>>, SameLoads
      PROVE  PermitInv'
  BY <1>0, <1>1, <1>c DEF PermitInv, SameLoads, Holds
<1>2. ASSUME NEW k \in Caches, RunStep(k) \/ ExceedLimit(k) \/ TimeoutFires(k)
      PROVE  PermitInv'
  <2>1. OnlyCache /\ Advances(k)
    BY <1>0, <1>2, RunEffect
  <2> QED
    BY <1>0, <1>c, <2>1 DEF PermitInv, OnlyCache, Advances, Holds
<1>3. ASSUME NEW c \in Callers, Call(c)
      PROVE  PermitInv'
  <2>1. SameLoads /\ policy' = policy /\ permit' = permit
    BY <1>0, <1>3, CallEffect
  <2>2. source' = source \/ (source[c] = "idle" /\ source' = [source EXCEPT ![c] = "entered"])
    BY <1>0, <1>3 DEF Call, CallInv
  <2>3. \A d \in Callers : source'[d] # source[d] => source[d] = "idle" /\ source'[d] = "entered"
    BY <1>0, <2>2 DEF TypeOK
  <2> QED
    BY <1>0, <1>c, <2>1, <2>3 DEF PermitInv, SameLoads, Holds
<1>4. ASSUME NEW c \in Callers, LoadInitialZoxide(c)
      PROVE  PermitInv'
  <2>1. /\ policy' = policy /\ permit' = permit /\ cache' = cache
        /\ \A d \in Callers \ {c} : source'[d] = source[d]
        /\ source[c] = "entered"
        /\ source'[c] \in {"done"} \cup IF policy = "fresh" THEN {"permit"} ELSE {"loading"}
    BY <1>0, <1>4 DEF LoadInitialZoxide, SourceStep, SourceDone, Failed, configVars, TypeOK
  <2> QED
    BY <1>0, <1>c, <2>1 DEF PermitInv, Holds
<1>5. ASSUME NEW c \in Callers, acquireFreshPermit(c)
      PROVE  PermitInv'
  <2>1. /\ policy' = policy /\ cache' = cache
        /\ \A d \in Callers \ {c} : source'[d] = source[d]
        /\ source[c] = "permit"
        /\ \/ source'[c] = "done" /\ permit' = permit
           \/ source'[c] = "granted" /\ permit /\ ~permit'
    BY <1>0, <1>5 DEF acquireFreshPermit, SourceStep, SourceDone, Failed, configVars, TypeOK
  <2> QED
    BY <1>0, <1>c, <2>1 DEF PermitInv, Holds
<1>6. ASSUME NEW c \in Callers, NewCache(c)
      PROVE  PermitInv'
  <2>1. /\ policy' = policy /\ cache' = cache
        /\ \A d \in Callers \ {c} : source'[d] = source[d]
        /\ source[c] = "granted"
        /\ \/ source'[c] = "done" /\ permit'
           \/ source'[c] = "loading" /\ permit' = permit
    BY <1>0, <1>6 DEF NewCache, SourceStep, SourceDone, Failed, configVars, TypeOK
  <2> QED
    BY <1>0, <1>c, <2>1 DEF PermitInv, Holds
<1>7. ASSUME NEW c \in Callers, Load(c)
      PROVE  PermitInv'
  <2>1. /\ policy' = policy /\ permit' = permit
        /\ \A d \in Callers \ {c} : source'[d] = source[d]
        /\ source[c] = "loading"
        /\ \/ source'[c] = "joining" /\ cache[CacheOf(c)].load = "none"
           \/ source'[c] = "waiting" /\ cache' = cache /\ cache[CacheOf(c)].load # "none"
    BY <1>0, <1>7 DEF Load, SourceStep, configVars, TypeOK
  <2>2. CASE source'[c] = "joining" /\ cache[CacheOf(c)].load = "none"
    <3>1. CacheOf(c) = IF policy = "cached" THEN NoCaller ELSE c
      BY DEF CacheOf
    <3>2. \A j \in Caches \ {CacheOf(c)} : cache'[j] = cache[j]
      BY <1>0, <1>7, <2>2, LoadType
    <3> QED
      BY <1>0, <1>c, <2>1, <2>2, <3>1, <3>2 DEF PermitInv, Holds
  <2>3. CASE source'[c] = "waiting" /\ cache' = cache /\ cache[CacheOf(c)].load # "none"
    <3>1. policy = "cached"
      BY <1>0, <1>c, <2>1, <2>3 DEF PermitInv, CacheOf
    <3> QED
      BY <1>0, <1>c, <2>1, <2>3, <3>1 DEF PermitInv, Holds
  <2> QED
    BY <2>1, <2>2, <2>3
<1>8. ASSUME NEW c \in Callers, LoadReturns(c)
      PROVE  PermitInv'
  <2>1. /\ policy' = policy /\ permit' = permit /\ cache' = cache
        /\ \A d \in Callers \ {c} : source'[d] = source[d]
        /\ \/ source[c] \in {"joining", "waiting"} /\ source'[c] = "reading"
           \/ source[c] = "waiting" /\ source'[c] = "done"
    BY <1>0, <1>8 DEF LoadReturns, SourceStep, SourceDone, Failed, configVars, TypeOK
  <2> QED
    BY <1>0, <1>c, <2>1 DEF PermitInv, Holds
<1>9. ASSUME NEW c \in Callers, loadInitialZoxide(c)
      PROVE  PermitInv'
  <2>1. /\ policy' = policy /\ permit' = (policy = "fresh")
        /\ \A d \in Callers \ {c} : source'[d] = source[d]
        /\ source[c] = "reading" /\ source'[c] = "done"
    BY <1>0, <1>9 DEF loadInitialZoxide, SourceStep, SourceDone, configVars, TypeOK
  <2>2. CASE policy = "cached"
    <3>1. cache' = cache
      BY <1>9, <2>2 DEF loadInitialZoxide
    <3> QED
      BY <1>0, <1>c, <2>1, <2>2, <3>1 DEF PermitInv, Holds
  <2>3. CASE policy = "fresh"
    <3>1. cache'[c] = NoLoad /\ \A j \in Caches \ {c} : cache'[j] = cache[j]
      BY <1>0, <1>c, <1>9, <2>3 DEF loadInitialZoxide, TypeOK
    <3>2. \A d \in Callers \ {c} : ~Holds(d)
      BY <1>0, <2>1, <2>3 DEF PermitInv, Holds
    <3> QED
      BY <1>0, <1>c, <2>1, <2>3, <3>1, <3>2, NoLoadType DEF PermitInv, Holds
  <2> QED
    BY <1>c, <2>2, <2>3
<1>10. CASE UNCHANGED vars
  BY <1>0, <1>1, <1>10 DEF vars, configVars, sourceVars, SameLoads, TypeOK
<1> QED
  <2>1. ASSUME NEW c \in Callers, CallerEnds(c) \/ CallSteps(c) \/ BuildLocal(c)
        PROVE  PermitInv'
    BY <1>0, <1>1, <1>3, <2>1, CallEffect
  <2> QED
    BY <1>2, <1>3, <1>4, <1>5, <1>6, <1>7, <1>8, <1>9, <1>10, <2>1 DEF Next, SourceSteps

-----------------------------------------------------------------------------
(* A call and its goroutines                                               *)

LEMMA CallStep ==
    ASSUME ZoxideInv, [Next]_vars
    PROVE  CallInv'
<1>0. TypeOK /\ CallInv /\ LoadInv
  BY DEF ZoxideInv
<1>1. ASSUME UNCHANGED <<main, kind, heard, local, source>>
      PROVE  CallInv'
  BY <1>0, <1>1 DEF CallInv
<1>2. ASSUME NEW k \in Caches, RunStep(k) \/ ExceedLimit(k) \/ TimeoutFires(k)
      PROVE  CallInv'
  BY <1>0, <1>1, <1>2, RunEffect DEF OnlyCache
<1>3. ASSUME NEW c \in Callers, SourceSteps(c)
      PROVE  CallInv'
  BY <1>0, <1>3, SourceMoves DEF CallInv
<1>4. ASSUME NEW c \in Callers, UNCHANGED <<local, source>>, NEW e, Returns(c, e),
             source[c] \in {"idle", "done"}, local[c] \in {"idle", "done"}
      PROVE  CallInv'
  <2>1. /\ main'[c] = "returned" /\ kind'[c] = "none" /\ heard'[c] = {}
        /\ \A d \in Callers \ {c} : main'[d] = main[d] /\ kind'[d] = kind[d] /\ heard'[d] = heard[d]
    BY <1>0, <1>4 DEF Returns, TypeOK
  <2> QED
    BY <1>0, <1>4, <2>1 DEF CallInv
<1>5. ASSUME NEW c \in Callers, CallerEnds(c)
      PROVE  CallInv'
  BY <1>1, <1>5 DEF CallerEnds, callVars, localVars, sourceVars
<1>6. ASSUME NEW c \in Callers, Call(c)
      PROVE  CallInv'
  <2>1. main[c] = "idle" /\ source[c] = "idle" /\ local[c] = "idle" /\ heard[c] = {}
    BY <1>0, <1>6 DEF Call, CallInv
  <2>2. CASE cancelled[c]
    BY <1>4, <1>6, <2>1, <2>2 DEF Call
  <2>3. CASE ~cancelled[c]
    <3>1. /\ main'[c] = "collecting" /\ source'[c] = "entered" /\ heard' = heard
          /\ kind'[c] \in {"load", "build"} /\ (kind'[c] = "load" => local'[c] = "idle")
          /\ \A d \in Callers \ {c} : main'[d] = main[d] /\ kind'[d] = kind[d]
                                      /\ source'[d] = source[d] /\ local'[d] = local[d]
      BY <1>0, <1>6, <2>1, <2>3 DEF Call, TypeOK
    <3> QED
      BY <1>0, <2>1, <3>1 DEF CallInv
  <2> QED
    BY <2>2, <2>3
<1>7. ASSUME NEW c \in Callers, BuildLocal(c)
      PROVE  CallInv'
  <2>1. /\ UNCHANGED <<main, kind, heard, source>>
        /\ local[c] = "running" /\ local'[c] = "done"
        /\ \A d \in Callers \ {c} : local'[d] = local[d]
    BY <1>0, <1>7 DEF BuildLocal, TypeOK, callVars, sourceVars
  <2> QED
    BY <1>0, <2>1 DEF CallInv
<1>8. ASSUME NEW c \in Callers, ReturnLoad(c)
      PROVE  CallInv'
  BY <1>0, <1>4, <1>8 DEF ReturnLoad, KeepRest, CallInv
<1>9. ASSUME NEW c \in Callers, Collect(c)
      PROVE  CallInv'
  <2>1. PICK m \in Sent(c) :
          /\ heard' = [heard EXCEPT ![c] = @ \cup {m[1]}]
          /\ UNCHANGED main \/ main' = [main EXCEPT ![c] = "draining"]
    BY <1>9 DEF Collect
  <2>2. /\ UNCHANGED <<kind, local, source>> /\ main[c] = "collecting"
        /\ heard'[c] = heard[c] \cup {m[1]} /\ main'[c] \in {"collecting", "draining"}
        /\ \A d \in Callers \ {c} : main'[d] = main[d] /\ heard'[d] = heard[d]
    BY <1>0, <1>9, <2>1 DEF Collect, KeepRest, TypeOK
  <2>3. /\ m[1] \in {"local", "source"}
        /\ m[1] = "local" => local[c] = "done"
        /\ m[1] = "source" => source[c] = "done"
    BY <1>0, SentType
  <2> QED
    BY <1>0, <2>2, <2>3 DEF CallInv
<1>10. ASSUME NEW c \in Callers, ReturnBuild(c)
       PROVE  CallInv'
  <2>1. local[c] = "done" /\ source[c] = "done"
    BY <1>0, <1>10 DEF ReturnBuild, CallInv, Both
  <2> QED
    BY <1>4, <1>10, <2>1 DEF ReturnBuild, KeepRest
<1>11. ASSUME NEW c \in Callers, Drain(c)
       PROVE  CallInv'
  <2>0. main[c] = "draining" /\ heard[c] # {} /\ heard[c] \subseteq {"local", "source"}
    BY <1>0, <1>11 DEF Drain, CallInv, TypeOK
  <2>1. CASE heard[c] = Both /\ Returns(c, IF cancelled[c] THEN <<c, "caller">> ELSE first[c])
    <3>1. local[c] = "done" /\ source[c] = "done"
      BY <1>0, <2>1 DEF CallInv, Both
    <3> QED
      BY <1>4, <1>11, <2>1, <3>1 DEF Drain, KeepRest
  <2>2. CASE /\ \E m \in Sent(c) : m[1] \notin heard[c]
             /\ heard' = [heard EXCEPT ![c] = Both]
             /\ UNCHANGED <<main, kind, first, result, cause>>
    <3>1. PICK m \in Sent(c) : m[1] \notin heard[c]
      BY <2>2
    <3>2. /\ m[1] \in {"local", "source"}
          /\ m[1] = "local" => local[c] = "done"
          /\ m[1] = "source" => source[c] = "done"
      BY <1>0, SentType
    <3>3. local[c] = "done" /\ source[c] = "done"
      BY <1>0, <2>0, <3>1, <3>2 DEF CallInv
    <3>4. heard'[c] = {"local", "source"} /\ \A d \in Callers \ {c} : heard'[d] = heard[d]
      BY <1>0, <2>2 DEF TypeOK, Both
    <3>5. UNCHANGED <<local, source>>
      BY <1>11 DEF Drain, KeepRest
    <3> QED
      BY <1>0, <2>0, <2>2, <3>3, <3>4, <3>5 DEF CallInv
  <2> QED
    BY <1>11, <2>1, <2>2 DEF Drain
<1>12. CASE UNCHANGED vars
  BY <1>1, <1>12 DEF vars, callVars, localVars, sourceVars
<1> QED
  BY <1>2, <1>3, <1>5, <1>6, <1>7, <1>8, <1>9, <1>10, <1>11, <1>12 DEF Next, CallSteps

-----------------------------------------------------------------------------
(* Errors                                                                  *)

(* What was an error's reason before a step is one after it.               *)
ReasonsStay ==
    /\ \A c \in Callers, e \in Errs : Own(c, e) => Own(c, e)'
    /\ \A c \in Callers, e \in Errs : May(c, e) => May(c, e)'

(* The first part of ErrorInv.                                             *)
CancelledLoads ==
    \A k \in Caches : cache[k].outcome = "cancelled" =>
        /\ cache[k].owner \in Callers
        /\ cache[k].err # NoErr /\ Own(cache[k].owner, cache[k].err)

LEMMA ReasonsKept ==
    ASSUME TypeOK, policy' = policy, \A c \in Callers : cancelled[c] => cancelled'[c],
           policy = "cached" /\ cache[NoCaller].outcome = "cancelled" =>
              cache'[NoCaller].outcome = "cancelled" /\ cache'[NoCaller].err = cache[NoCaller].err
    PROVE  ReasonsStay
BY DEF ReasonsStay, May, Own, Inherited

LEMMA SameLoadsKeep ==
    ASSUME TypeOK, ErrorInv, policy' = policy, SameLoads,
           \A c \in Callers : cancelled[c] => cancelled'[c]
    PROVE  ReasonsStay /\ CancelledLoads'
<1>1. ReasonsStay
  BY ReasonsKept, ErrorTypes DEF SameLoads
<1>2. CancelledLoads'
  BY DEF CancelledLoads, ErrorInv, SameLoads, Own
<1> QED
  BY <1>1, <1>2

(* It is enough to look at the errors of the one call that takes a step.   *)
LEMMA ErrorsKept ==
    ASSUME TypeOK, ErrorInv, ReasonsStay, CancelledLoads', NEW c \in Callers,
           \A d \in Callers \ {c} : /\ result'[d] = result[d] /\ first'[d] = first[d]
                                    /\ cause'[d] = cause[d] /\ localErr'[d] = localErr[d]
                                    /\ sourceRes'[d] = sourceRes[d] /\ source'[d] = source[d],
           source'[c] # "done" => Own(c, cause[c])' /\ Own(c, localErr[c])',
           May(c, cause[c])', May(c, localErr[c])',
           May(c, sourceRes[c].err)', May(c, first[c])', May(c, result[c])'
    PROVE  ErrorInv'
<1>4. \A d \in Callers : /\ cause[d] \in Errs /\ localErr[d] \in Errs /\ first[d] \in Errs
                         /\ result[d] \in Errs /\ sourceRes[d].err \in Errs
  BY ResultTypes DEF TypeOK
<1>5. \A d \in Callers \ {c} : source'[d] # "done" => Own(d, cause[d])' /\ Own(d, localErr[d])'
  BY <1>4 DEF ReasonsStay, ErrorInv, Own
<1>6. \A d \in Callers \ {c} : May(d, cause[d])' /\ May(d, localErr[d])'
  BY <1>4 DEF ReasonsStay, ErrorInv, Own, May, Inherited
<1>7. \A d \in Callers \ {c} : May(d, sourceRes[d].err)' /\ May(d, first[d])' /\ May(d, result[d])'
  BY <1>4 DEF ReasonsStay, ErrorInv, Own, May, Inherited
<1> QED
  BY <1>5, <1>6, <1>7 DEF ErrorInv, CancelledLoads

(* The errors that call c has and keeps.                                   *)
LEMMA OwnErrorsKept ==
    ASSUME TypeOK, ErrorInv, ReasonsStay, NEW c \in Callers
    PROVE  /\ UNCHANGED cause /\ (source[c] # "done") => Own(c, cause[c])'
           /\ UNCHANGED localErr /\ (source[c] # "done") => Own(c, localErr[c])'
           /\ UNCHANGED cause => May(c, cause[c])'
           /\ UNCHANGED localErr => May(c, localErr[c])'
           /\ UNCHANGED sourceRes => May(c, sourceRes[c].err)'
           /\ UNCHANGED first => May(c, first[c])'
           /\ UNCHANGED result => May(c, result[c])'
<1>4. /\ cause[c] \in Errs /\ localErr[c] \in Errs /\ first[c] \in Errs
      /\ result[c] \in Errs /\ sourceRes[c].err \in Errs
  BY ResultTypes DEF TypeOK
<1>5. source[c] # "done" => Own(c, cause[c]) /\ Own(c, localErr[c])
  BY DEF ErrorInv
<1>6. /\ May(c, cause[c]) /\ May(c, localErr[c]) /\ May(c, sourceRes[c].err)
      /\ May(c, first[c]) /\ May(c, result[c])
  BY DEF ErrorInv
<1>7. /\ UNCHANGED cause /\ (source[c] # "done") => Own(c, cause[c])'
      /\ UNCHANGED localErr /\ (source[c] # "done") => Own(c, localErr[c])'
  BY <1>4, <1>5 DEF ReasonsStay, Own
<1>8. /\ UNCHANGED cause => May(c, cause[c])'
      /\ UNCHANGED localErr => May(c, localErr[c])'
  BY <1>4, <1>6 DEF ReasonsStay, Own, May, Inherited
<1>9. /\ UNCHANGED sourceRes => May(c, sourceRes[c].err)'
      /\ UNCHANGED first => May(c, first[c])'
      /\ UNCHANGED result => May(c, result[c])'
  BY <1>4, <1>6 DEF ReasonsStay, Own, May, Inherited
<1> QED
  BY <1>7, <1>8, <1>9

(* What call c returns comes with a reason.                                *)
LEMMA ReturnsError ==
    ASSUME TypeOK, ErrorInv, ReasonsStay, CancelledLoads', UNCHANGED source,
           NEW c \in Callers, NEW e \in Errs, May(c, e), Returns(c, e)
    PROVE  ErrorInv'
<1>1. /\ result'[c] = e /\ first'[c] = NoErr /\ cause'[c] = NoErr /\ localErr'[c] = NoErr
      /\ sourceRes'[c].err = NoErr
      /\ \A d \in Callers \ {c} : /\ result'[d] = result[d] /\ first'[d] = first[d]
                                  /\ cause'[d] = cause[d] /\ localErr'[d] = localErr[d]
                                  /\ sourceRes'[d] = sourceRes[d] /\ source'[d] = source[d]
  BY ResultTypes DEF TypeOK, Returns
<1>2. May(c, e)'
  BY DEF ReasonsStay
<1>3. /\ Own(c, cause[c])' /\ Own(c, localErr[c])' /\ May(c, cause[c])' /\ May(c, localErr[c])'
      /\ May(c, sourceRes[c].err)' /\ May(c, first[c])' /\ May(c, result[c])'
  BY <1>1, <1>2 DEF Own, May, Inherited
<1> QED
  BY <1>1, <1>3, ErrorsKept

(* What a call's goroutine returns comes with a reason.                    *)
LEMMA SourceError ==
    ASSUME TypeOK, ErrorInv, ReasonsStay, CancelledLoads', NEW c \in Callers,
           UNCHANGED <<cause, localErr, first, result>>,
           NEW e \in Errs, NEW o \in Outcomes, SourceDone(c, e, o), May(c, e)
    PROVE  ErrorInv'
<1>1. /\ source'[c] = "done" /\ sourceRes'[c].err = e
      /\ \A d \in Callers \ {c} : sourceRes'[d] = sourceRes[d] /\ source'[d] = source[d]
  BY SourceDoneType DEF TypeOK
<1>2. May(c, sourceRes[c].err)'
  BY <1>1 DEF ReasonsStay, May, Own, Inherited
<1>3. /\ May(c, cause[c])' /\ May(c, localErr[c])' /\ May(c, first[c])' /\ May(c, result[c])'
  BY OwnErrorsKept
<1> QED
  BY <1>1, <1>2, <1>3, ErrorsKept

(* The goroutine goes on without an error.                                 *)
LEMMA SourceGoesOn ==
    ASSUME TypeOK, ErrorInv, ReasonsStay, CancelledLoads', NEW c \in Callers,
           UNCHANGED <<cause, localErr, first, result, sourceRes>>, source[c] # "done",
           \A d \in Callers \ {c} : source'[d] = source[d]
    PROVE  ErrorInv'
BY OwnErrorsKept, ErrorsKept

LEMMA ErrorStep ==
    ASSUME ZoxideInv, [Next]_vars
    PROVE  ErrorInv'
<1>0. TypeOK /\ LoadInv /\ PermitInv /\ CallInv /\ ErrorInv
  BY DEF ZoxideInv
<1>c. policy \in {"cached", "fresh"} /\ NoCaller \notin Callers /\ NoCaller \in Caches
      /\ \A c \in Callers : CacheOf(c) \in Caches /\ c \in Caches
  BY <1>0, PolicyIs, InitialErrorType, ErrorTypes, NoCallerAssumption
<1>t. \A c \in Callers : /\ cause[c] \in Errs /\ localErr[c] \in Errs /\ first[c] \in Errs
                         /\ sourceRes[c].err \in Errs /\ "none" \in Outcomes
  BY <1>0, ResultTypes DEF TypeOK, Outcomes
<1>1. ASSUME ReasonsStay, CancelledLoads',
             UNCHANGED <<cause, localErr, first, result, sourceRes, source>>
      PROVE  ErrorInv'
  <2>1. ASSUME NEW c \in Callers PROVE ErrorInv'
    BY <1>0, <1>1, OwnErrorsKept, ErrorsKept
  <2>2. CASE Callers = {}
    BY <1>1, <2>2 DEF ErrorInv, CancelledLoads
  <2> QED
    BY <2>1, <2>2
<1>2. ASSUME NEW k \in Caches, RunStep(k) \/ ExceedLimit(k) \/ TimeoutFires(k)
      PROVE  ErrorInv'
  <2>1. OnlyCache /\ Advances(k)
    BY <1>0, <1>2, RunEffect
  <2>2. cache[k].outcome # "cancelled" /\ cache[k].owner \in Callers
        /\ source[cache[k].owner] = "joining"
    BY <1>0, <2>1 DEF LoadInv, Advances
  <2>3. ReasonsStay
    BY <1>0, <1>c, <2>1, <2>2, ReasonsKept DEF OnlyCache, Advances
  <2>4. Own(cache[k].owner, cause[cache[k].owner])
    BY <1>0, <2>2 DEF ErrorInv
  <2>5. CancelledLoads'
    <3>1. SUFFICES ASSUME NEW j \in Caches, cache'[j].outcome = "cancelled"
                   PROVE  /\ cache'[j].owner \in Callers
                          /\ cache'[j].err # NoErr /\ Own(cache[j].owner, cache[j].err)'
      BY DEF CancelledLoads
    <3>2. CASE j # k
      BY <1>0, <2>1, <3>1, <3>2 DEF ErrorInv, Own, OnlyCache, Advances
    <3>3. CASE j = k
      BY <2>1, <2>2, <2>4, <3>1, <3>3 DEF Own, OnlyCache, Advances
    <3> QED
      BY <3>2, <3>3
  <2> QED
    BY <1>1, <2>1, <2>3, <2>5 DEF OnlyCache
<1>3. ASSUME NEW c \in Callers, SourceSteps(c)
      PROVE  ErrorInv'
  <2>0. /\ UNCHANGED <<policy, cancelled, cause, localErr, first, result>>
        /\ source[c] # "done" /\ \A d \in Callers \ {c} : source'[d] = source[d]
    BY <1>0, <1>3, SourceMoves
  <2>1. ASSUME UNCHANGED cache
        PROVE  ReasonsStay /\ CancelledLoads'
    BY <1>0, <2>0, <2>1, SameLoadsKeep DEF SameLoads, TypeOK
  <2>2. May(c, cause[c]) /\ May(c, NoErr) /\ May(c, <<c, "factory">>)
    BY <1>0 DEF ErrorInv, May, Own, Reasons, NoErr
  <2>3. ASSUME ReasonsStay, CancelledLoads', NEW e \in Errs, Failed(c, e), May(c, e)
        PROVE  ErrorInv'
    BY <1>0, <1>t, <2>0, <2>3, SourceError DEF Failed
  <2>4. ASSUME ReasonsStay, CancelledLoads', KeepSource
        PROVE  ErrorInv'
    BY <1>0, <2>0, <2>4, SourceGoesOn DEF KeepSource
  <2>5. CASE LoadInitialZoxide(c)
    BY <1>t, <2>1, <2>2, <2>3, <2>4, <2>5 DEF LoadInitialZoxide
  <2>6. CASE acquireFreshPermit(c)
    BY <1>t, <2>1, <2>2, <2>3, <2>4, <2>6 DEF acquireFreshPermit
  <2>7. CASE NewCache(c)
    BY <1>t, <2>1, <2>2, <2>3, <2>4, <2>7, ErrorTypes DEF NewCache
  <2>8. CASE LoadReturns(c)
    BY <1>t, <2>1, <2>2, <2>3, <2>4, <2>8 DEF LoadReturns
  <2>9. CASE Load(c)
    <3>1. CASE cache[CacheOf(c)].load # "none"
      BY <2>1, <2>4, <2>9, <3>1 DEF Load
    <3>2. CASE cache[CacheOf(c)].load = "none"
      <4> DEFINE k == CacheOf(c)
      <4>1. /\ cache'[k].outcome = cache[k].outcome /\ cache'[k].err = cache[k].err
            /\ \A j \in Caches \ {k} : cache'[j] = cache[j]
        BY <1>0, <2>9, <3>2, LoadType
      <4>2. k \in Caches /\ cache[k].outcome # "cancelled"
        BY <1>0, <1>c, <3>2 DEF LoadInv
      <4> HIDE DEF k
      <4>3. ReasonsStay
        BY <1>0, <1>c, <2>0, <4>1, <4>2, ReasonsKept
      <4>4. CancelledLoads'
        BY <1>0, <2>0, <4>1, <4>2 DEF CancelledLoads, ErrorInv, Own
      <4> QED
        BY <2>4, <2>9, <4>3, <4>4 DEF Load
    <3> QED
      BY <3>1, <3>2
  <2>10. CASE loadInitialZoxide(c)
    <3>1. PICK o \in Outcomes : SourceDone(c, initialError(c), o)
      BY <1>0, <1>t, <2>10, InitialErrorType DEF loadInitialZoxide
    <3>2. source[c] = "reading" /\ (policy = "fresh" => cache[c].owner = c)
      BY <1>0, <2>10 DEF loadInitialZoxide, LoadInv
    <3>3. May(c, initialError(c))
      <4>1. CASE cache[CacheOf(c)].outcome # "cancelled"
        BY <2>2, <4>1 DEF initialError
      <4>2. CASE cache[CacheOf(c)].outcome = "cancelled" /\ policy = "cached"
        BY <4>2 DEF initialError, CacheOf, May, Inherited
      <4>3. CASE cache[CacheOf(c)].outcome = "cancelled" /\ policy = "fresh"
        BY <1>0, <1>c, <3>2, <4>3 DEF initialError, CacheOf, May, ErrorInv
      <4> QED
        BY <1>c, <4>1, <4>2, <4>3
    <3>4. ReasonsStay /\ CancelledLoads'
      <4>1. CASE policy = "cached"
        BY <2>1, <2>10, <4>1 DEF loadInitialZoxide
      <4>2. CASE policy = "fresh"
        <5>1. cache'[c] = NoLoad /\ \A j \in Caches \ {c} : cache'[j] = cache[j]
          BY <1>0, <1>c, <2>10, <4>2 DEF loadInitialZoxide, TypeOK
        <5>2. ReasonsStay
          BY <1>0, <2>0, <4>2, ReasonsKept
        <5>3. CancelledLoads'
          BY <1>0, <2>0, <5>1, NoLoadType DEF CancelledLoads, ErrorInv, Own
        <5> QED
          BY <5>2, <5>3
      <4> QED
        BY <1>c, <4>1, <4>2
    <3> QED
      BY <1>0, <2>0, <3>1, <3>3, <3>4, InitialErrorType, SourceError
  <2> QED
    BY <1>3, <2>5, <2>6, <2>7, <2>8, <2>9, <2>10 DEF SourceSteps
<1>4. ASSUME NEW c \in Callers, CallerEnds(c) \/ Call(c) \/ CallSteps(c) \/ BuildLocal(c)
      PROVE  ReasonsStay /\ CancelledLoads'
  <2>1. policy' = policy /\ SameLoads
    BY <1>0, <1>4, CallEffect
  <2>2. \A d \in Callers : cancelled[d] => cancelled'[d]
    BY <1>0, <1>4 DEF CallerEnds, Call, CallSteps, BuildLocal, ReturnLoad, Collect, ReturnBuild,
                      Drain, KeepRest, TypeOK
  <2> QED
    BY <1>0, <2>1, <2>2, SameLoadsKeep
<1>5. ASSUME NEW c \in Callers, CallerEnds(c)
      PROVE  ErrorInv'
  <2>1. /\ UNCHANGED <<first, result, localErr, sourceRes, source>>
        /\ cancelled'[c] /\ cause'[c] \in {cause[c], <<c, "caller">>}
        /\ \A d \in Callers \ {c} : cause'[d] = cause[d]
    BY <1>0, <1>5 DEF CallerEnds, Cancel, TypeOK, callVars, localVars, sourceVars
  <2>2. ReasonsStay /\ CancelledLoads'
    BY <1>4, <1>5
  <2>3. Own(c, <<c, "caller">>)'
    BY <2>1 DEF Own, Reasons
  <2>4. source[c] # "done" => Own(c, cause[c])'
    BY <1>0, <1>t, <2>1, <2>2, <2>3 DEF ReasonsStay, ErrorInv, Own
  <2>5. May(c, cause[c])'
    BY <1>0, <1>t, <2>1, <2>2, <2>3 DEF ReasonsStay, ErrorInv, Own, May, Inherited
  <2>6. /\ source[c] # "done" => Own(c, localErr[c])'
        /\ May(c, localErr[c])' /\ May(c, sourceRes[c].err)' /\ May(c, first[c])' /\ May(c, result[c])'
    BY <1>0, <2>1, <2>2, OwnErrorsKept
  <2> QED
    BY <1>0, <2>1, <2>2, <2>4, <2>5, <2>6, ErrorsKept
<1>6. ASSUME NEW c \in Callers, Call(c)
      PROVE  ErrorInv'
  <2>1. ReasonsStay /\ CancelledLoads'
    BY <1>4, <1>6
  <2>2. CASE cancelled[c]
    <3>1. Returns(c, cause[c]) /\ UNCHANGED source
      BY <1>6, <2>2 DEF Call
    <3>2. May(c, cause[c])
      BY <1>0 DEF ErrorInv
    <3> QED
      BY <1>0, <1>t, <2>1, <3>1, <3>2, ReturnsError
  <2>3. CASE ~cancelled[c]
    <3>1. /\ UNCHANGED <<cause, localErr, first, result, sourceRes>>
          /\ \A d \in Callers \ {c} : source'[d] = source[d]
          /\ source[c] = "idle"
      BY <1>0, <1>6, <2>3 DEF Call, KeepSent, TypeOK, CallInv
    <3> QED
      BY <1>0, <2>1, <3>1, SourceGoesOn
  <2> QED
    BY <2>2, <2>3
<1>7. ASSUME NEW c \in Callers, BuildLocal(c)
      PROVE  ErrorInv'
  <2>1. /\ UNCHANGED <<cause, first, result, sourceRes, source>>
        /\ localErr'[c] \in {cause[c], NoErr, <<c, "local">>}
        /\ \A d \in Callers \ {c} : localErr'[d] = localErr[d]
    BY <1>0, <1>7 DEF BuildLocal, TypeOK, callVars, sourceVars
  <2>2. ReasonsStay /\ CancelledLoads'
    BY <1>4, <1>7
  <2>3. Own(c, <<c, "local">>)' /\ Own(c, NoErr)'
    BY DEF Own, Reasons
  <2>4. source[c] # "done" => Own(c, localErr[c])'
    BY <1>0, <1>t, <2>1, <2>2, <2>3 DEF ReasonsStay, ErrorInv, Own
  <2>5. May(c, localErr[c])'
    BY <1>0, <1>t, <2>1, <2>2, <2>3 DEF ReasonsStay, ErrorInv, Own, May, Inherited
  <2>6. /\ source[c] # "done" => Own(c, cause[c])'
        /\ May(c, cause[c])' /\ May(c, sourceRes[c].err)' /\ May(c, first[c])' /\ May(c, result[c])'
    BY <1>0, <2>1, <2>2, OwnErrorsKept
  <2> QED
    BY <1>0, <2>1, <2>2, <2>4, <2>5, <2>6, ErrorsKept
<1>8. ASSUME NEW c \in Callers, ReturnLoad(c) \/ ReturnBuild(c)
      PROVE  ErrorInv'
  <2>1. ReasonsStay /\ CancelledLoads'
    BY <1>4, <1>8 DEF CallSteps
  <2>2. May(c, sourceRes[c].err) /\ May(c, NoErr) /\ (cancelled[c] => May(c, <<c, "caller">>))
    BY <1>0 DEF ErrorInv, May, Own, Reasons
  <2>3. \E e \in Errs : Returns(c, e) /\ May(c, e)
    BY <1>8, <1>t, <2>2, ErrorTypes DEF ReturnLoad, ReturnBuild
  <2>4. UNCHANGED source
    BY <1>8 DEF ReturnLoad, ReturnBuild, KeepRest
  <2> QED
    BY <1>0, <2>1, <2>3, <2>4, ReturnsError
<1>9. ASSUME NEW c \in Callers, Collect(c)
      PROVE  ErrorInv'
  <2>1. PICK m \in Sent(c) :
          IF m[2] = NoErr THEN UNCHANGED <<main, first, cache, cause>>
          ELSE first' = [first EXCEPT ![c] = m[2]] /\ Cancel(c, m[2])
    BY <1>9 DEF Collect
  <2>2. /\ m[1] \in {"local", "source"} /\ m[2] \in Errs
        /\ m[1] = "local" => local[c] = "done" /\ m[2] = localErr[c]
        /\ m[1] = "source" => source[c] = "done" /\ m[2] = sourceRes[c].err
    BY <1>0, SentType
  <2>3. /\ UNCHANGED <<localErr, result, sourceRes, source>>
        /\ first'[c] \in {first[c], m[2]} /\ cause'[c] \in {cause[c], m[2]}
        /\ \A d \in Callers \ {c} : first'[d] = first[d] /\ cause'[d] = cause[d]
    BY <1>0, <1>9, <2>1 DEF Collect, KeepSent, KeepRest, Cancel, TypeOK
  <2>4. ReasonsStay /\ CancelledLoads'
    BY <1>4, <1>9 DEF CallSteps
  <2>5. May(c, m[2]) /\ (source[c] # "done" => Own(c, m[2]))
    BY <1>0, <2>2 DEF ErrorInv
  <2>6. source[c] # "done" => Own(c, cause[c])'
    BY <1>0, <1>t, <2>2, <2>3, <2>4, <2>5 DEF ReasonsStay, ErrorInv, Own
  <2>7. May(c, cause[c])' /\ May(c, first[c])'
    BY <1>0, <1>t, <2>2, <2>3, <2>4, <2>5 DEF ReasonsStay, ErrorInv, Own, May, Inherited
  <2>8. /\ source[c] # "done" => Own(c, localErr[c])'
        /\ May(c, localErr[c])' /\ May(c, sourceRes[c].err)' /\ May(c, result[c])'
    BY <1>0, <2>3, <2>4, OwnErrorsKept
  <2> QED
    BY <1>0, <2>3, <2>4, <2>6, <2>7, <2>8, ErrorsKept
<1>10. ASSUME NEW c \in Callers, Drain(c)
       PROVE  ErrorInv'
  <2>1. ReasonsStay /\ CancelledLoads' /\ UNCHANGED source
    BY <1>4, <1>10 DEF CallSteps, Drain, KeepRest
  <2>2. May(c, first[c]) /\ (cancelled[c] => May(c, <<c, "caller">>))
    BY <1>0 DEF ErrorInv, May, Own, Reasons
  <2>3. CASE UNCHANGED <<main, kind, first, result, cause>> /\ KeepSent
    BY <1>1, <2>1, <2>3 DEF KeepSent
  <2>4. CASE Returns(c, IF cancelled[c] THEN <<c, "caller">> ELSE first[c])
    <3>1. \E e \in Errs : Returns(c, e) /\ May(c, e)
      BY <1>t, <2>2, <2>4, ErrorTypes
    <3> QED
      BY <1>0, <2>1, <3>1, ReturnsError
  <2> QED
    BY <1>10, <2>3, <2>4 DEF Drain
<1>11. CASE UNCHANGED vars
  <2>1. ReasonsStay /\ CancelledLoads'
    BY <1>0, <1>11, SameLoadsKeep DEF vars, configVars, SameLoads, TypeOK
  <2> QED
    BY <1>1, <1>11, <2>1 DEF vars, callVars, localVars, sourceVars
<1> QED
  BY <1>2, <1>3, <1>5, <1>6, <1>7, <1>8, <1>9, <1>10, <1>11 DEF Next, CallSteps

-----------------------------------------------------------------------------
(* Theorems                                                                *)

LEMMA InitEstablishes == Init => ZoxideInv
<1> SUFFICES ASSUME Init PROVE ZoxideInv
  OBVIOUS
<1>1. TypeOK
  BY ErrorTypes, ResultTypes, NoLoadType DEF Init, TypeOK, Sources
<1>2. \A k \in Caches : cache[k].load = "none" /\ cache[k].outcome = "none"
  BY NoLoadType DEF Init
<1>3. /\ \A c \in Callers : /\ source[c] = "idle" /\ local[c] = "idle" /\ main[c] = "idle"
                            /\ kind[c] = "none" /\ heard[c] = {} /\ cause[c] = NoErr
                            /\ localErr[c] = NoErr /\ first[c] = NoErr /\ result[c] = NoErr
                            /\ sourceRes[c].err = NoErr
      /\ \A c \in Callers : c \in Caches
  BY ResultTypes, ErrorTypes DEF Init
<1>4. LoadInv
  BY <1>2, <1>3 DEF LoadInv
<1>5. PermitInv
  BY <1>2, <1>3 DEF PermitInv, Holds
<1>6. CallInv
  BY <1>3 DEF CallInv
<1>7. ErrorInv
  BY <1>2, <1>3 DEF ErrorInv, May, Own
<1> QED
  BY <1>1, <1>4, <1>5, <1>6, <1>7 DEF ZoxideInv

(* ZoxideInv holds in every state: whose load a cache holds, who has the   *)
(* permit, how far a call's goroutines are and where errors come from.     *)
THEOREM ZoxideInvariance == Spec => []ZoxideInv
<1>1. ZoxideInv /\ [Next]_vars => ZoxideInv'
  BY TypeStep, LoadStep, PermitStep, CallStep, ErrorStep DEF ZoxideInv
<1> QED
  BY InitEstablishes, <1>1, PTL DEF Spec

(* The caches, the permit and the calls have their types.                  *)
THEOREM ZoxideTypeCorrect == Spec => []TypeOK
BY ZoxideInvariance, PTL DEF ZoxideInv

(* However many calls overlap, a session's Builder has at most one zoxide  *)
(* process: with the shared cache there is one load (ZoxideCache.Load      *)
(* starts it once), with fresh caches the permit is kept until the load is *)
(* read.                                                                   *)
THEOREM OneProcessPerBuilder == Spec => []OneLiveProcess
<1>1. ZoxideInv => OneLiveProcess
  <2> SUFFICES ASSUME ZoxideInv, NEW j \in Caches, NEW k \in Caches, Running(j), Running(k)
               PROVE  j = k
    BY DEF OneLiveProcess
  <2>1. policy \in {"cached", "fresh"}
    BY PolicyIs DEF ZoxideInv
  <2>2. cache[j].load # "none" /\ cache[k].load # "none"
    BY DEF Running
  <2>3. CASE policy = "cached"
    BY <2>2, <2>3 DEF ZoxideInv, PermitInv
  <2>4. CASE policy = "fresh"
    <3>1. j \in Callers /\ k \in Callers
      BY <2>2, <2>4 DEF ZoxideInv, PermitInv, Caches
    <3>2. Holds(j) /\ Holds(k)
      BY <2>2, <2>4, <3>1 DEF ZoxideInv, PermitInv, Holds
    <3> QED
      BY <2>4, <3>1, <3>2 DEF ZoxideInv, PermitInv
  <2> QED
    BY <2>1, <2>3, <2>4
<1> QED
  BY ZoxideInvariance, <1>1, PTL

(* A call returns after its goroutines, and a process is somebody's: none  *)
(* outlives the call that started it.                                      *)
THEOREM CallsLeaveNothing == Spec => []NothingLeftBehind
<1>1. ZoxideInv => NothingLeftBehind
  <2> SUFFICES ASSUME ZoxideInv, NEW c \in Callers, main[c] = "returned"
               PROVE  /\ local[c] \in {"idle", "done"} /\ source[c] \in {"idle", "done"}
                      /\ \A k \in Caches : cache[k].owner = c => cache[k].load \in {"none", "ready"}
    BY DEF NothingLeftBehind
  <2>1. local[c] \in {"idle", "done"} /\ source[c] \in {"idle", "done"}
    BY DEF ZoxideInv, CallInv
  <2> QED
    BY <2>1 DEF ZoxideInv, LoadInv
<1> QED
  BY ZoxideInvariance, <1>1, PTL

(* Zoxide's own failures never fail a call: the error of a call is the end *)
(* of its context, its directory or its factory, or that of the owner of   *)
(* the shared load, which was cancelled with it.                           *)
THEOREM FailuresAreExplained == Spec => []FailuresHaveAReason
<1>1. ZoxideInv => FailuresHaveAReason
  <2> SUFFICES ASSUME ZoxideInv, NEW c \in Callers, main[c] = "returned", result[c] # NoErr
               PROVE  /\ result[c][2] \in {"caller", "local", "factory"}
                      /\ result[c][2] = "caller" => cancelled[result[c][1]]
                      /\ result[c][1] # c => policy = "cached"
                            /\ cache[NoCaller].outcome = "cancelled"
                            /\ cache[NoCaller].owner = result[c][1]
    BY DEF FailuresHaveAReason
  <2>1. May(c, result[c]) /\ NoCaller \in Caches
    BY ErrorTypes DEF ZoxideInv, ErrorInv
  <2>2. CASE Own(c, result[c])
    BY <2>2 DEF Own, Reasons
  <2>3. CASE Inherited(result[c])
    <3>1. Own(cache[NoCaller].owner, cache[NoCaller].err)
      BY <2>1, <2>3 DEF ZoxideInv, ErrorInv, Inherited
    <3> QED
      BY <2>3, <3>1 DEF Own, Reasons, Inherited
  <2> QED
    BY <2>1, <2>2, <2>3 DEF May
<1> QED
  BY ZoxideInvariance, <1>1, PTL

-----------------------------------------------------------------------------
(* ZoxideRecords.  First, positions in a sequence: the k-th of them, and   *)
(* how many there are up to one.                                           *)

(* A set of natural numbers has a least element, and Min is it.            *)
LEMMA LeastPosition ==
  ASSUME NEW S \in SUBSET Nat, S # {}
  PROVE  Min(S) \in S /\ \A y \in S : Min(S) <= y
PROOF
  <1>1. IsWellFoundedOn(OpToRel(<, Nat), Nat)
    BY NatLessThanWellFounded
  <1>2. PICK m \in S : \A y \in S : ~ (<<y, m>> \in OpToRel(<, Nat))
    BY <1>1, WFMin
  <1>3. ASSUME NEW y \in S PROVE m <= y
    <2>1. ~ (<<y, m>> \in OpToRel(<, Nat))
      BY <1>2
    <2>2. y \in Nat /\ m \in Nat
      OBVIOUS
    <2>3. ~(y < m)
      BY <2>1, <2>2 DEF OpToRel
    <2> QED BY <2>2, <2>3
  <1> QED BY <1>3 DEF Min

(* The positions of S up to i, and their number                            *)
Upto(S, i) == {j \in S : j <= i}
(* The place of i among the positions S                                    *)
Rank(S, i) == Cardinality(Upto(S, i))

(* What numbers the positions of a finite set.                             *)
LEMMA RankFacts ==
  ASSUME NEW S \in SUBSET Nat, IsFiniteSet(S)
  PROVE  /\ Cardinality(S) \in Nat
         /\ \A i \in Nat : IsFiniteSet(Upto(S, i)) /\ Rank(S, i) \in 0..Cardinality(S)
         /\ \A i, j \in Nat : i <= j => Rank(S, i) <= Rank(S, j)
         /\ \A i \in Nat, j \in S : i < j => Rank(S, i) < Rank(S, j)
PROOF
  <1>1. Cardinality(S) \in Nat
    BY FS_CardinalityType
  <1>2. ASSUME NEW i \in Nat
        PROVE  IsFiniteSet(Upto(S, i)) /\ Rank(S, i) \in 0..Cardinality(S)
    <2>1. Upto(S, i) \in SUBSET S
      BY DEF Upto
    <2>2. IsFiniteSet(Upto(S, i)) /\ Cardinality(Upto(S, i)) <= Cardinality(S)
      BY <2>1, FS_Subset
    <2>3. Cardinality(Upto(S, i)) \in Nat
      BY <2>2, FS_CardinalityType
    <2> QED BY <1>1, <2>2, <2>3 DEF Rank
  <1>3. ASSUME NEW i \in Nat, NEW j \in Nat, i <= j
        PROVE  /\ Rank(S, i) <= Rank(S, j)
               /\ Rank(S, i) = Rank(S, j) => Upto(S, i) = Upto(S, j)
    <2>1. Upto(S, i) \in SUBSET Upto(S, j)
      <3> SUFFICES ASSUME NEW m \in S, m <= i PROVE m <= j
        BY DEF Upto
      <3>1. m \in Nat
        OBVIOUS
      <3> QED BY <1>3, <3>1
    <2>2. IsFiniteSet(Upto(S, j))
      BY <1>2
    <2> QED BY <2>1, <2>2, FS_Subset DEF Rank
  <1>4. ASSUME NEW i \in Nat, NEW j \in S, i < j
        PROVE  Rank(S, i) < Rank(S, j)
    <2>1. j \in Nat /\ i <= j
      BY <1>4
    <2>2. Upto(S, i) # Upto(S, j)
      BY <1>4, <2>1 DEF Upto
    <2>3. Rank(S, i) \in Nat /\ Rank(S, j) \in Nat
      BY <1>1, <1>2, <2>1
    <2>4. Rank(S, i) <= Rank(S, j) /\ Rank(S, i) # Rank(S, j)
      BY <1>3, <2>1, <2>2
    <2> QED BY <2>3, <2>4
  <1> QED BY <1>1, <1>2, <1>3, <1>4

(* A position is the one that its rank names.                              *)
LEMMA NthOfRank ==
  ASSUME NEW S \in SUBSET Nat, IsFiniteSet(S), NEW i \in S
  PROVE  Nth(S, Rank(S, i)) = i /\ Rank(S, i) \in 1..Cardinality(S)
PROOF
  <1>1. ASSUME NEW j \in S, Rank(S, j) = Rank(S, i) PROVE j = i
    <2>1. i \in Nat /\ j \in Nat
      OBVIOUS
    <2>2. Rank(S, i) \in 0..Cardinality(S) /\ Cardinality(S) \in Nat
      BY RankFacts, <2>1
    <2>3. ~(i < j) /\ ~(j < i)
      BY <1>1, <2>1, <2>2, RankFacts
    <2> QED BY <2>1, <2>3
  <1>2. i \in {j \in S : Cardinality({k \in S : k <= j}) = Rank(S, i)}
    BY DEF Rank, Upto
  <1>3. Nth(S, Rank(S, i)) = i
    <2>1. \E j \in S : Cardinality({k \in S : k <= j}) = Rank(S, i)
      BY <1>2
    <2>2. \A j \in S : Cardinality({k \in S : k <= j}) = Rank(S, j)
      BY DEF Rank, Upto
    <2>3. Nth(S, Rank(S, i)) \in S /\ Rank(S, Nth(S, Rank(S, i))) = Rank(S, i)
      BY <2>1, <2>2 DEF Nth
    <2> QED BY <1>1, <2>3
  <1>4. IsFiniteSet(Upto(S, i)) /\ i \in Upto(S, i)
    BY RankFacts DEF Upto
  <1>5. Rank(S, i) # 0
    BY <1>4, FS_EmptySet DEF Rank
  <1>6. Rank(S, i) \in 0..Cardinality(S) /\ Cardinality(S) \in Nat
    BY RankFacts
  <1> QED BY <1>3, <1>5, <1>6

(* The ranks are all the numbers up to the size of the set.                *)
LEMMA EveryRank ==
  ASSUME NEW S \in SUBSET Nat, IsFiniteSet(S), NEW k \in 1..Cardinality(S)
  PROVE  Nth(S, k) \in S /\ Rank(S, Nth(S, k)) = k
PROOF
  <1> DEFINE f == [i \in S |-> Rank(S, i)]
             T == 1..Cardinality(S)
  <1>1. f \in [S -> T]
    BY NthOfRank
  <1>2. IsInjective(f)
    <2> SUFFICES ASSUME NEW i \in S, NEW j \in S, f[i] = f[j] PROVE i = j
      BY DEF IsInjective
    <2>1. Rank(S, i) = Rank(S, j)
      OBVIOUS
    <2>2. Nth(S, Rank(S, i)) = i /\ Nth(S, Rank(S, j)) = j
      BY NthOfRank
    <2> QED BY <2>1, <2>2
  <1>3. f \in Injection(S, T)
    BY <1>1, <1>2 DEF Injection
  <1>4. Cardinality(S) \in Nat
    BY FS_CardinalityType
  <1>5. IsFiniteSet(T) /\ Cardinality(T) = Cardinality(S)
    <2>1. 1 \in Int /\ Cardinality(S) \in Int
      BY <1>4
    <2>2. IsFiniteSet(T) /\ Cardinality(T) = IF 1 > Cardinality(S) THEN 0 ELSE Cardinality(S) - 1 + 1
      BY <2>1, FS_Interval
    <2> QED BY <1>4, <2>2
  <1>6. f \in Surjection(S, T)
    BY <1>3, <1>5, FS_Injection
  <1>7. PICK i \in S : f[i] = k
    BY <1>6 DEF Surjection
  <1>8. Rank(S, i) = k
    BY <1>7
  <1> QED BY <1>8, NthOfRank

(* One more position has one rank more.                                    *)
LEMMA NextRank ==
  ASSUME NEW S \in SUBSET Nat, IsFiniteSet(S), NEW i \in Nat, NEW j \in Nat, i < j,
         NEW n \in S, i < n, n <= j, \A m \in S : i < m /\ m <= j => m = n
  PROVE  Rank(S, j) = Rank(S, i) + 1 /\ Rank(S, n) = Rank(S, i) + 1
PROOF
  <1>0. ASSUME NEW m \in S
        PROVE  (m <= j <=> m <= i \/ m = n) /\ (m <= n <=> m <= i \/ m = n) /\ ~(n <= i)
    <2>1. m \in Nat /\ n \in Nat
      OBVIOUS
    <2>2. i < m /\ m <= j => m = n
      OBVIOUS
    <2> QED BY <2>1, <2>2
  <1>1. Upto(S, j) = Upto(S, i) \cup {n} /\ n \notin Upto(S, i)
    BY <1>0 DEF Upto
  <1>2. Upto(S, n) = Upto(S, i) \cup {n}
    BY <1>0 DEF Upto
  <1>3. IsFiniteSet(Upto(S, i))
    BY RankFacts
  <1> QED BY <1>1, <1>2, <1>3, FS_AddElement DEF Rank

(* No position, no rank.                                                   *)
LEMMA SameRank ==
  ASSUME NEW S \in SUBSET Nat, NEW i \in Nat, NEW j \in Nat, i <= j,
         \A m \in S : ~(i < m /\ m <= j)
  PROVE  Rank(S, j) = Rank(S, i)
PROOF
  <1>1. ASSUME NEW m \in S PROVE m <= j <=> m <= i
    <2>1. m \in Nat /\ ~(i < m /\ m <= j)
      OBVIOUS
    <2> QED BY <2>1
  <1>2. Upto(S, j) = Upto(S, i)
    BY <1>1 DEF Upto
  <1> QED BY <1>2 DEF Rank

-----------------------------------------------------------------------------
(* Where the part ends that starts at i                                    *)
PartEnd(s, separator, i) ==
    Min({j \in i..Len(s) + 1 : j = Len(s) + 1 \/ s[j] = separator})

(* e is the first position from i on that is a separator or beyond s.      *)
EndsAt(s, separator, i, e) ==
    /\ e \in i..Len(s) + 1
    /\ e = Len(s) + 1 \/ s[e] = separator
    /\ \A j \in i..e - 1 : s[j] # separator

(* There is one such position, and it is the end of the part.              *)
LEMMA PartEnds ==
  ASSUME NEW s \in Seq(Byte), NEW separator, NEW i \in 1..Len(s) + 1
  PROVE  /\ EndsAt(s, separator, i, PartEnd(s, separator, i))
         /\ \A e : EndsAt(s, separator, i, e) => e = PartEnd(s, separator, i)
PROOF
  <1> DEFINE S == {j \in i..Len(s) + 1 : j = Len(s) + 1 \/ s[j] = separator}
             m == PartEnd(s, separator, i)
  <1>1. Len(s) \in Nat /\ i \in Nat
    OBVIOUS
  <1>2. S \in SUBSET Nat /\ Len(s) + 1 \in S
    BY <1>1
  <1>3. m \in S /\ \A y \in S : m <= y
    <2> HIDE DEF S
    <2>1. Min(S) \in S /\ \A y \in S : Min(S) <= y
      BY <1>2, LeastPosition
    <2>2. m = Min(S)
      BY DEF PartEnd, S
    <2> QED BY <2>1, <2>2
  <1>4. m \in Nat /\ m \in i..Len(s) + 1
    BY <1>2, <1>3
  <1> HIDE DEF m
  <1>5. ASSUME NEW j \in i..m - 1 PROVE s[j] # separator
    <2>1. j \in i..Len(s) + 1 /\ ~(m <= j)
      BY <1>1, <1>4
    <2> QED BY <1>3, <2>1
  <1>6. ASSUME NEW e, EndsAt(s, separator, i, e) PROVE e = m
    <2>1. e \in S
      BY <1>6 DEF EndsAt
    <2>2. m <= e /\ e \in Nat
      BY <1>2, <1>3, <2>1
    <2>3. ~(m < e)
      <3> SUFFICES ASSUME m < e PROVE FALSE
        OBVIOUS
      <3>1. m \in i..e - 1
        BY <1>1, <1>4, <2>2
      <3>2. m # Len(s) + 1
        BY <1>1, <1>4, <1>6, <2>2 DEF EndsAt
      <3> QED BY <1>3, <1>6, <3>1, <3>2 DEF EndsAt
    <2> QED BY <1>4, <2>2, <2>3
  <1> QED BY <1>3, <1>4, <1>5, <1>6 DEF EndsAt, m

(* The bytes of a part.                                                    *)
LEMMA PartBytes ==
  ASSUME NEW s \in Seq(Byte), NEW separator, NEW i \in 1..Len(s) + 1, NEW e,
         EndsAt(s, separator, i, e)
  PROVE  /\ Part(s, separator, i) = SubSeq(s, i, e - 1)
         /\ Part(s, separator, i) \in Seq(Byte)
         /\ Len(Part(s, separator, i)) = e - i
         /\ \A k \in 1..e - i : Part(s, separator, i)[k] = s[i + k - 1]
PROOF
  <1>1. e \in Nat /\ i \in Nat /\ i <= e /\ e <= Len(s) + 1
    BY DEF EndsAt
  <1>2. Part(s, separator, i) = SubSeq(s, i, e - 1)
    BY PartEnds DEF Part, PartEnd
  <1>3. \A j \in i..e - 1 : s[j] \in Byte
    BY <1>1
  <1>4. e - 1 \in Int /\ i \in Int
    BY <1>1
  <1>5. /\ SubSeq(s, i, e - 1) \in Seq(Byte)
        /\ Len(SubSeq(s, i, e - 1)) = IF i <= e - 1 THEN (e - 1) - i + 1 ELSE 0
        /\ \A k \in 1..(e - 1) - i + 1 : SubSeq(s, i, e - 1)[k] = s[i + k - 1]
    BY <1>3, <1>4, SubSeqProperties
  <1> QED BY <1>1, <1>2, <1>5

(* The starts of rows.                                                     *)
LEMMA StartsFacts ==
  ASSUME NEW s \in Seq(Byte), NEW separator
  PROVE  /\ Starts(s, separator) \in SUBSET Nat
         /\ Starts(s, separator) \in SUBSET (1..Len(s))
         /\ IsFiniteSet(Starts(s, separator))
         /\ Rank(Starts(s, separator), 0) = 0
         /\ Rank(Starts(s, separator), Len(s)) = Cardinality(Starts(s, separator))
PROOF
  <1>1. Starts(s, separator) \in SUBSET (1..Len(s))
    BY DEF Starts
  <1>2. IsFiniteSet(1..Len(s))
    BY FS_Interval
  <1>3. IsFiniteSet(Starts(s, separator))
    BY <1>1, <1>2, FS_Subset
  <1>4. Upto(Starts(s, separator), 0) = {}
    BY <1>1 DEF Upto
  <1>5. Upto(Starts(s, separator), Len(s)) = Starts(s, separator)
    BY <1>1 DEF Upto
  <1>6. Starts(s, separator) \in SUBSET Nat
    BY <1>1
  <1> QED BY <1>1, <1>3, <1>4, <1>5, <1>6, FS_EmptySet DEF Rank

-----------------------------------------------------------------------------
(* The limit writer has accepted the first n bytes of s with r and b as    *)
(* rows and rowBytes: they are within the limits, and r and b tell how     *)
(* many rows have begun and how long the last one is.                      *)
Scanned(s, n, r, b) ==
    /\ n \in 0..Len(s) /\ n <= MaxBytes
    /\ r \in 0..MaxRows /\ b \in 0..MaxRowBytes /\ b <= n
    /\ b # 0 => r < MaxRows
    /\ n = b \/ s[n - b] = "newline"
    /\ \A i \in n - b + 1..n : s[i] # "newline"
    /\ Rank(RowStarts(s), n) = r + IF b = 0 THEN 0 ELSE 1
    /\ \A i \in 1..n : \A j \in i..n :
          (\A k \in i..j : s[k] # "newline") => j - i < MaxRowBytes

(* The limits as Write asks for them before it accepts byte n + 1 of s     *)
Refused(s, n, r, b) ==
    n >= MaxBytes \/ r >= MaxRows \/ (s[n + 1] # "newline" /\ b >= MaxRowBytes)

(* Nothing is within the limits.                                           *)
LEMMA ScanNothing ==
  ASSUME NEW s \in Seq(Byte)
  PROVE  Scanned(s, 0, 0, 0)
PROOF
  <1>1. Rank(RowStarts(s), 0) = 0
    BY StartsFacts DEF RowStarts
  <1>2. Len(s) \in Nat /\ MaxBytes \in Nat \ {0} /\ MaxRows \in Nat \ {0} /\ MaxRowBytes \in Nat \ {0}
    BY LimitsAssumption
  <1>3. Rank(RowStarts(s), 0) = 0 + IF 0 = 0 THEN 0 ELSE 1
    BY <1>1
  <1>4. 0 \in 0..Len(s) /\ 0 <= MaxBytes /\ 0 \in 0..MaxRows /\ 0 \in 0..MaxRowBytes
    BY <1>2
  <1>5. \A i \in 0 - 0 + 1..0 : s[i] # "newline"
    OBVIOUS
  <1>6. \A i \in 1..0 : \A j \in i..0 :
          (\A k \in i..j : s[k] # "newline") => j - i < MaxRowBytes
    OBVIOUS
  <1> QED BY <1>3, <1>4, <1>5, <1>6 DEF Scanned

(* Whether a row starts with the next byte: when the last one has ended.   *)
LEMMA StartAfter ==
  ASSUME NEW s \in Seq(Byte), NEW n \in Nat, n < Len(s), NEW r, NEW b, Scanned(s, n, r, b)
  PROVE  /\ n + 1 \in RowStarts(s) <=> b = 0
         /\ Rank(RowStarts(s), n + 1) = r + 1
PROOF
  <1>1. b \in Nat /\ b <= n /\ Len(s) \in Nat /\ r \in Nat /\ DOMAIN s = 1..Len(s)
    BY LimitsAssumption DEF Scanned
  <1>2. n + 1 \in RowStarts(s) <=> n = 0 \/ s[n] = "newline"
    BY <1>1 DEF RowStarts, Starts
  <1>3. CASE b = 0
    <2>1. n = 0 \/ s[n] = "newline"
      BY <1>1, <1>3 DEF Scanned
    <2>2. n + 1 \in RowStarts(s)
      BY <1>2, <2>1
    <2>3. \A m \in RowStarts(s) : n < m /\ m <= n + 1 => m = n + 1
      <3>1. \A m \in Nat : n < m /\ m <= n + 1 => m = n + 1
        OBVIOUS
      <3> QED BY <3>1, StartsFacts DEF RowStarts
    <2>4. Rank(RowStarts(s), n + 1) = Rank(RowStarts(s), n) + 1
      <3>1. RowStarts(s) \in SUBSET Nat /\ IsFiniteSet(RowStarts(s))
        BY StartsFacts DEF RowStarts
      <3>2. n + 1 \in Nat /\ n < n + 1 /\ n + 1 <= n + 1
        OBVIOUS
      <3> QED BY <2>2, <2>3, <3>1, <3>2, NextRank
    <2>5. Rank(RowStarts(s), n) = r
      BY <1>1, <1>3 DEF Scanned
    <2> QED BY <1>3, <2>2, <2>4, <2>5
  <1>4. CASE b # 0
    <2>1. n \in n - b + 1..n /\ n # 0
      BY <1>1, <1>4
    <2>2. s[n] # "newline"
      BY <2>1 DEF Scanned
    <2>3. n + 1 \notin RowStarts(s)
      BY <1>2, <2>1, <2>2
    <2>4. \A m \in RowStarts(s) : ~(n < m /\ m <= n + 1)
      <3>1. \A m \in Nat : n < m /\ m <= n + 1 => m = n + 1
        OBVIOUS
      <3> QED BY <2>3, <3>1, StartsFacts DEF RowStarts
    <2>5. Rank(RowStarts(s), n + 1) = Rank(RowStarts(s), n)
      <3>1. RowStarts(s) \in SUBSET Nat
        BY StartsFacts DEF RowStarts
      <3>2. n + 1 \in Nat /\ n <= n + 1
        OBVIOUS
      <3> QED BY <2>4, <3>1, <3>2, SameRank
    <2>6. Rank(RowStarts(s), n) = r + 1
      BY <1>4 DEF Scanned
    <2> QED BY <1>4, <2>3, <2>5, <2>6
  <1> QED BY <1>3, <1>4

(* What Write accepts stays within the limits.                             *)
LEMMA ScanByte ==
  ASSUME NEW s \in Seq(Byte), NEW n \in Nat, n < Len(s), NEW r, NEW b, Scanned(s, n, r, b),
         ~Refused(s, n, r, b)
  PROVE  IF s[n + 1] = "newline" THEN Scanned(s, n + 1, r + 1, 0) ELSE Scanned(s, n + 1, r, b + 1)
PROOF
  <1>1. /\ MaxBytes \in Nat /\ MaxRows \in Nat /\ MaxRowBytes \in Nat /\ Len(s) \in Nat
        /\ r \in Nat /\ b \in Nat /\ b <= n
    BY LimitsAssumption DEF Scanned
  <1>2. n + 1 \in 0..Len(s) /\ n + 1 <= MaxBytes /\ r < MaxRows
        /\ (s[n + 1] # "newline" => b < MaxRowBytes)
    BY <1>1 DEF Refused
  <1>3. Rank(RowStarts(s), n + 1) = r + 1
    BY StartAfter
  <1>4. n = b \/ s[n - b] = "newline"
    BY DEF Scanned
  <1>5. \A i \in n - b + 1..n : s[i] # "newline"
    BY DEF Scanned
  <1>6. ASSUME NEW i \in 1..n, NEW j \in i..n, \A k \in i..j : s[k] # "newline"
        PROVE  j - i < MaxRowBytes
    BY <1>6 DEF Scanned
  <1>7. CASE s[n + 1] = "newline"
    <2>1. ASSUME NEW i \in 1..n + 1, NEW j \in i..n + 1, \A k \in i..j : s[k] # "newline"
          PROVE  j - i < MaxRowBytes
      <3>1. j # n + 1
        BY <1>7, <2>1
      <3>2. i \in 1..n /\ j \in i..n
        BY <3>1
      <3> QED BY <1>6, <2>1, <3>2
    <2>2. r + 1 \in 0..MaxRows /\ 0 \in 0..MaxRowBytes /\ 0 <= n + 1
      BY <1>1, <1>2
    <2>3. n + 1 = 0 \/ s[(n + 1) - 0] = "newline"
      BY <1>7
    <2>4. \A i \in (n + 1) - 0 + 1..n + 1 : s[i] # "newline"
      OBVIOUS
    <2>5. Rank(RowStarts(s), n + 1) = (r + 1) + IF 0 = 0 THEN 0 ELSE 1
      BY <1>1, <1>3
    <2>6. Scanned(s, n + 1, r + 1, 0)
      BY <1>2, <2>1, <2>2, <2>3, <2>4, <2>5 DEF Scanned
    <2> QED BY <1>7, <2>6
  <1>8. CASE s[n + 1] # "newline"
    <2>1. ASSUME NEW i \in 1..n + 1, NEW j \in i..n + 1, \A k \in i..j : s[k] # "newline"
          PROVE  j - i < MaxRowBytes
      <3>1. CASE j # n + 1
        <4>1. i \in 1..n /\ j \in i..n
          BY <3>1
        <4> QED BY <1>6, <2>1, <4>1
      <3>2. CASE j = n + 1
        <4>1. i > n - b
          <5> SUFFICES ASSUME i <= n - b PROVE FALSE
            BY <1>1
          <5>1. n - b \in i..j /\ n # b
            BY <1>1, <3>2
          <5> QED BY <1>4, <2>1, <5>1
        <4> QED BY <1>1, <1>2, <1>8, <3>2, <4>1
      <3> QED BY <3>1, <3>2
    <2>2. r \in 0..MaxRows /\ b + 1 \in 0..MaxRowBytes /\ b + 1 <= n + 1
      BY <1>1, <1>2, <1>8
    <2>3. n + 1 = b + 1 \/ s[(n + 1) - (b + 1)] = "newline"
      <3>1. (n + 1) - (b + 1) = n - b
        BY <1>1
      <3> QED BY <1>4, <3>1
    <2>4. \A i \in (n + 1) - (b + 1) + 1..n + 1 : s[i] # "newline"
      <3> SUFFICES ASSUME NEW i \in (n + 1) - (b + 1) + 1..n + 1 PROVE s[i] # "newline"
        OBVIOUS
      <3>1. i = n + 1 \/ i \in n - b + 1..n
        BY <1>1
      <3> QED BY <1>5, <1>8, <3>1
    <2>5. Rank(RowStarts(s), n + 1) = r + IF b + 1 = 0 THEN 0 ELSE 1
      BY <1>1, <1>3
    <2>6. Scanned(s, n + 1, r, b + 1)
      BY <1>2, <2>1, <2>2, <2>3, <2>4, <2>5 DEF Scanned
    <2> QED BY <1>8, <2>6
  <1> QED BY <1>7, <1>8

(* What Write refuses is beyond the limits.                                *)
LEMMA RefusedIsBeyond ==
  ASSUME NEW s \in Seq(Byte), NEW n \in Nat, n < Len(s), NEW r, NEW b, Scanned(s, n, r, b),
         Refused(s, n, r, b)
  PROVE  ~WithinLimits(s)
PROOF
  <1>1. /\ MaxBytes \in Nat /\ MaxRows \in Nat /\ MaxRowBytes \in Nat \ {0} /\ Len(s) \in Nat
        /\ r \in Nat /\ b \in Nat /\ b <= n
    BY LimitsAssumption DEF Scanned
  <1>2. CASE n >= MaxBytes
    BY <1>1, <1>2 DEF WithinLimits
  <1>3. CASE r >= MaxRows
    <2>1. Rank(RowStarts(s), n + 1) = r + 1
      BY StartAfter
    <2>2. RowStarts(s) \in SUBSET Nat /\ IsFiniteSet(RowStarts(s))
      BY StartsFacts DEF RowStarts
    <2>3. Rank(RowStarts(s), n + 1) \in 0..Cardinality(RowStarts(s)) /\ Cardinality(RowStarts(s)) \in Nat
      <3>1. n + 1 \in Nat
        OBVIOUS
      <3> QED BY <2>2, <3>1, RankFacts, Zenon
    <2> QED BY <1>1, <1>3, <2>1, <2>3 DEF WithinLimits
  <1>4. CASE s[n + 1] # "newline" /\ b >= MaxRowBytes
    <2> DEFINE i == n - b + 1
               e == PartEnd(s, "newline", i)
    <2>1. i \in 1..Len(s) /\ i <= n
      BY <1>1, <1>4
    <2>2. i = 1 \/ s[i - 1] = "newline"
      <3>1. i - 1 = n - b
        BY <1>1
      <3>2. n = b \/ s[n - b] = "newline"
        BY DEF Scanned
      <3> QED BY <1>1, <3>1, <3>2
    <2>3. \A j \in i..n + 1 : s[j] # "newline"
      <3>1. \A j \in i..n : s[j] # "newline"
        BY DEF Scanned
      <3>2. \A j \in i..n + 1 : j \in i..n \/ j = n + 1
        BY <1>1
      <3> QED BY <1>4, <3>1, <3>2
    <2>4. i \in RowStarts(s)
      BY <2>1, <2>2 DEF RowStarts, Starts
    <2>5. i \in 1..Len(s) + 1
      BY <1>1, <2>1
    <2> HIDE DEF i
    <2>6. EndsAt(s, "newline", i, e)
      BY <2>5, PartEnds
    <2> HIDE DEF e
    <2>7. e \in Nat /\ i \in Nat /\ i <= e /\ (e = Len(s) + 1 \/ s[e] = "newline")
      BY <1>1, <2>1, <2>6 DEF EndsAt
    <2>8. e > n + 1
      <3> SUFFICES ASSUME e <= n + 1 PROVE FALSE
        BY <2>7
      <3>1. e \in i..n + 1 /\ e # Len(s) + 1
        BY <1>1, <2>7
      <3> QED BY <2>3, <2>7, <3>1
    <2>9. Len(Row(s, i)) = e - i
      BY <2>5, <2>6, PartBytes DEF Row
    <2>10. e - i > MaxRowBytes
      BY <1>1, <1>4, <2>7, <2>8 DEF i
    <2> QED BY <1>1, <2>4, <2>7, <2>9, <2>10 DEF WithinLimits
  <1> QED BY <1>2, <1>3, <1>4 DEF Refused

(* What was accepted to the end is within the limits.                      *)
LEMMA AcceptedIsWithin ==
  ASSUME NEW s \in Seq(Byte), NEW r, NEW b, Scanned(s, Len(s), r, b)
  PROVE  WithinLimits(s)
PROOF
  <1>1. /\ MaxBytes \in Nat /\ MaxRows \in Nat /\ MaxRowBytes \in Nat /\ Len(s) \in Nat
        /\ r \in 0..MaxRows /\ b \in Nat /\ Len(s) <= MaxBytes /\ (b # 0 => r < MaxRows)
    BY LimitsAssumption DEF Scanned
  <1>2. Rank(RowStarts(s), Len(s)) = r + IF b = 0 THEN 0 ELSE 1
    BY DEF Scanned
  <1>3. Cardinality(RowStarts(s)) <= MaxRows
    <2>1. Cardinality(RowStarts(s)) = Rank(RowStarts(s), Len(s))
      BY StartsFacts DEF RowStarts
    <2> QED BY <1>1, <1>2, <2>1
  <1>4. ASSUME NEW i \in RowStarts(s) PROVE Len(Row(s, i)) <= MaxRowBytes
    <2> DEFINE e == PartEnd(s, "newline", i)
    <2>1. i \in 1..Len(s)
      BY StartsFacts DEF RowStarts
    <2>2. i \in 1..Len(s) + 1
      BY <1>1, <2>1
    <2>3. EndsAt(s, "newline", i, e)
      BY <2>2, PartEnds
    <2> HIDE DEF e
    <2>4. Len(Row(s, i)) = e - i
      BY <2>2, <2>3, PartBytes DEF Row
    <2>5. e \in Nat /\ i \in Nat /\ e <= Len(s) + 1 /\ i <= e
      BY <1>1, <2>1, <2>3 DEF EndsAt
    <2>6. CASE e = i
      BY <1>1, <2>4, <2>5, <2>6
    <2>7. CASE e # i
      <3>1. e - 1 \in i..Len(s)
        BY <1>1, <2>1, <2>5, <2>7
      <3>2. \A k \in i..e - 1 : s[k] # "newline"
        BY <2>3 DEF EndsAt
      <3>3. (e - 1) - i < MaxRowBytes
        BY <2>1, <3>1, <3>2 DEF Scanned
      <3> QED BY <1>1, <2>4, <2>5, <3>3
    <2> QED BY <2>6, <2>7
  <1> QED BY <1>1, <1>3, <1>4 DEF WithinLimits

-----------------------------------------------------------------------------
(* The parser has read the rows that start in the first n bytes of s, has  *)
(* found nothing wrong with them, and l are these rows.                    *)
Reads(s, n, l) ==
    /\ n \in 0..Len(s)
    /\ n < Len(s) => n + 1 \in RowStarts(s)
    /\ l \in Seq(Seq(Byte)) /\ Len(l) = Rank(RowStarts(s), n)
    /\ \A i \in RowStarts(s) : i <= n => Fault(Row(s, i)) = "ok"
    /\ \A k \in 1..Len(l) : l[k] = Row(s, Nth(RowStarts(s), k)) /\ Fault(l[k]) = "ok"

(* Where the next row starts, in a buffer s with a row of length len from  *)
(* n on                                                                    *)
After(s, n, len) == n + len + IF n + len < Len(s) THEN 1 ELSE 0

(* The parser starts with the first row.                                   *)
LEMMA ReadNothing ==
  ASSUME NEW s \in Seq(Byte), s # <<>>
  PROVE  Reads(s, 0, <<>>)
PROOF
  <1>1. RowStarts(s) \in SUBSET (1..Len(s)) /\ Rank(RowStarts(s), 0) = 0
    BY StartsFacts DEF RowStarts
  <1>2. Len(s) \in Nat /\ Len(s) # 0 /\ DOMAIN s = 1..Len(s)
    BY EmptySeq
  <1>3. 0 \in 0..Len(s) /\ 1 \in DOMAIN s
    BY <1>2
  <1>4. 0 + 1 \in RowStarts(s)
    BY <1>3 DEF RowStarts, Starts
  <1>5. \A i \in RowStarts(s) : ~(i <= 0)
    BY <1>1
  <1>6. <<>> \in Seq(Seq(Byte)) /\ Len(<<>>) = 0
    OBVIOUS
  <1> QED BY <1>1, <1>3, <1>4, <1>5, <1>6 DEF Reads

(* A row that is read is the next of the rows.                             *)
LEMMA ReadRow ==
  ASSUME NEW s \in Seq(Byte), NEW n \in Nat, n < Len(s), NEW l, Reads(s, n, l),
         Fault(Row(s, n + 1)) = "ok"
  PROVE  Reads(s, After(s, n, Len(Row(s, n + 1))), Append(l, Row(s, n + 1)))
PROOF
  <1> DEFINE S == RowStarts(s)
             row1 == Row(s, n + 1)
             e == PartEnd(s, "newline", n + 1)
             m == After(s, n, Len(row1))
  <1>1. Len(s) \in Nat /\ n + 1 \in 1..Len(s) + 1 /\ DOMAIN s = 1..Len(s)
    OBVIOUS
  <1>2. S \in SUBSET Nat /\ S \in SUBSET (1..Len(s)) /\ IsFiniteSet(S)
    BY StartsFacts DEF RowStarts
  <1>3. n + 1 \in S
    BY DEF Reads
  <1>4. EndsAt(s, "newline", n + 1, e)
    BY <1>1, PartEnds
  <1>5. row1 \in Seq(Byte) /\ Len(row1) = e - (n + 1)
    BY <1>1, <1>4, PartBytes DEF Row
  <1> HIDE DEF e
  <1>6. e \in Nat /\ n + 1 <= e /\ e <= Len(s) + 1 /\ (e = Len(s) + 1 \/ s[e] = "newline")
        /\ \A j \in n + 1..e - 1 : s[j] # "newline"
    BY <1>1, <1>4 DEF EndsAt
  <1>7. m = IF e = Len(s) + 1 THEN Len(s) ELSE e
    <2>1. n + Len(row1) = e - 1
      BY <1>5, <1>6
    <2>2. m = (e - 1) + IF e - 1 < Len(s) THEN 1 ELSE 0
      BY <2>1 DEF After
    <2> HIDE DEF m, row1
    <2> QED BY <1>1, <1>6, <2>2
  <1>8. m \in 0..Len(s) /\ n < m /\ n + 1 <= m
    BY <1>1, <1>6, <1>7
  <1>9. m < Len(s) => m + 1 \in S
    <2> SUFFICES ASSUME m < Len(s) PROVE m + 1 \in S
      OBVIOUS
    <2>1. m = e /\ m + 1 \in 1..Len(s) /\ (m + 1) - 1 = e /\ e # Len(s) + 1
      BY <1>1, <1>6, <1>7, <1>8
    <2> QED BY <1>1, <1>6, <2>1 DEF RowStarts, Starts
  <1>10. ASSUME NEW i \in S, n < i, i <= m PROVE i = n + 1
    <2> SUFFICES ASSUME i # n + 1 PROVE FALSE
      OBVIOUS
    <2>1. i \in Nat /\ i # 1
      BY <1>2, <1>10
    <2>2. i - 1 \in n + 1..e - 1
      BY <1>1, <1>6, <1>7, <1>10, <2>1
    <2>3. s[i - 1] = "newline"
      BY <2>1 DEF RowStarts, Starts
    <2> QED BY <1>6, <2>2, <2>3
  <1> HIDE DEF m, S
  <1>11. Rank(S, m) = Rank(S, n) + 1 /\ Rank(S, n + 1) = Rank(S, n) + 1
    <2>1. m \in Nat /\ n < n + 1
      BY <1>8
    <2> QED BY <1>2, <1>3, <1>8, <1>10, <2>1, NextRank
  <1>12. l \in Seq(Seq(Byte)) /\ Len(l) = Rank(S, n) /\ Len(l) \in Nat
    BY DEF Reads, S
  <1>13. Nth(S, Len(l) + 1) = n + 1
    BY <1>2, <1>3, <1>11, <1>12, NthOfRank
  <1> DEFINE q == Append(l, row1)
  <1>14. q \in Seq(Seq(Byte)) /\ Len(q) = Len(l) + 1 /\ q[Len(l) + 1] = row1
         /\ \A k \in 1..Len(l) : q[k] = l[k]
    BY <1>5, <1>12
  <1>15. ASSUME NEW i \in S, i <= m PROVE Fault(Row(s, i)) = "ok"
    <2>1. i \in Nat
      BY <1>2
    <2>2. CASE i <= n
      BY <2>2 DEF Reads, S
    <2>3. CASE ~(i <= n)
      <3>1. i = n + 1
        BY <1>10, <1>15, <2>1, <2>3
      <3> QED BY <3>1
    <2> QED BY <2>2, <2>3
  <1>16. ASSUME NEW k \in 1..Len(q) PROVE q[k] = Row(s, Nth(S, k)) /\ Fault(q[k]) = "ok"
    <2>1. CASE k = Len(l) + 1
      BY <1>13, <1>14, <2>1
    <2>2. CASE k # Len(l) + 1
      <3>1. k \in 1..Len(l)
        BY <1>12, <1>14, <2>2
      <3> QED BY <1>14, <3>1 DEF Reads, S
    <2> QED BY <2>1, <2>2
  <1> HIDE DEF q
  <1>17. Reads(s, m, q)
    BY <1>8, <1>9, <1>11, <1>12, <1>14, <1>15, <1>16 DEF Reads, S
  <1> QED BY <1>17 DEF m, q

(* The output without a newline at the end, as parseZoxideRecords cuts it  *)
Cut(s) == IF s # <<>> /\ Last(s) = "newline" THEN Front(s) ELSE s

(* What is left of an output that is refused                               *)
Refusal(o) == [outcome |-> o, records |-> <<>>]

(* Cutting leaves bytes.                                                   *)
LEMMA CutBytes ==
  ASSUME NEW s \in Seq(Byte)
  PROVE  Cut(s) \in Seq(Byte)
  BY DEF Cut, Front

(* Beyond the limits there are no records.                                 *)
LEMMA ParsedBeyond ==
  ASSUME NEW s \in Seq(Byte), ~WithinLimits(s)
  PROVE  Parsed(s) = Refusal("limit")
  BY DEF Parsed, Refusal

(* A single newline is an empty row.                                       *)
LEMMA ParsedNewline ==
  ASSUME NEW s \in Seq(Byte), WithinLimits(s), s # <<>>, Cut(s) = <<>>
  PROVE  Parsed(s) = Refusal("empty row")
  BY DEF Parsed, Refusal, Cut

(* The first bad row decides.                                              *)
LEMMA ParsedFault ==
  ASSUME NEW s \in Seq(Byte), WithinLimits(s), Cut(s) # <<>>, NEW n \in Nat,
         n + 1 \in RowStarts(Cut(s)), Fault(Row(Cut(s), n + 1)) # "ok",
         \A i \in RowStarts(Cut(s)) : i <= n => Fault(Row(Cut(s), i)) = "ok"
  PROVE  Parsed(s) = Refusal(Fault(Row(Cut(s), n + 1)))
PROOF
  <1> DEFINE c == Cut(s)
             bad == {i \in RowStarts(c) : Fault(Row(c, i)) # "ok"}
  <1>1. RowStarts(c) \in SUBSET Nat
    BY CutBytes, StartsFacts DEF RowStarts
  <1>2. bad \in SUBSET Nat /\ n + 1 \in bad
    BY <1>1
  <1>3. Min(bad) \in bad /\ \A y \in bad : Min(bad) <= y
    <2> HIDE DEF bad
    <2> QED BY <1>2, LeastPosition
  <1>4. Min(bad) = n + 1
    <2>1. Min(bad) \in Nat /\ Min(bad) <= n + 1 /\ ~(Min(bad) <= n)
      <3>1. Min(bad) \in Nat /\ Min(bad) <= n + 1
        BY <1>2, <1>3
      <3>2. Min(bad) \in RowStarts(c) /\ Fault(Row(c, Min(bad))) # "ok"
        BY <1>3
      <3> QED BY <3>1, <3>2
    <2> HIDE DEF bad
    <2> QED BY <2>1
  <1>5. Parsed(s) = IF bad # {} THEN Refusal(Fault(Row(c, Min(bad))))
                    ELSE [outcome |-> "ok", records |-> Parts(c, "newline", RowStarts(c))]
    BY DEF Parsed, Refusal, Cut
  <1> HIDE DEF bad, c
  <1>6. bad # {}
    BY <1>2
  <1>7. Parsed(s) = Refusal(Fault(Row(c, n + 1)))
    BY <1>4, <1>5, <1>6
  <1> QED BY <1>7 DEF c

(* When all has been read, the records are the rows.                       *)
LEMMA ParsedRows ==
  ASSUME NEW s \in Seq(Byte), WithinLimits(s), s = <<>> \/ Cut(s) # <<>>, NEW n \in Nat, NEW l,
         Reads(Cut(s), n, l), n >= Len(Cut(s))
  PROVE  Parsed(s) = [outcome |-> "ok", records |-> l]
PROOF
  <1> DEFINE c == Cut(s)
             S == RowStarts(c)
             bad == {i \in S : Fault(Row(c, i)) # "ok"}
  <1>1. c \in Seq(Byte) /\ Len(c) \in Nat
    BY CutBytes
  <1>2. S \in SUBSET Nat /\ S \in SUBSET (1..Len(c)) /\ Rank(S, Len(c)) = Cardinality(S)
    BY <1>1, StartsFacts DEF RowStarts
  <1>3. n = Len(c)
    BY <1>1 DEF Reads
  <1> HIDE DEF c
  <1>4. bad = {}
    <2> SUFFICES ASSUME NEW i \in S PROVE Fault(Row(c, i)) = "ok"
      OBVIOUS
    <2>1. i <= n
      BY <1>1, <1>2, <1>3
    <2> QED BY <2>1 DEF Reads, c
  <1> HIDE DEF S
  <1>5. l \in Seq(Seq(Byte)) /\ Len(l) = Cardinality(S)
        /\ \A k \in 1..Len(l) : l[k] = Part(c, "newline", Nth(S, k))
    BY <1>2, <1>3 DEF Reads, S, c, Row
  <1>6. l = Parts(c, "newline", S)
    <2>1. l = [k \in 1..Len(l) |-> l[k]]
      BY <1>5
    <2> QED BY <1>5, <2>1 DEF Parts
  <1>7. Parsed(s) = IF bad # {} THEN Refusal(Fault(Row(c, Min(bad))))
                    ELSE [outcome |-> "ok", records |-> Parts(c, "newline", S)]
    BY DEF Parsed, Refusal, Cut, c, S
  <1> QED BY <1>4, <1>6, <1>7

(* An empty output has no rows.                                            *)
LEMMA ParsedNothing ==
  WithinLimits(<<>>) => Parsed(<<>>) = [outcome |-> "ok", records |-> <<>>]
PROOF
  <1> SUFFICES ASSUME WithinLimits(<<>>) PROVE Parsed(<<>>) = [outcome |-> "ok", records |-> <<>>]
    OBVIOUS
  <1>1. <<>> \in Seq(Byte) /\ Cut(<<>>) = <<>> /\ Len(<<>>) = 0
    BY DEF Cut
  <1>2. RowStarts(<<>>) \in SUBSET (1..0) /\ Rank(RowStarts(<<>>), 0) = 0
    BY <1>1, StartsFacts DEF RowStarts
  <1>3. RowStarts(<<>>) = {}
    BY <1>2
  <1>4. Reads(<<>>, 0, <<>>)
    BY <1>1, <1>2, <1>3 DEF Reads
  <1>5. Reads(Cut(<<>>), 0, <<>>) /\ 0 >= Len(Cut(<<>>)) /\ 0 \in Nat
    BY <1>1, <1>4
  <1>6. <<>> = <<>> \/ Cut(<<>>) # <<>>
    OBVIOUS
  <1> QED BY <1>1, <1>5, <1>6, ParsedRows

(* The row that the loop finds is the part that starts there.              *)
LEMMA RowIsPart ==
  ASSUME sink \in Seq(Byte), start \in 0..Len(buffer)
  PROVE  row = Row(buffer, start + 1)
PROOF
  <1> DEFINE s == buffer
             n == start
             rest == SubSeq(s, n + 1, Len(s))
             I == {k \in 1..Len(rest) : rest[k] = "newline"}
  <1>1. s \in Seq(Byte) /\ Len(s) \in Nat /\ n \in Nat /\ n <= Len(s)
    BY CutBytes DEF buffer, Cut
  <1>2. row = IF (IF I # {} THEN Min(I) ELSE 0) = 0 THEN rest
              ELSE SubSeq(rest, 1, (IF I # {} THEN Min(I) ELSE 0) - 1)
    BY DEF row, SelectInSeq
  <1> HIDE DEF s, n
  <1>3. \A j \in n + 1..Len(s) : s[j] \in Byte
    BY <1>1
  <1>4. /\ rest \in Seq(Byte)
        /\ Len(rest) = Len(s) - n
        /\ \A k \in 1..Len(s) - n : rest[k] = s[n + k]
    <2>1. n + 1 \in Int /\ Len(s) \in Int
      BY <1>1
    <2>2. /\ rest \in Seq(Byte)
          /\ Len(rest) = IF n + 1 <= Len(s) THEN Len(s) - (n + 1) + 1 ELSE 0
          /\ \A k \in 1..Len(s) - (n + 1) + 1 : rest[k] = s[(n + 1) + k - 1]
      BY <1>3, <2>1, SubSeqProperties
    <2>3. ASSUME NEW k \in 1..Len(s) - n PROVE rest[k] = s[n + k]
      <3>1. k \in 1..Len(s) - (n + 1) + 1 /\ n + 1 + k - 1 = n + k
        BY <1>1
      <3>2. rest[k] = s[(n + 1) + k - 1]
        BY <2>2, <3>1
      <3> HIDE DEF rest
      <3> QED BY <3>1, <3>2
    <2>4. Len(rest) = Len(s) - n
      <3>1. Len(rest) = IF n + 1 <= Len(s) THEN Len(s) - (n + 1) + 1 ELSE 0
        BY <2>2
      <3> HIDE DEF rest
      <3> QED BY <1>1, <3>1
    <2> QED BY <2>2, <2>3, <2>4
  <1>5. I \in SUBSET Nat /\ 0 \notin I
    BY <1>4
  <1> HIDE DEF rest
  <1>6. n + 1 \in 1..Len(s) + 1
    BY <1>1
  <1>7. CASE I = {}
    <2>1. EndsAt(s, "newline", n + 1, Len(s) + 1)
      <3> SUFFICES ASSUME NEW j \in n + 1..Len(s) + 1 - 1 PROVE s[j] # "newline"
        BY <1>1 DEF EndsAt
      <3>1. j - n \in 1..Len(s) - n /\ n + (j - n) = j
        BY <1>1
      <3> QED BY <1>4, <1>7, <3>1
    <2> DEFINE i == n + 1
               e == Len(s) + 1
    <2> HIDE DEF i, e
    <2>2. Part(s, "newline", i) = SubSeq(s, i, e - 1)
      <3>1. i \in 1..Len(s) + 1 /\ EndsAt(s, "newline", i, e)
        BY <1>6, <2>1 DEF i, e
      <3> QED BY <1>1, <3>1, PartBytes
    <2>3. e - 1 = Len(s)
      BY <1>1 DEF e
    <2>4. row = rest
      BY <1>2, <1>7
    <2> QED BY <2>2, <2>3, <2>4 DEF rest, s, n, i, Row
  <1>8. CASE I # {}
    <2> DEFINE m == Min(I)
    <2>1. m \in I /\ \A y \in I : m <= y
      <3> HIDE DEF I
      <3> QED BY <1>5, <1>8, LeastPosition
    <2>2. row = SubSeq(rest, 1, m - 1)
      BY <1>2, <1>5, <1>8, <2>1
    <2>3. m \in 1..Len(s) - n /\ s[n + m] = "newline"
      BY <1>4, <2>1
    <2> HIDE DEF m
    <2>4. m \in Nat /\ 1 <= m /\ m <= Len(s) - n
      BY <1>1, <2>3
    <2>5. EndsAt(s, "newline", n + 1, n + m)
      <3>1. ASSUME NEW j \in n + 1..(n + m) - 1 PROVE s[j] # "newline"
        <4>1. j - n \in 1..Len(s) - n /\ n + (j - n) = j /\ ~(m <= j - n)
          BY <1>1, <2>4
        <4>2. j - n \notin I
          BY <2>1, <4>1
        <4> QED BY <1>4, <4>1, <4>2
      <3>2. n + m \in n + 1..Len(s) + 1
        BY <1>1, <2>4
      <3> DEFINE i == n + 1
                 e == n + m
      <3>3. e \in i..Len(s) + 1 /\ s[e] = "newline" /\ \A j \in i..e - 1 : s[j] # "newline"
        BY <2>3, <3>1, <3>2, Zenon
      <3> HIDE DEF i, e
      <3>4. EndsAt(s, "newline", i, e)
        BY <3>3 DEF EndsAt
      <3> QED BY <3>4 DEF i, e
    <2> DEFINE p == Part(s, "newline", n + 1)
               q == SubSeq(rest, 1, m - 1)
    <2>6. p \in Seq(Byte) /\ Len(p) = (n + m) - (n + 1)
          /\ \A k \in 1..(n + m) - (n + 1) : p[k] = s[(n + 1) + k - 1]
      <3> DEFINE i == n + 1
                 e == n + m
      <3>1. i \in 1..Len(s) + 1 /\ EndsAt(s, "newline", i, e)
        BY <1>6, <2>5
      <3> HIDE DEF i, e
      <3>2. /\ Part(s, "newline", i) \in Seq(Byte)
            /\ Len(Part(s, "newline", i)) = e - i
            /\ \A k \in 1..e - i : Part(s, "newline", i)[k] = s[i + k - 1]
        BY <1>1, <3>1, PartBytes
      <3> QED BY <3>2, Zenon DEF i, e, p
    <2>7. q \in Seq(Byte) /\ Len(q) = m - 1 /\ \A k \in 1..m - 1 : q[k] = rest[k]
      <3>1. 1 \in Int /\ m - 1 \in Int
        BY <2>4
      <3>2. \A j \in 1..m - 1 : rest[j] \in Byte
        BY <1>1, <1>4, <2>4
      <3>3. /\ q \in Seq(Byte)
            /\ Len(q) = IF 1 <= m - 1 THEN m - 1 - 1 + 1 ELSE 0
            /\ \A k \in 1..m - 1 - 1 + 1 : q[k] = rest[1 + k - 1]
        BY <3>1, <3>2, SubSeqProperties
      <3>4. m - 1 - 1 + 1 = m - 1 /\ \A k \in 1..m - 1 : 1 + k - 1 = k
        BY <2>4
      <3> QED BY <2>4, <3>3, <3>4
    <2> HIDE DEF p, q
    <2>8. Len(p) = m - 1 /\ \A k \in 1..m - 1 : p[k] = q[k]
      <3>1. (n + m) - (n + 1) = m - 1
        BY <1>1, <2>4
      <3>2. ASSUME NEW k \in 1..m - 1 PROVE p[k] = q[k]
        <4>1. k \in 1..Len(s) - n /\ n + 1 + k - 1 = n + k
          BY <1>1, <2>4
        <4> QED BY <1>4, <2>6, <2>7, <3>1, <4>1
      <3> QED BY <2>6, <3>1, <3>2
    <2>9. p = q
      BY <2>6, <2>7, <2>8, SeqEqual
    <2> QED BY <2>2, <2>9 DEF p, q, s, n, Row
  <1> QED BY <1>7, <1>8

-----------------------------------------------------------------------------
(* The writer, in either pass: it has scanned the output up to the byte it *)
(* is about to look at, data is the piece of the output that it scans, and *)
(* the second pass is over an output that is within the limits.            *)
AtWork == {"idle", "write", "parse"}

(* Where the writer is in the output                                       *)
ScanInv ==
    /\ Scanned(output, total + index, rows, rowBytes)
    /\ index \in 0..Len(data) /\ total + Len(data) <= Len(output)
    /\ \A i \in 1..Len(data) : data[i] = output[total + i]
    /\ pass = 1 => taken = total + Len(data) /\ sink = SubSeq(output, 1, total)
    /\ pass = 2 => total + Len(data) = Len(output)

(* The writer, from its first byte to the end of the second pass           *)
WriterInv ==
    /\ phase \in AtWork /\ err = "none" => ScanInv
    /\ phase # "write" => data = <<>> /\ index = 0
    /\ phase = "write" => err = "none"
    /\ phase \notin AtWork => rowBytes = 0
    /\ pass = 2 => taken = Len(output) /\ sink = output /\ WithinLimits(output) /\ err = "none"
    /\ err = "limit" => pass = 1 /\ phase = "idle" /\ ~WithinLimits(output)

(* The parser has read the rows before start; what it ends with is what    *)
(* the whole output says.                                                  *)
ParserInv ==
    /\ outcome = "none" <=> phase \in AtWork
    /\ phase \in {"idle", "write"} => start = 0 /\ records = <<>>
    /\ phase = "parse" => pass = 2 /\ Cut(output) # <<>> /\ Reads(Cut(output), start, records)
    /\ phase \in {"commit", "merge"} => outcome = "ok"
    /\ outcome # "none" => [outcome |-> outcome, records |-> records] = Parsed(output)
    /\ outcome = "ok" => \A k \in 1..Len(records) : Fault(records[k]) = "ok"
    /\ outcome = "limit" => pass = 1

(* The invariant of the way from the output to the records                 *)
OutputInv == RecordsTypeOK /\ WriterInv /\ ParserInv

(* A fault is one of four.                                                 *)
LEMMA Faults ==
  ASSUME NEW r \in Seq(Byte)
  PROVE  /\ Fault(r) \in {"empty row", "nul", "relative", "ok"}
         /\ Fault(r) = "ok" => r # <<>> /\ r[1] = "slash"
  BY DEF Fault

-----------------------------------------------------------------------------
(* What the types say about numbers.                                       *)
LEMMA Sizes ==
  ASSUME RecordsTypeOK
  PROVE  /\ output \in Seq(Byte) /\ data \in Seq(Byte) /\ sink \in Seq(Byte)
         /\ Len(output) \in Nat /\ Len(data) \in Nat /\ taken \in Nat /\ taken <= Len(output)
         /\ index \in Nat /\ total \in Nat /\ start \in Nat /\ pass \in {1, 2}
PROOF
  <1>1. output \in Seq(Byte) /\ data \in Seq(Byte) /\ sink \in Seq(Byte)
    BY DEF RecordsTypeOK
  <1>2. taken \in 0..Len(output) /\ total \in 0..MaxBytes
    BY Zenon DEF RecordsTypeOK
  <1>3. index \in Nat /\ start \in Nat /\ pass \in {1, 2}
    BY Zenon DEF RecordsTypeOK
  <1> QED BY <1>1, <1>2, <1>3, LimitsAssumption

(* The invariant holds before anything is printed.                         *)
LEMMA OutputInit ==
  ASSUME RecordsInit
  PROVE  OutputInv
PROOF
  <1>1. output \in Seq(Byte)
    BY LengthAssumption DEF RecordsInit, BoundedSeq, SeqOf
  <1>2. MaxBytes \in Nat /\ MaxRows \in Nat /\ MaxRowBytes \in Nat
    BY LimitsAssumption
  <1>3. RecordsTypeOK
    BY <1>1, <1>2 DEF RecordsInit, RecordsTypeOK
  <1>4. Scanned(output, 0, 0, 0)
    BY <1>1, ScanNothing
  <1>5. ScanInv
    <2>1. SubSeq(output, 1, 0) = <<>> /\ Len(<<>>) = 0
      BY <1>1
    <2>2. Scanned(output, total + index, rows, rowBytes)
      BY <1>4 DEF RecordsInit
    <2> QED BY <1>1, <2>1, <2>2 DEF RecordsInit, ScanInv
  <1>6. WriterInv
    BY <1>5 DEF RecordsInit, WriterInv, AtWork
  <1>7. ParserInv
    BY DEF RecordsInit, ParserInv, AtWork
  <1> QED BY <1>3, <1>6, <1>7 DEF OutputInv

(* The pump passes on a piece of the output.                               *)
LEMMA OutputWrite ==
  ASSUME OutputInv, Write
  PROVE  OutputInv'
PROOF
  <1>1. RecordsTypeOK /\ WriterInv /\ ParserInv
    BY DEF OutputInv
  <1>2. phase = "idle" /\ err = "none" /\ data = <<>> /\ index = 0 /\ ScanInv
    BY <1>1 DEF Write, WriterInv, AtWork
  <1>3. PICK n \in 1..Len(output) - taken :
               data' = SubSeq(output, taken + 1, taken + n) /\ taken' = taken + n
    BY DEF Write
  <1>4. output \in Seq(Byte) /\ Len(output) \in Nat /\ taken \in Nat /\ taken <= Len(output) /\ total \in Nat
        /\ pass \in {1, 2}
    BY <1>1, Sizes
  <1>5. n \in Nat /\ 1 <= n /\ taken + n <= Len(output)
    BY <1>4
  <1>6. pass = 1
    BY <1>1, <1>4, <1>5 DEF WriterInv
  <1>7. taken = total /\ sink = SubSeq(output, 1, total)
    BY <1>2, <1>4, <1>6 DEF ScanInv
  <1>8. data' \in Seq(Byte) /\ Len(data') = n /\ \A i \in 1..n : data'[i] = output[total + i]
    BY <1>3, <1>4, <1>5, <1>7
  <1>9. phase' = "write" /\ index' = 0
        /\ UNCHANGED <<output, pass, total, rows, rowBytes, err, sink, start, records, outcome,
                       base, next, filesystem, merged, admitted>>
    BY DEF Write, writerVars, parserVars, mergeVars
  <1>10. RecordsTypeOK'
    <2>1. taken' \in 0..Len(output) /\ index' \in Nat
      BY <1>3, <1>4, <1>5, <1>9
    <2> QED BY <1>1, <1>8, <1>9, <2>1, Zenon DEF RecordsTypeOK
  <1>11. ScanInv'
    <2>1. Scanned(output, total + index, rows, rowBytes)'
      BY <1>2, <1>9 DEF ScanInv
    <2> QED BY <1>2, <1>3, <1>4, <1>5, <1>6, <1>7, <1>8, <1>9, <2>1 DEF ScanInv
  <1>12. WriterInv'
    BY <1>1, <1>2, <1>6, <1>9, <1>11 DEF WriterInv, AtWork
  <1>13. ParserInv'
    BY <1>1, <1>2, <1>9 DEF ParserInv, AtWork
  <1> QED BY <1>10, <1>12, <1>13 DEF OutputInv

(* The limits that Write asks for are the ones about the output.           *)
LEMMA RefusesOutput ==
  ASSUME RecordsTypeOK, ScanInv, index < Len(data)
  PROVE  /\ total + index \in Nat /\ total + index < Len(output)
         /\ data[index + 1] = output[total + index + 1]
         /\ refuses <=> Refused(output, total + index, rows, rowBytes)
PROOF
  <1>1. data \in Seq(Byte) /\ Len(data) \in Nat /\ index \in Nat /\ total \in Nat /\ Len(output) \in Nat
    BY Sizes
  <1>2. index + 1 \in 1..Len(data) /\ total + Len(data) <= Len(output)
    BY <1>1 DEF ScanInv
  <1>3. data[index + 1] = output[total + (index + 1)]
    BY <1>2 DEF ScanInv
  <1>4. total + (index + 1) = total + index + 1
    BY <1>1
  <1>5. data[index + 1] = output[total + index + 1]
    BY <1>3, <1>4
  <1> QED BY <1>1, <1>2, <1>5 DEF refuses, Refused

(* A byte is accepted.                                                     *)
LEMMA OutputScan ==
  ASSUME OutputInv, Scan
  PROVE  OutputInv'
PROOF
  <1>1. RecordsTypeOK /\ WriterInv /\ ParserInv
    BY DEF OutputInv
  <1>2. phase = "write" /\ err = "none" /\ index < Len(data) /\ ScanInv
    BY <1>1 DEF Scan, WriterInv, AtWork
  <1>3. /\ total + index \in Nat /\ total + index < Len(output)
        /\ data[index + 1] = output[total + index + 1]
        /\ ~Refused(output, total + index, rows, rowBytes)
    BY <1>1, <1>2, RefusesOutput DEF Scan
  <1>4. output \in Seq(Byte) /\ index \in Nat /\ total \in Nat /\ Len(data) \in Nat
    BY <1>1, Sizes
  <1> DEFINE n == total + index
  <1>5. Scanned(output, n, rows, rowBytes)
    BY <1>2 DEF ScanInv
  <1>6. IF output[n + 1] = "newline" THEN Scanned(output, n + 1, rows + 1, 0)
        ELSE Scanned(output, n + 1, rows, rowBytes + 1)
    <2> HIDE DEF n
    <2> QED BY <1>3, <1>4, <1>5, ScanByte DEF n
  <1>7. /\ index' = index + 1
        /\ UNCHANGED <<output, taken, phase, pass, data, total, err, sink, start, records, outcome,
                       base, next, filesystem, merged, admitted>>
        /\ rows' = IF output[n + 1] = "newline" THEN rows + 1 ELSE rows
        /\ rowBytes' = IF output[n + 1] = "newline" THEN 0 ELSE rowBytes + 1
    BY <1>3 DEF Scan, parserVars, mergeVars
  <1>8. Scanned(output, n + 1, rows', rowBytes')
    <2> HIDE DEF n
    <2> QED BY <1>6, <1>7
  <1>9. total' + index' = n + 1
    BY <1>4, <1>7
  <1>10. Scanned(output, total + index, rows, rowBytes)'
    <2> HIDE DEF n
    <2> QED BY <1>7, <1>8, <1>9
  <1>11. rows' \in 0..MaxRows /\ rowBytes' \in 0..MaxRowBytes
    BY <1>8 DEF Scanned
  <1> HIDE DEF n
  <1>12. RecordsTypeOK'
    <2>1. index' \in Nat
      BY <1>4, <1>7
    <2> QED BY <1>1, <1>7, <1>11, <2>1, Zenon DEF RecordsTypeOK
  <1>13. ScanInv'
    BY <1>2, <1>4, <1>7, <1>10 DEF ScanInv
  <1>14. WriterInv'
    BY <1>1, <1>2, <1>7, <1>13 DEF WriterInv, AtWork
  <1>15. ParserInv'
    BY <1>1, <1>2, <1>7 DEF ParserInv, AtWork
  <1> QED BY <1>12, <1>14, <1>15 DEF OutputInv

(* A byte is refused: in the first pass, and the output is too large.      *)
LEMMA OutputReject ==
  ASSUME OutputInv, reject
  PROVE  OutputInv'
PROOF
  <1>1. RecordsTypeOK /\ WriterInv /\ ParserInv
    BY DEF OutputInv
  <1>2. phase = "write" /\ err = "none" /\ index < Len(data) /\ refuses /\ ScanInv
    BY <1>1 DEF reject, WriterInv, AtWork
  <1>3. output \in Seq(Byte) /\ data \in Seq(Byte) /\ sink \in Seq(Byte) /\ index \in Nat /\ total \in Nat
        /\ Len(data) \in Nat /\ pass \in {1, 2}
    BY <1>1, Sizes
  <1> DEFINE n == total + index
  <1>4. n \in Nat /\ n < Len(output) /\ Refused(output, n, rows, rowBytes)
    BY <1>1, <1>2, RefusesOutput
  <1>5. Scanned(output, n, rows, rowBytes)
    BY <1>2 DEF ScanInv
  <1> HIDE DEF n
  <1>6. ~WithinLimits(output)
    BY <1>3, <1>4, <1>5, RefusedIsBeyond
  <1>7. pass = 1
    BY <1>1, <1>3, <1>6 DEF WriterInv
  <1>8. /\ sink' = sink \o SubSeq(data, 1, index) /\ total' = n
        /\ phase' = "idle" /\ data' = <<>> /\ index' = 0 /\ err' = "limit"
        /\ UNCHANGED <<output, taken, pass, rows, rowBytes, start, records, outcome,
                       base, next, filesystem, merged, admitted>>
    BY <1>7 DEF reject, writeSink, parserVars, mergeVars, n
  <1>9. sink' \in Seq(Byte)
    BY <1>2, <1>3, <1>8
  <1>10. n \in 0..MaxBytes
    BY <1>4, <1>5, LimitsAssumption DEF Scanned
  <1>11. RecordsTypeOK'
    <2>1. data' \in Seq(Byte) /\ index' \in Nat
      BY <1>8
    <2> QED BY <1>1, <1>8, <1>9, <1>10, <2>1, Zenon DEF RecordsTypeOK
  <1>12. WriterInv'
    BY <1>6, <1>7, <1>8 DEF WriterInv, AtWork
  <1>13. ParserInv'
    BY <1>1, <1>2, <1>8 DEF ParserInv, AtWork
  <1> QED BY <1>11, <1>12, <1>13 DEF OutputInv

(* A piece is accepted as a whole and goes to the buffer.                  *)
LEMMA OutputWriteReturns ==
  ASSUME OutputInv, WriteReturns
  PROVE  OutputInv'
PROOF
  <1>1. RecordsTypeOK /\ WriterInv /\ ParserInv
    BY DEF OutputInv
  <1>2. phase = "write" /\ err = "none" /\ index = Len(data) /\ ScanInv
    BY <1>1 DEF WriteReturns, WriterInv, AtWork
  <1>3. output \in Seq(Byte) /\ data \in Seq(Byte) /\ sink \in Seq(Byte) /\ index \in Nat /\ total \in Nat
        /\ Len(data) \in Nat /\ pass \in {1, 2} /\ Len(output) \in Nat
    BY <1>1, Sizes
  <1> DEFINE n == total + index
  <1>4. Scanned(output, n, rows, rowBytes)
    BY <1>2 DEF ScanInv
  <1>5. /\ sink' = (IF pass = 1 THEN sink \o SubSeq(data, 1, index) ELSE sink) /\ total' = n
        /\ phase' = "idle" /\ data' = <<>> /\ index' = 0
        /\ UNCHANGED <<output, taken, pass, rows, rowBytes, err, start, records, outcome,
                       base, next, filesystem, merged, admitted>>
    BY DEF WriteReturns, writeSink, parserVars, mergeVars
  <1>6. n \in 0..Len(output) /\ n = total + Len(data)
    BY <1>2, <1>3, <1>4 DEF Scanned
  <1>7. pass = 1 => sink' = SubSeq(output, 1, n)
    <2> SUFFICES ASSUME pass = 1 PROVE sink' = SubSeq(output, 1, n)
      OBVIOUS
    <2>1. sink = SubSeq(output, 1, total)
      BY <1>2 DEF ScanInv
    <2>2. SubSeq(data, 1, index) = data
      BY <1>2, <1>3, SubSeqFull
    <2> DEFINE t == SubSeq(output, total + 1, n)
    <2>3. t \in Seq(Byte) /\ Len(t) = Len(data) /\ \A i \in 1..Len(data) : t[i] = output[total + i]
      BY <1>3, <1>6
    <2>4. \A i \in 1..Len(data) : data[i] = output[total + i]
      BY <1>2 DEF ScanInv
    <2> HIDE DEF t, n
    <2>5. \A i \in 1..Len(t) : t[i] = data[i]
      BY <2>3, <2>4
    <2>6. t = data
      BY <1>3, <2>3, <2>5, SeqEqual
    <2>7. SubSeq(output, 1, total) \o SubSeq(output, total + 1, n) = SubSeq(output, 1, n)
      <3>1. 1 \in 1..Len(output) + 1 /\ total \in 1 - 1..Len(output) /\ n \in total..Len(output)
        BY <1>3, <1>6
      <3> QED BY <1>3, <3>1, ConcatAdjacentSubSeq
    <2> QED BY <1>5, <2>1, <2>2, <2>6, <2>7 DEF t
  <1>8. sink' \in Seq(Byte)
    BY <1>3, <1>5, <1>6
  <1> HIDE DEF n
  <1>9. n \in 0..MaxBytes
    BY <1>4, <1>6, LimitsAssumption DEF Scanned
  <1>10. RecordsTypeOK'
    <2>1. data' \in Seq(Byte) /\ index' \in Nat
      BY <1>5
    <2> QED BY <1>1, <1>5, <1>8, <1>9, <2>1, Zenon DEF RecordsTypeOK
  <1>11. ScanInv'
    <2>1. total' + index' = n /\ Len(data') = 0
      BY <1>5, <1>6
    <2>2. Scanned(output, total + index, rows, rowBytes)'
      BY <1>4, <1>5, <2>1
    <2>3. pass = 1 => taken = n
      BY <1>2, <1>6 DEF ScanInv
    <2>4. pass = 2 => n = Len(output)
      BY <1>2, <1>6 DEF ScanInv
    <2>5. n \in Nat /\ n <= Len(output)
      BY <1>3, <1>6
    <2> QED BY <1>3, <1>5, <1>7, <2>1, <2>2, <2>3, <2>4, <2>5 DEF ScanInv
  <1>12. WriterInv'
    <2>1. pass = 2 => sink' = sink
      BY <1>5
    <2> QED BY <1>1, <1>2, <1>5, <1>11, <2>1 DEF WriterInv, AtWork
  <1>13. ParserInv'
    BY <1>1, <1>2, <1>5 DEF ParserInv, AtWork
  <1> QED BY <1>10, <1>12, <1>13 DEF OutputInv

(* The writer's counters may be zero, the records empty.                   *)
LEMMA Zeros ==
  /\ 0 \in 0..MaxBytes /\ 0 \in 0..MaxRows /\ 0 \in 0..MaxRowBytes /\ 0 \in Nat
  /\ <<>> \in Seq(Seq(Byte))
  BY LimitsAssumption

(* The end of the parser, with the outcome that the output has             *)
LEMMA OutputEnds ==
  ASSUME RecordsTypeOK, WriterInv, phase \in {"idle", "parse"},
         NEW o \in {"ok", "limit", "empty row", "nul", "relative"}, End(o),
         UNCHANGED <<output, taken, pass, data, index, sink, mergeVars>>,
         [outcome |-> o, records |-> IF o = "ok" THEN records ELSE <<>>] = Parsed(output),
         o = "ok" => \A k \in 1..Len(records) : Fault(records[k]) = "ok",
         o = "limit" => pass = 1
  PROVE  OutputInv'
PROOF
  <1>1. /\ outcome' = o /\ phase' = IF o = "ok" THEN "commit" ELSE "done"
        /\ records' = IF o = "ok" THEN records ELSE <<>>
        /\ start' = 0 /\ total' = 0 /\ rows' = 0 /\ rowBytes' = 0 /\ err' = "none"
        /\ UNCHANGED <<output, taken, pass, data, index, sink, base, next, filesystem, merged, admitted>>
    BY DEF End, mergeVars
  <1>3. RecordsTypeOK'
    <2>1. total' \in 0..MaxBytes /\ rows' \in 0..MaxRows /\ rowBytes' \in 0..MaxRowBytes /\ start' \in Nat
      BY <1>1, Zeros, Zenon
    <2>2. records' \in Seq(Seq(Byte))
      <3>1. records \in Seq(Seq(Byte)) /\ <<>> \in Seq(Seq(Byte))
        BY Zeros, Zenon DEF RecordsTypeOK
      <3> QED BY <1>1, <3>1
    <2>3. phase' \in {"commit", "done"}
      BY <1>1
    <2> QED BY <1>1, <2>1, <2>2, <2>3, Zenon DEF RecordsTypeOK
  <1>4. WriterInv'
    BY <1>1 DEF WriterInv, AtWork
  <1>5. ParserInv'
    <2>1. ([outcome |-> outcome, records |-> records] = Parsed(output))'
      BY <1>1
    <2>2. phase' \notin AtWork /\ outcome' # "none" /\ (phase' \in {"commit", "merge"} => outcome' = "ok")
      BY <1>1 DEF AtWork
    <2> QED BY <1>1, <2>1, <2>2 DEF ParserInv, AtWork
  <1> QED BY <1>3, <1>4, <1>5 DEF OutputInv

(* finalize refuses nothing that Write accepted.                           *)
LEMMA FinalizesOutput ==
  ASSUME RecordsTypeOK, WriterInv, phase \in AtWork, err = "none"
  PROVE  finalizes
  BY DEF WriterInv, ScanInv, Scanned, finalizes

(* The first pass ends, and the second begins with all of the output.      *)
LEMMA OutputFinalize ==
  ASSUME OutputInv, finalize
  PROVE  OutputInv'
PROOF
  <1>1. RecordsTypeOK /\ WriterInv /\ ParserInv
    BY DEF OutputInv
  <1>2. phase = "idle" /\ pass = 1 /\ (taken = Len(output) \/ err # "none") /\ phase \in AtWork
    BY DEF finalize, AtWork
  <1>3. output \in Seq(Byte) /\ sink \in Seq(Byte) /\ Len(output) \in Nat /\ total \in Nat
    BY <1>1, Sizes
  <1>4. data = <<>> /\ index = 0 /\ Len(data) = 0
    BY <1>1, <1>2 DEF WriterInv
  <1>5. CASE err = "none"
    <2>1. finalizes /\ ScanInv
      BY <1>1, <1>2, <1>5, FinalizesOutput DEF WriterInv
    <2>2. taken = Len(output) /\ total = Len(output) /\ sink = SubSeq(output, 1, Len(output))
      BY <1>2, <1>3, <1>4, <1>5, <2>1 DEF ScanInv
    <2>3. sink = output
      BY <1>3, <2>2, SubSeqFull
    <2>4. total + index = Len(output)
      BY <1>3, <1>4, <2>2
    <2>5. Scanned(output, Len(output), rows, rowBytes)
      BY <2>1, <2>4 DEF ScanInv
    <2>6. WithinLimits(output)
      BY <1>3, <2>5, AcceptedIsWithin
    <2>7. /\ pass' = 2 /\ data' = output /\ phase' = "write"
          /\ total' = 0 /\ rows' = 0 /\ rowBytes' = 0 /\ err' = "none"
          /\ UNCHANGED <<output, taken, index, sink, start, records, outcome,
                         base, next, filesystem, merged, admitted>>
      BY <2>1, <2>3 DEF finalize, parserVars, mergeVars
    <2>8. RecordsTypeOK'
      <3>1. total' \in 0..MaxBytes /\ rows' \in 0..MaxRows /\ rowBytes' \in 0..MaxRowBytes
        BY <2>7, LimitsAssumption
      <3> QED BY <1>1, <1>3, <2>7, <3>1, Zenon DEF RecordsTypeOK
    <2>9. ScanInv'
      <3>1. Scanned(output, 0, 0, 0)
        BY <1>3, ScanNothing
      <3>2. total' + index' = 0
        BY <1>4, <2>7
      <3>3. Scanned(output, total + index, rows, rowBytes)'
        BY <2>7, <3>1, <3>2
      <3> QED BY <1>3, <1>4, <2>7, <3>3 DEF ScanInv
    <2>10. WriterInv'
      BY <2>2, <2>3, <2>6, <2>7, <2>9 DEF WriterInv, AtWork
    <2>11. ParserInv'
      BY <1>1, <1>2, <2>7 DEF ParserInv, AtWork
    <2> QED BY <2>8, <2>10, <2>11 DEF OutputInv
  <1>6. CASE err # "none"
    <2>1. ~finalizes /\ err = "limit"
      BY <1>1, <1>6 DEF finalizes, RecordsTypeOK
    <2>2. ~WithinLimits(output)
      BY <1>1, <2>1 DEF WriterInv
    <2>3. End("limit") /\ UNCHANGED <<output, taken, pass, data, index, sink, mergeVars>>
      BY <2>1 DEF finalize
    <2>4. [outcome |-> "limit", records |-> IF "limit" = "ok" THEN records ELSE <<>>] = Parsed(output)
      BY <1>3, <2>2, ParsedBeyond DEF Refusal
    <2> QED BY <1>1, <1>2, <2>3, <2>4, OutputEnds
  <1> QED BY <1>5, <1>6

(* The parser starts on what the second pass let through.                  *)
LEMMA OutputBounds ==
  ASSUME OutputInv, validateZoxideOutputBounds
  PROVE  OutputInv'
PROOF
  <1>1. RecordsTypeOK /\ WriterInv /\ ParserInv
    BY DEF OutputInv
  <1>2. phase = "idle" /\ pass = 2 /\ phase \in AtWork /\ phase \in {"idle", "parse"}
    BY DEF validateZoxideOutputBounds, AtWork
  <1>3. sink = output /\ WithinLimits(output) /\ err = "none"
    BY <1>1, <1>2 DEF WriterInv
  <1>4. finalizes
    BY <1>1, <1>2, <1>3, FinalizesOutput
  <1>5. output \in Seq(Byte) /\ buffer = Cut(output)
    BY <1>1, <1>3, Sizes DEF buffer, Cut
  <1>6. start = 0 /\ records = <<>>
    BY <1>1, <1>2 DEF ParserInv
  <1>7. UNCHANGED <<output, taken, pass, data, index, sink, mergeVars>>
    BY DEF validateZoxideOutputBounds
  <1>8. CASE sink = <<>>
    <2>1. End("ok")
      BY <1>4, <1>8 DEF validateZoxideOutputBounds
    <2>2. output = <<>>
      BY <1>3, <1>8
    <2>3. Parsed(output) = [outcome |-> "ok", records |-> <<>>]
      BY <1>3, <2>2, ParsedNothing
    <2>4. [outcome |-> "ok", records |-> IF "ok" = "ok" THEN records ELSE <<>>] = Parsed(output)
      BY <1>6, <2>3
    <2>5. \A k \in 1..Len(records) : Fault(records[k]) = "ok"
      BY <1>6
    <2> QED BY <1>1, <1>2, <1>7, <2>1, <2>4, <2>5, OutputEnds
  <1>9. CASE sink # <<>> /\ buffer = <<>>
    <2>1. End("empty row")
      BY <1>4, <1>9 DEF validateZoxideOutputBounds
    <2>2. Parsed(output) = Refusal("empty row")
      BY <1>3, <1>5, <1>9, ParsedNewline
    <2>3. [outcome |-> "empty row", records |-> IF "empty row" = "ok" THEN records ELSE <<>>] = Parsed(output)
      BY <2>2 DEF Refusal
    <2> QED BY <1>1, <1>2, <1>7, <2>1, <2>3, OutputEnds
  <1>10. CASE sink # <<>> /\ buffer # <<>>
    <2>1. phase' = "parse" /\ UNCHANGED <<parserVars, writerVars>>
      BY <1>4, <1>10 DEF validateZoxideOutputBounds
    <2>2. UNCHANGED <<output, taken, pass, data, index, total, rows, rowBytes, err, sink, start, records,
                      outcome, base, next, filesystem, merged, admitted>>
      BY <1>7, <2>1 DEF parserVars, writerVars, mergeVars
    <2>3. RecordsTypeOK'
      BY <1>1, <2>1, <2>2, Zenon DEF RecordsTypeOK
    <2>4. ScanInv'
      <3>1. ScanInv
        BY <1>1, <1>2, <1>3 DEF WriterInv
      <3> QED BY <2>2, <3>1 DEF ScanInv
    <2>5. WriterInv'
      BY <1>1, <1>2, <1>3, <2>1, <2>2, <2>4 DEF WriterInv, AtWork
    <2>6. Cut(output) \in Seq(Byte) /\ Cut(output) # <<>>
      BY <1>5, <1>10, CutBytes
    <2>7. Reads(Cut(output), 0, <<>>)
      BY <2>6, ReadNothing
    <2>8. ParserInv'
      BY <1>1, <1>2, <1>6, <2>1, <2>2, <2>6, <2>7 DEF ParserInv, AtWork
    <2> QED BY <2>3, <2>5, <2>8 DEF OutputInv
  <1> QED BY <1>8, <1>9, <1>10

(* A row is read, or the parser ends with it or after the last one.        *)
LEMMA OutputParse ==
  ASSUME OutputInv, parseZoxideRecords
  PROVE  OutputInv'
PROOF
  <1>1. RecordsTypeOK /\ WriterInv /\ ParserInv
    BY DEF OutputInv
  <1>2. phase = "parse" /\ phase \in AtWork /\ phase \in {"idle", "parse"}
    BY DEF parseZoxideRecords, AtWork
  <1> DEFINE c == Cut(output)
             r == Row(c, start + 1)
  <1>3. pass = 2 /\ c # <<>> /\ Reads(c, start, records)
    BY <1>1, <1>2 DEF ParserInv
  <1>4. sink = output /\ WithinLimits(output) /\ err = "none"
    BY <1>1, <1>3 DEF WriterInv
  <1>5. output \in Seq(Byte) /\ buffer = c /\ sink \in Seq(Byte) /\ start \in Nat
    BY <1>1, <1>4, Sizes DEF buffer, Cut
  <1>6. c \in Seq(Byte) /\ Len(c) \in Nat
    BY <1>5, CutBytes
  <1> HIDE DEF c
  <1>7. /\ start \in 0..Len(c) /\ (start < Len(c) => start + 1 \in RowStarts(c))
        /\ \A i \in RowStarts(c) : i <= start => Fault(Row(c, i)) = "ok"
        /\ \A k \in 1..Len(records) : Fault(records[k]) = "ok"
    BY <1>3 DEF Reads
  <1>8. row = r
    BY <1>5, <1>7, RowIsPart
  <1>9. UNCHANGED <<output, taken, pass, data, index, sink, mergeVars>>
    BY DEF parseZoxideRecords
  <1>10. CASE start >= Len(c)
    <2>1. End("ok")
      BY <1>5, <1>10 DEF parseZoxideRecords
    <2>2. Parsed(output) = [outcome |-> "ok", records |-> records]
      BY <1>3, <1>4, <1>5, <1>10, ParsedRows DEF c
    <2>3. [outcome |-> "ok", records |-> IF "ok" = "ok" THEN records ELSE <<>>] = Parsed(output)
      BY <2>2
    <2>4. \A k \in 1..Len(records) : Fault(records[k]) = "ok"
      BY <1>7, Zenon
    <2> QED BY <1>1, <1>2, <1>9, <2>1, <2>3, <2>4, OutputEnds
  <1>11. ASSUME start < Len(c) PROVE r \in Seq(Byte) /\ start + 1 \in RowStarts(c)
    <2>1. start + 1 \in 1..Len(c) + 1
      BY <1>5, <1>6, <1>11
    <2>2. EndsAt(c, "newline", start + 1, PartEnd(c, "newline", start + 1))
      BY <1>6, <2>1, PartEnds
    <2> QED BY <1>6, <1>7, <1>11, <2>1, <2>2, PartBytes DEF Row
  <1>12. CASE start < Len(c) /\ Fault(r) # "ok"
    <2>1. ~(start >= Len(c)) /\ r \in Seq(Byte) /\ start + 1 \in RowStarts(c)
      BY <1>5, <1>6, <1>11, <1>12
    <2>2. End(Fault(r))
      <3> HIDE DEF r
      <3> QED BY <1>5, <1>8, <1>12, <2>1 DEF parseZoxideRecords, Fault
    <2>3. Fault(r) \in {"empty row", "nul", "relative"}
      BY <1>12, <2>1, Faults
    <2>4. Parsed(output) = Refusal(Fault(r))
      BY <1>3, <1>4, <1>5, <1>7, <1>12, <2>1, ParsedFault DEF c
    <2> DEFINE o == Fault(r)
    <2>5. [outcome |-> o, records |-> IF o = "ok" THEN records ELSE <<>>] = Parsed(output)
      BY <1>12, <2>4 DEF Refusal
    <2>6. End(o) /\ o \in {"ok", "limit", "empty row", "nul", "relative"} /\ o # "ok" /\ o # "limit"
      BY <2>2, <2>3
    <2> HIDE DEF o
    <2> QED BY <1>1, <1>2, <1>9, <2>5, <2>6, OutputEnds
  <1>13. CASE start < Len(c) /\ Fault(r) = "ok"
    <2>1. ~(start >= Len(c)) /\ r \in Seq(Byte)
      BY <1>5, <1>6, <1>11, <1>13
    <2>2. /\ records' = Append(records, r)
          /\ start' = After(c, start, Len(r))
          /\ UNCHANGED <<phase, outcome, writerVars>>
      <3> HIDE DEF r
      <3>1. /\ records' = Append(records, row) /\ start' = skip
            /\ UNCHANGED <<phase, outcome, writerVars>>
        BY <1>5, <1>8, <1>13, <2>1 DEF parseZoxideRecords, Fault
      <3> QED BY <1>5, <1>8, <3>1 DEF skip, After
    <2>3. UNCHANGED <<output, taken, phase, pass, data, index, total, rows, rowBytes, err, sink,
                      outcome, base, next, filesystem, merged, admitted>>
      BY <1>9, <2>2 DEF writerVars, mergeVars
    <2>4. Reads(c, start', records')
      BY <1>3, <1>5, <1>6, <1>13, <2>2, ReadRow
    <2>5. start' \in Nat /\ records' \in Seq(Seq(Byte))
      BY <1>6, <2>4 DEF Reads
    <2>6. RecordsTypeOK'
      BY <1>1, <2>3, <2>5, Zenon DEF RecordsTypeOK
    <2>7. WriterInv'
      <3>1. ScanInv => ScanInv'
        BY <2>3 DEF ScanInv
      <3> QED BY <1>1, <2>3, <3>1 DEF WriterInv
    <2>8. ParserInv'
      <3>1. Reads(Cut(output), start, records)' /\ Cut(output)' # <<>>
        BY <1>3, <2>3, <2>4 DEF c
      <3> QED BY <1>1, <1>2, <1>3, <2>3, <3>1 DEF ParserInv, AtWork
    <2> QED BY <2>6, <2>7, <2>8 DEF OutputInv
  <1>14. start >= Len(c) \/ start < Len(c)
    BY <1>5, <1>6
  <1> QED BY <1>10, <1>12, <1>13, <1>14

(* The merge leaves the output and the parser's result alone.              *)
LEMMA OutputMerge ==
  ASSUME OutputInv, RecordsTypeOK', phase \in {"commit", "merge"}, phase' \in {"merge", "done"},
         UNCHANGED <<output, taken, pass, data, index, writerVars, sink, parserVars>>
  PROVE  OutputInv'
PROOF
  <1>1. RecordsTypeOK /\ WriterInv /\ ParserInv
    BY DEF OutputInv
  <1>2. UNCHANGED <<output, taken, pass, data, index, total, rows, rowBytes, err, sink, start, records,
                    outcome>>
    BY DEF writerVars, parserVars
  <1>3. WriterInv'
    BY <1>1, <1>2 DEF WriterInv, AtWork
  <1>4. ParserInv'
    BY <1>1, <1>2 DEF ParserInv, AtWork
  <1> QED BY <1>3, <1>4 DEF OutputInv

(* A record of its parts.                                                  *)
LEMMA RecordFields ==
  ASSUME NEW k \in {"local", "virtual", "zoxide"}, NEW d \in {".", "..", "x", "path"}, NEW p \in Seq(Byte)
  PROVE  /\ Record(k, d, p) \in Records
         /\ Record(k, d, p).kind = k /\ Record(k, d, p).path = p
  BY DEF Record, Records

(* Two and three records make a sequence.                                  *)
LEMMA PairOfRecords ==
  ASSUME NEW u \in Records, NEW v \in Records
  PROVE  /\ <<u, v>> \in Seq(Records) /\ Len(<<u, v>>) = 2
         /\ <<u, v>>[1] = u /\ <<u, v>>[2] = v
  OBVIOUS

(* A third record goes after two.                                          *)
LEMMA ThreeRecords ==
  ASSUME NEW u \in Records, NEW v \in Records, NEW w \in Records
  PROVE  /\ <<u, v>> \o <<w>> \in Seq(Records) /\ Len(<<u, v>> \o <<w>>) = 3
         /\ (<<u, v>> \o <<w>>)[1] = u /\ (<<u, v>> \o <<w>>)[2] = v /\ (<<u, v>> \o <<w>>)[3] = w
         /\ <<u, v>> \o <<>> = <<u, v>>
  OBVIOUS

-----------------------------------------------------------------------------
(* Two paths that name one file have one key: the positions that Clean     *)
(* keeps are those of the names and of the slash before each, and what is  *)
(* kept of the one path matches, in order, what is kept of the other.      *)
Kept(p) == {i \in DOMAIN p : p[i] = "slash" => i < Len(p) /\ p[i + 1] # "slash"}

(* Where the names on a path start                                         *)
NameStarts(p) == {i \in Starts(p, "slash") : p[i] # "slash"}

(* Where the name that starts at n ends                                    *)
NameEnd(p, n) == PartEnd(p, "slash", n)

(* Every path in the picker's records is absolute.                         *)
Absolute(p) == p \in Seq(Byte) /\ p # <<>> /\ p[1] = "slash"

(* An order-preserving map does not lose a position.                       *)
LEMMA RanksEmbed ==
  ASSUME NEW S \in SUBSET Nat, IsFiniteSet(S), NEW T \in SUBSET Nat, IsFiniteSet(T),
         NEW f \in [S -> T], \A i, j \in S : i < j => f[i] < f[j]
  PROVE  /\ Cardinality(S) <= Cardinality(T)
         /\ \A i \in S : Rank(S, i) <= Rank(T, f[i])
PROOF
  <1>1. ASSUME NEW i \in S, NEW j \in S, f[i] = f[j] PROVE i = j
    <2>1. i \in Nat /\ j \in Nat /\ f[i] \in Nat /\ f[j] \in Nat
      OBVIOUS
    <2>2. ~(i < j) /\ ~(j < i)
      BY <1>1, <2>1
    <2> QED BY <2>1, <2>2
  <1>2. f \in Injection(S, T)
    BY <1>1 DEF Injection, IsInjective
  <1>3. ASSUME NEW i \in S PROVE Rank(S, i) <= Rank(T, f[i])
    <2> DEFINE A == Upto(S, i)
               B == Upto(T, f[i])
               g == [j \in A |-> f[j]]
    <2>1. i \in Nat /\ f[i] \in Nat /\ IsFiniteSet(B)
      BY RankFacts
    <2>2. ASSUME NEW j \in A PROVE j \in S /\ f[j] \in B
      <3>1. j \in S /\ j <= i
        BY DEF Upto
      <3>2. j \in Nat /\ f[j] \in T /\ f[j] \in Nat
        BY <3>1
      <3>3. j = i \/ j < i
        BY <2>1, <3>1, <3>2
      <3>4. f[j] <= f[i]
        BY <2>1, <3>1, <3>2, <3>3
      <3> QED BY <3>1, <3>2, <3>4 DEF Upto
    <2> HIDE DEF A, B
    <2>3. g \in Injection(A, B)
      BY <1>1, <2>2 DEF Injection, IsInjective
    <2>4. Cardinality(A) <= Cardinality(B)
      BY <2>1, <2>3, FS_Injection
    <2> QED BY <2>4 DEF Rank, A, B
  <1> QED BY <1>2, <1>3, FS_Injection

(* The positions that a name takes, with the slash before it               *)
Spans(p, n, i) == n \in NameStarts(p) /\ n - 1 <= i /\ i < NameEnd(p, n)

(* Where names are, and what they are made of.                             *)
LEMMA NamePlace ==
  ASSUME NEW p, Absolute(p), NEW n \in NameStarts(p)
  PROVE  /\ n \in 2..Len(p) /\ p[n - 1] = "slash" /\ p[n] # "slash"
         /\ NameEnd(p, n) \in n + 1..Len(p) + 1
         /\ \A j \in n..NameEnd(p, n) - 1 : p[j] # "slash"
         /\ Len(Part(p, "slash", n)) = NameEnd(p, n) - n
         /\ \A k \in 1..NameEnd(p, n) - n : Part(p, "slash", n)[k] = p[n + k - 1]
PROOF
  <1>1. p \in Seq(Byte) /\ Len(p) \in Nat /\ DOMAIN p = 1..Len(p) /\ p[1] = "slash"
    BY DEF Absolute
  <1>2. n \in 1..Len(p) /\ p[n] # "slash" /\ (n = 1 \/ p[n - 1] = "slash")
    BY <1>1 DEF NameStarts, Starts
  <1>3. n \in 2..Len(p) /\ p[n - 1] = "slash"
    BY <1>1, <1>2
  <1>4. n \in 1..Len(p) + 1
    BY <1>1, <1>2
  <1> DEFINE e == NameEnd(p, n)
  <1>5. EndsAt(p, "slash", n, e)
    BY <1>1, <1>4, PartEnds DEF NameEnd
  <1> HIDE DEF e
  <1>6. e \in n..Len(p) + 1 /\ (e = Len(p) + 1 \/ p[e] = "slash") /\ \A j \in n..e - 1 : p[j] # "slash"
    BY <1>5 DEF EndsAt
  <1>7. e # n
    BY <1>1, <1>2, <1>6
  <1>8. e \in n + 1..Len(p) + 1
    BY <1>1, <1>2, <1>6, <1>7
  <1>9. Len(Part(p, "slash", n)) = e - n /\ \A k \in 1..e - n : Part(p, "slash", n)[k] = p[n + k - 1]
    BY <1>1, <1>4, <1>5, PartBytes
  <1> QED BY <1>2, <1>3, <1>6, <1>8, <1>9 DEF e

(* Names are numbered like rows.                                           *)
LEMMA NamesFinite ==
  ASSUME NEW p, Absolute(p)
  PROVE  /\ NameStarts(p) \in SUBSET Nat /\ IsFiniteSet(NameStarts(p))
         /\ Kept(p) \in SUBSET Nat /\ Kept(p) \in SUBSET (1..Len(p)) /\ IsFiniteSet(Kept(p))
PROOF
  <1>1. p \in Seq(Byte) /\ Len(p) \in Nat /\ DOMAIN p = 1..Len(p)
    BY DEF Absolute
  <1>2. IsFiniteSet(1..Len(p)) /\ 1..Len(p) \in SUBSET Nat
    BY <1>1, FS_Interval
  <1>3. NameStarts(p) \in SUBSET (1..Len(p)) /\ Kept(p) \in SUBSET (1..Len(p))
    BY <1>1 DEF NameStarts, Starts, Kept
  <1> QED BY <1>2, <1>3, FS_Subset

(* A later name lies after an earlier one.                                 *)
LEMMA NamesInOrder ==
  ASSUME NEW p, Absolute(p), NEW n \in NameStarts(p), NEW m \in NameStarts(p), n < m
  PROVE  NameEnd(p, n) <= m - 1
PROOF
  <1> DEFINE e == NameEnd(p, n)
  <1>1. n \in 2..Len(p) /\ p[n] # "slash" /\ e \in n + 1..Len(p) + 1 /\ \A j \in n..e - 1 : p[j] # "slash"
    BY NamePlace
  <1>2. m \in 2..Len(p) /\ p[m - 1] = "slash"
    BY NamePlace
  <1>3. Len(p) \in Nat
    BY DEF Absolute
  <1> HIDE DEF e
  <1>4. m - 1 \notin n..e - 1
    BY <1>1, <1>2
  <1> QED BY <1>1, <1>2, <1>3, <1>4 DEF e

(* What is kept is what names span.                                        *)
LEMMA KeptIsSpanned ==
  ASSUME NEW p, Absolute(p), NEW i
  PROVE  i \in Kept(p) <=> i \in Nat /\ \E n : Spans(p, n, i)
PROOF
  <1>1. p \in Seq(Byte) /\ Len(p) \in Nat /\ DOMAIN p = 1..Len(p) /\ p[1] = "slash"
    BY DEF Absolute
  <1>2. ASSUME i \in Nat, NEW n, Spans(p, n, i) PROVE i \in Kept(p)
    <2> DEFINE e == NameEnd(p, n)
    <2>1. n \in NameStarts(p) /\ n - 1 <= i /\ i < e
      BY <1>2 DEF Spans
    <2>2. n \in 2..Len(p) /\ p[n - 1] = "slash" /\ p[n] # "slash" /\ e \in n + 1..Len(p) + 1
          /\ \A j \in n..e - 1 : p[j] # "slash"
      BY <2>1, NamePlace
    <2> HIDE DEF e
    <2>3. CASE i = n - 1
      <3>1. i \in 1..Len(p) /\ i < Len(p) /\ i + 1 = n
        BY <1>1, <2>2, <2>3
      <3> QED BY <1>1, <2>2, <3>1 DEF Kept
    <2>4. CASE i # n - 1
      <3>1. i \in n..e - 1 /\ i \in 1..Len(p)
        BY <1>1, <1>2, <2>1, <2>2, <2>4
      <3> QED BY <1>1, <2>2, <3>1 DEF Kept
    <2> QED BY <2>3, <2>4
  <1>3. ASSUME i \in Kept(p), p[i] = "slash" PROVE i \in Nat /\ \E n : Spans(p, n, i)
    <2>1. i \in 1..Len(p) /\ i < Len(p) /\ p[i + 1] # "slash"
      BY <1>1, <1>3 DEF Kept
    <2>2. i + 1 \in 1..Len(p) /\ (i + 1) - 1 = i
      BY <1>1, <2>1
    <2>3. i + 1 \in NameStarts(p)
      BY <1>1, <1>3, <2>1, <2>2 DEF NameStarts, Starts
    <2>4. NameEnd(p, i + 1) \in i + 1 + 1..Len(p) + 1
      BY <2>3, NamePlace
    <2>5. Spans(p, i + 1, i)
      BY <1>1, <2>1, <2>2, <2>3, <2>4 DEF Spans
    <2> QED BY <2>1, <2>5
  <1>4. ASSUME i \in Kept(p), p[i] # "slash" PROVE i \in Nat /\ \E n : Spans(p, n, i)
    <2>1. i \in 1..Len(p) /\ i \in Nat
      BY <1>1, <1>4 DEF Kept
    <2> DEFINE W == {m \in 1..i : \A j \in m..i : p[j] # "slash"}
               n == Min(W)
    <2>2. W \in SUBSET Nat /\ i \in W
      BY <1>4, <2>1
    <2>3. n \in W /\ \A y \in W : n <= y
      <3> HIDE DEF W
      <3> QED BY <2>2, LeastPosition
    <2> HIDE DEF n
    <2>4. n \in 1..i /\ \A j \in n..i : p[j] # "slash"
      BY <2>3
    <2>5. n \in Nat /\ n # 1 /\ p[n] # "slash" /\ n \in 1..Len(p)
      BY <1>1, <2>1, <2>4
    <2>6. p[n - 1] = "slash"
      <3> SUFFICES ASSUME p[n - 1] # "slash" PROVE FALSE
        OBVIOUS
      <3>1. n - 1 \in 1..i
        BY <2>1, <2>4, <2>5
      <3>2. \A j \in n - 1..i : j = n - 1 \/ j \in n..i
        BY <2>1, <2>5
      <3>3. n - 1 \in W
        BY <2>4, <3>1, <3>2
      <3>4. n <= n - 1
        BY <2>3, <3>3
      <3> QED BY <2>5, <3>4
    <2>7. n \in NameStarts(p)
      BY <1>1, <2>5, <2>6 DEF NameStarts, Starts
    <2> DEFINE e == NameEnd(p, n)
    <2>8. EndsAt(p, "slash", n, e)
      <3>1. n \in 1..Len(p) + 1
        BY <1>1, <2>5
      <3> QED BY <1>1, <3>1, PartEnds DEF NameEnd
    <2> HIDE DEF e
    <2>9. e \in n..Len(p) + 1 /\ (e = Len(p) + 1 \/ p[e] = "slash")
      BY <2>8 DEF EndsAt
    <2>10. i < e
      <3> SUFFICES ASSUME e <= i PROVE FALSE
        BY <1>1, <2>1, <2>5, <2>9
      <3>1. e \in n..i /\ e # Len(p) + 1
        BY <1>1, <2>1, <2>5, <2>9
      <3> QED BY <2>4, <2>9, <3>1
    <2>11. n - 1 <= i
      BY <2>1, <2>4, <2>5
    <2> QED BY <2>1, <2>7, <2>10, <2>11 DEF Spans, e
  <1> QED BY <1>2, <1>3, <1>4

(* Position i of p and position j of q are the same byte of the same name. *)
Matches(p, q, i, j) ==
    \E n, m : /\ Spans(p, n, i) /\ Spans(q, m, j)
              /\ Rank(NameStarts(p), n) = Rank(NameStarts(q), m)
              /\ i - n = j - m

(* Paths that name one file have the same names at the same places.        *)
LEMMA SameNames ==
  ASSUME NEW p, Absolute(p), NEW q, Absolute(q), File(p) = File(q), NEW n \in NameStarts(p)
  PROVE  \E m \in NameStarts(q) :
            /\ Rank(NameStarts(p), n) = Rank(NameStarts(q), m)
            /\ Part(p, "slash", n) = Part(q, "slash", m)
PROOF
  <1> DEFINE N == NameStarts(p)
             M == NameStarts(q)
             k == Rank(N, n)
             m == Nth(M, k)
  <1>1. N \in SUBSET Nat /\ IsFiniteSet(N) /\ M \in SUBSET Nat /\ IsFiniteSet(M)
    BY NamesFinite
  <1>2. File(p) = [h \in 1..Cardinality(N) |-> Part(p, "slash", Nth(N, h))]
    BY DEF File, Parts, NameStarts
  <1>3. File(q) = [h \in 1..Cardinality(M) |-> Part(q, "slash", Nth(M, h))]
    BY DEF File, Parts, NameStarts
  <1> HIDE DEF N, M
  <1>4. k \in 1..Cardinality(N) /\ Nth(N, k) = n
    BY <1>1, NthOfRank DEF N
  <1> HIDE DEF k
  <1>5. 1..Cardinality(N) = 1..Cardinality(M)
    <2>1. DOMAIN File(p) = 1..Cardinality(N) /\ DOMAIN File(q) = 1..Cardinality(M)
      BY <1>2, <1>3
    <2> QED BY <2>1
  <1>6. k \in 1..Cardinality(M)
    BY <1>4, <1>5
  <1>7. m \in M /\ Rank(M, m) = k
    BY <1>1, <1>6, EveryRank
  <1>8. File(p)[k] = Part(p, "slash", n) /\ File(q)[k] = Part(q, "slash", m)
    BY <1>2, <1>3, <1>4, <1>6
  <1> QED BY <1>7, <1>8 DEF k, N, M

(* Every kept position has a match.                                        *)
LEMMA EachHasAMatch ==
  ASSUME NEW p, Absolute(p), NEW q, Absolute(q), File(p) = File(q), NEW i \in Kept(p)
  PROVE  \E j \in Kept(q) : Matches(p, q, i, j) /\ p[i] = q[j]
PROOF
  <1>1. PICK n : Spans(p, n, i)
    BY KeptIsSpanned
  <1> DEFINE e == NameEnd(p, n)
  <1>2. n \in NameStarts(p) /\ n - 1 <= i /\ i < e /\ i \in Nat
    BY <1>1, NamesFinite DEF Spans
  <1>3. PICK m \in NameStarts(q) : /\ Rank(NameStarts(p), n) = Rank(NameStarts(q), m)
                                   /\ Part(p, "slash", n) = Part(q, "slash", m)
    BY <1>2, SameNames
  <1> DEFINE d == NameEnd(q, m)
             j == m + (i - n)
  <1>4. /\ n \in 2..Len(p) /\ p[n - 1] = "slash" /\ e \in n + 1..Len(p) + 1
        /\ Len(Part(p, "slash", n)) = e - n
        /\ \A k \in 1..e - n : Part(p, "slash", n)[k] = p[n + k - 1]
    BY <1>2, NamePlace
  <1>5. /\ m \in 2..Len(q) /\ q[m - 1] = "slash" /\ d \in m + 1..Len(q) + 1
        /\ Len(Part(q, "slash", m)) = d - m
        /\ \A k \in 1..d - m : Part(q, "slash", m)[k] = q[m + k - 1]
    BY NamePlace
  <1> HIDE DEF e, d
  <1>6. Len(p) \in Nat /\ Len(q) \in Nat
    BY DEF Absolute
  <1>7. e \in Nat /\ d \in Nat /\ n \in Nat /\ m \in Nat /\ 2 <= n /\ 2 <= m
    BY <1>4, <1>5, <1>6
  <1>8. e - n = d - m
    BY <1>3, <1>4, <1>5
  <1>9. j \in Nat /\ m - 1 <= j /\ j < d /\ i - n = j - m
    BY <1>2, <1>7, <1>8
  <1>10. p[i] = q[j]
    <2>1. CASE i = n - 1
      <3>1. j = m - 1
        BY <1>2, <1>7, <2>1
      <3> QED BY <1>4, <1>5, <2>1, <3>1
    <2>2. CASE i # n - 1
      <3> DEFINE k == i - n + 1
      <3>1. k \in 1..e - n /\ k \in 1..d - m /\ n + k - 1 = i /\ m + k - 1 = j
        BY <1>2, <1>7, <1>8, <2>2
      <3> HIDE DEF k, j
      <3>2. Part(p, "slash", n)[k] = p[n + k - 1] /\ Part(q, "slash", m)[k] = q[m + k - 1]
        BY <1>4, <1>5, <3>1
      <3> QED BY <1>3, <3>1, <3>2
    <2> QED BY <2>1, <2>2
  <1> HIDE DEF j
  <1>11. Spans(q, m, j)
    BY <1>9 DEF Spans, d
  <1>12. j \in Kept(q)
    BY <1>9, <1>11, KeptIsSpanned
  <1>13. Matches(p, q, i, j)
    BY <1>1, <1>3, <1>9, <1>11 DEF Matches
  <1> QED BY <1>10, <1>12, <1>13

(* Matches are in order.                                                   *)
LEMMA MatchesInOrder ==
  ASSUME NEW p, Absolute(p), NEW q, Absolute(q), NEW i1 \in Nat, NEW j1 \in Nat, NEW i2 \in Nat, NEW j2 \in Nat,
         Matches(p, q, i1, j1), Matches(p, q, i2, j2), i1 < i2
  PROVE  j1 < j2
PROOF
  <1> DEFINE N == NameStarts(p)
             M == NameStarts(q)
  <1>1. PICK n1, m1 : Spans(p, n1, i1) /\ Spans(q, m1, j1) /\ Rank(N, n1) = Rank(M, m1) /\ i1 - n1 = j1 - m1
    BY DEF Matches
  <1>2. PICK n2, m2 : Spans(p, n2, i2) /\ Spans(q, m2, j2) /\ Rank(N, n2) = Rank(M, m2) /\ i2 - n2 = j2 - m2
    BY DEF Matches
  <1>3. N \in SUBSET Nat /\ IsFiniteSet(N) /\ M \in SUBSET Nat /\ IsFiniteSet(M)
    BY NamesFinite
  <1>4. n1 \in N /\ n2 \in N /\ m1 \in M /\ m2 \in M
    BY <1>1, <1>2 DEF Spans
  <1> HIDE DEF N, M
  <1>5. n1 \in Nat /\ n2 \in Nat /\ m1 \in Nat /\ m2 \in Nat
    BY <1>3, <1>4
  <1>6. /\ n1 - 1 <= i1 /\ i1 < NameEnd(p, n1) /\ n2 - 1 <= i2 /\ i2 < NameEnd(p, n2)
        /\ m1 - 1 <= j1 /\ j1 < NameEnd(q, m1) /\ m2 - 1 <= j2 /\ j2 < NameEnd(q, m2)
    BY <1>1, <1>2 DEF Spans
  <1>7. NameEnd(p, n1) \in Int /\ NameEnd(p, n2) \in Int /\ NameEnd(q, m1) \in Int /\ NameEnd(q, m2) \in Int
    <2>1. NameEnd(p, n1) \in n1 + 1..Len(p) + 1 /\ NameEnd(p, n2) \in n2 + 1..Len(p) + 1
      BY <1>4, NamePlace DEF N
    <2>2. NameEnd(q, m1) \in m1 + 1..Len(q) + 1 /\ NameEnd(q, m2) \in m2 + 1..Len(q) + 1
      BY <1>4, NamePlace DEF M
    <2>3. Len(p) \in Nat /\ Len(q) \in Nat
      BY DEF Absolute
    <2> QED BY <1>5, <2>1, <2>2, <2>3
  <1>8. CASE n1 = n2
    <2>1. Rank(M, m1) = Rank(M, m2)
      BY <1>1, <1>2, <1>8
    <2>2. m1 = m2
      BY <1>3, <1>4, <2>1, NthOfRank
    <2> QED BY <1>1, <1>2, <1>5, <1>8, <2>2
  <1>9. CASE n1 < n2
    <2>1. Rank(N, n1) < Rank(N, n2)
      BY <1>3, <1>4, <1>5, <1>9, RankFacts
    <2>2. Rank(M, m1) < Rank(M, m2) /\ Rank(M, m1) \in Nat /\ Rank(M, m2) \in Nat
      <3>1. Rank(M, m1) \in 0..Cardinality(M) /\ Rank(M, m2) \in 0..Cardinality(M) /\ Cardinality(M) \in Nat
        BY <1>3, <1>5, RankFacts
      <3> QED BY <1>1, <1>2, <2>1, <3>1
    <2>3. m1 < m2
      <3> SUFFICES ASSUME m2 <= m1 PROVE FALSE
        BY <1>5
      <3>1. Rank(M, m2) <= Rank(M, m1)
        BY <1>3, <1>5, RankFacts
      <3> QED BY <2>2, <3>1
    <2>4. NameEnd(q, m1) <= m2 - 1
      BY <1>4, <2>3, NamesInOrder DEF M
    <2> QED BY <1>5, <1>6, <1>7, <2>4
  <1>10. CASE n2 < n1
    <2>1. NameEnd(p, n2) <= n1 - 1
      BY <1>4, <1>10, NamesInOrder DEF N
    <2> QED BY <1>5, <1>6, <1>7, <2>1
  <1> QED BY <1>5, <1>8, <1>9, <1>10

(* A match is a match from the other side.                                 *)
LEMMA MatchesBack ==
  ASSUME NEW p, NEW q, NEW i, NEW j, Matches(p, q, i, j)
  PROVE  Matches(q, p, j, i)
PROOF
  <1>1. PICK n, m : /\ Spans(p, n, i) /\ Spans(q, m, j)
                    /\ Rank(NameStarts(p), n) = Rank(NameStarts(q), m) /\ i - n = j - m
    BY DEF Matches
  <1>2. Rank(NameStarts(q), m) = Rank(NameStarts(p), n) /\ j - m = i - n
    BY <1>1
  <1> QED BY <1>1, <1>2, Zenon DEF Matches

(* A kept position has at most the rank of its match.                      *)
LEMMA MatchRanks ==
  ASSUME NEW p, Absolute(p), NEW q, Absolute(q), File(p) = File(q)
  PROVE  /\ Cardinality(Kept(p)) <= Cardinality(Kept(q))
         /\ \A i \in Kept(p), j \in Kept(q) : Matches(p, q, i, j) => Rank(Kept(p), i) <= Rank(Kept(q), j)
PROOF
  <1> DEFINE S == Kept(p)
             T == Kept(q)
             f == [i \in S |-> CHOOSE j \in T : Matches(p, q, i, j)]
  <1>1. S \in SUBSET Nat /\ IsFiniteSet(S) /\ T \in SUBSET Nat /\ IsFiniteSet(T)
    BY NamesFinite
  <1>2. ASSUME NEW i \in S PROVE f[i] \in T /\ Matches(p, q, i, f[i])
    <2>1. \E j \in T : Matches(p, q, i, j)
      BY EachHasAMatch
    <2> QED BY <2>1
  <1>3. f \in [S -> T]
    BY <1>2
  <1> HIDE DEF f, S, T
  <1>4. ASSUME NEW i1 \in S, NEW i2 \in S, i1 < i2 PROVE f[i1] < f[i2]
    <2>1. i1 \in Nat /\ i2 \in Nat /\ f[i1] \in Nat /\ f[i2] \in Nat
      BY <1>1, <1>2
    <2>2. Matches(p, q, i1, f[i1]) /\ Matches(p, q, i2, f[i2])
      BY <1>2
    <2> QED BY <1>4, <2>1, <2>2, MatchesInOrder
  <1>5. Cardinality(S) <= Cardinality(T) /\ \A i \in S : Rank(S, i) <= Rank(T, f[i])
    BY <1>1, <1>3, <1>4, RanksEmbed
  <1>6. ASSUME NEW i \in S, NEW j \in T, Matches(p, q, i, j) PROVE f[i] = j
    <2>1. i \in Nat /\ j \in Nat /\ f[i] \in Nat
      BY <1>1, <1>2
    <2>2. Matches(q, p, j, i) /\ Matches(q, p, f[i], i)
      BY <1>2, <1>6, MatchesBack
    <2>3. ~(j < f[i]) /\ ~(f[i] < j)
      BY <2>1, <2>2, MatchesInOrder
    <2> QED BY <2>1, <2>3
  <1> QED BY <1>5, <1>6 DEF S, T

(* Paths that name one file have one key.                                  *)
LEMMA OneFileOneKey ==
  ASSUME NEW p, Absolute(p), NEW q, Absolute(q), File(p) = File(q)
  PROVE  filesystemRecordKey(p) = filesystemRecordKey(q)
PROOF
  <1> DEFINE S == Kept(p)
             T == Kept(q)
             c == Cardinality(S)
  <1>1. S \in SUBSET Nat /\ IsFiniteSet(S) /\ T \in SUBSET Nat /\ IsFiniteSet(T)
    BY NamesFinite
  <1>2. Cardinality(S) \in Nat /\ Cardinality(T) \in Nat
    BY <1>1, FS_CardinalityType
  <1>3. Cardinality(S) <= Cardinality(T) /\ Cardinality(T) <= Cardinality(S)
    BY MatchRanks
  <1>4. Cardinality(T) = c /\ c \in Nat
    BY <1>2, <1>3
  <1>5. filesystemRecordKey(p) = IF S = {} THEN slash ELSE [k \in 1..c |-> p[Nth(S, k)]]
    BY DEF filesystemRecordKey, Kept
  <1>6. filesystemRecordKey(q) = IF T = {} THEN slash ELSE [k \in 1..Cardinality(T) |-> q[Nth(T, k)]]
    BY DEF filesystemRecordKey, Kept
  <1> HIDE DEF c
  <1>7. S = {} <=> T = {}
    BY <1>1, <1>4, FS_EmptySet DEF c
  <1>8. ASSUME NEW k \in 1..c PROVE p[Nth(S, k)] = q[Nth(T, k)]
    <2> DEFINE i == Nth(S, k)
    <2>1. i \in S /\ Rank(S, i) = k
      BY <1>1, EveryRank DEF c
    <2>2. PICK j \in T : Matches(p, q, i, j) /\ p[i] = q[j]
      BY <2>1, EachHasAMatch
    <2>3. Rank(S, i) <= Rank(T, j)
      BY <2>1, <2>2, MatchRanks
    <2>4. Rank(T, j) <= Rank(S, i)
      BY <2>1, <2>2, MatchesBack, MatchRanks
    <2>5. Rank(S, i) \in Nat /\ Rank(T, j) \in Nat
      <3>1. Rank(S, i) \in 1..Cardinality(S) /\ Rank(T, j) \in 1..Cardinality(T)
        BY <1>1, <2>1, NthOfRank
      <3> QED BY <1>2, <3>1
    <2>6. Rank(T, j) = k
      BY <2>1, <2>3, <2>4, <2>5
    <2>7. Nth(T, k) = j
      BY <1>1, <2>6, NthOfRank
    <2> QED BY <2>2, <2>7
  <1> HIDE DEF S, T
  <1>9. CASE S = {}
    BY <1>5, <1>6, <1>7, <1>9
  <1>10. CASE S # {}
    <2>1. filesystemRecordKey(p) = [k \in 1..c |-> p[Nth(S, k)]]
      BY <1>5, <1>10
    <2>2. filesystemRecordKey(q) = [k \in 1..c |-> q[Nth(T, k)]]
      BY <1>4, <1>6, <1>7, <1>10
    <2> QED BY <1>8, <2>1, <2>2
  <1> QED BY <1>9, <1>10

(* In a run of kept positions every position has the next rank.            *)
LEMMA RunRank ==
  ASSUME NEW S \in SUBSET Nat, IsFiniteSet(S), NEW a \in Nat, NEW h \in Nat, \A i \in a..a + h : i \in S
  PROVE  Rank(S, a + h) = Rank(S, a) + h
PROOF
  <1> DEFINE A == Upto(S, a)
             B == a + 1..a + h
             C == Upto(S, a + h)
  <1>1. ASSUME NEW i PROVE i \in C <=> i \in A \cup B
    <2>1. i \in S => i \in Nat
      OBVIOUS
    <2>2. i \in B => i \in S /\ i <= a + h
      OBVIOUS
    <2>3. i \in S => (i <= a + h <=> i <= a \/ i \in B)
      BY <2>1
    <2> QED BY <2>2, <2>3 DEF Upto
  <1>2. C = A \cup B
    BY <1>1
  <1>3. A \cap B = {}
    BY DEF Upto
  <1>4. IsFiniteSet(A)
    BY RankFacts
  <1>5. IsFiniteSet(B) /\ Cardinality(B) = h
    <2>1. /\ IsFiniteSet(a + 1..a + h)
          /\ Cardinality(a + 1..a + h) = IF a + 1 > a + h THEN 0 ELSE (a + h) - (a + 1) + 1
      BY FS_Interval
    <2> QED BY <2>1
  <1> HIDE DEF A, B, C
  <1>6. Cardinality(A \cup B) = Cardinality(A) + Cardinality(B) - Cardinality(A \cap B)
    BY <1>4, <1>5, FS_Union
  <1>7. Cardinality(A \cap B) = 0
    BY <1>3, FS_EmptySet
  <1>8. Cardinality(A) \in Nat
    BY <1>4, FS_CardinalityType
  <1>9. Cardinality(C) = Cardinality(A) + h
    BY <1>2, <1>5, <1>6, <1>7, <1>8
  <1> QED BY <1>9 DEF Rank, A, C

(* What is kept of p is, byte by byte, what is kept of q.                  *)
Twins(p, q) ==
    /\ Cardinality(Kept(p)) = Cardinality(Kept(q))
    /\ \A i \in Kept(p), j \in Kept(q) : Rank(Kept(p), i) = Rank(Kept(q), j) => p[i] = q[j]

(* A name is kept, with the slash before it.                               *)
LEMMA NameIsKept ==
  ASSUME NEW p, Absolute(p), NEW n \in NameStarts(p), NEW i \in n - 1..NameEnd(p, n) - 1
  PROVE  i \in Kept(p)
PROOF
  <1>1. n \in 2..Len(p) /\ NameEnd(p, n) \in n + 1..Len(p) + 1 /\ Len(p) \in Nat
    BY NamePlace DEF Absolute
  <1>2. i \in Nat /\ n - 1 <= i /\ i < NameEnd(p, n)
    BY <1>1
  <1>3. Spans(p, n, i)
    BY <1>2 DEF Spans
  <1> QED BY <1>2, <1>3, KeptIsSpanned

(* A path of which anything is kept has a key of more than one byte.       *)
LEMMA KeptIsNoSlash ==
  ASSUME NEW q, Absolute(q), Kept(q) # {}
  PROVE  Cardinality(Kept(q)) \in Nat /\ 2 <= Cardinality(Kept(q))
PROOF
  <1> DEFINE T == Kept(q)
  <1>1. T \in SUBSET Nat /\ IsFiniteSet(T)
    BY NamesFinite
  <1>2. PICK j \in T : TRUE
    OBVIOUS
  <1>3. PICK m : Spans(q, m, j)
    BY <1>2, KeptIsSpanned
  <1>4. m \in NameStarts(q)
    BY <1>3 DEF Spans
  <1>5. m \in 2..Len(q) /\ NameEnd(q, m) \in m + 1..Len(q) + 1 /\ Len(q) \in Nat
    BY <1>4, NamePlace DEF Absolute
  <1>6. m - 1 \in m - 1..NameEnd(q, m) - 1 /\ m \in m - 1..NameEnd(q, m) - 1
    BY <1>5
  <1>7. m - 1 \in T /\ m \in T
    BY <1>4, <1>6, NameIsKept
  <1>8. m - 1 \in Nat /\ m \in Nat /\ m - 1 < m
    BY <1>5
  <1> HIDE DEF T
  <1>9. Rank(T, m - 1) < Rank(T, m)
    BY <1>1, <1>7, <1>8, RankFacts
  <1>10. Rank(T, m - 1) \in 1..Cardinality(T) /\ Rank(T, m) \in 1..Cardinality(T) /\ Cardinality(T) \in Nat
    BY <1>1, <1>7, NthOfRank, FS_CardinalityType
  <1>11. Cardinality(T) \in Nat /\ 2 <= Cardinality(T)
    BY <1>9, <1>10
  <1> QED BY <1>11 DEF T

(* Intervals from one are equal when their ends are.                       *)
LEMMA SameInterval ==
  ASSUME NEW c \in Nat, NEW d \in Nat, 1..c = 1..d
  PROVE  c = d
PROOF
  <1>1. Cardinality(1..c) = c /\ Cardinality(1..d) = d
    <2>1. Cardinality(1..c) = IF 1 > c THEN 0 ELSE c - 1 + 1
      BY FS_Interval
    <2>2. Cardinality(1..d) = IF 1 > d THEN 0 ELSE d - 1 + 1
      BY FS_Interval
    <2> QED BY <2>1, <2>2
  <1> QED BY <1>1

(* Paths with one key.                                                     *)
LEMMA OneKeyTwins ==
  ASSUME NEW p, Absolute(p), NEW q, Absolute(q), filesystemRecordKey(p) = filesystemRecordKey(q)
  PROVE  Twins(p, q)
PROOF
  <1> DEFINE S == Kept(p)
             T == Kept(q)
             c == Cardinality(S)
             d == Cardinality(T)
  <1>1. S \in SUBSET Nat /\ IsFiniteSet(S) /\ T \in SUBSET Nat /\ IsFiniteSet(T)
    BY NamesFinite
  <1>2. c \in Nat /\ d \in Nat
    BY <1>1, FS_CardinalityType
  <1>3. filesystemRecordKey(p) = IF S = {} THEN slash ELSE [k \in 1..c |-> p[Nth(S, k)]]
    BY DEF filesystemRecordKey, Kept
  <1>4. filesystemRecordKey(q) = IF T = {} THEN slash ELSE [k \in 1..d |-> q[Nth(T, k)]]
    BY DEF filesystemRecordKey, Kept
  <1>5. S # {} => 2 <= c
    BY KeptIsNoSlash
  <1>6. T # {} => 2 <= d
    BY KeptIsNoSlash
  <1>7. DOMAIN slash = 1..1
    BY DEF slash
  <1> HIDE DEF c, d, S, T
  <1>8. CASE S = {} /\ T = {}
    BY <1>8 DEF Twins, S, T
  <1>9. CASE S = {} /\ T # {}
    <2>1. 1..1 = 1..d
      BY <1>3, <1>4, <1>7, <1>9
    <2>2. 1 = d
      BY <1>2, <2>1, SameInterval
    <2> QED BY <1>6, <1>9, <2>2
  <1>10. CASE S # {} /\ T = {}
    <2>1. 1..c = 1..1
      BY <1>3, <1>4, <1>7, <1>10
    <2>2. c = 1
      BY <1>2, <2>1, SameInterval
    <2> QED BY <1>5, <1>10, <2>2
  <1>11. CASE S # {} /\ T # {}
    <2> DEFINE f == [k \in 1..c |-> p[Nth(S, k)]]
               g == [k \in 1..d |-> q[Nth(T, k)]]
    <2>1. f = g
      BY <1>3, <1>4, <1>11
    <2>2. 1..c = 1..d
      <3>1. DOMAIN f = 1..c /\ DOMAIN g = 1..d
        OBVIOUS
      <3> HIDE DEF f, g
      <3> QED BY <2>1, <3>1
    <2>3. c = d
      BY <1>2, <2>2, SameInterval
    <2>4. \A k \in 1..c : p[Nth(S, k)] = q[Nth(T, k)]
      <3> TAKE k \in 1..c
      <3>1. f[k] = p[Nth(S, k)] /\ g[k] = q[Nth(T, k)]
        BY <2>2
      <3> HIDE DEF f, g
      <3> QED BY <2>1, <3>1
    <2>5. ASSUME NEW i \in S, NEW j \in T, Rank(S, i) = Rank(T, j) PROVE p[i] = q[j]
      <3>1. Nth(S, Rank(S, i)) = i /\ Rank(S, i) \in 1..c
        BY <1>1, NthOfRank DEF c
      <3>2. Nth(T, Rank(T, j)) = j
        BY <1>1, NthOfRank
      <3> QED BY <2>4, <2>5, <3>1, <3>2
    <2> QED BY <2>3, <2>5 DEF Twins, S, T, c, d
  <1> QED BY <1>8, <1>9, <1>10, <1>11

(* Twins are twins from the other side.                                    *)
LEMMA TwinsBack ==
  ASSUME NEW p, NEW q, Twins(p, q)
  PROVE  Twins(q, p)
  BY DEF Twins

(* The names n of p and m of q start at the same place of what is kept.    *)
NameTwin(p, q, n, m) == Rank(Kept(p), n - 1) = Rank(Kept(q), m - 1)

(* Twins name the same bytes: a name of q is no longer than its twin in p. *)
LEMMA TwinNoLonger ==
  ASSUME NEW p, Absolute(p), NEW q, Absolute(q), Twins(p, q),
         NEW n \in NameStarts(p), NEW m \in NameStarts(q), NameTwin(p, q, n, m)
  PROVE  NameEnd(q, m) - m <= NameEnd(p, n) - n
PROOF
  <1> DEFINE S == Kept(p)
             T == Kept(q)
             e == NameEnd(p, n)
             d == NameEnd(q, m)
             k == Rank(S, n - 1)
             h == e - n + 1
  <1>1. S \in SUBSET Nat /\ IsFiniteSet(S) /\ T \in SUBSET Nat /\ IsFiniteSet(T)
    BY NamesFinite
  <1>2. n \in 2..Len(p) /\ e \in n + 1..Len(p) + 1 /\ Len(p) \in Nat
    <2>1. Len(p) \in Nat
      BY DEF Absolute
    <2> QED BY <2>1, NamePlace, Zenon
  <1>3. /\ m \in 2..Len(q) /\ d \in m + 1..Len(q) + 1 /\ Len(q) \in Nat
        /\ \A j \in m..d - 1 : q[j] # "slash"
    <2>1. Len(q) \in Nat
      BY DEF Absolute
    <2> QED BY <2>1, NamePlace, Zenon
  <1>4. \A i \in n - 1..e - 1 : i \in S
    BY NameIsKept
  <1>5. \A j \in m - 1..d - 1 : j \in T
    BY NameIsKept
  <1>6. Rank(T, m - 1) = k
    BY DEF NameTwin
  <1>7. Cardinality(S) = Cardinality(T) /\ \A i \in S, j \in T : Rank(S, i) = Rank(T, j) => p[i] = q[j]
    BY DEF Twins
  <1>8. n \in Nat /\ m \in Nat /\ e \in Nat /\ d \in Nat /\ 2 <= n /\ 2 <= m /\ n < e /\ m < d
    BY <1>2, <1>3
  <1> HIDE DEF S, T, e, d
  <1>9. k \in 1..Cardinality(S) /\ Cardinality(S) \in Nat
    <2>1. n - 1 \in n - 1..e - 1
      BY <1>8
    <2>2. n - 1 \in S
      BY <1>4, <2>1
    <2> QED BY <1>1, <2>2, NthOfRank, FS_CardinalityType
  <1> HIDE DEF k
  <1> SUFFICES ASSUME h <= d - m PROVE FALSE
    <2>1. d - m <= e - n \/ h <= d - m
      BY <1>8
    <2> QED BY <2>1 DEF d, e
  <1> DEFINE j == (m - 1) + h
             i == Nth(S, k + h)
  <1>10. h \in Nat /\ j \in m..d - 1 /\ j \in m - 1..d - 1
    BY <1>8
  <1>11. j \in T /\ q[j] # "slash"
    BY <1>3, <1>5, <1>10
  <1>12. Rank(T, j) = k + h
    <2>1. m - 1 \in Nat /\ h \in Nat
      BY <1>8, <1>10
    <2>2. \A y \in m - 1..(m - 1) + h : y \in m - 1..d - 1
      BY <1>8, <1>10
    <2>3. \A y \in m - 1..(m - 1) + h : y \in T
      BY <1>5, <2>2
    <2>4. Rank(T, (m - 1) + h) = Rank(T, m - 1) + h
      BY <1>1, <2>1, <2>3, RunRank
    <2> QED BY <1>6, <2>4
  <1> HIDE DEF j
  <1>13. k + h \in 1..Cardinality(S)
    <2>1. Rank(T, j) \in 1..Cardinality(T)
      BY <1>1, <1>11, NthOfRank
    <2> QED BY <1>7, <1>12, <2>1
  <1>14. i \in S /\ Rank(S, i) = k + h
    BY <1>1, <1>13, EveryRank
  <1> HIDE DEF i
  <1>15. p[i] # "slash"
    BY <1>7, <1>11, <1>12, <1>14
  <1>16. Rank(S, e - 1) = k + (e - n)
    <2>1. n - 1 \in Nat /\ e - n \in Nat /\ (n - 1) + (e - n) = e - 1
      BY <1>8
    <2>2. \A y \in n - 1..(n - 1) + (e - n) : y \in S
      BY <1>4, <2>1
    <2>3. Rank(S, (n - 1) + (e - n)) = Rank(S, n - 1) + (e - n)
      <3> DEFINE g == e - n
      <3> HIDE DEF g
      <3>1. n - 1 \in Nat /\ g \in Nat /\ \A y \in n - 1..(n - 1) + g : y \in S
        BY <2>1, <2>2 DEF g
      <3>2. Rank(S, (n - 1) + g) = Rank(S, n - 1) + g
        BY <1>1, <3>1, RunRank
      <3> QED BY <3>2 DEF g
    <2> QED BY <2>1, <2>3 DEF k
  <1>17. i \in Nat /\ e - 1 < i
    <2>1. i \in Nat /\ e - 1 \in Nat
      BY <1>1, <1>8, <1>14
    <2>2. i <= e - 1 => Rank(S, i) <= Rank(S, e - 1)
      BY <1>1, <2>1, RankFacts
    <2> QED BY <1>8, <1>9, <1>14, <1>16, <2>1, <2>2
  <1>18. PICK y : Spans(p, y, i)
    BY <1>14, KeptIsSpanned DEF S
  <1> DEFINE z == NameEnd(p, y)
  <1>19. y \in NameStarts(p) /\ y - 1 <= i /\ i < z
    BY <1>18 DEF Spans
  <1>20. y \in 2..Len(p) /\ p[y - 1] = "slash" /\ z \in y + 1..Len(p) + 1
    BY <1>19, NamePlace
  <1>21. y \in Nat /\ 2 <= y /\ z \in Nat /\ y < z
    BY <1>2, <1>20
  <1>22. y # n
    BY <1>17, <1>19, <1>21, <1>8 DEF z, e
  <1>23. ~(y < n)
    <2> SUFFICES ASSUME y < n PROVE FALSE
      OBVIOUS
    <2>1. z <= n - 1
      BY <1>19, NamesInOrder
    <2> HIDE DEF z
    <2> QED BY <1>8, <1>17, <1>19, <1>21, <2>1
  <1>24. e <= y - 1
    <2>1. n < y
      BY <1>8, <1>21, <1>22, <1>23
    <2> QED BY <1>19, <2>1, NamesInOrder DEF e
  <1>25. y - 1 \in S
    <2>1. y - 1 \in y - 1..NameEnd(p, y) - 1
      BY <1>21
    <2> QED BY <1>19, <2>1, NameIsKept DEF S
  <1> HIDE DEF z
  <1>26. y - 1 \in Nat /\ e - 1 \in Nat /\ e - 1 < y - 1 /\ y - 1 # i
    BY <1>8, <1>15, <1>20, <1>21, <1>24
  <1>27. y - 1 < i
    BY <1>17, <1>19, <1>26
  <1>28. Rank(S, e - 1) < Rank(S, y - 1) /\ Rank(S, y - 1) < Rank(S, i)
    BY <1>1, <1>14, <1>17, <1>25, <1>26, <1>27, RankFacts
  <1>29. Rank(S, y - 1) \in Nat
    <2>1. Rank(S, y - 1) \in 0..Cardinality(S)
      BY <1>1, <1>26, RankFacts
    <2> QED BY <1>9, <2>1
  <1> QED BY <1>8, <1>9, <1>14, <1>16, <1>28, <1>29

(* Every name has a twin, which is the same name.                          *)
LEMMA EachHasATwin ==
  ASSUME NEW p, Absolute(p), NEW q, Absolute(q), Twins(p, q), NEW n \in NameStarts(p)
  PROVE  \E m \in NameStarts(q) : NameTwin(p, q, n, m) /\ Part(p, "slash", n) = Part(q, "slash", m)
PROOF
  <1> DEFINE S == Kept(p)
             T == Kept(q)
             e == NameEnd(p, n)
             k == Rank(S, n - 1)
             j == Nth(T, k)
             m == j + 1
  <1>1. S \in SUBSET Nat /\ IsFiniteSet(S) /\ T \in SUBSET Nat /\ IsFiniteSet(T)
    BY NamesFinite
  <1>2. /\ n \in 2..Len(p) /\ p[n - 1] = "slash" /\ e \in n + 1..Len(p) + 1 /\ Len(p) \in Nat
        /\ Len(Part(p, "slash", n)) = e - n
        /\ \A y \in 1..e - n : Part(p, "slash", n)[y] = p[n + y - 1]
    BY NamePlace DEF Absolute
  <1>3. \A i \in n - 1..e - 1 : i \in S
    BY NameIsKept
  <1>4. Cardinality(S) = Cardinality(T) /\ \A i \in S, y \in T : Rank(S, i) = Rank(T, y) => p[i] = q[y]
    BY DEF Twins
  <1>5. q \in Seq(Byte) /\ Len(q) \in Nat /\ DOMAIN q = 1..Len(q) /\ p \in Seq(Byte)
    BY DEF Absolute
  <1>6. n \in Nat /\ e \in Nat /\ 2 <= n /\ n < e
    BY <1>2
  <1> HIDE DEF S, e
  <1>7. n - 1 \in S
    <2>1. n - 1 \in n - 1..e - 1
      BY <1>6
    <2> QED BY <1>3, <2>1
  <1>8. k \in 1..Cardinality(T)
    BY <1>1, <1>4, <1>7, NthOfRank
  <1>9. j \in T /\ Rank(T, j) = k
    BY <1>1, <1>8, EveryRank
  <1> HIDE DEF k, j
  <1>10. q[j] = "slash"
    BY <1>2, <1>4, <1>7, <1>9 DEF k
  <1>11. j \in 1..Len(q) /\ j < Len(q) /\ q[j + 1] # "slash"
    BY <1>5, <1>9, <1>10 DEF Kept
  <1>12. m \in 1..Len(q) /\ m - 1 = j /\ m \in Nat
    BY <1>5, <1>11
  <1>13. m \in NameStarts(q)
    BY <1>5, <1>10, <1>11, <1>12 DEF NameStarts, Starts
  <1>14. NameTwin(p, q, n, m)
    BY <1>9, <1>12 DEF NameTwin, k, S
  <1> HIDE DEF m
  <1> DEFINE d == NameEnd(q, m)
  <1>15. /\ m \in 2..Len(q) /\ d \in m + 1..Len(q) + 1
         /\ Len(Part(q, "slash", m)) = d - m
         /\ \A y \in 1..d - m : Part(q, "slash", m)[y] = q[m + y - 1]
    BY <1>13, NamePlace
  <1>16. d - m <= e - n
    BY <1>13, <1>14, TwinNoLonger DEF e
  <1>17. e - n <= d - m
    <2>1. Twins(q, p) /\ NameTwin(q, p, m, n)
      BY <1>14, TwinsBack DEF NameTwin
    <2> QED BY <1>13, <2>1, TwinNoLonger DEF e
  <1>18. \A y \in m - 1..d - 1 : y \in T
    BY <1>13, NameIsKept
  <1> HIDE DEF d, T
  <1>19. m \in Nat /\ d \in Nat /\ 2 <= m /\ m < d
    BY <1>5, <1>15
  <1>20. e - n = d - m
    BY <1>6, <1>16, <1>17, <1>19
  <1>21. ASSUME NEW y \in 1..e - n PROVE p[n + y - 1] = q[m + y - 1]
    <2>1. y \in Nat /\ n - 1 \in Nat /\ m - 1 \in Nat /\ n + y - 1 = (n - 1) + y /\ m + y - 1 = (m - 1) + y
      BY <1>6, <1>19
    <2>2. \A z \in n - 1..(n - 1) + y : z \in S
      <3>1. \A z \in n - 1..(n - 1) + y : z \in n - 1..e - 1
        BY <1>6, <2>1
      <3> QED BY <1>3, <3>1
    <2>3. \A z \in m - 1..(m - 1) + y : z \in T
      <3>1. \A z \in m - 1..(m - 1) + y : z \in m - 1..d - 1
        BY <1>19, <1>20, <2>1
      <3> QED BY <1>18, <3>1
    <2>4. Rank(S, (n - 1) + y) = Rank(S, n - 1) + y
      BY <1>1, <2>1, <2>2, RunRank
    <2>5. Rank(T, (m - 1) + y) = Rank(T, m - 1) + y
      BY <1>1, <2>1, <2>3, RunRank
    <2>6. Rank(S, n - 1) = Rank(T, m - 1)
      BY <1>14 DEF NameTwin, S, T
    <2>7. (n - 1) + y \in S /\ (m - 1) + y \in T
      <3>1. (n - 1) + y \in n - 1..(n - 1) + y /\ (m - 1) + y \in m - 1..(m - 1) + y
        BY <2>1
      <3> QED BY <2>2, <2>3, <3>1
    <2>8. p[(n - 1) + y] = q[(m - 1) + y]
      BY <1>4, <2>4, <2>5, <2>6, <2>7
    <2> QED BY <2>1, <2>8
  <1>22. Part(p, "slash", n) = Part(q, "slash", m)
    <2> DEFINE u == Part(p, "slash", n)
               v == Part(q, "slash", m)
    <2>1. u \in Seq(Byte) /\ v \in Seq(Byte)
      <3>1. n \in 1..Len(p) + 1 /\ m \in 1..Len(q) + 1
        BY <1>2, <1>15, <1>5
      <3> QED BY <1>5, <3>1, PartBytes, PartEnds
    <2>2. Len(u) = e - n /\ Len(v) = e - n
      BY <1>2, <1>15, <1>20
    <2>3. \A y \in 1..e - n : u[y] = v[y]
      BY <1>2, <1>15, <1>20, <1>21
    <2> HIDE DEF u, v
    <2>4. u = v
      BY <2>1, <2>2, <2>3, SeqEqual
    <2> QED BY <2>4 DEF u, v
  <1> QED BY <1>13, <1>14, <1>22

(* A later name has a later twin.                                          *)
LEMMA TwinsInOrder ==
  ASSUME NEW p, Absolute(p), NEW q, Absolute(q),
         NEW n1 \in NameStarts(p), NEW m1 \in NameStarts(q), NameTwin(p, q, n1, m1),
         NEW n2 \in NameStarts(p), NEW m2 \in NameStarts(q), NameTwin(p, q, n2, m2), n1 < n2
  PROVE  m1 < m2
PROOF
  <1> DEFINE S == Kept(p)
             T == Kept(q)
  <1>1. S \in SUBSET Nat /\ IsFiniteSet(S) /\ T \in SUBSET Nat /\ IsFiniteSet(T)
    BY NamesFinite
  <1>2. /\ n1 \in 2..Len(p) /\ n2 \in 2..Len(p) /\ Len(p) \in Nat
        /\ NameEnd(p, n2) \in n2 + 1..Len(p) + 1
    <2>1. Len(p) \in Nat
      BY DEF Absolute
    <2> QED BY <2>1, NamePlace, Zenon
  <1>3. m1 \in 2..Len(q) /\ m2 \in 2..Len(q) /\ Len(q) \in Nat
    <2>1. Len(q) \in Nat
      BY DEF Absolute
    <2> QED BY <2>1, NamePlace, Zenon
  <1>4. n2 - 1 \in S
    <2>1. n2 - 1 \in n2 - 1..NameEnd(p, n2) - 1
      BY <1>2
    <2> QED BY <2>1, NameIsKept
  <1>5. Rank(S, n1 - 1) = Rank(T, m1 - 1) /\ Rank(S, n2 - 1) = Rank(T, m2 - 1)
    BY DEF NameTwin
  <1> HIDE DEF S, T
  <1>6. n1 - 1 \in Nat /\ n2 - 1 \in Nat /\ n1 - 1 < n2 - 1 /\ m1 - 1 \in Nat /\ m2 - 1 \in Nat
    BY <1>2, <1>3
  <1>7. Rank(S, n1 - 1) < Rank(S, n2 - 1)
    BY <1>1, <1>4, <1>6, RankFacts
  <1>8. Rank(T, m1 - 1) \in Nat /\ Rank(T, m2 - 1) \in Nat
    <2>1. /\ Cardinality(T) \in Nat
          /\ Rank(T, m1 - 1) \in 0..Cardinality(T) /\ Rank(T, m2 - 1) \in 0..Cardinality(T)
      BY <1>1, <1>6, RankFacts
    <2> QED BY <2>1
  <1>9. m2 - 1 <= m1 - 1 => Rank(T, m2 - 1) <= Rank(T, m1 - 1)
    BY <1>1, <1>6, RankFacts
  <1> QED BY <1>3, <1>5, <1>6, <1>7, <1>8, <1>9

(* A name has at most the rank of its twin.                                *)
LEMMA TwinRanks ==
  ASSUME NEW p, Absolute(p), NEW q, Absolute(q), Twins(p, q)
  PROVE  /\ Cardinality(NameStarts(p)) <= Cardinality(NameStarts(q))
         /\ \A n \in NameStarts(p), m \in NameStarts(q) :
               NameTwin(p, q, n, m) => Rank(NameStarts(p), n) <= Rank(NameStarts(q), m)
PROOF
  <1> DEFINE N == NameStarts(p)
             M == NameStarts(q)
             f == [n \in N |-> CHOOSE m \in M : NameTwin(p, q, n, m)]
  <1>1. N \in SUBSET Nat /\ IsFiniteSet(N) /\ M \in SUBSET Nat /\ IsFiniteSet(M)
    BY NamesFinite
  <1>2. ASSUME NEW n \in N PROVE f[n] \in M /\ NameTwin(p, q, n, f[n])
    <2>1. \E m \in M : NameTwin(p, q, n, m)
      BY EachHasATwin
    <2> QED BY <2>1
  <1>3. f \in [N -> M]
    BY <1>2
  <1> HIDE DEF f
  <1>4. ASSUME NEW n1 \in N, NEW n2 \in N, n1 < n2 PROVE f[n1] < f[n2]
    BY <1>2, <1>4, TwinsInOrder
  <1>5. ASSUME NEW n \in N, NEW m \in M, NameTwin(p, q, n, m) PROVE f[n] = m
    <2>1. NameTwin(q, p, m, n) /\ NameTwin(q, p, f[n], n)
      BY <1>2, <1>5 DEF NameTwin
    <2>2. n \in Nat /\ m \in Nat /\ f[n] \in Nat /\ ~(n < n) /\ f[n] \in M
      BY <1>1, <1>2
    <2>3. m < f[n] => n < n
      BY <2>1, <2>2, TwinsInOrder
    <2>4. f[n] < m => n < n
      BY <2>1, <2>2, TwinsInOrder
    <2> QED BY <2>2, <2>3, <2>4
  <1> HIDE DEF N, M
  <1>6. Cardinality(N) <= Cardinality(M) /\ \A n \in N : Rank(N, n) <= Rank(M, f[n])
    BY <1>1, <1>3, <1>4, RanksEmbed
  <1> QED BY <1>5, <1>6 DEF N, M

(* Paths that have one key name one file.                                  *)
LEMMA OneKeyOneFile ==
  ASSUME NEW p, Absolute(p), NEW q, Absolute(q), filesystemRecordKey(p) = filesystemRecordKey(q)
  PROVE  File(p) = File(q)
PROOF
  <1> DEFINE N == NameStarts(p)
             M == NameStarts(q)
             c == Cardinality(N)
  <1>1. N \in SUBSET Nat /\ IsFiniteSet(N) /\ M \in SUBSET Nat /\ IsFiniteSet(M)
    BY NamesFinite
  <1>2. Twins(p, q) /\ Twins(q, p)
    BY OneKeyTwins, TwinsBack
  <1>3. Cardinality(N) \in Nat /\ Cardinality(M) \in Nat
    BY <1>1, FS_CardinalityType
  <1>4. Cardinality(N) <= Cardinality(M) /\ Cardinality(M) <= Cardinality(N)
    BY <1>2, TwinRanks
  <1>5. Cardinality(M) = c
    BY <1>3, <1>4
  <1>6. File(p) = [h \in 1..c |-> Part(p, "slash", Nth(N, h))]
    BY DEF File, Parts, NameStarts
  <1>7. File(q) = [h \in 1..Cardinality(M) |-> Part(q, "slash", Nth(M, h))]
    BY DEF File, Parts, NameStarts
  <1>8. ASSUME NEW h \in 1..c PROVE Part(p, "slash", Nth(N, h)) = Part(q, "slash", Nth(M, h))
    <2> DEFINE n == Nth(N, h)
    <2>1. n \in N /\ Rank(N, n) = h
      BY <1>1, EveryRank
    <2> HIDE DEF n
    <2>2. PICK m \in M : NameTwin(p, q, n, m) /\ Part(p, "slash", n) = Part(q, "slash", m)
      BY <1>2, <2>1, EachHasATwin
    <2>3. Rank(N, n) <= Rank(M, m)
      BY <1>2, <2>1, <2>2, TwinRanks
    <2>4. Rank(M, m) <= Rank(N, n)
      <3>1. NameTwin(q, p, m, n)
        BY <2>2 DEF NameTwin
      <3> QED BY <1>2, <2>1, <2>2, <3>1, TwinRanks
    <2>5. Nth(M, Rank(M, m)) = m /\ Rank(M, m) \in 1..Cardinality(M)
      BY <1>1, NthOfRank
    <2> HIDE DEF N, M, c
    <2>6. Rank(M, m) = h
      BY <1>3, <2>1, <2>3, <2>4, <2>5
    <2> QED BY <2>2, <2>5, <2>6 DEF n
  <1> HIDE DEF N, M, c
  <1> QED BY <1>5, <1>6, <1>7, <1>8

(* A key is a path.                                                        *)
LEMMA KeyBytes ==
  ASSUME NEW p \in Seq(Byte)
  PROVE  filesystemRecordKey(p) \in Seq(Byte)
PROOF
  <1> DEFINE S == Kept(p)
             c == Cardinality(S)
             f == [k \in 1..c |-> p[Nth(S, k)]]
  <1>1. Len(p) \in Nat /\ DOMAIN p = 1..Len(p)
    OBVIOUS
  <1>2. S \in SUBSET (1..Len(p)) /\ IsFiniteSet(1..Len(p)) /\ 1..Len(p) \in SUBSET Nat
    <2>1. S \in SUBSET (1..Len(p))
      BY <1>1 DEF Kept
    <2>2. 1..Len(p) \in SUBSET Nat
      BY <1>1
    <2>3. IsFiniteSet(1..Len(p))
      <3>1. 1 \in Int /\ Len(p) \in Int
        BY <1>1
      <3> QED BY <3>1, FS_Interval, Zenon
    <2> QED BY <2>1, <2>2, <2>3, Zenon
  <1>3. S \in SUBSET Nat /\ IsFiniteSet(S)
    BY <1>2, FS_Subset
  <1>4. filesystemRecordKey(p) = IF S = {} THEN slash ELSE f
    BY DEF filesystemRecordKey, Kept
  <1>5. c \in Nat
    BY <1>3, FS_CardinalityType
  <1>6. \A k \in 1..c : Nth(S, k) \in S
    BY <1>3, EveryRank
  <1> HIDE DEF S
  <1>7. \A k \in 1..c : p[Nth(S, k)] \in Byte
    <2>1. \A i \in S : p[i] \in Byte
      BY <1>2
    <2> QED BY <1>6, <2>1
  <1> HIDE DEF c
  <1>8. f \in [1..c -> Byte]
    BY <1>7
  <1> HIDE DEF f
  <1>9. f \in Seq(Byte)
    BY <1>5, <1>8
  <1>10. slash \in Seq(Byte)
    BY DEF slash, Byte
  <1> QED BY <1>4, <1>9, <1>10

(* A path is absolute when its beginning is.                               *)
LEMMA AbsoluteJoined ==
  ASSUME NEW p, Absolute(p), NEW q \in Seq(Byte)
  PROVE  Absolute(p \o q)
PROOF
  <1>1. p \in Seq(Byte) /\ p[1] = "slash" /\ p # <<>>
    BY DEF Absolute
  <1>2. Len(p) \in Nat /\ Len(p) # 0 /\ Len(q) \in Nat
    BY <1>1
  <1> DEFINE r == p \o q
  <1>3. /\ r \in Seq(Byte) /\ Len(r) = Len(p) + Len(q)
        /\ \A i \in 1..Len(p) + Len(q) : r[i] = IF i <= Len(p) THEN p[i] ELSE q[i - Len(p)]
    BY <1>1, ConcatProperties
  <1> HIDE DEF r
  <1>4. r[1] = p[1] /\ Len(r) # 0
    BY <1>2, <1>3
  <1>5. r # <<>>
    BY <1>4, EmptySeq
  <1> QED BY <1>1, <1>3, <1>4, <1>5 DEF Absolute, r

(* The paths in the launch view are absolute.                              *)
LEMMA LaunchAbsolute ==
  /\ Absolute(slash) /\ Absolute(x) /\ Absolute(x \o x) /\ Absolute(x \o x \o x)
PROOF
  <1>1. slash \in Seq(Byte) /\ Len(slash) = 1 /\ slash[1] = "slash"
    BY DEF slash, Byte
  <1>2. x \in Seq(Byte) /\ Len(x) = 2 /\ x[1] = "slash"
    BY DEF x, Byte
  <1>3. Absolute(slash) /\ Absolute(x)
    <2>1. slash # <<>> /\ x # <<>>
      <3>1. Len(slash) # Len(<<>>) /\ Len(x) # Len(<<>>)
        BY <1>1, <1>2, EmptySeq
      <3> QED BY <3>1, Zenon
    <2> QED BY <1>1, <1>2, <2>1, Zenon DEF Absolute
  <1>4. Absolute(x \o x)
    BY <1>2, <1>3, AbsoluteJoined, Zenon
  <1>5. Absolute((x \o x) \o x)
    BY <1>2, <1>4, AbsoluteJoined, Zenon
  <1> QED BY <1>3, <1>4, <1>5, Zenon

(* A record of a file has an absolute path.                                *)
AddressOK(u) == u.kind # "virtual" => Absolute(u.path)

(* Records of absolute paths, and the virtual one.                         *)
LEMMA GoodRecords ==
  ASSUME NEW d \in {".", "..", "x", "path"}, NEW p, Absolute(p)
  PROVE  /\ Local(d, p) \in Records /\ AddressOK(Local(d, p))
         /\ Record("virtual", "..", <<>>) \in Records /\ AddressOK(Record("virtual", "..", <<>>))
PROOF
  <1>1. p \in Seq(Byte) /\ <<>> \in Seq(Byte)
    BY DEF Absolute
  <1>2. Local(d, p) \in Records /\ Local(d, p).path = p
    BY <1>1, RecordFields DEF Local
  <1>3. Record("virtual", "..", <<>>) \in Records /\ Record("virtual", "..", <<>>).kind = "virtual"
    BY <1>1, RecordFields
  <1> QED BY <1>2, <1>3 DEF AddressOK

(* The records of the roots are two records.                               *)
LEMMA RootRecords ==
  ASSUME NEW l \in {"inner", "root", "drive root"}
  PROVE  \E u, v \in Records : rootRecords(l) = <<u, v>> /\ AddressOK(u) /\ AddressOK(v)
PROOF
  <1> DEFINE a == x
             b == x \o x
  <1>1. Absolute(a) /\ Absolute(b) /\ Absolute(slash)
    BY LaunchAbsolute, Zenon
  <1>2. rootRecords(l) = CASE l = "inner" -> << Local(".", b), Local("..", a) >>
                           [] l = "root" -> << Local(".", slash), Local("..", slash) >>
                           [] l = "drive root" -> << Local(".", a), Record("virtual", "..", <<>>) >>
    BY DEF rootRecords
  <1> HIDE DEF a, b
  <1>3. /\ Local(".", b) \in Records /\ Local("..", a) \in Records /\ Local(".", slash) \in Records
        /\ Local("..", slash) \in Records /\ Local(".", a) \in Records
        /\ Record("virtual", "..", <<>>) \in Records
        /\ AddressOK(Local(".", b)) /\ AddressOK(Local("..", a)) /\ AddressOK(Local(".", slash))
        /\ AddressOK(Local("..", slash)) /\ AddressOK(Local(".", a))
        /\ AddressOK(Record("virtual", "..", <<>>))
    <2>1. "." \in {".", "..", "x", "path"} /\ ".." \in {".", "..", "x", "path"}
      OBVIOUS
    <2> QED BY <1>1, <2>1, GoodRecords, Zenon
  <1>4. CASE l = "inner"
    <2>1. rootRecords(l) = << Local(".", b), Local("..", a) >>
      BY <1>2, <1>4
    <2> QED BY <1>3, <2>1, Zenon
  <1>5. CASE l = "root"
    <2>1. rootRecords(l) = << Local(".", slash), Local("..", slash) >>
      BY <1>2, <1>5
    <2> QED BY <1>3, <2>1, Zenon
  <1>6. CASE l = "drive root"
    <2>1. rootRecords(l) = << Local(".", a), Record("virtual", "..", <<>>) >>
      BY <1>2, <1>6
    <2> QED BY <1>3, <2>1, Zenon
  <1> QED BY <1>4, <1>5, <1>6

(* The records that the parser's paths become, after those of the launch   *)
(* view.                                                                   *)
LEMMA Additions ==
  ASSUME RecordsTypeOK
  PROVE  /\ base \in Seq(Records) /\ Len(base) \in Nat /\ Len(records) \in Nat
         /\ newRecords \in Seq(Records) /\ Len(newRecords) = Len(records)
         /\ \A i \in 1..Len(records) : newRecords[i] = Record("zoxide", "path", records[i])
         /\ Len(base \o newRecords) = Len(base) + Len(records)
         /\ Len(base \o records) = Len(base) + Len(records)
         /\ base \o newRecords \in Seq(Records)
         /\ \A i \in 1..Len(base) : (base \o newRecords)[i] = base[i]
         /\ \A i \in 1..Len(records) : (base \o newRecords)[Len(base) + i] = newRecords[i]
PROOF
  <1>1. base \in Seq(Records) /\ records \in Seq(Seq(Byte))
    BY Zenon DEF RecordsTypeOK
  <1>2. Len(base) \in Nat /\ Len(records) \in Nat /\ DOMAIN records = 1..Len(records)
    BY <1>1
  <1>3. \A i \in 1..Len(records) : records[i] \in Seq(Byte)
    BY <1>1
  <1>4. \A i \in 1..Len(records) : Record("zoxide", "path", records[i]) \in Records
    BY <1>3, RecordFields
  <1>5. newRecords = [i \in 1..Len(records) |-> Record("zoxide", "path", records[i])]
    BY <1>2 DEF newRecords
  <1>6. newRecords \in [1..Len(records) -> Records]
    BY <1>4, <1>5
  <1>7. newRecords \in Seq(Records) /\ Len(newRecords) = Len(records)
    BY <1>2, <1>6
  <1>8. \A i \in 1..Len(records) : newRecords[i] = Record("zoxide", "path", records[i])
    BY <1>5
  <1> DEFINE new == newRecords
             l == base \o new
  <1>9. /\ l \in Seq(Records) /\ Len(l) = Len(base) + Len(new)
        /\ \A i \in 1..Len(base) + Len(new) : l[i] = IF i <= Len(base) THEN base[i] ELSE new[i - Len(base)]
    BY <1>1, <1>7, ConcatProperties
  <1>10. Len(base \o records) = Len(base) + Len(records)
    <2>1. base \in Seq(Records \cup Seq(Byte)) /\ records \in Seq(Records \cup Seq(Byte))
      BY <1>1
    <2> QED BY <2>1, ConcatProperties
  <1> HIDE DEF l
  <1>11. \A i \in 1..Len(base) : l[i] = base[i]
    BY <1>2, <1>7, <1>9
  <1>12. \A i \in 1..Len(records) : l[Len(base) + i] = new[i]
    <2> TAKE i \in 1..Len(records)
    <2>1. /\ Len(base) + i \in 1..Len(base) + Len(new) /\ ~(Len(base) + i <= Len(base))
          /\ (Len(base) + i) - Len(base) = i
      BY <1>2, <1>7
    <2> QED BY <1>9, <2>1
  <1> QED BY <1>1, <1>2, <1>7, <1>8, <1>9, <1>10, <1>11, <1>12 DEF l

(* The merge counts from one.                                              *)
CountsFromOne == phase = "merge" => next # 0

(* The invariant of every step up to the merge                             *)
RecordsInv == OutputInv /\ CountsFromOne

(* The record that appendRecord looks at.                                  *)
LEMMA CurrentRecord ==
  ASSUME RecordsTypeOK, CountsFromOne, appendRecord
  PROVE  /\ next \in 1..Len(base) + Len(records) /\ next \in Nat
         /\ (base \o newRecords)[next] \in Records
         /\ (base \o newRecords)[next].path \in Seq(Byte)
         /\ filesystemRecordKey((base \o newRecords)[next].path) \in Seq(Byte)
PROOF
  <1>1. next \in Nat
    BY Zenon DEF RecordsTypeOK
  <1>2. phase = "merge" /\ next <= Len(base \o records)
    BY DEF appendRecord
  <1>3. next # 0
    BY <1>2 DEF CountsFromOne
  <1>4. /\ Len(base) \in Nat /\ Len(records) \in Nat /\ Len(base \o records) = Len(base) + Len(records)
        /\ base \o newRecords \in Seq(Records) /\ Len(base \o newRecords) = Len(base) + Len(records)
    BY Additions
  <1>5. next \in 1..Len(base) + Len(records)
    BY <1>1, <1>2, <1>3, <1>4
  <1> DEFINE l == base \o newRecords
  <1> HIDE DEF l
  <1>6. l \in Seq(Records) /\ next \in 1..Len(l)
    BY <1>4, <1>5 DEF l
  <1>7. l[next] \in Records
    BY <1>6
  <1>8. l[next].path \in Seq(Byte)
    BY <1>7 DEF Records
  <1>9. filesystemRecordKey(l[next].path) \in Seq(Byte)
    BY <1>8, KeyBytes
  <1> QED BY <1>1, <1>5, <1>7, <1>8, <1>9 DEF l

(* A record is merged.                                                     *)
LEMMA OutputAppend ==
  ASSUME RecordsInv, appendRecord
  PROVE  RecordsInv'
PROOF
  <1>1. RecordsTypeOK /\ CountsFromOne /\ OutputInv
    BY DEF RecordsInv, OutputInv
  <1> DEFINE r == (base \o newRecords)[next]
             key == filesystemRecordKey(r.path)
  <1>2. r \in Records /\ key \in Seq(Byte) /\ next \in Nat
    BY <1>1, CurrentRecord, Zenon
  <1>3. /\ phase = "merge" /\ next' = next + 1
        /\ \/ UNCHANGED <<filesystem, merged, admitted>>
           \/ /\ filesystem' = IF r.kind = "virtual" THEN filesystem ELSE filesystem \cup {key}
              /\ merged' = Append(merged, r)
              /\ admitted' = IF isAddition THEN Append(admitted, r) ELSE admitted
    BY Zenon DEF appendRecord
  <1>4. UNCHANGED <<output, taken, phase, pass, data, index, writerVars, sink, parserVars, base>>
    BY Zenon DEF appendRecord
  <1> HIDE DEF key, r
  <1>5. filesystem' \subseteq Seq(Byte)
    <2>1. filesystem \subseteq Seq(Byte)
      BY <1>1, Zenon DEF RecordsTypeOK
    <2> QED BY <1>2, <1>3, <2>1
  <1>6. merged' \in Seq(Records) /\ admitted' \in Seq(Records)
    <2>1. merged \in Seq(Records) /\ admitted \in Seq(Records)
      BY <1>1, Zenon DEF RecordsTypeOK
    <2>2. Append(merged, r) \in Seq(Records) /\ Append(admitted, r) \in Seq(Records)
      BY <1>2, <2>1
    <2> QED BY <1>3, <2>1, <2>2
  <1>7. next' \in Nat /\ next' # 0
    BY <1>2, <1>3
  <1>8. RecordsTypeOK'
    BY <1>1, <1>4, <1>5, <1>6, <1>7, Zenon DEF RecordsTypeOK, writerVars, parserVars
  <1>9. OutputInv'
    <2>1. phase \in {"commit", "merge"} /\ phase' \in {"merge", "done"}
      BY <1>3, <1>4
    <2> QED BY <1>1, <1>4, <1>8, <2>1, OutputMerge
  <1> QED BY <1>7, <1>9 DEF RecordsInv, CountsFromOne

(* The launch view is a sequence of records with absolute paths.           *)
LEMMA BaseRecords ==
  ASSUME ReadBase
  PROVE  base' \in Seq(Records) /\ \A i \in 1..Len(base') : AddressOK(base'[i])
PROOF
  <1>1. PICK l \in Locations, d \in {<<>>, <<Local("x", x \o x \o x)>>} : base' = rootRecords(l) \o d
    BY DEF ReadBase
  <1>2. l \in {"inner", "root", "drive root"}
    BY LocationsAssumption
  <1>3. PICK u, v \in Records : rootRecords(l) = <<u, v>> /\ AddressOK(u) /\ AddressOK(v)
    BY <1>2, RootRecords
  <1> DEFINE w == Local("x", x \o x \o x)
  <1>4. w \in Records /\ AddressOK(w)
    <2>1. "x" \in {".", "..", "x", "path"}
      OBVIOUS
    <2> QED BY <2>1, LaunchAbsolute, GoodRecords, Zenon
  <1> HIDE DEF w
  <1>5. d = <<>> \/ d = <<w>>
    BY <1>1 DEF w
  <1>6. CASE d = <<>>
    <2>1. base' = <<u, v>>
      BY <1>1, <1>3, <1>4, <1>6, ThreeRecords, Zenon
    <2>2. base' \in Seq(Records) /\ Len(base') = 2 /\ base'[1] = u /\ base'[2] = v
      BY <2>1, PairOfRecords
    <2>3. \A i \in 1..2 : i = 1 \/ i = 2
      OBVIOUS
    <2> QED BY <1>3, <2>2, <2>3
  <1>7. CASE d = <<w>>
    <2> DEFINE t == <<u, v>> \o <<w>>
    <2>1. base' = t
      BY <1>1, <1>3, <1>7, Zenon
    <2>2. t \in Seq(Records) /\ Len(t) = 3 /\ t[1] = u /\ t[2] = v /\ t[3] = w
      BY <1>4, ThreeRecords
    <2> HIDE DEF t
    <2>3. \A i \in 1..3 : i = 1 \/ i = 2 \/ i = 3
      OBVIOUS
    <2> QED BY <1>3, <1>4, <2>1, <2>2, <2>3
  <1> QED BY <1>5, <1>6, <1>7

(* The launch view is read.                                                *)
LEMMA OutputReadBase ==
  ASSUME RecordsInv, ReadBase
  PROVE  RecordsInv'
PROOF
  <1>1. RecordsTypeOK /\ OutputInv
    BY DEF RecordsInv, OutputInv
  <1>2. phase = "commit" /\ phase' = "merge" /\ next' = 1
    BY DEF ReadBase
  <1>3. UNCHANGED <<output, taken, pass, data, index, writerVars, sink, parserVars,
                    filesystem, merged, admitted>>
    BY Zenon DEF ReadBase
  <1>4. base' \in Seq(Records)
    BY BaseRecords
  <1>5. next' \in Nat /\ next' # 0
    BY <1>2
  <1>6. RecordsTypeOK'
    BY <1>1, <1>2, <1>3, <1>4, <1>5, Zenon DEF RecordsTypeOK, writerVars, parserVars
  <1>7. OutputInv'
    BY <1>1, <1>2, <1>3, <1>6, OutputMerge
  <1> QED BY <1>5, <1>7 DEF RecordsInv, CountsFromOne

(* The merge returns.                                                      *)
LEMMA OutputMergeReturns ==
  ASSUME RecordsInv, MergeReturns
  PROVE  RecordsInv'
PROOF
  <1>1. RecordsTypeOK /\ OutputInv
    BY DEF RecordsInv, OutputInv
  <1>2. phase = "merge" /\ phase' = "done"
    BY DEF MergeReturns
  <1>3. UNCHANGED <<output, taken, pass, data, index, writerVars, sink, parserVars, mergeVars>>
    BY Zenon DEF MergeReturns
  <1>4. RecordsTypeOK'
    BY <1>1, <1>2, <1>3, Zenon DEF RecordsTypeOK, writerVars, parserVars, mergeVars
  <1>5. OutputInv'
    BY <1>1, <1>2, <1>3, <1>4, OutputMerge
  <1> QED BY <1>2, <1>5 DEF RecordsInv, CountsFromOne

(* Every step of the pipeline keeps the invariant.                         *)
LEMMA RecordsStep ==
  ASSUME RecordsInv, [RecordsNext]_recordsVars
  PROVE  RecordsInv'
PROOF
  <1>1. OutputInv
    BY DEF RecordsInv
  <1>2. ASSUME Write \/ Scan \/ reject \/ WriteReturns \/ finalize
               \/ validateZoxideOutputBounds \/ parseZoxideRecords
        PROVE  RecordsInv'
    <2>1. OutputInv'
      BY <1>1, <1>2, OutputWrite, OutputScan, OutputReject, OutputWriteReturns, OutputFinalize,
         OutputBounds, OutputParse, Zenon
    <2>2. phase' # "merge"
      BY <1>2 DEF Write, Scan, reject, WriteReturns, writeSink, finalize, validateZoxideOutputBounds,
         parseZoxideRecords, End
    <2> QED BY <2>1, <2>2 DEF RecordsInv, CountsFromOne
  <1>3. CASE UNCHANGED recordsVars
    <2>1. UNCHANGED <<output, taken, phase, pass, data, index, total, rows, rowBytes, err, sink, start, records,
                      outcome, base, next, filesystem, merged, admitted>>
      BY <1>3, Zenon DEF recordsVars, writerVars, parserVars, mergeVars
    <2>2. RecordsTypeOK'
      BY <1>1, <2>1, Zenon DEF OutputInv, RecordsTypeOK
    <2>3. WriterInv'
      BY <1>1, <2>1, Zenon DEF OutputInv, WriterInv, ScanInv
    <2>4. ParserInv'
      BY <1>1, <2>1, Zenon DEF OutputInv, ParserInv
    <2>5. CountsFromOne'
      BY <2>1, Zenon DEF RecordsInv, CountsFromOne
    <2> QED BY <2>2, <2>3, <2>4, <2>5, Zenon DEF RecordsInv, OutputInv
  <1> QED BY <1>2, <1>3, OutputReadBase, OutputAppend, OutputMergeReturns, Zenon DEF RecordsNext

(* The invariant says what becomes of the output.                          *)
LEMMA OutputOutcome ==
  ASSUME RecordsInv
  PROVE  OutputDecides
PROOF
  <1>1. RecordsTypeOK /\ WriterInv /\ ParserInv
    BY DEF RecordsInv, OutputInv
  <1>2. outcome # "none" => [outcome |-> outcome, records |-> records] = Parsed(output)
    BY <1>1, Zenon DEF ParserInv
  <1>3. outcome = "limit" => pass = 1
    BY <1>1, Zenon DEF ParserInv
  <1>4. pass = 2 => err = "none"
    BY <1>1, Zenon DEF WriterInv
  <1>5. phase \notin AtWork => rowBytes = 0
    BY <1>1, Zenon DEF WriterInv
  <1>6. err = "none" => finalizes
    <2>1. CASE phase \in AtWork
      BY <1>1, <2>1, FinalizesOutput
    <2>2. CASE phase \notin AtWork
      BY <1>5, <2>2 DEF finalizes
    <2> QED BY <2>1, <2>2
  <1> QED BY <1>2, <1>3, <1>4, <1>6 DEF OutputDecides

(* However the pump cuts zoxide's output into pieces, the limit writer and *)
(* the parser are where the output up to that byte puts them.              *)
THEOREM RecordsInvariance == RecordsSpec => []RecordsInv
PROOF
  <1>1. RecordsInit => RecordsInv
    BY OutputInit DEF RecordsInv, CountsFromOne, RecordsInit
  <1>2. RecordsInv /\ [RecordsNext]_recordsVars => RecordsInv'
    BY RecordsStep
  <1> QED BY <1>1, <1>2, PTL DEF RecordsSpec

(* The writer's counters, the parser's position and the records stay well  *)
(* typed: no counter passes its limit.                                     *)
THEOREM RecordsTypeCorrect == RecordsSpec => []RecordsTypeOK
PROOF
  <1>1. RecordsInv => RecordsTypeOK
    BY DEF RecordsInv, OutputInv
  <1> QED BY <1>1, RecordsInvariance, PTL

(* What parseZoxideRecords returns is a function of all that zoxide printed*)
(* (the limits, then the first bad row, then the rows), never of the pieces*)
(* in which the writer got it; and the parser's own pass of the writer     *)
(* refuses nothing that the pump's has let through.                        *)
THEOREM OutputDecidesOutcome == RecordsSpec => []OutputDecides
PROOF
  <1>1. RecordsInv => OutputDecides
    BY OutputOutcome
  <1> QED BY <1>1, RecordsInvariance, PTL

-----------------------------------------------------------------------------
(* Records of files have absolute paths.                                   *)
Addressed(l) == \A i \in 1..Len(l) : l[i].kind # "virtual" => Absolute(l[i].path)

(* The keys of the records of files                                        *)
Keys(l) == {filesystemRecordKey(l[i].path) : i \in {i \in 1..Len(l) : l[i].kind # "virtual"}}

(* One target is one key.                                                  *)
LEMMA OneTargetOneKey ==
  ASSUME NEW r \in Records, NEW s \in Records,
         r.kind # "virtual" => Absolute(r.path), s.kind # "virtual" => Absolute(s.path)
  PROVE  SameTarget(r, s) <=> IF r.kind = "virtual" \/ s.kind = "virtual" THEN r = s
                              ELSE filesystemRecordKey(r.path) = filesystemRecordKey(s.path)
PROOF
  <1>1. CASE r.kind = "virtual" \/ s.kind = "virtual"
    BY <1>1 DEF SameTarget
  <1>2. CASE ~(r.kind = "virtual" \/ s.kind = "virtual")
    <2>1. Absolute(r.path) /\ Absolute(s.path)
      BY <1>2
    <2>2. SameTarget(r, s) <=> File(r.path) = File(s.path)
      BY <1>2 DEF SameTarget
    <2>3. File(r.path) = File(s.path) <=> filesystemRecordKey(r.path) = filesystemRecordKey(s.path)
      BY <2>1, OneFileOneKey, OneKeyOneFile
    <2> QED BY <1>2, <2>2, <2>3
  <1> QED BY <1>1, <1>2

(* Being of one target is transitive.                                      *)
LEMMA SameTargetThrough ==
  ASSUME NEW r, NEW s, NEW t, SameTarget(r, s), SameTarget(s, t)
  PROVE  SameTarget(r, t)
PROOF
  <1>1. CASE r.kind = "virtual" \/ s.kind = "virtual"
    <2>1. r = s
      BY <1>1 DEF SameTarget
    <2> QED BY <2>1
  <1>2. CASE ~(r.kind = "virtual" \/ s.kind = "virtual") /\ t.kind = "virtual"
    <2>1. s = t
      BY <1>2 DEF SameTarget
    <2> QED BY <1>2, <2>1
  <1>3. CASE ~(r.kind = "virtual" \/ s.kind = "virtual") /\ t.kind # "virtual"
    BY <1>3 DEF SameTarget
  <1> QED BY <1>1, <1>2, <1>3

(* exists asks whether a record of the same target is merged.              *)
LEMMA ExistsMeansSame ==
  ASSUME NEW r \in Records, merged \in Seq(Records), filesystem = Keys(merged), Addressed(merged),
         r.kind # "virtual" => Absolute(r.path)
  PROVE  exists(r) <=> \E i \in 1..Len(merged) : SameTarget(merged[i], r)
PROOF
  <1> DEFINE F(p) == filesystemRecordKey(p)
  <1> HIDE DEF F
  <1>1. ASSUME NEW i \in 1..Len(merged)
        PROVE  SameTarget(merged[i], r) <=> IF merged[i].kind = "virtual" \/ r.kind = "virtual"
                                            THEN merged[i] = r ELSE F(merged[i].path) = F(r.path)
    <2>1. merged[i] \in Records /\ (merged[i].kind # "virtual" => Absolute(merged[i].path))
      BY DEF Addressed
    <2> QED BY <2>1, OneTargetOneKey DEF F
  <1>2. CASE r.kind = "virtual"
    <2>1. exists(r) <=> \E i \in 1..Len(merged) : merged[i] = r
      BY <1>2 DEF exists, Contains
    <2> QED BY <1>1, <1>2, <2>1
  <1>3. CASE r.kind # "virtual"
    <2>1. exists(r) <=> F(r.path) \in Keys(merged)
      BY <1>3 DEF exists, F
    <2>2. F(r.path) \in Keys(merged)
            <=> \E i \in 1..Len(merged) : merged[i].kind # "virtual" /\ F(merged[i].path) = F(r.path)
      BY DEF Keys, F
    <2>3. ASSUME NEW i \in 1..Len(merged)
          PROVE  SameTarget(merged[i], r)
                   <=> merged[i].kind # "virtual" /\ F(merged[i].path) = F(r.path)
      <3>1. merged[i].kind = "virtual" => merged[i] # r
        BY <1>3
      <3> QED BY <1>1, <1>3, <3>1
    <2> QED BY <2>1, <2>2, <2>3
  <1> QED BY <1>2, <1>3

(* A record goes to the end of l.                                          *)
LEMMA OneMore ==
  ASSUME NEW l \in Seq(Records), NEW r \in Records
  PROVE  Keys(Append(l, r)) = IF r.kind = "virtual" THEN Keys(l)
                              ELSE Keys(l) \cup {filesystemRecordKey(r.path)}
PROOF
  <1> DEFINE m == Append(l, r)
             n == Len(l)
             F(p) == filesystemRecordKey(p)
  <1>1. n \in Nat /\ Len(m) = n + 1 /\ m[n + 1] = r /\ \A i \in 1..n : m[i] = l[i]
    BY AppendProperties
  <1> HIDE DEF m, n, F
  <1>2. \A i \in 1..n + 1 : i \in 1..n \/ i = n + 1
    BY <1>1
  <1>3. Keys(m) = {F(m[i].path) : i \in {i \in 1..n + 1 : m[i].kind # "virtual"}}
    BY <1>1 DEF Keys, F
  <1>4. Keys(l) = {F(l[i].path) : i \in {i \in 1..n : l[i].kind # "virtual"}}
    BY DEF Keys, F, n
  <1>5. ASSUME NEW k PROVE k \in Keys(m) <=> k \in Keys(l) \/ (r.kind # "virtual" /\ k = F(r.path))
    <2>1. k \in Keys(m) <=> \E i \in 1..n + 1 : m[i].kind # "virtual" /\ k = F(m[i].path)
      BY <1>3
    <2>2. k \in Keys(l) <=> \E i \in 1..n : l[i].kind # "virtual" /\ k = F(l[i].path)
      BY <1>4
    <2>3. \A i \in 1..n : i \in 1..n + 1
      BY <1>1
    <2>4. n + 1 \in 1..n + 1
      BY <1>1
    <2> QED BY <1>1, <1>2, <2>1, <2>2, <2>3, <2>4
  <1>6. CASE r.kind = "virtual"
    BY <1>5, <1>6 DEF m
  <1>7. CASE r.kind # "virtual"
    <2>1. Keys(m) = Keys(l) \cup {F(r.path)}
      BY <1>5, <1>7
    <2> QED BY <1>7, <2>1 DEF F, m
  <1> QED BY <1>6, <1>7

-----------------------------------------------------------------------------
(* Elements of a list.                                                     *)
LEMMA ElementsAre ==
  ASSUME NEW l \in Seq(Records), NEW S \in SUBSET (1..Len(l))
  PROVE  /\ S \in SUBSET Nat /\ IsFiniteSet(S) /\ Cardinality(S) \in Nat
         /\ Elements(l, S) \in Seq(Records) /\ Len(Elements(l, S)) = Cardinality(S)
         /\ \A k \in 1..Cardinality(S) : Nth(S, k) \in S /\ Elements(l, S)[k] = l[Nth(S, k)]
         /\ \A i \in S : Rank(S, i) \in 1..Cardinality(S) /\ Elements(l, S)[Rank(S, i)] = l[i]
PROOF
  <1>1. Len(l) \in Nat /\ \A i \in 1..Len(l) : l[i] \in Records
    OBVIOUS
  <1>2. IsFiniteSet(1..Len(l)) /\ 1..Len(l) \in SUBSET Nat
    BY <1>1, FS_Interval
  <1>3. S \in SUBSET Nat /\ IsFiniteSet(S)
    BY <1>2, FS_Subset
  <1> DEFINE c == Cardinality(S)
             f == Elements(l, S)
  <1>4. c \in Nat
    BY <1>3, FS_CardinalityType
  <1>5. \A k \in 1..c : Nth(S, k) \in S
    BY <1>3, EveryRank
  <1>6. \A i \in S : Nth(S, Rank(S, i)) = i /\ Rank(S, i) \in 1..c
    BY <1>3, NthOfRank
  <1>7. f = [k \in 1..c |-> l[Nth(S, k)]]
    BY DEF Elements
  <1> HIDE DEF c, f
  <1>8. \A k \in 1..c : l[Nth(S, k)] \in Records /\ f[k] = l[Nth(S, k)]
    BY <1>1, <1>5, <1>7
  <1>9. f \in [1..c -> Records]
    BY <1>7, <1>8
  <1>10. f \in Seq(Records) /\ Len(f) = c
    BY <1>4, <1>9
  <1>11. \A i \in S : Rank(S, i) \in 1..c /\ f[Rank(S, i)] = l[i]
    BY <1>6, <1>8
  <1> QED BY <1>3, <1>4, <1>5, <1>8, <1>10, <1>11 DEF c, f

(* One more position, after the others, is one more element.               *)
LEMMA ElementsGrow ==
  ASSUME NEW l \in Seq(Records), NEW n \in 1..Len(l), NEW S \in SUBSET (1..n - 1)
  PROVE  Elements(l, S \cup {n}) = Append(Elements(l, S), l[n])
PROOF
  <1> DEFINE T == S \cup {n}
             c == Cardinality(S)
             f == Elements(l, S)
             g == Elements(l, T)
             a == Append(f, l[n])
  <1>1. Len(l) \in Nat /\ l[n] \in Records
    OBVIOUS
  <1>2. S \in SUBSET (1..Len(l)) /\ T \in SUBSET (1..Len(l)) /\ n \notin S
    BY <1>1
  <1>3. /\ S \in SUBSET Nat /\ IsFiniteSet(S) /\ c \in Nat
        /\ f \in Seq(Records) /\ Len(f) = c
        /\ \A k \in 1..c : Nth(S, k) \in S /\ f[k] = l[Nth(S, k)]
    BY <1>2, ElementsAre
  <1>4. /\ T \in SUBSET Nat /\ IsFiniteSet(T)
        /\ g \in Seq(Records) /\ Len(g) = Cardinality(T)
        /\ \A i \in T : Rank(T, i) \in 1..Cardinality(T) /\ g[Rank(T, i)] = l[i]
    BY <1>2, ElementsAre
  <1>5. Cardinality(T) = c + 1
    BY <1>2, <1>3, FS_AddElement
  <1>6. a \in Seq(Records) /\ Len(a) = c + 1 /\ a[c + 1] = l[n] /\ \A k \in 1..c : a[k] = f[k]
    BY <1>1, <1>3, AppendProperties
  <1>7. ASSUME NEW i \in S PROVE Rank(T, i) = Rank(S, i)
    <2>1. i \in 1..n - 1 /\ ~(n <= i)
      OBVIOUS
    <2>2. Upto(T, i) = Upto(S, i)
      BY <2>1 DEF Upto
    <2> QED BY <2>2 DEF Rank
  <1>8. Rank(T, n) = c + 1
    <2>1. \A i \in T : i <= n
      OBVIOUS
    <2>2. Upto(T, n) = T
      BY <2>1 DEF Upto
    <2> QED BY <1>5, <2>2 DEF Rank
  <1>9. ASSUME NEW k \in 1..c PROVE g[k] = a[k]
    <2> DEFINE i == Nth(S, k)
    <2>1. i \in S /\ Rank(S, i) = k
      BY <1>3, EveryRank
    <2>2. i \in T /\ Rank(T, i) = k
      BY <1>7, <2>1
    <2>3. g[k] = l[i]
      BY <1>4, <2>2
    <2>4. a[k] = f[k] /\ f[k] = l[i]
      BY <1>3, <1>6
    <2> QED BY <2>3, <2>4
  <1>10. g[c + 1] = l[n]
    <2>1. n \in T
      OBVIOUS
    <2> QED BY <1>4, <1>8, <2>1
  <1> HIDE DEF a, f, g, c, T
  <1>11. \A k \in 1..c + 1 : k \in 1..c \/ k = c + 1
    BY <1>3
  <1>12. \A k \in 1..c + 1 : g[k] = a[k]
    BY <1>6, <1>9, <1>10, <1>11
  <1>13. g = a
    BY <1>4, <1>5, <1>6, <1>12, SeqEqual
  <1> QED BY <1>13 DEF a, f, g, T

(* A record is new when no first record before it is of its target.        *)
LEMMA NewIsFirst ==
  ASSUME NEW l \in Seq(Records), NEW n \in 1..Len(l)
  PROVE  n \in Firsts(l) <=> \A j \in Upto(Firsts(l), n - 1) : ~SameTarget(l[j], l[n])
PROOF
  <1>1. Len(l) \in Nat /\ DOMAIN l = 1..Len(l)
    OBVIOUS
  <1>2. n \in Firsts(l) <=> \A j \in 1..n - 1 : ~SameTarget(l[j], l[n])
    BY <1>1 DEF Firsts
  <1>3. \A j \in Upto(Firsts(l), n - 1) : j \in 1..n - 1
    BY <1>1 DEF Firsts, Upto
  <1>4. ASSUME NEW j \in 1..n - 1, SameTarget(l[j], l[n])
        PROVE  \E i \in Upto(Firsts(l), n - 1) : SameTarget(l[i], l[n])
    <2> DEFINE W == {i \in 1..n - 1 : SameTarget(l[i], l[n])}
               i == Min(W)
    <2>1. W \in SUBSET Nat /\ W # {}
      BY <1>4
    <2>2. i \in W /\ \A y \in W : i <= y
      <3> HIDE DEF W
      <3> QED BY <2>1, LeastPosition
    <2> HIDE DEF i
    <2>3. i \in 1..n - 1 /\ SameTarget(l[i], l[n]) /\ i \in 1..Len(l)
      BY <1>1, <2>2
    <2>4. ASSUME NEW y \in 1..i - 1 PROVE ~SameTarget(l[y], l[i])
      <3> SUFFICES ASSUME SameTarget(l[y], l[i]) PROVE FALSE
        OBVIOUS
      <3>1. SameTarget(l[y], l[n])
        BY <2>3, SameTargetThrough
      <3>2. y \in 1..n - 1 /\ ~(i <= y)
        BY <2>3
      <3> QED BY <2>2, <3>1, <3>2
    <2>5. i \in Firsts(l)
      BY <1>1, <2>3, <2>4 DEF Firsts
    <2>6. i \in Upto(Firsts(l), n - 1)
      BY <2>3, <2>5 DEF Upto
    <2> QED BY <2>3, <2>6
  <1> QED BY <1>2, <1>3, <1>4

(* The merge is under way or over.                                         *)
Merging == phase \in {"merge", "done"} /\ outcome = "ok"

(* The merge of the list l, of which the first b are the launch view, has  *)
(* come to the place n: the keys fs are those of what is merged, m is the  *)
(* first record of every target so far, and a is what is new among them.   *)
MergedUpTo(l, b, n, fs, m, a) ==
    LET firsts == Upto(Firsts(l), n - 1)
    IN  /\ n \in 1..Len(l) + 1
        /\ \A i \in 1..Len(l) : AddressOK(l[i])
        /\ fs = Keys(m) /\ m = Elements(l, firsts) /\ a = Elements(l, {i \in firsts : i > b})

(* What mergeRecords has, before, in and after its loops                   *)
MergeInv ==
    /\ ~Merging => merged = <<>> /\ admitted = <<>> /\ filesystem = {}
    /\ Merging => MergedUpTo(base \o newRecords, Len(base), next, filesystem, merged, admitted)
    /\ Merging /\ phase = "done" => next = Len(base \o newRecords) + 1

(* Before the merge nothing is merged.                                     *)
LEMMA MergeWaits ==
  ASSUME MergeInv, ~Merging, ~Merging', UNCHANGED mergeVars
  PROVE  MergeInv'
  BY DEF MergeInv, mergeVars

(* A record that is parsed has an absolute path.                           *)
LEMMA AdditionIsAddressed ==
  ASSUME RecordsInv, outcome = "ok", NEW i \in 1..Len(records)
  PROVE  AddressOK(newRecords[i])
PROOF
  <1>1. RecordsTypeOK /\ ParserInv
    BY DEF RecordsInv, OutputInv
  <1>2. records \in Seq(Seq(Byte))
    BY <1>1, Zenon DEF RecordsTypeOK
  <1>3. records[i] \in Seq(Byte)
    BY <1>2
  <1>4. newRecords[i] = Record("zoxide", "path", records[i])
    BY <1>1, Additions
  <1>5. Fault(records[i]) = "ok"
    BY <1>1, Zenon DEF ParserInv
  <1>6. records[i] # <<>> /\ records[i][1] = "slash"
    BY <1>3, <1>5, Faults
  <1>7. newRecords[i].path = records[i]
    BY <1>3, <1>4, RecordFields
  <1> QED BY <1>3, <1>6, <1>7 DEF Absolute, AddressOK

(* Two lists of records with absolute paths make one.                      *)
LEMMA AddressedJoined ==
  ASSUME NEW l \in Seq(Records), NEW m \in Seq(Records),
         \A i \in 1..Len(l) : AddressOK(l[i]), \A i \in 1..Len(m) : AddressOK(m[i])
  PROVE  l \o m \in Seq(Records) /\ \A i \in 1..Len(l \o m) : AddressOK((l \o m)[i])
PROOF
  <1> DEFINE a == l \o m
  <1>1. /\ a \in Seq(Records) /\ Len(a) = Len(l) + Len(m)
        /\ \A i \in 1..Len(l) + Len(m) : a[i] = IF i <= Len(l) THEN l[i] ELSE m[i - Len(l)]
    BY ConcatProperties
  <1>2. Len(l) \in Nat /\ Len(m) \in Nat
    OBVIOUS
  <1> HIDE DEF a
  <1>3. ASSUME NEW i \in 1..Len(a) PROVE AddressOK(a[i])
    <2>1. CASE i <= Len(l)
      <3>1. i \in 1..Len(l) /\ a[i] = l[i]
        BY <1>1, <1>2, <2>1
      <3> QED BY <3>1
    <2>2. CASE ~(i <= Len(l))
      <3>1. i - Len(l) \in 1..Len(m) /\ a[i] = m[i - Len(l)]
        BY <1>1, <1>2, <2>2
      <3> QED BY <3>1
    <2> QED BY <2>1, <2>2
  <1> QED BY <1>1, <1>3 DEF a

(* A merge starts with nothing.                                            *)
LEMMA MergeStarts ==
  ASSUME NEW l \in Seq(Records), NEW b, \A i \in 1..Len(l) : AddressOK(l[i])
  PROVE  MergedUpTo(l, b, 1, {}, <<>>, <<>>)
PROOF
  <1>1. Len(l) \in Nat /\ DOMAIN l = 1..Len(l)
    OBVIOUS
  <1>2. Upto(Firsts(l), 1 - 1) = {}
    BY <1>1 DEF Upto, Firsts
  <1>3. Elements(l, {}) = <<>>
    <2>1. Cardinality({}) = 0
      BY FS_EmptySet
    <2>2. Elements(l, {}) = [k \in 1..0 |-> l[Nth({}, k)]]
      BY <2>1 DEF Elements
    <2> QED BY <2>2
  <1>4. Keys(<<>>) = {}
    <2>1. 1..Len(<<>>) = {}
      OBVIOUS
    <2> QED BY <2>1 DEF Keys
  <1>5. 1 \in 1..Len(l) + 1
    BY <1>1
  <1>6. {i \in {} : i > b} = {}
    OBVIOUS
  <1> QED BY <1>2, <1>3, <1>4, <1>5, <1>6, Zenon DEF MergedUpTo

(* The merge begins with the launch view.                                  *)
LEMMA MergeReadBase ==
  ASSUME RecordsInv, MergeInv, ReadBase
  PROVE  MergeInv'
PROOF
  <1>1. phase = "commit" /\ phase' = "merge" /\ next' = 1
    BY DEF ReadBase
  <1>2. UNCHANGED <<filesystem, merged, admitted, records, outcome>>
    BY Zenon DEF ReadBase, parserVars
  <1>3. merged = <<>> /\ admitted = <<>> /\ filesystem = {}
    BY <1>1 DEF MergeInv, Merging
  <1>4. base' \in Seq(Records) /\ \A i \in 1..Len(base') : AddressOK(base'[i])
    BY BaseRecords
  <1>5. outcome = "ok"
    BY <1>1, Zenon DEF RecordsInv, OutputInv, ParserInv
  <1> DEFINE new == newRecords
  <1>6. newRecords' = new
    BY <1>2 DEF newRecords
  <1>7. new \in Seq(Records) /\ \A i \in 1..Len(new) : AddressOK(new[i])
    BY <1>5, Additions, AdditionIsAddressed DEF RecordsInv, OutputInv
  <1> HIDE DEF new
  <1> DEFINE l == base' \o new
  <1>8. l \in Seq(Records) /\ \A i \in 1..Len(l) : AddressOK(l[i])
    BY <1>4, <1>7, AddressedJoined
  <1>9. MergedUpTo(l, Len(base'), 1, {}, <<>>, <<>>)
    BY <1>8, MergeStarts
  <1>10. MergedUpTo(base' \o newRecords', Len(base'), next', filesystem', merged', admitted')
    BY <1>1, <1>2, <1>3, <1>6, <1>9, Zenon
  <1> QED BY <1>1, <1>2, <1>5, <1>10, Zenon DEF MergeInv, Merging

(* The merge's end changes nothing.                                        *)
LEMMA MergeEnds ==
  ASSUME RecordsInv, MergeInv, MergeReturns
  PROVE  MergeInv'
PROOF
  <1>1. UNCHANGED <<base, next, filesystem, merged, admitted, records, outcome>>
    BY Zenon DEF MergeReturns, mergeVars, parserVars
  <1>2. phase = "merge" /\ phase' = "done" /\ next > Len(base \o records)
    BY DEF MergeReturns
  <1>3. Merging <=> Merging'
    BY <1>1, <1>2 DEF Merging
  <1>4. UNCHANGED newRecords
    BY <1>1 DEF newRecords
  <1>5. Merging => next = Len(base \o newRecords) + 1
    <2>1. /\ Len(base) \in Nat /\ Len(records) \in Nat
          /\ Len(base \o newRecords) = Len(base) + Len(records) /\ Len(base \o records) = Len(base) + Len(records)
      BY Additions DEF RecordsInv, OutputInv
    <2>2. Merging => next \in 1..Len(base \o newRecords) + 1
      BY DEF MergeInv, MergedUpTo
    <2> QED BY <1>2, <2>1, <2>2
  <1> QED BY <1>1, <1>3, <1>4, <1>5, Zenon DEF MergeInv

(* The record at the place n is looked at.                                 *)
LEMMA OneIsLookedAt ==
  ASSUME NEW l \in Seq(Records), NEW b \in Nat, NEW n \in 1..Len(l), NEW fs, NEW m, NEW a,
         MergedUpTo(l, b, n, fs, m, a)
  PROVE  /\ m \in Seq(Records) /\ Addressed(m) /\ fs = Keys(m) /\ AddressOK(l[n])
         /\ n \in Firsts(l) <=> \A i \in 1..Len(m) : ~SameTarget(m[i], l[n])
         /\ n \notin Firsts(l) => MergedUpTo(l, b, n + 1, fs, m, a)
         /\ n \in Firsts(l) =>
               MergedUpTo(l, b, n + 1, IF l[n].kind = "virtual" THEN fs
                                       ELSE fs \cup {filesystemRecordKey(l[n].path)},
                          Append(m, l[n]), IF n > b THEN Append(a, l[n]) ELSE a)
PROOF
  <1> DEFINE F == Firsts(l)
             S == Upto(F, n - 1)
             N == {i \in S : i > b}
  <1>1. Len(l) \in Nat /\ DOMAIN l = 1..Len(l) /\ l[n] \in Records
    OBVIOUS
  <1>2. /\ \A i \in 1..Len(l) : AddressOK(l[i])
        /\ fs = Keys(m) /\ m = Elements(l, S) /\ a = Elements(l, N)
    BY Zenon DEF MergedUpTo
  <1>3. \A i \in F : i \in 1..Len(l)
    BY <1>1 DEF Firsts
  <1>4. n \in F <=> \A j \in S : ~SameTarget(l[j], l[n])
    BY NewIsFirst
  <1> HIDE DEF F
  <1>5. S \in SUBSET (1..n - 1) /\ S \in SUBSET (1..Len(l)) /\ N \in SUBSET (1..n - 1)
    BY <1>1, <1>3 DEF Upto
  <1>6. Upto(F, (n + 1) - 1) = IF n \in F THEN S \cup {n} ELSE S
    <2>1. ASSUME NEW i PROVE i \in Upto(F, (n + 1) - 1) <=> i \in S \/ (i = n /\ n \in F)
      <3>1. i \in F => (i <= (n + 1) - 1 <=> i <= n - 1 \/ i = n)
        BY <1>1, <1>3
      <3> QED BY <3>1 DEF Upto
    <2> HIDE DEF S
    <2>2. CASE n \in F
      <3>1. Upto(F, (n + 1) - 1) = S \cup {n}
        BY <2>1, <2>2
      <3> QED BY <2>2, <3>1
    <2>3. CASE n \notin F
      <3>1. Upto(F, (n + 1) - 1) = S
        BY <2>1, <2>3
      <3> QED BY <2>3, <3>1
    <2> QED BY <2>2, <2>3
  <1> HIDE DEF S
  <1>7. /\ m \in Seq(Records) /\ Len(m) = Cardinality(S)
        /\ \A k \in 1..Cardinality(S) : Nth(S, k) \in S /\ m[k] = l[Nth(S, k)]
        /\ \A i \in S : Rank(S, i) \in 1..Cardinality(S) /\ m[Rank(S, i)] = l[i]
    BY <1>2, <1>5, ElementsAre
  <1>8. Addressed(m)
    BY <1>2, <1>5, <1>7 DEF Addressed, AddressOK
  <1>9. n \in F <=> \A i \in 1..Len(m) : ~SameTarget(m[i], l[n])
    <2>1. (\A j \in S : ~SameTarget(l[j], l[n])) <=> \A i \in 1..Len(m) : ~SameTarget(m[i], l[n])
      BY <1>7
    <2> QED BY <1>4, <2>1
  <1>10. n + 1 \in 1..Len(l) + 1
    BY <1>1
  <1>11. n \notin F => MergedUpTo(l, b, n + 1, fs, m, a)
    <2> SUFFICES ASSUME n \notin F PROVE MergedUpTo(l, b, n + 1, fs, m, a)
      OBVIOUS
    <2>1. Upto(Firsts(l), (n + 1) - 1) = S
      BY <1>6 DEF F
    <2> QED BY <1>2, <1>10, <2>1, Zenon DEF MergedUpTo
  <1>12. ASSUME n \in F
         PROVE MergedUpTo(l, b, n + 1, IF l[n].kind = "virtual" THEN fs
                                       ELSE fs \cup {filesystemRecordKey(l[n].path)},
                          Append(m, l[n]), IF n > b THEN Append(a, l[n]) ELSE a)
    <2> DEFINE T == S \cup {n}
    <2>1. Upto(Firsts(l), (n + 1) - 1) = T
      BY <1>6, <1>12 DEF F
    <2>2. Elements(l, T) = Append(m, l[n])
      BY <1>2, <1>5, ElementsGrow
    <2>3. Keys(Append(m, l[n])) = IF l[n].kind = "virtual" THEN Keys(m)
                                  ELSE Keys(m) \cup {filesystemRecordKey(l[n].path)}
      BY <1>1, <1>7, OneMore
    <2>4. {i \in T : i > b} = IF n > b THEN N \cup {n} ELSE N
      OBVIOUS
    <2>5. Elements(l, N \cup {n}) = Append(a, l[n])
      BY <1>2, <1>5, ElementsGrow
    <2>6. Elements(l, {i \in T : i > b}) = IF n > b THEN Append(a, l[n]) ELSE a
      <3> HIDE DEF T, N
      <3> QED BY <1>2, <2>4, <2>5, Zenon
    <2> HIDE DEF T, N
    <2> QED BY <1>2, <1>10, <2>1, <2>2, <2>3, <2>6, Zenon DEF MergedUpTo
  <1>13. AddressOK(l[n])
    BY <1>2
  <1> QED BY <1>2, <1>7, <1>8, <1>9, <1>11, <1>12, <1>13 DEF F

(* A record is merged.                                                     *)
LEMMA MergeStep ==
  ASSUME RecordsInv, MergeInv, appendRecord
  PROVE  MergeInv'
PROOF
  <1>1. RecordsTypeOK /\ CountsFromOne /\ ParserInv
    BY DEF RecordsInv, OutputInv
  <1>2. phase = "merge" /\ next' = next + 1 /\ UNCHANGED <<phase, base, records, outcome>>
    BY Zenon DEF appendRecord, parserVars
  <1>3. outcome = "ok"
    BY <1>1, <1>2, Zenon DEF ParserInv
  <1>4. Merging /\ Merging'
    BY <1>2, <1>3 DEF Merging
  <1> DEFINE l == base \o newRecords
             r == l[next]
             b == Len(base)
  <1>5. /\ next \in Nat /\ next \in 1..b + Len(records) /\ r \in Records
        /\ b \in Nat /\ Len(l) = b + Len(records) /\ l \in Seq(Records)
    BY <1>1, CurrentRecord, Additions, Zenon
  <1>6. next \in 1..Len(l)
    BY <1>5
  <1>7. MergedUpTo(l, b, next, filesystem, merged, admitted)
    BY <1>4 DEF MergeInv
  <1>8. IF exists(r) THEN UNCHANGED <<filesystem, merged, admitted>>
        ELSE /\ filesystem' = IF r.kind = "virtual" THEN filesystem
                              ELSE filesystem \cup {filesystemRecordKey(r.path)}
             /\ merged' = Append(merged, r)
             /\ admitted' = IF isAddition THEN Append(admitted, r) ELSE admitted
    BY Zenon DEF appendRecord
  <1>9. isAddition <=> next > b
    BY DEF isAddition
  <1>10. UNCHANGED newRecords
    BY <1>2 DEF newRecords
  <1> HIDE DEF l
  <1>11. /\ merged \in Seq(Records) /\ Addressed(merged) /\ filesystem = Keys(merged) /\ AddressOK(r)
         /\ next \in Firsts(l) <=> \A i \in 1..Len(merged) : ~SameTarget(merged[i], r)
         /\ next \notin Firsts(l) => MergedUpTo(l, b, next + 1, filesystem, merged, admitted)
         /\ next \in Firsts(l) =>
               MergedUpTo(l, b, next + 1, IF r.kind = "virtual" THEN filesystem
                                          ELSE filesystem \cup {filesystemRecordKey(r.path)},
                          Append(merged, r), IF next > b THEN Append(admitted, r) ELSE admitted)
    BY <1>5, <1>6, <1>7, OneIsLookedAt, Zenon
  <1> HIDE DEF r, b
  <1>12. exists(r) <=> next \notin Firsts(l)
    <2>1. r.kind # "virtual" => Absolute(r.path)
      BY <1>11 DEF AddressOK
    <2>2. exists(r) <=> \E i \in 1..Len(merged) : SameTarget(merged[i], r)
      BY <1>5, <1>11, <2>1, ExistsMeansSame, Zenon
    <2> QED BY <1>11, <2>2, Zenon
  <1>13. MergedUpTo(l, b, next', filesystem', merged', admitted')
    <2>1. CASE exists(r)
      BY <1>2, <1>8, <1>11, <1>12, <2>1, Zenon
    <2>2. CASE ~exists(r)
      BY <1>2, <1>8, <1>9, <1>11, <1>12, <2>2, Zenon
    <2> QED BY <2>1, <2>2
  <1>14. MergedUpTo(base' \o newRecords', Len(base'), next', filesystem', merged', admitted')
    BY <1>2, <1>10, <1>13, Zenon DEF l, b
  <1>15. phase' # "done"
    BY <1>2
  <1> QED BY <1>4, <1>14, <1>15, Zenon DEF MergeInv

(* Every step keeps what the merge has.                                    *)
LEMMA MergeNext ==
  ASSUME RecordsInv, MergeInv, [RecordsNext]_recordsVars
  PROVE  MergeInv'
PROOF
  <1>1. ASSUME Write \/ Scan \/ reject \/ WriteReturns \/ finalize
               \/ validateZoxideOutputBounds \/ parseZoxideRecords
        PROVE  MergeInv'
    <2>1. UNCHANGED mergeVars
      BY <1>1, Zenon DEF Write, Scan, reject, WriteReturns, writeSink, finalize, validateZoxideOutputBounds,
         parseZoxideRecords, End
    <2>2. phase \in {"idle", "write", "parse"}
      BY <1>1 DEF Write, Scan, reject, WriteReturns, finalize, validateZoxideOutputBounds, parseZoxideRecords
    <2>3. ~Merging
      BY <2>2 DEF Merging
    <2>4. ~Merging'
      <3>1. phase' # "merge" /\ (phase' = "done" => outcome' # "ok")
        BY <1>1 DEF Write, Scan, reject, WriteReturns, writeSink, finalize, validateZoxideOutputBounds,
           parseZoxideRecords, End
      <3> QED BY <3>1 DEF Merging
    <2> QED BY <2>1, <2>3, <2>4, MergeWaits
  <1>2. CASE UNCHANGED recordsVars
    BY <1>2, Zenon DEF recordsVars, parserVars, mergeVars, MergeInv, Merging, newRecords
  <1> QED BY <1>1, <1>2, MergeReadBase, MergeStep, MergeEnds, Zenon DEF RecordsNext

(* The merge is over when all of its list is behind it.                    *)
LEMMA MergeIsOver ==
  ASSUME RecordsInv, MergeInv
  PROVE  FirstsAreMerged
PROOF
  <1> SUFFICES ASSUME phase = "done", outcome = "ok" PROVE FirstsAreMerged
    BY Zenon DEF FirstsAreMerged
  <1> DEFINE l == base \o newRecords
             F == Firsts(l)
  <1>1. Merging
    BY DEF Merging
  <1>2. MergedUpTo(l, Len(base), next, filesystem, merged, admitted) /\ next = Len(l) + 1
    BY <1>1, Zenon DEF MergeInv
  <1>3. l \in Seq(Records) /\ Len(l) \in Nat
    <2>1. l \in Seq(Records)
      BY Additions DEF RecordsInv, OutputInv
    <2> HIDE DEF l
    <2> QED BY <2>1
  <1> HIDE DEF l
  <1>4. \A i \in F : i \in 1..Len(l)
    BY <1>3 DEF Firsts
  <1>5. Upto(F, (Len(l) + 1) - 1) = F
    BY <1>3, <1>4 DEF Upto
  <1>6. merged = Elements(l, F) /\ admitted = Elements(l, {i \in F : i > Len(base)})
    BY <1>2, <1>5, Zenon DEF MergedUpTo
  <1> QED BY <1>6, Zenon DEF FirstsAreMerged, l

(* Wherever the picker was launched, at the root of a Unix file system too,*)
(* and whatever zoxide printed: MergeNewRecords gives the actor the first  *)
(* record of every target, in the order of the launch view and then of     *)
(* zoxide's rows, and fzf what is new among them.  The cleaned paths that  *)
(* it compares are equal exactly when the paths name one file.             *)
THEOREM FirstsMerged == RecordsSpec => []FirstsAreMerged
PROOF
  <1>1. RecordsInit => MergeInv
    BY DEF RecordsInit, MergeInv, Merging
  <1>2. RecordsInv /\ MergeInv /\ [RecordsNext]_recordsVars => MergeInv'
    BY MergeNext
  <1>3. RecordsInv /\ MergeInv => FirstsAreMerged
    BY MergeIsOver
  <1> QED BY <1>1, <1>2, <1>3, RecordsInvariance, PTL DEF RecordsSpec
=============================================================================
