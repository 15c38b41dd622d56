---------------------------- MODULE ZoxideSource ----------------------------
(***************************************************************************)
(* The zoxide side of internal/candidate: Builder (builder.go) and         *)
(* ZoxideCache (zoxide.go), used by several calls at once.                 *)
(*                                                                         *)
(* With the cached policy all calls share one cache, whose single load     *)
(* runs under the context of the call that started it; with the fresh      *)
(* policy every call makes a cache of its own, one call at a time, guarded *)
(* by a permit.  A call of Build reads the local directory in a second     *)
(* goroutine and cancels both when either fails.                           *)
(*                                                                         *)
(* A member of Callers is one call of LoadInitialZoxide or of an initial   *)
(* Build for the cd picker.  (Every other Build is BuildLocal alone and    *)
(* touches nothing shared.)  An error is a pair: whose call it belongs to  *)
(* and why.  The child process is external: ProcessChild shows that a run  *)
(* returns once its context has ended.                                     *)
(***************************************************************************)
EXTENDS FiniteSets

CONSTANTS
    Callers,    \* the calls made during the session
    NoCaller,   \* nobody; also the name of the shared cache
    Policies,   \* the policies considered
    Failures    \* what may fail, out of FailureKinds

ASSUME NoCallerAssumption == NoCaller \notin Callers
ASSUME PoliciesAssumption == Policies \subseteq {"cached", "fresh"}

(* The start and the exit code of the process, its output (too long or     *)
(* malformed), the local directory, the factory of fresh caches.           *)
FailureKinds == {"start", "exit", "limit", "parse", "local", "factory"}
ASSUME FailuresAssumption == Failures \subseteq FailureKinds

VARIABLES
    policy, timed,      \* the Builder's policy; the cache's timeout > 0
    permit,             \* the token is in freshPermit
    cache,              \* the caches and the load of each
    cancelled,          \* the caller's context has ended
    cause,              \* the cause of the context its goroutines run under
    main, kind, heard, first, result,   \* the call itself
    local, localErr,    \* its goroutine that enumerates the directory
    source, sourceRes   \* its goroutine that loads zoxide's records

configVars == <<policy, timed>>
callVars   == <<main, kind, heard, first, result>>
localVars  == <<local, localErr>>
sourceVars == <<source, sourceRes>>
vars == <<configVars, permit, cache, cancelled, cause, callVars, localVars, sourceVars>>

-----------------------------------------------------------------------------

Caches == Callers \cup {NoCaller}
Errs   == Caches \X {"none", "caller", "local", "factory", "finished",
                     "timeout", "limit", "malformed", "missing", "process error"}
NoErr  == <<NoCaller, "none">>

Outcomes == {"none", "ok", "malformed", "timeout", "cancelled", "missing", "process error"}
Results  == [err : Errs, outcome : Outcomes]
NoResult == [err |-> NoErr, outcome |-> "none"]

NoLoad == [load |-> "none", owner |-> NoCaller, over |-> FALSE, cause |-> NoErr,
           runErr |-> NoErr, outcome |-> "none", err |-> NoErr]

Stages  == {"none", "attempt", "live", "exited", "ready"}
Loads   == [load : Stages, owner : Caches, over : BOOLEAN, cause : Errs,
            runErr : Errs, outcome : Outcomes, err : Errs]
Sources == {"idle", "entered", "permit", "granted", "loading", "joining", "waiting",
            "reading", "done"}

TypeOK ==
    /\ policy \in Policies /\ timed \in BOOLEAN /\ permit \in BOOLEAN
    /\ cache \in [Caches -> Loads]
    /\ cancelled \in [Callers -> BOOLEAN]
    /\ cause \in [Callers -> Errs]
    /\ main \in [Callers -> {"idle", "collecting", "draining", "returned"}]
    /\ kind \in [Callers -> {"none", "load", "build"}]
    /\ heard \in [Callers -> SUBSET {"local", "source"}]
    /\ first \in [Callers -> Errs] /\ result \in [Callers -> Errs]
    /\ local \in [Callers -> {"idle", "running", "done"}]
    /\ localErr \in [Callers -> Errs]
    /\ source \in [Callers -> Sources]
    /\ sourceRes \in [Callers -> Results]

(* ConfigureCached or ConfigureFresh, before the first call                *)
Init ==
    /\ policy \in Policies /\ timed \in BOOLEAN
    /\ permit = (policy = "fresh")
    /\ cache = [k \in Caches |-> NoLoad]
    /\ cancelled = [c \in Callers |-> FALSE]
    /\ cause = [c \in Callers |-> NoErr]
    /\ main = [c \in Callers |-> "idle"]
    /\ kind = [c \in Callers |-> "none"]
    /\ heard = [c \in Callers |-> {}]
    /\ first = [c \in Callers |-> NoErr]
    /\ result = [c \in Callers |-> NoErr]
    /\ local = [c \in Callers |-> "idle"]
    /\ localErr = [c \in Callers |-> NoErr]
    /\ source = [c \in Callers |-> "idle"]
    /\ sourceRes = [c \in Callers |-> NoResult]

-----------------------------------------------------------------------------
(* Contexts: the first cause stands, and reaches the run that the call's   *)
(* goroutine has started.                                                  *)

Running(k) == cache[k].load \in {"attempt", "live"}

CancelRun(c, e) ==
    cache' = [k \in Caches |->
        IF cache[k].owner = c /\ Running(k) /\ cache[k].cause = NoErr
        THEN [cache[k] EXCEPT !.cause = e] ELSE cache[k]]

Cancel(c, e) ==
    /\ cause' = [cause EXCEPT ![c] = IF @ = NoErr THEN e ELSE @]
    /\ CancelRun(c, e)

CallerEnds(c) ==
    /\ ~cancelled[c] /\ main[c] # "returned"
    /\ cancelled' = [cancelled EXCEPT ![c] = TRUE]
    /\ Cancel(c, <<c, "caller">>)
    /\ UNCHANGED <<configVars, permit, callVars, localVars, sourceVars>>

-----------------------------------------------------------------------------
(* The load of cache k: ZoxideCache.load                                   *)

Loaded(k, r) ==
    /\ cache' = [cache EXCEPT ![k] = r]
    /\ UNCHANGED <<configVars, permit, cancelled, cause, callVars, localVars, sourceVars>>

FirstCause(k, e) == IF cache[k].cause = NoErr THEN e ELSE cache[k].cause

(* runner.Run: the process starts, is missing, cannot be started, or its   *)
(* context is over already.                                                *)
Spawn(k) ==
    /\ cache[k].load = "attempt"
    /\ \/ Loaded(k, [cache[k] EXCEPT !.load = "live"])
       \/ /\ "start" \in Failures
          /\ \E e \in {<<NoCaller, "missing">>, <<NoCaller, "process error">>} :
                Loaded(k, [cache[k] EXCEPT !.load = "exited", !.runErr = e])
       \/ /\ cache[k].cause # NoErr
          /\ Loaded(k, [cache[k] EXCEPT !.load = "exited", !.runErr = cache[k].cause])

(* The limit writer refuses the output and cancels the run.                *)
ExceedLimit(k) ==
    /\ "limit" \in Failures
    /\ cache[k].load = "live" /\ ~cache[k].over
    /\ Loaded(k, [cache[k] EXCEPT !.over = TRUE, !.cause = FirstCause(k, <<NoCaller, "limit">>)])

TimeoutFires(k) ==
    /\ timed /\ Running(k) /\ cache[k].cause = NoErr
    /\ Loaded(k, [cache[k] EXCEPT !.cause = <<NoCaller, "timeout">>])

(* The child ends by itself, even as its context ends, or is killed.       *)
RunReturns(k) ==
    /\ cache[k].load = "live"
    /\ \E e \in {NoErr, cache[k].cause}
               \cup IF "exit" \in Failures THEN {<<NoCaller, "process error">>} ELSE {} :
          Loaded(k, [cache[k] EXCEPT !.load = "exited", !.runErr = e])

(* The order in which load's switch asks; what was written may not parse.  *)
loadOutcome(k) ==
    IF cache[k].over THEN {"malformed"}
    ELSE IF cache[k].runErr[2] = "timeout" THEN {"timeout"}
    ELSE IF cause[cache[k].owner] # NoErr THEN {"cancelled"}
    ELSE IF cache[k].runErr[2] = "missing" THEN {"missing"}
    ELSE IF cache[k].runErr # NoErr THEN {"process error"}
    ELSE IF "parse" \in Failures THEN {"ok", "malformed"} ELSE {"ok"}

(* The records and the error are set, and ready is closed; the run's own   *)
(* state is gone.                                                          *)
load(k) ==
    /\ cache[k].load = "exited"
    /\ \E o \in loadOutcome(k) :
          Loaded(k, [NoLoad EXCEPT !.load = "ready", !.owner = cache[k].owner, !.outcome = o,
                       !.err = CASE o = "cancelled" -> cause[cache[k].owner]
                                 [] o = "malformed" -> <<NoCaller, "malformed">>
                                 [] OTHER -> cache[k].runErr])

-----------------------------------------------------------------------------
(* The goroutine of call c that loads: Builder.LoadInitialZoxide           *)

CacheOf(c) == IF policy = "cached" THEN NoCaller ELSE c

SourceStep(c, next) ==
    /\ source' = [source EXCEPT ![c] = next]
    /\ UNCHANGED <<configVars, cancelled, cause, callVars, localVars>>
KeepSource == UNCHANGED sourceRes

(* It returns an error and the outcome of the load, if any.                *)
SourceDone(c, e, o) ==
    /\ SourceStep(c, "done")
    /\ sourceRes' = [sourceRes EXCEPT ![c] = [err |-> e, outcome |-> o]]
Failed(c, e) == SourceDone(c, e, "none")

LoadInitialZoxide(c) ==
    /\ source[c] = "entered"
    /\ IF cause[c] # NoErr THEN Failed(c, cause[c])
       ELSE SourceStep(c, IF policy = "fresh" THEN "permit" ELSE "loading") /\ KeepSource
    /\ UNCHANGED <<permit, cache>>

(* Mutant: the permit is taken whether it is there or not.                 *)
acquireAnyway(c) ==
    /\ source[c] = "permit"
    /\ \/ cause[c] # NoErr /\ Failed(c, cause[c]) /\ UNCHANGED permit
       \/ permit' = FALSE /\ SourceStep(c, "granted") /\ KeepSource
    /\ UNCHANGED cache

acquireFreshPermit(c) ==
    /\ source[c] = "permit"
    /\ \/ cause[c] # NoErr /\ Failed(c, cause[c]) /\ UNCHANGED permit
       \/ permit /\ permit' = FALSE /\ SourceStep(c, "granted") /\ KeepSource
    /\ UNCHANGED cache

(* The context is asked once more; then NewCache, which may fail.          *)
NewCache(c) ==
    /\ source[c] = "granted"
    /\ \/ cause[c] # NoErr /\ Failed(c, cause[c]) /\ permit' = TRUE
       \/ /\ cause[c] = NoErr /\ "factory" \in Failures
          /\ Failed(c, <<c, "factory">>) /\ permit' = TRUE
       \/ cause[c] = NoErr /\ SourceStep(c, "loading") /\ KeepSource /\ UNCHANGED permit
    /\ UNCHANGED cache

(* Mutant: the call that starts the load may leave it like any other.      *)
LoadAsWaiter(c) ==
    /\ source[c] = "loading"
    /\ SourceStep(c, "waiting")
    /\ IF cache[CacheOf(c)].load = "none"
       THEN cache' = [cache EXCEPT ![CacheOf(c)].load = "attempt", ![CacheOf(c)].owner = c]
       ELSE UNCHANGED cache
    /\ KeepSource /\ UNCHANGED permit

(* ZoxideCache.Load: the first call starts the load and joins it, a later  *)
(* one waits for it.  A load that starts under a context already over has  *)
(* its cause.                                                              *)
Load(c) ==
    /\ source[c] = "loading"
    /\ IF cache[CacheOf(c)].load = "none"
       THEN /\ SourceStep(c, "joining")
            /\ cache' = [cache EXCEPT ![CacheOf(c)].load = "attempt", ![CacheOf(c)].owner = c,
                                      ![CacheOf(c)].cause = cause[c]]
       ELSE SourceStep(c, "waiting") /\ UNCHANGED cache
    /\ KeepSource /\ UNCHANGED permit

(* Mutant: a waiting call does not watch its context.                      *)
LoadReturnsDeaf(c) ==
    /\ source[c] \in {"joining", "waiting"} /\ cache[CacheOf(c)].load = "ready"
    /\ SourceStep(c, "reading") /\ KeepSource
    /\ UNCHANGED <<permit, cache>>

(* ready is closed, or a waiting call's own context ends first.            *)
LoadReturns(c) ==
    /\ \/ /\ source[c] \in {"joining", "waiting"} /\ cache[CacheOf(c)].load = "ready"
          /\ SourceStep(c, "reading") /\ KeepSource
       \/ source[c] = "waiting" /\ cause[c] # NoErr /\ Failed(c, cause[c])
    /\ UNCHANGED <<permit, cache>>

(* Mutant: the outcome's error is the call's error.                        *)
initialErrorHard(c) == cache[CacheOf(c)].err

(* Only a cancelled load, or the end of the call's own context, is an      *)
(* error; the latter not after a timeout.                                  *)
initialError(c) ==
    LET k == CacheOf(c) IN
    IF cache[k].outcome = "cancelled" THEN cache[k].err
    ELSE IF cache[k].outcome # "timeout" THEN cause[c] ELSE NoErr

(* A fresh cache is gone when its only reader has returned.                *)
loadInitialZoxide(c) ==
    /\ source[c] = "reading"
    /\ SourceDone(c, initialError(c),
                  IF initialError(c) = NoErr \/ cache[CacheOf(c)].outcome = "cancelled"
                  THEN cache[CacheOf(c)].outcome ELSE "none")
    /\ permit' = (policy = "fresh")
    /\ cache' = IF policy = "fresh" THEN [cache EXCEPT ![c] = NoLoad] ELSE cache

-----------------------------------------------------------------------------
(* The goroutine of call c that enumerates: Builder.BuildLocal             *)

BuildLocal(c) ==
    /\ local[c] = "running"
    /\ local' = [local EXCEPT ![c] = "done"]
    /\ \E e \in IF cause[c] # NoErr THEN {cause[c]}
               ELSE {NoErr} \cup IF "local" \in Failures THEN {<<c, "local">>} ELSE {} :
          localErr' = [localErr EXCEPT ![c] = e]
    /\ UNCHANGED <<configVars, permit, cache, cancelled, cause, callVars, sourceVars>>

-----------------------------------------------------------------------------
(* The call itself                                                         *)

KeepRest == UNCHANGED <<configVars, permit, cancelled, local, source>>
KeepSent == UNCHANGED <<localErr, sourceRes>>

(* Only its error remains; its context and what its goroutines have sent   *)
(* are forgotten.                                                          *)
Returns(c, e) ==
    /\ main' = [main EXCEPT ![c] = "returned"]
    /\ result' = [result EXCEPT ![c] = e]
    /\ kind' = [kind EXCEPT ![c] = "none"]
    /\ heard' = [heard EXCEPT ![c] = {}]
    /\ first' = [first EXCEPT ![c] = NoErr]
    /\ cause' = [cause EXCEPT ![c] = NoErr]
    /\ localErr' = [localErr EXCEPT ![c] = NoErr]
    /\ sourceRes' = [sourceRes EXCEPT ![c] = NoResult]

(* LoadInitialZoxide, or Build with its two goroutines.                    *)
Call(c) ==
    /\ main[c] = "idle"
    /\ \/ /\ cancelled[c] /\ Returns(c, cause[c])
          /\ UNCHANGED <<source, local>>
       \/ /\ ~cancelled[c]
          /\ main' = [main EXCEPT ![c] = "collecting"]
          /\ \E k \in {"load", "build"} :
                /\ kind' = [kind EXCEPT ![c] = k]
                /\ local' = IF k = "build" THEN [local EXCEPT ![c] = "running"] ELSE local
          /\ source' = [source EXCEPT ![c] = "entered"]
          /\ UNCHANGED <<heard, first, result, cause>> /\ KeepSent
    /\ UNCHANGED <<configVars, permit, cache, cancelled>>

ReturnLoad(c) ==
    /\ kind[c] = "load" /\ main[c] = "collecting" /\ source[c] = "done"
    /\ Returns(c, sourceRes[c].err)
    /\ UNCHANGED cache
    /\ KeepRest

(* What a goroutine of the build has sent                                  *)
Sent(c) ==
    (IF local[c] = "done" THEN {<<"local", localErr[c]>>} ELSE {})
    \cup (IF source[c] = "done" THEN {<<"source", sourceRes[c].err>>} ELSE {})

(* The first error cancels the other goroutine.                            *)
Collect(c) ==
    /\ kind[c] = "build" /\ main[c] = "collecting"
    /\ \E m \in Sent(c) :
          /\ m[1] \notin heard[c]
          /\ heard' = [heard EXCEPT ![c] = @ \cup {m[1]}]
          /\ IF m[2] = NoErr
             THEN UNCHANGED <<main, first, cache, cause>>
             ELSE /\ main' = [main EXCEPT ![c] = "draining"]
                  /\ first' = [first EXCEPT ![c] = m[2]]
                  /\ Cancel(c, m[2])
    /\ UNCHANGED <<kind, result>> /\ KeepSent
    /\ KeepRest

Both == {"local", "source"}

(* The deferred cancel(nil), after both goroutines are done                *)
ReturnBuild(c) ==
    /\ main[c] = "collecting" /\ heard[c] = Both
    /\ Returns(c, IF sourceRes[c].outcome # "timeout" /\ cancelled[c] THEN <<c, "caller">> ELSE NoErr)
    /\ CancelRun(c, <<c, "finished">>)
    /\ KeepRest

Drain(c) ==
    /\ main[c] = "draining"
    /\ \/ /\ \E m \in Sent(c) : m[1] \notin heard[c]
          /\ heard' = [heard EXCEPT ![c] = Both]
          /\ UNCHANGED <<main, kind, first, result, cause>> /\ KeepSent
       \/ /\ heard[c] = Both
          /\ Returns(c, IF cancelled[c] THEN <<c, "caller">> ELSE first[c])
    /\ UNCHANGED cache
    /\ KeepRest

-----------------------------------------------------------------------------

RunStep(k)  == Spawn(k) \/ RunReturns(k) \/ load(k)
SourceSteps(c) ==
    \/ LoadInitialZoxide(c) \/ acquireFreshPermit(c) \/ NewCache(c) \/ Load(c)
    \/ LoadReturns(c) \/ loadInitialZoxide(c)
CallSteps(c) == ReturnLoad(c) \/ Collect(c) \/ ReturnBuild(c) \/ Drain(c)

Next ==
    \/ \E c \in Callers : CallerEnds(c) \/ Call(c) \/ SourceSteps(c) \/ BuildLocal(c) \/ CallSteps(c)
    \/ \E k \in Caches : RunStep(k) \/ ExceedLimit(k) \/ TimeoutFires(k)

Spec == Init /\ [][Next]_vars

(* What must go on: the goroutines, the reading of a directory, the timer, *)
(* and a run once its context has ended (ProcessChild!WaitReturns).  No    *)
(* child need end by itself.  A call is made once and no step is repeated, *)
(* so it is enough that one of these is taken as long as there is one: no  *)
(* goroutine and no receiver of the permit can be passed over for ever.    *)
Progress ==
    \/ \E c \in Callers : SourceSteps(c) \/ BuildLocal(c) \/ CallSteps(c)
    \/ \E k \in Caches :
          \/ TimeoutFires(k)
          \/ RunStep(k) /\ (cache[k].load # "live" \/ cache[k].cause # NoErr)

Fairness == WF_vars(Progress)

FairSpec == Spec /\ Fairness

-----------------------------------------------------------------------------
(* Properties                                                              *)

(* README.md: at most one live zoxide process per session Builder, with    *)
(* either policy and however many calls overlap.                           *)
OneLiveProcess == \A j, k \in Caches : Running(j) /\ Running(k) => j = k

(* A call that has returned has no goroutine and no process running on its *)
(* behalf: nothing outlives the context its deferred cancel ends.          *)
NothingLeftBehind ==
    \A c \in Callers : main[c] = "returned" =>
        /\ local[c] \in {"idle", "done"} /\ source[c] \in {"idle", "done"}
        /\ \A k \in Caches : cache[k].owner = c => cache[k].load \in {"none", "ready"}

(* A failure of zoxide (timeout, missing, exit code, limits, malformed) is *)
(* soft.  A call fails only because its context ended, its own directory   *)
(* or its own factory failed, or, with the shared cache, because the call  *)
(* that owned the load failed in such a way and took the load with it.     *)
FailuresHaveAReason ==
    \A c \in Callers :
        LET e == result[c] IN
        main[c] = "returned" /\ e # NoErr =>
            /\ e[2] \in {"caller", "local", "factory"}
            /\ e[2] = "caller" => cancelled[e[1]]
            /\ e[1] # c => policy = "cached" /\ cache[NoCaller].outcome = "cancelled"
                           /\ cache[NoCaller].owner = e[1]

(* Every call returns whose context has ended or whose load has a timeout: *)
(* the owner of a load, those who wait for it and those who wait for the   *)
(* permit.  (A call that was made, a context that has ended and a call     *)
(* that has returned stay so: this is a leads-to for all calls at once.)   *)
CallsReturn ==
    <>[](\A c \in Callers :
            main[c] # "idle" /\ (timed \/ cancelled[c]) => main[c] = "returned")
=============================================================================
