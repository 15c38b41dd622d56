---------------------- MODULE LocalEnumeration_proofs ----------------------
(***************************************************************************)
(* LocalEnumeration, for every directory, every number of workers asked    *)
(* for and every set of failures: a cancellation comes from the caller, no *)
(* worker is left when the caller goes on, and a call that succeeds        *)
(* returns the whole directory in order.                                   *)
(***************************************************************************)
EXTENDS LocalEnumeration, TLAPS, FiniteSetTheorems

(* The types that the argument needs.                                      *)
PoolTypes ==
    /\ at \in [Workers -> {"idle", "select", "check", "stat", "report", "cancel", "done"}]
    /\ found \in [Workers -> Errors]
    /\ errorsFound \in Errors
    /\ ctxDone \in BOOLEAN /\ workerCancel \in BOOLEAN
    /\ phase \in {"start", "read", "classify", "single", "send", "join", "build", "close", "done"}

(* Before the pool is started every worker is idle and nothing was found.  *)
BeforePool ==
    phase \in {"start", "read", "classify", "single"} =>
        /\ \A w \in Workers : at[w] = "idle"
        /\ ~workerCancel

IInv == PoolTypes /\ BeforePool /\ PoolInv

(* The initial states satisfy the invariant.                               *)
LEMMA InitPool == Init => IInv
  BY DEF Init, IInv, PoolTypes, BeforePool, PoolInv, CancelIsTheCallers, PoolIsJoined, Errors, NoError

(* What Stat can answer is no cancellation.                                *)
LEMMA StatErrors == \A i : statError(i) \in {NoError, "stat"}
  BY DEF statError

(* The caller's steps before the pool is started.                          *)
LEMMA BeforePoolSteps ==
  ASSUME IInv, EnumerateLocal \/ readLocalEntries \/ classifySymlinks \/ classifySingle
  PROVE  IInv'
PROOF
  <1> USE DEF IInv, PoolTypes, BeforePool, PoolInv, CancelIsTheCallers, PoolIsJoined, Errors, NoError
  <1>1. CASE EnumerateLocal
    BY <1>1 DEF EnumerateLocal, Proceed, ctxErr, inputVars, poolVars, workerVars
  <1>2. CASE readLocalEntries
    BY <1>2 DEF readLocalEntries, Proceed, inputVars, poolVars, workerVars
  <1>3. CASE classifySymlinks
    BY <1>3 DEF classifySymlinks, Proceed, ctxErr, inputVars
  <1>4. CASE classifySingle
    BY <1>4, StatErrors DEF classifySingle, Proceed, inputVars, poolVars, workerVars
  <1> QED BY <1>1, <1>2, <1>3, <1>4

(* A step of one worker.                                                   *)
LEMMA WorkerSteps ==
  ASSUME IInv, NEW w \in Workers, Worker(w)
  PROVE  IInv'
PROOF
  <1> USE DEF IInv, PoolTypes, BeforePool, PoolInv, CancelIsTheCallers, PoolIsJoined, Errors, NoError,
              WorkerStep, WorkerEnds
  <1>1. CASE WorkerLeaves(w)
    BY <1>1 DEF WorkerLeaves
  <1>2. CASE CheckContext(w)
    BY <1>2 DEF CheckContext, workerDone
  <1>3. CASE classifySymlink(w)
    BY <1>3, StatErrors DEF classifySymlink
  <1>4. CASE Report(w)
    BY <1>4 DEF Report
  <1>5. CASE CancelWorkers(w)
    BY <1>5 DEF CancelWorkers
  <1> QED BY <1>1, <1>2, <1>3, <1>4, <1>5 DEF Worker

(* The caller's steps with and after the pool, and the end of its context. *)
LEMMA PoolSteps ==
  ASSUME IInv,
         \/ ContextEnds \/ StopSending \/ Join \/ BuildRecords \/ CloseDirectory
         \/ \E w \in Workers : SendJob(w)
  PROVE  IInv'
PROOF
  <1> USE DEF IInv, PoolTypes, BeforePool, PoolInv, CancelIsTheCallers, PoolIsJoined, Errors, NoError
  <1>1. CASE ContextEnds
    BY <1>1 DEF ContextEnds, inputVars, poolVars, workerVars
  <1>2. CASE StopSending
    BY <1>2 DEF StopSending, inputVars, workerVars
  <1>3. CASE Join
    BY <1>3 DEF Join, Proceed, ctxErr, inputVars, workerVars
  <1>4. CASE BuildRecords
    BY <1>4 DEF BuildRecords, Proceed, ctxErr, inputVars, poolVars, workerVars
  <1>5. CASE CloseDirectory
    BY <1>5 DEF CloseDirectory, inputVars, poolVars, workerVars
  <1>6. CASE \E w \in Workers : SendJob(w)
    BY <1>6 DEF SendJob, WorkerStep
  <1> QED BY <1>1, <1>2, <1>3, <1>4, <1>5, <1>6

(* Every step keeps the pool's invariant.                                  *)
LEMMA PoolStep ==
  ASSUME IInv, [Next]_vars
  PROVE  IInv'
PROOF
  <1>1. CASE Next
    BY <1>1, BeforePoolSteps, WorkerSteps, PoolSteps DEF Next, Caller
  <1>2. CASE UNCHANGED vars
    BY <1>2 DEF vars, inputVars, poolVars, workerVars, IInv, PoolTypes, BeforePool, PoolInv,
                CancelIsTheCallers, PoolIsJoined
  <1> QED BY <1>1, <1>2

(* R orders S strictly and totally.                                        *)
TotalOrder(R, S) ==
    /\ \A a \in S : <<a, a>> \notin R
    /\ \A a, b \in S : a # b => <<a, b>> \in R \/ <<b, a>> \in R
    /\ \A a, b, c \in S : <<a, b>> \in R /\ <<b, c>> \in R => <<a, c>> \in R

IsGreatest(R, T, m) == m \in T /\ \A x \in T \ {m} : <<x, m>> \in R

Ascending(R, s) == \A i, j \in DOMAIN s : i < j => <<s[i], s[j]>> \in R

(* Induction over the subsets of a finite set, as a least counterexample.  *)
LEMMA LeastSubset ==
  ASSUME NEW S, IsFiniteSet(S), NEW Bad \in SUBSET SUBSET S, Bad # {}
  PROVE  \E T \in Bad : \A x \in T : T \ {x} \notin Bad
PROOF
  <1>1. IsWellFoundedOn(StrictSubsetOrdering(S), SUBSET S)
    BY FS_StrictSubsetOrderingWellFounded, FS_FiniteSubsetsOfFinite
  <1>2. PICK T \in Bad : \A U \in Bad : <<U, T>> \notin StrictSubsetOrdering(S)
    BY <1>1, WFMin
  <1>3. ASSUME NEW x \in T PROVE T \ {x} \notin Bad
    <2> SUFFICES ASSUME T \ {x} \in Bad PROVE FALSE
      OBVIOUS
    <2>1. <<T \ {x}, T>> \notin StrictSubsetOrdering(S)
      BY <1>2
    <2>2. T \ {x} \in SUBSET S /\ T \in SUBSET S /\ T \ {x} # T
      OBVIOUS
    <2> QED BY <2>1, <2>2 DEF StrictSubsetOrdering
  <1> QED BY <1>3

(* A finite set that is not empty has a greatest element.                  *)
LEMMA GreatestExists ==
  ASSUME NEW S, IsFiniteSet(S), S # {}, NEW R, TotalOrder(R, S)
  PROVE  \E m : IsGreatest(R, S, m)
PROOF
  <1> DEFINE Bad == {T \in SUBSET S : T # {} /\ ~\E m : IsGreatest(R, T, m)}
  <1>1. SUFFICES ASSUME Bad # {} PROVE FALSE
    OBVIOUS
  <1>2. PICK T \in Bad : \A x \in T : T \ {x} \notin Bad
    BY <1>1, LeastSubset
  <1>3. PICK x : x \in T
    OBVIOUS
  <1>4. CASE T \ {x} = {}
    BY <1>3, <1>4 DEF IsGreatest
  <1>5. CASE T \ {x} # {}
    <2>1. PICK m : IsGreatest(R, T \ {x}, m)
      BY <1>2, <1>3, <1>5
    <2>2. m \in S /\ x \in S /\ m # x /\ T \subseteq S
      BY <1>3, <2>1 DEF IsGreatest
    <2>3. CASE <<x, m>> \in R
      BY <2>1, <2>2, <2>3 DEF IsGreatest
    <2>4. CASE <<m, x>> \in R
      BY <1>3, <2>1, <2>2, <2>4 DEF IsGreatest, TotalOrder
    <2> QED BY <2>2, <2>3, <2>4 DEF TotalOrder
  <1> QED BY <1>4, <1>5

(* What SetToSeqs contains: each element of the set once.                  *)
LEMMA Enumerations ==
  ASSUME NEW S, IsFiniteSet(S), NEW s \in SetToSeqs(S)
  PROVE  /\ s \in Seq(S) /\ Len(s) = Cardinality(S) /\ Cardinality(S) \in Nat
         /\ s \in [1..Len(s) -> S]
         /\ \A x \in S : \E i \in 1..Len(s) : s[i] = x
         /\ \A i, j \in 1..Len(s) : s[i] = s[j] => i = j
PROOF
  <1> DEFINE n == Cardinality(S)
  <1>1. n \in Nat
    BY FS_CardinalityType
  <1>2. s \in [1..n -> S] /\ \A i, j \in 1..n : i # j => s[i] # s[j]
    BY DEF SetToSeqs
  <1>3. s \in Injection(1..n, S)
    BY <1>2 DEF Injection, IsInjective
  <1>4. IsFiniteSet(1..n) /\ Cardinality(1..n) = n
    BY <1>1, FS_Interval
  <1>5. s \in Surjection(1..n, S)
    BY <1>3, <1>4, FS_Injection
  <1>6. s \in Seq(S) /\ Len(s) = n
    BY <1>1, <1>2
  <1> QED BY <1>1, <1>2, <1>5, <1>6 DEF Surjection

(* A finite set can be sorted.                                             *)
LEMMA SortedExists ==
  ASSUME NEW S, IsFiniteSet(S), NEW R, TotalOrder(R, S)
  PROVE  \E s \in SetToSeqs(S) : Ascending(R, s)
PROOF
  <1> DEFINE Bad == {T \in SUBSET S : ~\E s \in SetToSeqs(T) : Ascending(R, s)}
  <1>1. SUFFICES ASSUME Bad # {} PROVE FALSE
    OBVIOUS
  <1>2. PICK T \in Bad : \A x \in T : T \ {x} \notin Bad
    BY <1>1, LeastSubset
  <1>3. IsFiniteSet(T) /\ TotalOrder(R, T)
    BY FS_Subset DEF TotalOrder
  <1>4. CASE T = {}
    <2> DEFINE empty == [i \in 1..0 |-> i]
    <2>1. Cardinality(T) = 0 /\ empty \in [1..0 -> T] /\ 1..0 = {}
      BY <1>4, FS_EmptySet
    <2>2. empty \in SetToSeqs(T)
      BY <2>1 DEF SetToSeqs
    <2>3. Ascending(R, empty)
      BY <2>1 DEF Ascending
    <2> QED BY <2>2, <2>3
  <1>5. CASE T # {}
    <2>1. PICK m : IsGreatest(R, T, m)
      BY <1>3, <1>5, GreatestExists
    <2>2. m \in T /\ \A x \in T \ {m} : <<x, m>> \in R
      BY <2>1 DEF IsGreatest
    <2>3. PICK s \in SetToSeqs(T \ {m}) : Ascending(R, s)
      BY <1>2, <2>2
    <2> DEFINE n == Cardinality(T \ {m})
               t == [i \in 1..(n + 1) |-> IF i = n + 1 THEN m ELSE s[i]]
    <2>4. IsFiniteSet(T \ {m}) /\ n \in Nat /\ Cardinality(T) = n + 1
      <3>1. IsFiniteSet(T \ {m}) /\ n = Cardinality(T) - 1
        BY <1>3, <2>2, FS_RemoveElement
      <3>2. Cardinality(T) \in Nat /\ n \in Nat
        BY <1>3, <3>1, FS_CardinalityType
      <3> HIDE DEF n
      <3> QED BY <3>1, <3>2
    <2>5. s \in [1..n -> T \ {m}] /\ \A i, j \in 1..n : s[i] = s[j] => i = j
      BY <2>4, Enumerations
    <2> HIDE DEF n
    <2>6. t \in SetToSeqs(T)
      <3>1. t \in [1..(n + 1) -> T] /\ \A i, j \in 1..(n + 1) : i # j => t[i] # t[j]
        BY <2>2, <2>4, <2>5
      <3> QED BY <2>4, <3>1 DEF SetToSeqs
    <2>7. Ascending(R, t)
      <3> SUFFICES ASSUME NEW i \in 1..(n + 1), NEW j \in 1..(n + 1), i < j PROVE <<t[i], t[j]>> \in R
        BY DEF Ascending
      <3>1. CASE j = n + 1
        BY <2>2, <2>4, <2>5, <3>1
      <3>2. CASE j # n + 1
        BY <2>3, <2>4, <2>5, <3>2 DEF Ascending
      <3> QED BY <3>1, <3>2
    <2> QED BY <2>6, <2>7
  <1> QED BY <1>4, <1>5

(* The numbers in S in ascending order.                                    *)
Numbered(S) == CHOOSE s \in SetToSeqs(S) : \A i, j \in DOMAIN s : i < j => s[i] < s[j]

(* The links among the entries.                                            *)
LinkSet == {i \in DOMAIN entries : entries[i].symlink}

LEMMA IndicesAreNumbered == symlinkIndices = Numbered(LinkSet)
  BY DEF symlinkIndices, Numbered, LinkSet

(* symlinkIndices contains each link once.                                 *)
LEMMA LinkIndices ==
  ASSUME entries \in Seq(Entries)
  PROVE  /\ Len(symlinkIndices) \in Nat
         /\ symlinkIndices \in [1..Len(symlinkIndices) -> LinkSet]
         /\ \A i \in LinkSet : \E k \in 1..Len(symlinkIndices) : symlinkIndices[k] = i
PROOF
  <1> DEFINE R == {p \in Nat \X Nat : p[1] < p[2]}
  <1>1. LinkSet \subseteq 1..Len(entries) /\ Len(entries) \in Nat
    BY DEF LinkSet
  <1>2. IsFiniteSet(LinkSet)
    <2>1. IsFiniteSet(1..Len(entries))
      BY <1>1, FS_Interval
    <2> QED BY <1>1, <2>1, FS_Subset
  <1>3. TotalOrder(R, LinkSet)
    BY <1>1 DEF TotalOrder
  <1>4. PICK s \in SetToSeqs(LinkSet) : Ascending(R, s)
    BY <1>2, <1>3, SortedExists
  <1>5. \A i, j \in DOMAIN s : i < j => s[i] < s[j]
    BY <1>4 DEF Ascending
  <1>6. Numbered(LinkSet) \in SetToSeqs(LinkSet)
    BY <1>5 DEF Numbered
  <1>7. symlinkIndices \in SetToSeqs(LinkSet)
    BY <1>6, IndicesAreNumbered
  <1>8. /\ Len(symlinkIndices) \in Nat
        /\ symlinkIndices \in [1..Len(symlinkIndices) -> LinkSet]
        /\ \A i \in LinkSet : \E k \in 1..Len(symlinkIndices) : symlinkIndices[k] = i
    BY <1>2, <1>7, Enumerations
  <1> QED BY <1>8

(* sortLocalEntries sorts: each name once, in the order of before.         *)
LEMMA SortedNames ==
  ASSUME NEW S \in SUBSET Entries
  PROVE  LET names == {e.name : e \in S}
             s == sortLocalEntries(S)
         IN  /\ s \in Seq(Names) /\ s \in [1..Len(s) -> names]
             /\ \A n \in names : \E i \in 1..Len(s) : s[i] = n
             /\ \A i, j \in 1..Len(s) : i < j => before(s[i], s[j])
PROOF
  <1> DEFINE names == {e.name : e \in S}
             R == {p \in Names \X Names : before(p[1], p[2])}
             s == sortLocalEntries(S)
  <1>1. names \subseteq Names /\ IsFiniteSet(names)
    <2>1. names \subseteq Names
      BY DEF Entries
    <2> QED BY <2>1, FS_Subset, NamesAssumption
  <1>2. TotalOrder(R, names)
    <2>1. \A n \in names : n \in Names /\ n.hidden \in BOOLEAN /\ n.folded \in Nat /\ n.raw \in Nat
                           /\ n = [hidden |-> n.hidden, folded |-> n.folded, raw |-> n.raw]
      BY <1>1, NamesAssumption
    <2> HIDE DEF names
    <2>2. \A a \in names : <<a, a>> \notin R
      BY <2>1 DEF before
    <2>3. \A a, b \in names : a # b => <<a, b>> \in R \/ <<b, a>> \in R
      <3> SUFFICES ASSUME NEW a \in names, NEW b \in names, a # b,
                          ~before(a, b), ~before(b, a)
                   PROVE  FALSE
        BY <2>1
      <3>1. a.hidden = b.hidden /\ a.folded = b.folded /\ a.raw = b.raw
        BY <2>1 DEF before
      <3> QED BY <2>1, <3>1
    <2>4. \A a, b, c \in names : <<a, b>> \in R /\ <<b, c>> \in R => <<a, c>> \in R
      BY <2>1 DEF before
    <2> QED BY <2>2, <2>3, <2>4 DEF TotalOrder
  <1> HIDE DEF names
  <1>3. PICK t \in SetToSeqs(names) : Ascending(R, t)
    BY <1>1, <1>2, SortedExists
  <1>4. \A i, j \in DOMAIN t : i < j => before(t[i], t[j])
    BY <1>3 DEF Ascending
  <1>5. s \in SetToSeqs(names) /\ \A i, j \in DOMAIN s : i < j => before(s[i], s[j])
    <2>1. s = CHOOSE u \in SetToSeqs(names) : \A i, j \in DOMAIN u : i < j => before(u[i], u[j])
      BY DEF sortLocalEntries, names
    <2> HIDE DEF s
    <2> QED BY <1>4, <2>1
  <1> HIDE DEF s
  <1>6. /\ s \in Seq(names) /\ s \in [1..Len(s) -> names]
        /\ \A n \in names : \E i \in 1..Len(s) : s[i] = n
    BY <1>1, <1>5, Enumerations
  <1>7. s \in Seq(Names) /\ DOMAIN s = 1..Len(s)
    BY <1>1, <1>6
  <1> QED BY <1>5, <1>6, <1>7 DEF s, names

(* What is known of entry i: a link is a directory only when it has been   *)
(* found to lead to one.                                                   *)
EntryOf(i) ==
    LET e == entries[i] IN
    /\ e.name \in DOMAIN content
    /\ e.symlink <=> content[e.name] \in Links
    /\ content[e.name] = "directory" => e.directory
    /\ e.directory => IsDirectory(e.name)

EntryInv ==
    /\ DOMAIN content \subseteq Names /\ content \in [DOMAIN content -> Kinds]
    /\ entries \in Seq(Entries)
    /\ unread \subseteq DOMAIN content
    /\ \A i \in DOMAIN entries : EntryOf(i)
    /\ \A n \in DOMAIN content \ unread : \E i \in DOMAIN entries : entries[i].name = n

(* Entry i is as the records need it.                                      *)
Settled(i) ==
    /\ content[entries[i].name] # "unreadable link"
    /\ entries[i].directory <=> IsDirectory(entries[i].name)

AllSettled == \A i \in DOMAIN entries : Settled(i)

(* The call cannot succeed any more.                                       *)
Failing == ctxDone \/ errorsFound # NoError \/ \E w \in Workers : at[w] = "report"

(* Link i has been sent: it is settled, in the hands of a worker, or given *)
(* up together with the call.                                              *)
Handled(i) == Settled(i) \/ Failing \/ \E w \in Workers : at[w] \in {"check", "stat"} /\ job[w] = i

JobInv ==
    /\ next \in Nat \ {0} /\ job \in [Workers -> Nat]
    /\ \A w \in Workers : at[w] \in {"check", "stat"} => job[w] \in LinkSet
    /\ phase \in {"send", "join"} =>
          \A k \in 1..Len(symlinkIndices) : k < next => Handled(symlinkIndices[k])
    /\ phase = "join" /\ next <= Len(symlinkIndices) => Failing
    /\ phase \in {"start", "read", "classify", "single"} => next = 1
    /\ phase = "single" => Len(symlinkIndices) = 1

ResultInv ==
    /\ phase \notin {"close", "done"} => err = {} /\ records = << >>
    /\ phase \notin {"start", "read"} /\ err = {} => unread = {}
    /\ phase = "build" => AllSettled
    /\ phase \in {"close", "done"} =>
          IF err = {} THEN AllSettled /\ records = buildLocalRecords ELSE records = << >>

CompleteInv == EntryInv /\ JobInv /\ ResultInv

(* The types of the arguments and of what the call returns.                *)
CallType ==
    /\ picker \in Pickers /\ requested \in StatWorkers
    /\ content \in UNION {[S -> Kinds] : S \in SUBSET Names}
    /\ closed \in BOOLEAN
    /\ err \subseteq {"open", "read", "close", "cancelled", "stat"}

LocalInv == IInv /\ CompleteInv /\ CallType

(* A step that leaves the entries alone.                                   *)
LEMMA SameEntries ==
  ASSUME EntryInv, UNCHANGED <<content, unread, entries>>
  PROVE  /\ EntryInv' /\ LinkSet' = LinkSet /\ symlinkIndices' = symlinkIndices
         /\ AllSettled <=> AllSettled'
         /\ \A i : Settled(i) <=> Settled(i)'
PROOF
  <1>1. EntryInv'
    BY DEF EntryInv, EntryOf, IsDirectory
  <1>2. LinkSet' = LinkSet
    BY DEF LinkSet
  <1>3. symlinkIndices' = symlinkIndices
    BY <1>2, IndicesAreNumbered DEF symlinkIndices
  <1>4. (AllSettled <=> AllSettled') /\ \A i : Settled(i) <=> Settled(i)'
    BY DEF AllSettled, Settled, IsDirectory
  <1> QED BY <1>1, <1>2, <1>3, <1>4

(* The step of classifySymlink that writes into the slice: it settles its  *)
(* link, unless Stat fails, and disturbs no other entry.                   *)
LEMMA OneClassified ==
  ASSUME EntryInv, NEW i \in LinkSet, entries' = Classified(i), UNCHANGED <<content, unread>>
  PROVE  /\ EntryInv' /\ LinkSet' = LinkSet /\ symlinkIndices' = symlinkIndices
         /\ DOMAIN entries' = DOMAIN entries
         /\ \A j \in DOMAIN entries : Settled(j) => Settled(j)'
         /\ statError(i) = NoError => Settled(i)'
PROOF
  <1>1. i \in DOMAIN entries /\ entries[i] \in Entries /\ EntryOf(i)
    BY DEF LinkSet, EntryInv
  <1>2. CASE content[entries[i].name] # "link to directory"
    <2>1. UNCHANGED entries
      BY <1>2 DEF Classified
    <2>2. statError(i) = NoError => Settled(i)
      BY <1>1, <1>2 DEF statError, Settled, EntryOf, IsDirectory, NoError, LinkSet, Links
    <2> QED BY <2>1, <2>2, SameEntries
  <1>3. CASE content[entries[i].name] = "link to directory"
    <2> DEFINE e == [entries[i] EXCEPT !.directory = TRUE]
    <2>1. entries' = [entries EXCEPT ![i] = e]
      BY <1>3 DEF Classified
    <2>2. e \in Entries /\ e.name = entries[i].name /\ e.symlink = entries[i].symlink /\ e.directory
      BY <1>1 DEF Entries
    <2> HIDE DEF e
    <2>3. entries' \in Seq(Entries) /\ DOMAIN entries' = DOMAIN entries
      BY <1>1, <2>1, <2>2 DEF EntryInv
    <2>4. \A j \in DOMAIN entries : entries'[j] = IF j = i THEN e ELSE entries[j]
      BY <2>1 DEF EntryInv
    <2>5. \A j \in DOMAIN entries : EntryOf(j)'
      BY <1>1, <1>3, <2>2, <2>4 DEF EntryInv, EntryOf, IsDirectory
    <2>6. \A j \in DOMAIN entries : entries'[j].name = entries[j].name /\ entries'[j].symlink = entries[j].symlink
      BY <2>2, <2>4
    <2>7. EntryInv'
      BY <2>3, <2>5, <2>6 DEF EntryInv
    <2>8. LinkSet' = LinkSet
      BY <2>3, <2>6 DEF LinkSet
    <2>9. symlinkIndices' = symlinkIndices
      <3>1. symlinkIndices' = Numbered(LinkSet')
        BY DEF symlinkIndices, Numbered, LinkSet
      <3> QED BY <2>8, <3>1, IndicesAreNumbered
    <2>10. Settled(i)' /\ \A j \in DOMAIN entries : Settled(j) => Settled(j)'
      BY <1>1, <1>3, <2>2, <2>4 DEF Settled, IsDirectory
    <2> QED BY <2>3, <2>7, <2>8, <2>9, <2>10
  <1> QED BY <1>2, <1>3

(* An entry that is no link needs no classification.                       *)
LEMMA PlainEntries ==
  ASSUME EntryInv, NEW i \in DOMAIN entries, i \notin LinkSet
  PROVE  Settled(i)
PROOF
  <1>1. EntryOf(i) /\ ~entries[i].symlink
    BY DEF EntryInv, LinkSet
  <1>2. content[entries[i].name] \in EntryKinds
    BY <1>1, KindsAssumption DEF EntryInv, EntryOf
  <1> QED BY <1>1, <1>2 DEF EntryOf, Settled, IsDirectory, EntryKinds, Links

(* The directory has names that nobody has read, and no entry.             *)
LEMMA InitComplete == Init => CompleteInv
PROOF
  <1> SUFFICES ASSUME Init PROVE CompleteInv
    OBVIOUS
  <1>1. DOMAIN content \subseteq Names /\ content \in [DOMAIN content -> Kinds]
    BY DEF Init
  <1>2. EntryInv
    BY <1>1 DEF Init, EntryInv
  <1>3. JobInv /\ ResultInv
    BY DEF Init, JobInv, ResultInv, NoJob
  <1> QED BY <1>2, <1>3 DEF CompleteInv

LEMMA EntryFields ==
  ASSUME NEW n
  PROVE  /\ Entry(n).name = n
         /\ Entry(n).directory = (content[n] = "directory")
         /\ Entry(n).symlink = (content[n] \in Links)
PROOF
  <1>1. Entry(n).name = n
    BY DEF Entry
  <1>2. Entry(n).directory = (content[n] = "directory")
    BY Zenon DEF Entry
  <1>3. Entry(n).symlink = (content[n] \in Links)
    BY Zenon DEF Entry
  <1> QED BY <1>1, <1>2, <1>3

(* ReadDir's names become entries.                                         *)
LEMMA BatchRead ==
  ASSUME EntryInv, NEW batch \in SetToAllKPermutations(unread), Len(batch) \in 1..BatchSize,
         unread' = unread \ Range(batch), UNCHANGED content,
         entries' = entries \o [i \in DOMAIN batch |-> Entry(batch[i])]
  PROVE  EntryInv'
PROOF
  <1>1. PICK T \in SUBSET unread : batch \in SetToSeqs(T)
    BY DEF SetToAllKPermutations
  <1>2. T \subseteq Names /\ IsFiniteSet(T) /\ T \subseteq DOMAIN content
    BY <1>1, NamesAssumption, FS_Subset DEF EntryInv
  <1> DEFINE n == Len(batch)
             m == Len(entries)
             more == [i \in DOMAIN batch |-> Entry(batch[i])]
  <1>3. n \in Nat /\ batch \in [1..n -> T] /\ \A x \in T : \E i \in 1..n : batch[i] = x
    BY <1>1, <1>2, Enumerations
  <1> HIDE DEF n
  <1>4. \A i \in 1..n : Entry(batch[i]) \in Entries
    BY <1>2, <1>3 DEF Entry, Entries
  <1>5. more \in Seq(Entries) /\ Len(more) = n
    BY <1>3, <1>4
  <1>6. m \in Nat /\ entries \in Seq(Entries)
    BY DEF EntryInv
  <1> HIDE DEF m, more
  <1>7. /\ entries' \in Seq(Entries) /\ Len(entries') = m + n
        /\ \A i \in 1..m : entries'[i] = entries[i]
        /\ \A i \in 1..n : entries'[m + i] = more[i]
    BY <1>3, <1>5, <1>6 DEF m, more
  <1>8. \A i \in 1..n : more[i] = Entry(batch[i]) /\ batch[i] \in T
    BY <1>3 DEF more
  <1>9. DOMAIN entries = 1..m /\ DOMAIN entries' = 1..(m + n)
    BY <1>3, <1>6, <1>7 DEF m
  <1>10. \A i \in 1..(m + n) : i \in 1..m \/ \E j \in 1..n : i = m + j
    <2> SUFFICES ASSUME NEW i \in 1..(m + n), i \notin 1..m PROVE \E j \in 1..n : i = m + j
      OBVIOUS
    <2>1. i - m \in 1..n /\ i = m + (i - m)
      BY <1>3, <1>6
    <2> QED BY <2>1
  <1>11. ASSUME NEW k \in DOMAIN entries' PROVE EntryOf(k)'
    <2>1. CASE k \in 1..m
      BY <1>7, <1>9, <2>1 DEF EntryInv, EntryOf, IsDirectory
    <2>2. CASE \E j \in 1..n : k = m + j
      <3>1. PICK j \in 1..n : k = m + j
        BY <2>2
      <3>2. entries'[k] = Entry(batch[j]) /\ batch[j] \in DOMAIN content
        BY <1>2, <1>7, <1>8, <3>1
      <3>3. /\ entries'[k].name = batch[j]
            /\ entries'[k].directory <=> content[batch[j]] = "directory"
            /\ entries'[k].symlink <=> content[batch[j]] \in Links
        BY <3>2, EntryFields
      <3> QED BY <3>2, <3>3 DEF EntryOf, IsDirectory
    <2> QED BY <1>9, <1>10, <2>1, <2>2
  <1>12. ASSUME NEW x \in DOMAIN content \ unread' PROVE \E i \in DOMAIN entries' : entries'[i].name = x
    <2>1. CASE x \notin unread
      <3>1. PICK i \in 1..m : entries[i].name = x
        BY <1>9, <1>12, <2>1 DEF EntryInv
      <3>2. i \in 1..(m + n) /\ entries'[i].name = x
        BY <1>3, <1>6, <1>7, <3>1
      <3> QED BY <1>9, <3>2
    <2>2. CASE x \in Range(batch)
      <3>1. PICK j \in 1..n : batch[j] = x
        BY <1>3, <2>2 DEF Range
      <3>2. m + j \in 1..(m + n) /\ entries'[m + j].name = x
        BY <1>3, <1>6, <1>7, <1>8, <3>1 DEF Entry
      <3> QED BY <1>9, <3>2
    <2> QED BY <1>12, <2>1, <2>2
  <1>13. unread' \subseteq DOMAIN content'
    BY DEF EntryInv
  <1>14. DOMAIN content' \subseteq Names /\ content' \in [DOMAIN content' -> Kinds]
    BY DEF EntryInv
  <1> QED BY <1>7, <1>11, <1>12, <1>13, <1>14 DEF EntryInv

(* The caller's steps before the pool is started.                          *)
LEMMA CompleteBeforePool ==
  ASSUME LocalInv, EnumerateLocal \/ readLocalEntries \/ classifySymlinks \/ classifySingle
  PROVE  CompleteInv'
PROOF
  <1> USE DEF inputVars, poolVars, workerVars, Proceed, NoError
  <1>0. EntryInv /\ JobInv /\ ResultInv /\ PoolTypes /\ BeforePool
    BY DEF LocalInv, CompleteInv, IInv
  <1>1. CASE EnumerateLocal
    <2>1. UNCHANGED <<content, unread, entries>>
      BY <1>1 DEF EnumerateLocal
    <2>2. EntryInv'
      BY <1>0, <2>1, SameEntries
    <2>3. JobInv'
      BY <1>0, <1>1, <2>1, SameEntries DEF EnumerateLocal, JobInv, ctxErr
    <2>4. ResultInv'
      BY <1>0, <1>1 DEF EnumerateLocal, ResultInv, ctxErr
    <2> QED BY <2>2, <2>3, <2>4 DEF CompleteInv
  <1>2. CASE readLocalEntries
    <2>1. EntryInv'
      <3>1. CASE UNCHANGED <<unread, entries>>
        BY <1>0, <1>2, <3>1, SameEntries DEF readLocalEntries
      <3>2. CASE ~UNCHANGED <<unread, entries>>
        BY <1>0, <1>2, <3>2, BatchRead DEF readLocalEntries
      <3> QED BY <3>1, <3>2
    <2>2. JobInv'
      BY <1>0, <1>2 DEF readLocalEntries, JobInv, BeforePool
    <2>3. ResultInv'
      BY <1>0, <1>2 DEF readLocalEntries, ResultInv
    <2> QED BY <2>1, <2>2, <2>3 DEF CompleteInv
  <1>3. CASE classifySymlinks
    <2>1. UNCHANGED <<content, unread, entries>> /\ UNCHANGED <<job, next, errorsFound, ctxDone, records>>
      BY <1>3 DEF classifySymlinks
    <2>2. EntryInv' /\ LinkSet' = LinkSet /\ symlinkIndices' = symlinkIndices /\ (AllSettled <=> AllSettled')
      BY <1>0, <2>1, SameEntries
    <2>3. phase = "classify" /\ next = 1
      BY <1>0, <1>3 DEF classifySymlinks, JobInv
    <2>4. \A w \in Workers : at'[w] \in {"idle", "select"}
      BY <1>0, <1>3, <2>3 DEF classifySymlinks, BeforePool
    <2>5. Len(symlinkIndices) = 0 => AllSettled
      BY <1>0, LinkIndices, PlainEntries DEF AllSettled, EntryInv
    <2>6. phase' \in {"build", "close", "single", "send"}
      BY <1>3 DEF classifySymlinks
    <2>7. JobInv'
      <3>1. phase' = "single" => Len(symlinkIndices) = 1
        BY <1>3 DEF classifySymlinks
      <3> QED BY <1>0, <2>1, <2>2, <2>3, <2>4, <2>6, <3>1 DEF JobInv
    <2>8. /\ phase' = "build" => AllSettled /\ UNCHANGED err
          /\ phase' = "close" => err' # {}
          /\ phase' \in {"single", "send"} => UNCHANGED err
      BY <1>3, <2>5 DEF classifySymlinks
    <2>9. ResultInv'
      BY <1>0, <2>1, <2>2, <2>3, <2>6, <2>8 DEF ResultInv
    <2> QED BY <2>2, <2>7, <2>9 DEF CompleteInv
  <1>4. CASE classifySingle
    <2>1. PICK i : i = symlinkIndices[1]
      OBVIOUS
    <2>2. phase = "single" /\ next = 1 /\ \A w \in Workers : at[w] = "idle"
      BY <1>0, <1>4 DEF classifySingle, JobInv, BeforePool
    <2>3. i \in LinkSet /\ \A j \in LinkSet : j = i
      <3>1. Len(symlinkIndices) = 1
        BY <1>0, <1>4 DEF classifySingle, JobInv
      <3> QED BY <1>0, <2>1, <3>1, LinkIndices DEF EntryInv
    <2>4. UNCHANGED <<content, unread, ctxDone, next, closed, at, job, found, errorsFound, workerCancel, records>>
      BY <1>4 DEF classifySingle
    <2>5. CASE ctxDone
      <3>1. UNCHANGED entries /\ phase' = "close" /\ err' # {}
        BY <1>4, <2>5 DEF classifySingle
      <3> QED BY <1>0, <2>2, <2>4, <3>1, SameEntries DEF CompleteInv, JobInv, ResultInv
    <2>6. CASE ~ctxDone
      <3>1. /\ entries' = Classified(i)
            /\ IF statError(i) = NoError THEN phase' = "build" /\ UNCHANGED err
               ELSE phase' = "close" /\ err' # {}
        BY <1>4, <2>1, <2>6 DEF classifySingle
      <3>2. /\ EntryInv' /\ DOMAIN entries' = DOMAIN entries
            /\ \A j \in DOMAIN entries : Settled(j) => Settled(j)'
            /\ statError(i) = NoError => Settled(i)'
        BY <1>0, <2>3, <2>4, <3>1, OneClassified
      <3>3. statError(i) = NoError => AllSettled'
        BY <1>0, <2>3, <3>2, PlainEntries DEF AllSettled
      <3>4. JobInv'
        BY <1>0, <2>2, <2>4, <3>1 DEF JobInv
      <3>5. ResultInv'
        BY <1>0, <2>2, <2>4, <3>1, <3>3 DEF ResultInv
      <3> QED BY <3>2, <3>4, <3>5 DEF CompleteInv
    <2> QED BY <1>0, <2>5, <2>6 DEF PoolTypes
  <1> QED BY <1>1, <1>2, <1>3, <1>4

(* A worker's steps other than the one that writes into the slice.  What a *)
(* worker had in hand stays handled: if it drops a link, it reports.       *)
LEMMA CompleteQuietWorker ==
  ASSUME LocalInv, NEW w \in Workers,
         WorkerLeaves(w) \/ CheckContext(w) \/ Report(w) \/ CancelWorkers(w)
  PROVE  CompleteInv'
PROOF
  <1> USE DEF inputVars, WorkerStep, WorkerEnds, NoError
  <1>0. EntryInv /\ JobInv /\ ResultInv /\ PoolTypes /\ PoolInv
    BY DEF LocalInv, CompleteInv, IInv
  <1>1. UNCHANGED <<content, unread, entries, picker, phase, next, ctxDone, err, records>>
    BY DEF WorkerLeaves, CheckContext, Report, CancelWorkers
  <1>2. EntryInv' /\ LinkSet' = LinkSet /\ symlinkIndices' = symlinkIndices /\ (AllSettled <=> AllSettled')
        /\ \A i : Settled(i) <=> Settled(i)'
    BY <1>0, <1>1, SameEntries
  <1>3. ResultInv'
    BY <1>0, <1>1, <1>2 DEF ResultInv, buildLocalRecords
  <1>4. job' \in [Workers -> Nat] /\ \A v \in Workers : at'[v] \in {"check", "stat"} => at[v] \in {"check", "stat"} /\ job'[v] = job[v]
    <2>1. CASE WorkerLeaves(w)
      BY <1>0, <2>1 DEF WorkerLeaves, JobInv, PoolTypes, NoJob
    <2>2. CASE CheckContext(w)
      BY <1>0, <2>2 DEF CheckContext, JobInv, PoolTypes
    <2>3. CASE Report(w)
      BY <1>0, <2>3 DEF Report, JobInv, PoolTypes, NoJob
    <2>4. CASE CancelWorkers(w)
      BY <1>0, <2>4 DEF CancelWorkers, JobInv, PoolTypes, NoJob
    <2> QED BY <2>1, <2>2, <2>3, <2>4
  <1>5. Failing => Failing'
    <2>1. CASE WorkerLeaves(w)
      BY <1>0, <1>1, <2>1 DEF WorkerLeaves, PoolTypes, Failing
    <2>2. CASE CheckContext(w)
      BY <1>0, <1>1, <2>2 DEF CheckContext, PoolTypes, Failing
    <2>3. CASE Report(w)
      <3>1. errorsFound' # "none"
        BY <1>0, <2>3 DEF Report, PoolInv
      <3> QED BY <3>1 DEF Failing
    <2>4. CASE CancelWorkers(w)
      BY <1>0, <1>1, <2>4 DEF CancelWorkers, PoolTypes, Failing
    <2> QED BY <2>1, <2>2, <2>3, <2>4
  <1>6. ASSUME NEW v \in Workers, at[v] \in {"check", "stat"}
        PROVE  (at'[v] \in {"check", "stat"} /\ job'[v] = job[v]) \/ Failing'
    <2>1. CASE WorkerLeaves(w)
      BY <1>0, <1>6, <2>1 DEF WorkerLeaves, PoolTypes, JobInv
    <2>2. CASE CheckContext(w)
      BY <1>0, <1>6, <2>2 DEF CheckContext, PoolTypes, JobInv, Failing
    <2>3. CASE Report(w)
      BY <1>0, <1>6, <2>3 DEF Report, PoolTypes, JobInv
    <2>4. CASE CancelWorkers(w)
      BY <1>0, <1>6, <2>4 DEF CancelWorkers, PoolTypes, JobInv
    <2> QED BY <2>1, <2>2, <2>3, <2>4
  <1>7. ASSUME NEW i, Handled(i) PROVE Handled(i)'
    BY <1>2, <1>5, <1>6, <1>7 DEF Handled
  <1>8. JobInv'
    <2>1. \A v \in Workers : at'[v] \in {"check", "stat"} => job'[v] \in LinkSet'
      BY <1>0, <1>2, <1>4 DEF JobInv
    <2>2. ASSUME phase \in {"send", "join"}, NEW k \in 1..Len(symlinkIndices), k < next
          PROVE  Handled(symlinkIndices[k])'
      <3> SUFFICES ASSUME NEW i, i = symlinkIndices[k] PROVE Handled(i)'
        BY <1>2 DEF Handled, Settled
      <3> QED BY <1>0, <1>7, <2>2 DEF JobInv
    <2> QED BY <1>0, <1>1, <1>2, <1>4, <1>5, <2>1, <2>2 DEF JobInv
  <1> QED BY <1>2, <1>3, <1>8 DEF CompleteInv

(* A worker settles its link, or will report.                              *)
LEMMA CompleteClassification ==
  ASSUME LocalInv, NEW w \in Workers, classifySymlink(w)
  PROVE  CompleteInv'
PROOF
  <1> USE DEF inputVars, WorkerStep, NoError
  <1>0. EntryInv /\ JobInv /\ ResultInv /\ PoolTypes /\ PoolInv /\ BeforePool
    BY DEF LocalInv, CompleteInv, IInv
  <1>1. /\ UNCHANGED <<content, unread, picker, phase, next, ctxDone, err, records, job, errorsFound>>
        /\ entries' = Classified(job[w]) /\ at[w] = "stat"
    BY DEF classifySymlink
  <1>2. job[w] \in LinkSet /\ phase \in {"send", "join"}
    BY <1>0, <1>1 DEF JobInv, PoolTypes, PoolInv, PoolIsJoined, BeforePool
  <1>3. /\ EntryInv' /\ LinkSet' = LinkSet /\ symlinkIndices' = symlinkIndices
        /\ DOMAIN entries' = DOMAIN entries
        /\ \A j \in DOMAIN entries : Settled(j) => Settled(j)'
    BY <1>0, <1>1, <1>2, OneClassified
  <1>4. \A i : i = job[w] /\ statError(i) = NoError => Settled(i)'
    BY <1>0, <1>1, <1>2, OneClassified
  <1>5. ResultInv'
    BY <1>0, <1>1, <1>2 DEF ResultInv
  <1>6. /\ \A v \in Workers \ {w} : at'[v] = at[v]
        /\ at'[w] = IF statError(job[w]) = NoError THEN "select" ELSE "report"
    BY <1>0 DEF classifySymlink, PoolTypes
  <1>7. ASSUME NEW i \in DOMAIN entries, Handled(i) PROVE Handled(i)'
    <2>1. CASE Settled(i)
      BY <1>3, <2>1 DEF Handled
    <2>2. CASE Failing
      <3>1. Failing'
        BY <1>1, <1>6, <2>2 DEF Failing
      <3> QED BY <3>1 DEF Handled
    <2>3. ASSUME NEW v \in Workers, at[v] \in {"check", "stat"}, job[v] = i PROVE Handled(i)'
      <3>1. CASE v # w
        BY <1>1, <1>6, <2>3, <3>1 DEF Handled
      <3>2. CASE v = w /\ statError(job[w]) = NoError
        BY <1>4, <2>3, <3>2 DEF Handled
      <3>3. CASE v = w /\ statError(job[w]) # NoError
        BY <1>6, <3>3 DEF Handled, Failing
      <3> QED BY <3>1, <3>2, <3>3
    <2> QED BY <1>7, <2>1, <2>2, <2>3 DEF Handled
  <1>8. JobInv'
    <2>1. \A v \in Workers : at'[v] \in {"check", "stat"} => job'[v] \in LinkSet'
      BY <1>0, <1>1, <1>3, <1>6 DEF JobInv
    <2>2. ASSUME NEW k \in 1..Len(symlinkIndices), k < next PROVE Handled(symlinkIndices[k])'
      <3> SUFFICES ASSUME NEW i, i = symlinkIndices[k] PROVE Handled(i)'
        BY <1>3 DEF Handled, Settled
      <3>1. i \in DOMAIN entries
        BY <1>0, LinkIndices DEF EntryInv, LinkSet
      <3> QED BY <1>0, <1>2, <1>7, <2>2, <3>1 DEF JobInv
    <2>3. Failing => Failing'
      BY <1>1, <1>6 DEF Failing
    <2> QED BY <1>0, <1>1, <1>2, <1>3, <2>1, <2>2, <2>3 DEF JobInv
  <1> QED BY <1>3, <1>5, <1>8 DEF CompleteInv

(* The caller's steps with and after the pool, and the end of its context. *)
LEMMA CompletePool ==
  ASSUME LocalInv,
         \/ ContextEnds \/ StopSending \/ Join \/ BuildRecords \/ CloseDirectory
         \/ \E w \in Workers : SendJob(w)
  PROVE  CompleteInv'
PROOF
  <1> USE DEF inputVars, poolVars, workerVars, NoError
  <1>0. EntryInv /\ JobInv /\ ResultInv /\ PoolTypes /\ PoolInv
    BY DEF LocalInv, CompleteInv, IInv
  <1>1. UNCHANGED <<content, unread, entries, picker, errorsFound>>
    BY DEF ContextEnds, StopSending, Join, BuildRecords, CloseDirectory, SendJob, WorkerStep
  <1>2. EntryInv' /\ LinkSet' = LinkSet /\ symlinkIndices' = symlinkIndices /\ (AllSettled <=> AllSettled')
        /\ (\A i : Settled(i) <=> Settled(i)') /\ buildLocalRecords' = buildLocalRecords
    BY <1>0, <1>1, SameEntries DEF buildLocalRecords
  <1>3. CASE ContextEnds
    <2>1. UNCHANGED <<phase, next, at, job, err, records>> /\ ctxDone'
      BY <1>3 DEF ContextEnds
    <2>2. Failing' /\ \A i : Handled(i)'
      BY <2>1 DEF Failing, Handled
    <2>3. JobInv'
      BY <1>0, <1>2, <2>1, <2>2 DEF JobInv
    <2>4. ResultInv'
      BY <1>0, <1>1, <1>2, <2>1 DEF ResultInv
    <2> QED BY <1>2, <2>3, <2>4 DEF CompleteInv
  <1>4. CASE StopSending
    <2>1. /\ UNCHANGED <<next, at, job, err, records, ctxDone>> /\ phase = "send" /\ phase' = "join"
          /\ next > Len(symlinkIndices) \/ ctxDone \/ workerCancel
      BY <1>4 DEF StopSending, workerDone
    <2>2. Failing <=> Failing'
      BY <1>1, <2>1 DEF Failing
    <2>4. next <= Len(symlinkIndices) => Failing
      <3>1. Len(symlinkIndices) \in Nat /\ next \in Nat
        BY <1>0, LinkIndices DEF EntryInv, JobInv
      <3>2. workerCancel => errorsFound # NoError
        BY <1>0, <2>1 DEF PoolInv
      <3> QED BY <2>1, <3>1, <3>2 DEF Failing
    <2>5. \A k \in 1..Len(symlinkIndices) : k < next => Handled(symlinkIndices[k])
      BY <1>0, <2>1 DEF JobInv
    <2>6. \A k \in 1..Len(symlinkIndices') : k < next' => Handled(symlinkIndices[k])'
      BY <1>2, <2>1, <2>2, <2>5 DEF Handled
    <2>7. JobInv'
      BY <1>0, <1>2, <2>1, <2>2, <2>4, <2>6 DEF JobInv
    <2>8. ResultInv'
      BY <1>0, <1>1, <1>2, <2>1 DEF ResultInv
    <2> QED BY <1>2, <2>7, <2>8 DEF CompleteInv
  <1>5. CASE Join
    <2>1. /\ UNCHANGED <<next, at, job, ctxDone, records>> /\ phase = "join"
          /\ \A w \in Workers : at[w] \in {"idle", "done"}
          /\ IF errorsFound = NoError /\ ~ctxDone THEN phase' = "build" /\ UNCHANGED err
             ELSE phase' = "close" /\ err' # {}
      BY <1>5 DEF Join, Proceed, ctxErr
    <2>2. phase' = "build" => AllSettled
      <3> SUFFICES ASSUME errorsFound = NoError, ~ctxDone PROVE AllSettled
        BY <2>1
      <3>1. ~Failing
        BY <2>1 DEF Failing
      <3>2. ASSUME NEW i \in LinkSet PROVE Settled(i)
        <4>1. PICK k \in 1..Len(symlinkIndices) : symlinkIndices[k] = i
          BY <1>0, LinkIndices DEF EntryInv
        <4>2. k < next
          BY <1>0, <2>1, <3>1, <4>1, LinkIndices DEF JobInv, EntryInv
        <4>3. Handled(i)
          BY <1>0, <2>1, <4>1, <4>2 DEF JobInv
        <4> QED BY <2>1, <3>1, <4>3 DEF Handled
      <3> QED BY <1>0, <3>2, PlainEntries DEF AllSettled
    <2>3. JobInv'
      BY <1>0, <1>2, <2>1 DEF JobInv
    <2>4. ResultInv'
      BY <1>0, <1>1, <1>2, <2>1, <2>2 DEF ResultInv
    <2> QED BY <1>2, <2>3, <2>4 DEF CompleteInv
  <1>6. CASE BuildRecords
    <2>1. /\ UNCHANGED <<next, at, job>> /\ phase = "build" /\ phase' = "close"
          /\ IF ctxDone THEN err' # {} /\ records' = << >> ELSE UNCHANGED err /\ records' = buildLocalRecords
      BY <1>6 DEF BuildRecords, Proceed, ctxErr
    <2>2. JobInv'
      BY <1>0, <1>2, <2>1 DEF JobInv
    <2>3. ResultInv'
      BY <1>0, <1>1, <1>2, <2>1 DEF ResultInv
    <2> QED BY <1>2, <2>2, <2>3 DEF CompleteInv
  <1>7. CASE CloseDirectory
    <2>1. /\ UNCHANGED <<next, at, job>> /\ phase = "close" /\ phase' = "done"
          /\ UNCHANGED <<records, err>> \/ (err' # {} /\ records' = << >>)
      BY <1>7 DEF CloseDirectory
    <2>2. JobInv'
      BY <1>0, <1>2, <2>1 DEF JobInv
    <2>3. ResultInv'
      BY <1>0, <1>1, <1>2, <2>1 DEF ResultInv
    <2> QED BY <1>2, <2>2, <2>3 DEF CompleteInv
  <1>8. CASE \E w \in Workers : SendJob(w)
    <2>1. PICK w \in Workers : SendJob(w)
      BY <1>8
    <2>2. /\ UNCHANGED <<phase, err, records, ctxDone>> /\ phase = "send" /\ at[w] = "select"
          /\ next <= Len(symlinkIndices) /\ next' = next + 1
          /\ at' = [at EXCEPT ![w] = "check"] /\ job' = [job EXCEPT ![w] = symlinkIndices[next]]
      BY <2>1 DEF SendJob, WorkerStep
    <2>3. Len(symlinkIndices) \in Nat /\ next \in 1..Len(symlinkIndices) /\ symlinkIndices[next] \in LinkSet
          /\ symlinkIndices[next] \in Nat
      <3>1. next \in 1..Len(symlinkIndices) /\ Len(symlinkIndices) \in Nat
        BY <1>0, <2>2, LinkIndices DEF EntryInv, JobInv
      <3>2. symlinkIndices[next] \in LinkSet
        BY <1>0, <3>1, LinkIndices DEF EntryInv
      <3> QED BY <1>0, <3>1, <3>2 DEF LinkSet, EntryInv
    <2>4. /\ job' \in [Workers -> Nat] /\ job'[w] = symlinkIndices[next] /\ at'[w] = "check"
          /\ \A v \in Workers \ {w} : at'[v] = at[v] /\ job'[v] = job[v]
      BY <1>0, <2>2, <2>3 DEF JobInv, PoolTypes
    <2>5. Failing => Failing'
      BY <1>1, <2>2, <2>4 DEF Failing
    <2>6. ASSUME NEW i, Handled(i) \/ i = symlinkIndices[next] PROVE Handled(i)'
      <3>1. CASE Settled(i) \/ Failing
        BY <1>2, <2>5, <3>1 DEF Handled
      <3>2. CASE i = symlinkIndices[next]
        BY <2>4, <3>2 DEF Handled
      <3>3. ASSUME NEW v \in Workers, at[v] \in {"check", "stat"}, job[v] = i PROVE Handled(i)'
        <4>1. v # w
          BY <2>2, <3>3
        <4> QED BY <2>4, <3>3, <4>1 DEF Handled
      <3> QED BY <2>6, <3>1, <3>2, <3>3 DEF Handled
    <2>7. ASSUME NEW k \in 1..Len(symlinkIndices), k < next + 1 PROVE Handled(symlinkIndices[k])'
      <3> SUFFICES ASSUME NEW i, i = symlinkIndices[k] PROVE Handled(i)'
        BY <1>2 DEF Handled, Settled
      <3>1. k < next \/ k = next
        BY <1>0, <2>3, <2>7 DEF JobInv
      <3> QED BY <1>0, <2>2, <2>6, <3>1 DEF JobInv
    <2>8. JobInv'
      BY <1>0, <1>2, <2>2, <2>3, <2>4, <2>7 DEF JobInv
    <2>9. ResultInv'
      BY <1>0, <1>1, <1>2, <2>2 DEF ResultInv
    <2> QED BY <1>2, <2>8, <2>9 DEF CompleteInv
  <1> QED BY <1>3, <1>4, <1>5, <1>6, <1>7, <1>8

(* The arguments stay, and an error is one of those that can occur.        *)
LEMMA CallStep ==
  ASSUME IInv, CallType, Next
  PROVE  CallType'
PROOF
  <1> USE DEF CallType, inputVars, Proceed, NoError
  <1>1. CASE ContextEnds
    BY <1>1 DEF ContextEnds, poolVars
  <1>2. CASE EnumerateLocal \/ readLocalEntries \/ BuildRecords
    BY <1>2 DEF EnumerateLocal, readLocalEntries, BuildRecords, ctxErr, poolVars
  <1>3. CASE classifySymlinks
    BY <1>3 DEF classifySymlinks, ctxErr
  <1>4. CASE classifySingle
    BY <1>4, StatErrors DEF classifySingle, poolVars
  <1>5. CASE StopSending
    BY <1>5 DEF StopSending
  <1>6. CASE Join
    BY <1>6 DEF Join, ctxErr, IInv, PoolTypes, Errors
  <1>7. CASE CloseDirectory
    BY <1>7 DEF CloseDirectory, poolVars
  <1>8. CASE \E w \in Workers : SendJob(w) \/ Worker(w)
    BY <1>8 DEF SendJob, Worker, WorkerLeaves, CheckContext, classifySymlink, Report, CancelWorkers,
                WorkerStep, WorkerEnds
  <1> QED BY <1>1, <1>2, <1>3, <1>4, <1>5, <1>6, <1>7, <1>8 DEF Next, Caller

(* The invariant holds in every state of every behaviour.                  *)
LEMMA LocalInvariance == Spec => []LocalInv
PROOF
  <1>1. Init => LocalInv
    BY InitPool, InitComplete DEF LocalInv, CallType, Init
  <1>2. LocalInv /\ [Next]_vars => LocalInv'
    <2> SUFFICES ASSUME LocalInv, [Next]_vars PROVE LocalInv'
      OBVIOUS
    <2>0. IInv /\ CompleteInv /\ CallType
      BY DEF LocalInv
    <2>1. IInv'
      BY <2>0, PoolStep
    <2>2. CASE Next
      <3>1. CompleteInv'
        BY <2>2, CompleteBeforePool, CompletePool, CompleteQuietWorker, CompleteClassification
           DEF Next, Caller, Worker
      <3> QED BY <2>0, <2>1, <2>2, <3>1, CallStep DEF LocalInv
    <2>3. CASE UNCHANGED vars
      <3> USE <2>3 DEF vars, inputVars, poolVars, workerVars
      <3>1. EntryInv' /\ LinkSet' = LinkSet /\ symlinkIndices' = symlinkIndices /\ (AllSettled <=> AllSettled')
            /\ (\A i : Settled(i) <=> Settled(i)')
        BY <2>0, SameEntries DEF CompleteInv
      <3>2. JobInv'
        BY <2>0, <3>1 DEF CompleteInv, JobInv, Handled, Failing
      <3>3. ResultInv'
        BY <2>0, <3>1 DEF CompleteInv, ResultInv, buildLocalRecords
      <3>4. CallType'
        BY <2>0 DEF CallType
      <3> QED BY <2>1, <3>1, <3>2, <3>3, <3>4 DEF CompleteInv, LocalInv
    <2> QED BY <2>2, <2>3
  <1> QED BY <1>1, <1>2, PTL DEF Spec

(* The records of one kind.                                                *)
KindOf(k, S) == LET s == sortLocalEntries(S) IN [i \in DOMAIN s |-> [kind |-> k, name |-> s[i]]]

LEMMA KindRecords ==
  ASSUME NEW S \in SUBSET Entries, NEW k \in {"directory", "file"}
  PROVE  LET r == KindOf(k, S)
         IN  /\ r \in Seq(Records) /\ r \in [1..Len(r) -> Records]
             /\ Range(r) = {[kind |-> k, name |-> n] : n \in {e.name : e \in S}}
             /\ \A i \in 1..Len(r) : r[i].kind = k
             /\ \A i, j \in 1..Len(r) : i < j => before(r[i].name, r[j].name)
PROOF
  <1> DEFINE s == sortLocalEntries(S)
             r == KindOf(k, S)
             names == {e.name : e \in S}
  <1>1. /\ s \in Seq(Names) /\ s \in [1..Len(s) -> names]
        /\ \A n \in names : \E i \in 1..Len(s) : s[i] = n
        /\ \A i, j \in 1..Len(s) : i < j => before(s[i], s[j])
    BY SortedNames
  <1>2. names \subseteq Names
    BY DEF Entries
  <1>3. r = [i \in 1..Len(s) |-> [kind |-> k, name |-> s[i]]]
    BY <1>1 DEF KindOf
  <1> HIDE DEF s, r, names
  <1>4. /\ r \in [1..Len(s) -> Records] /\ Len(s) \in Nat
        /\ \A i \in 1..Len(s) : r[i] = [kind |-> k, name |-> s[i]]
    BY <1>1, <1>2, <1>3 DEF Records
  <1>5. r \in Seq(Records) /\ Len(r) = Len(s) /\ DOMAIN r = 1..Len(s)
    BY <1>3, <1>4
  <1>6. Range(r) = {[kind |-> k, name |-> n] : n \in names}
    BY <1>1, <1>4, <1>5 DEF Range
  <1>7. \A i \in 1..Len(r) : r[i].kind = k /\ r[i].name = s[i]
    BY <1>4, <1>5
  <1> QED BY <1>1, <1>4, <1>5, <1>6, <1>7 DEF r, names

(* Two lists, one after the other.                                         *)
LEMMA Concatenation ==
  ASSUME NEW p \in Seq(Records), NEW q \in Seq(Records)
  PROVE  /\ p \o q \in Seq(Records)
         /\ \A i \in 1..Len(p \o q) :
               \/ i \in 1..Len(p) /\ (p \o q)[i] = p[i]
               \/ i > Len(p) /\ i - Len(p) \in 1..Len(q) /\ (p \o q)[i] = q[i - Len(p)]
         /\ Range(p \o q) = Range(p) \cup Range(q)
PROOF
  <1> DEFINE m == Len(p)
             n == Len(q)
             r == p \o q
  <1>1. /\ r \in Seq(Records) /\ m \in Nat /\ n \in Nat /\ Len(r) = m + n
        /\ \A i \in 1..(m + n) : r[i] = IF i <= m THEN p[i] ELSE q[i - m]
    OBVIOUS
  <1>2. DOMAIN p = 1..m /\ DOMAIN q = 1..n /\ DOMAIN r = 1..(m + n)
    BY <1>1
  <1> HIDE DEF m, n, r
  <1>3. \A i \in 1..Len(r) :
           \/ i \in 1..m /\ r[i] = p[i]
           \/ i > m /\ i - m \in 1..n /\ r[i] = q[i - m]
    BY <1>1
  <1>4. \A i \in 1..m : i \in 1..(m + n) /\ r[i] = p[i]
    BY <1>1
  <1>5. \A i \in 1..n : m + i \in 1..(m + n) /\ r[m + i] = q[i]
    <2> SUFFICES ASSUME NEW i \in 1..n PROVE m + i \in 1..(m + n) /\ r[m + i] = q[i]
      OBVIOUS
    <2>1. m + i \in 1..(m + n) /\ ~(m + i <= m) /\ (m + i) - m = i
      BY <1>1
    <2> QED BY <1>1, <2>1
  <1>6. Range(r) \subseteq Range(p) \cup Range(q)
    BY <1>1, <1>2, <1>3 DEF Range
  <1>7. Range(p) \subseteq Range(r)
    BY <1>2, <1>4 DEF Range
  <1>8. Range(q) \subseteq Range(r)
    BY <1>2, <1>5 DEF Range
  <1> QED BY <1>1, <1>3, <1>6, <1>7, <1>8 DEF m, n, r

(* What buildLocalRecords makes of settled entries.                        *)
LEMMA SettledRecords ==
  ASSUME EntryInv, CallType, AllSettled, unread = {}, records = buildLocalRecords
  PROVE  /\ records \in Seq(Records)
         /\ Range(records) = Expected
         /\ Ordered
         /\ \A n \in DOMAIN content : content[n] # "unreadable link"
PROOF
  <1> DEFINE directories == {e \in Range(entries) : e.directory}
             files == IF picker = "cp" THEN {e \in Range(entries) : ~e.directory} ELSE {}
             p == KindOf("directory", directories)
             q == KindOf("file", files)
             m == Len(p)
  <1>1. Range(entries) \subseteq Entries /\ \A i \in DOMAIN entries : entries[i] \in Range(entries)
    BY DEF EntryInv, Range
  <1>2. directories \in SUBSET Entries /\ files \in SUBSET Entries
    BY <1>1
  <1>3. records = p \o q
    BY DEF buildLocalRecords, KindOf
  <1>4. /\ p \in Seq(Records) /\ Range(p) = {[kind |-> "directory", name |-> n] : n \in {e.name : e \in directories}}
        /\ \A i \in 1..m : p[i].kind = "directory"
        /\ \A i, j \in 1..m : i < j => before(p[i].name, p[j].name)
    BY <1>2, KindRecords
  <1>5. /\ q \in Seq(Records) /\ Range(q) = {[kind |-> "file", name |-> n] : n \in {e.name : e \in files}}
        /\ \A i \in 1..Len(q) : q[i].kind = "file"
        /\ \A i, j \in 1..Len(q) : i < j => before(q[i].name, q[j].name)
    BY <1>2, KindRecords
  <1>6. ASSUME NEW n \in DOMAIN content
        PROVE  \E i \in DOMAIN entries : entries[i].name = n /\ Settled(i)
    BY DEF EntryInv, AllSettled
  <1>7. \A n \in DOMAIN content : content[n] # "unreadable link"
    BY <1>6 DEF Settled
  <1>8. {e.name : e \in directories} = {n \in DOMAIN content : IsDirectory(n)}
    <2>1. ASSUME NEW e \in directories PROVE e.name \in DOMAIN content /\ IsDirectory(e.name)
      BY <2>1 DEF EntryInv, EntryOf, Range
    <2>2. ASSUME NEW n \in DOMAIN content, IsDirectory(n) PROVE \E e \in directories : e.name = n
      BY <1>1, <1>6, <2>2 DEF Settled
    <2> QED BY <2>1, <2>2
  <1>9. {e.name : e \in files} = IF picker = "cd" THEN {} ELSE DOMAIN content \ {n \in DOMAIN content : IsDirectory(n)}
    <2>1. CASE picker = "cd"
      BY <2>1
    <2>2. CASE picker = "cp"
      <3>1. ASSUME NEW e \in files PROVE e.name \in DOMAIN content /\ ~IsDirectory(e.name)
        BY <2>2, <3>1 DEF EntryInv, EntryOf, Range, AllSettled, Settled
      <3>2. ASSUME NEW n \in DOMAIN content, ~IsDirectory(n) PROVE \E e \in files : e.name = n
        BY <1>1, <1>6, <2>2, <3>2 DEF Settled
      <3> QED BY <2>2, <3>1, <3>2
    <2> QED BY <2>1, <2>2, PickersAssumption DEF CallType
  <1> HIDE DEF p, q, m, directories, files
  <1>10. /\ records \in Seq(Records) /\ DOMAIN records = 1..Len(records)
         /\ \A i \in 1..Len(records) :
               \/ i \in 1..m /\ records[i] = p[i]
               \/ i > m /\ i - m \in 1..Len(q) /\ records[i] = q[i - m]
         /\ Range(records) = Range(p) \cup Range(q)
    BY <1>3, <1>4, <1>5, Concatenation DEF m
  <1>11. Range(records) = Expected
    BY <1>4, <1>5, <1>8, <1>9, <1>10 DEF Expected
  <1>12. Ordered
    <2>0. m \in Nat /\ Len(q) \in Nat /\ Len(records) \in Nat
      BY <1>4, <1>5, <1>10 DEF m
    <2>1. \A i \in 1..Len(records) : records[i].name \in Names /\ records[i] \in Records
      <3>1. \A i \in 1..Len(records) : records[i] \in Records
        BY <1>10
      <3> QED BY <3>1 DEF Records
    <2>2. ASSUME NEW i \in 1..Len(records), NEW j \in 1..Len(records), i < j
          PROVE  \/ records[i].kind = "directory" /\ records[j].kind = "file"
                 \/ records[i].kind = records[j].kind /\ before(records[i].name, records[j].name)
      <3>1. CASE j \in 1..m
        BY <1>4, <1>10, <2>0, <2>2, <3>1
      <3>2. CASE i \in 1..m /\ j > m
        BY <1>4, <1>5, <1>10, <2>0, <2>2, <3>2
      <3>3. CASE i > m
        <4>1. i - m \in 1..Len(q) /\ j - m \in 1..Len(q) /\ i - m < j - m
          BY <1>10, <2>0, <2>2, <3>3
        <4>2. records[i] = q[i - m] /\ records[j] = q[j - m]
          BY <1>10, <2>0, <2>2, <3>3
        <4> QED BY <1>5, <4>1, <4>2
      <3> QED BY <2>0, <3>1, <3>2, <3>3
    <2>3. \A a, b \in Names : before(a, b) =>
              \/ a.hidden /\ ~b.hidden
              \/ a.hidden = b.hidden /\ a.folded < b.folded
              \/ a.hidden = b.hidden /\ a.folded = b.folded /\ a.raw < b.raw
      BY NamesAssumption DEF before
    <2> QED BY <1>10, <2>1, <2>2, <2>3 DEF Ordered
  <1> QED BY <1>7, <1>10, <1>11, <1>12

(* Every variable keeps its type, the records that are returned included.  *)
THEOREM LocalTypeCorrect == Spec => []TypeOK
PROOF
  <1>1. LocalInv => TypeOK
    <2> SUFFICES ASSUME LocalInv PROVE TypeOK
      OBVIOUS
    <2>1. PoolTypes /\ EntryInv /\ JobInv /\ ResultInv /\ CallType
      BY DEF LocalInv, IInv, CompleteInv
    <2>2. records \in Seq(Records)
      <3>1. CASE records = << >>
        BY <3>1
      <3>2. CASE records # << >>
        BY <2>1, <3>2, SettledRecords DEF ResultInv
      <3> QED BY <3>1, <3>2
    <2>3. unread \subseteq Names
      BY <2>1 DEF EntryInv
    <2> QED BY <2>1, <2>2, <2>3 DEF TypeOK, PoolTypes, EntryInv, JobInv, CallType
  <1> QED BY <1>1, LocalInvariance, PTL

(* EnumerateLocal returns the whole directory in order, every link         *)
(* classified, or an error and nothing.                                    *)
THEOREM EnumerationIsComplete == Spec => []SuccessIsComplete
PROOF
  <1>1. LocalInv => SuccessIsComplete
    <2> SUFFICES ASSUME LocalInv, phase = "done"
                 PROVE  /\ Range(records) = (IF err = {} THEN Expected ELSE {})
                        /\ Ordered
                        /\ err = {} => \A n \in DOMAIN content : content[n] # "unreadable link"
      BY DEF SuccessIsComplete
    <2>1. EntryInv /\ ResultInv /\ CallType
      BY DEF LocalInv, CompleteInv
    <2>2. CASE err = {}
      BY <2>1, <2>2, SettledRecords DEF ResultInv
    <2>3. CASE err # {}
      <3>1. records = << >>
        BY <2>1, <2>3 DEF ResultInv
      <3>2. DOMAIN records = {}
        BY <3>1
      <3>3. Range(records) = {} /\ Ordered
        BY <3>2 DEF Range, Ordered
      <3> QED BY <2>3, <3>3
    <2> QED BY <2>2, <2>3
  <1> QED BY <1>1, LocalInvariance, PTL

(* The pool's invariant: the workers' own cancellation is sent only when   *)
(* the channel holds the error that caused it.                             *)
THEOREM PoolInvariance == Spec => []PoolInv
  BY LocalInvariance, PTL DEF LocalInv, IInv

(* EnumerateLocal reports a cancellation only if its caller's context has  *)
(* ended, although the workers of classifySymlinks cancel each other.      *)
THEOREM CancellationIsTheCallers == Spec => []CancelIsTheCallers
  BY LocalInvariance, PTL DEF LocalInv, IInv, PoolInv

(* No worker of classifySymlinks is left when the records are built.       *)
THEOREM WorkersAreJoined == Spec => []PoolIsJoined
  BY LocalInvariance, PTL DEF LocalInv, IInv, PoolInv
=============================================================================
