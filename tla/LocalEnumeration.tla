------------------------- MODULE LocalEnumeration -------------------------
(***************************************************************************)
(* Reading one directory: internal/candidate/local.go, EnumerateLocal for  *)
(* a filesystem location.                                                  *)
(*                                                                         *)
(* The entries are read in batches, the symbolic links among them are      *)
(* classified by a pool of workers that write into the shared slice, and   *)
(* the records are sorted.  The workers run under a context of their own,  *)
(* which the first worker that fails cancels.                              *)
(*                                                                         *)
(* A name is what sortLocalEntries tells apart: whether it is hidden, its  *)
(* folded form and its bytes, the latter two as numbers in their order.    *)
(***************************************************************************)
EXTENDS Integers, Sequences, FiniteSets, SequencesExt

CONSTANTS
    Pickers,        \* the pickers considered
    Kinds,          \* the kinds of entries considered, out of EntryKinds
    Names,          \* the names that may be in the directory
    BatchSize,      \* localBatchSize
    StatWorkers,    \* the values of options.StatWorkers considered
    GoMaxProcs,     \* runtime.GOMAXPROCS(0)
    Failures        \* what may fail: "open", "read", "close"

ASSUME NamesAssumption ==
    Names \subseteq [hidden : BOOLEAN, folded : Nat, raw : Nat] /\ IsFiniteSet(Names)
ASSUME BatchSizeAssumption == BatchSize \in Nat \ {0}
ASSUME WorkersAssumption == StatWorkers \subseteq Int /\ GoMaxProcs \in Nat \ {0}
ASSUME FailuresAssumption == Failures \subseteq {"open", "read", "close"}

VARIABLES
    picker, requested,  \* the arguments
    content,            \* what each name in the directory is
    ctxDone,            \* the caller's context has ended
    phase,              \* how far the call has come
    unread,             \* the names that ReadDir has not returned yet
    entries,            \* the slice of localEntry
    next,               \* the number of the next link to send
    closed,             \* jobs is closed
    at, job, found,     \* where each worker is, the entry it has and its error
    errorsFound,        \* the channel for one error
    workerCancel,       \* workerCtx was cancelled by its own cancel
    records, err        \* what the call returns; err joins several errors

inputVars  == <<picker, requested, content>>
workerVars == <<at, job, found>>
poolVars   == <<next, closed, workerVars, errorsFound, workerCancel>>
vars == <<inputVars, ctxDone, phase, unread, entries, poolVars, records, err>>

-----------------------------------------------------------------------------

ASSUME PickersAssumption == Pickers \subseteq {"cd", "cp"}

Links == {"link to directory", "link to file", "broken link", "unreadable link"}
EntryKinds == {"directory", "file"} \cup Links
ASSUME KindsAssumption == Kinds \subseteq EntryKinds

MaxWorkers == 8
Workers    == 1..MaxWorkers
NoError    == "none"
Errors     == {NoError, "cancelled", "stat"}
NoJob      == 0

Entries == [name : Names, directory : BOOLEAN, symlink : BOOLEAN]
Records == [kind : {"directory", "file"}, name : Names]

TypeOK ==
    /\ picker \in Pickers /\ requested \in StatWorkers
    /\ content \in UNION {[S -> Kinds] : S \in SUBSET Names}
    /\ ctxDone \in BOOLEAN /\ closed \in BOOLEAN /\ workerCancel \in BOOLEAN
    /\ phase \in {"start", "read", "classify", "single", "send", "join", "build", "close", "done"}
    /\ unread \subseteq Names
    /\ entries \in Seq(Entries)
    /\ next \in Nat \ {0}
    /\ at \in [Workers -> {"idle", "select", "check", "stat", "report", "cancel", "done"}]
    /\ job \in [Workers -> Nat] /\ found \in [Workers -> Errors]
    /\ errorsFound \in Errors
    /\ records \in Seq(Records)
    /\ err \subseteq {"open", "read", "close", "cancelled", "stat"}

Init ==
    /\ picker \in Pickers /\ requested \in StatWorkers
    /\ content \in UNION {[S -> Kinds] : S \in SUBSET Names}
    /\ ctxDone = FALSE
    /\ phase = "start"
    /\ unread = DOMAIN content
    /\ entries = <<>>
    /\ next = 1 /\ closed = FALSE
    /\ at = [w \in Workers |-> "idle"]
    /\ job = [w \in Workers |-> NoJob] /\ found = [w \in Workers |-> NoError]
    /\ errorsFound = NoError /\ workerCancel = FALSE
    /\ records = <<>> /\ err = {}

ContextEnds ==
    /\ ~ctxDone /\ phase # "done"
    /\ ctxDone' = TRUE
    /\ UNCHANGED <<inputVars, phase, unread, entries, poolVars, records, err>>

-----------------------------------------------------------------------------
(* The call before and after the pool                                      *)

ctxErr == IF ctxDone THEN "cancelled" ELSE NoError

(* An error is returned, or the call goes on.                              *)
Proceed(e, then, otherwise) ==
    /\ phase' = IF e = NoError THEN then ELSE otherwise
    /\ err' = IF e = NoError THEN err ELSE err \cup {e}

EnumerateLocal ==
    /\ phase = "start"
    /\ \/ Proceed(ctxErr, "read", "done")
       \/ ~ctxDone /\ "open" \in Failures /\ Proceed("open", "read", "done")
    /\ UNCHANGED <<inputVars, ctxDone, unread, entries, poolVars, records>>

Entry(n) == [name |-> n, directory |-> content[n] = "directory", symlink |-> content[n] \in Links]

(* ReadDir (external) returns some of the remaining names in any order,    *)
(* and io.EOF when there are none.                                         *)
readLocalEntries ==
    /\ phase = "read"
    /\ \/ ctxDone /\ Proceed("cancelled", "classify", "close") /\ UNCHANGED <<unread, entries>>
       \/ /\ ~ctxDone /\ "read" \in Failures
          /\ Proceed("read", "classify", "close") /\ UNCHANGED <<unread, entries>>
       \/ /\ ~ctxDone /\ unread = {}
          /\ Proceed(NoError, "classify", "close") /\ UNCHANGED <<unread, entries>>
       \/ /\ ~ctxDone
          /\ \E batch \in SetToAllKPermutations(unread) :
                /\ Len(batch) \in 1..BatchSize
                /\ unread' = unread \ Range(batch)
                /\ entries' = entries \o [i \in DOMAIN batch |-> Entry(batch[i])]
          /\ UNCHANGED <<phase, err>>
    /\ UNCHANGED <<inputVars, ctxDone, poolVars, records>>

(* The links in the order of the slice.                                    *)
symlinkIndices ==
    CHOOSE s \in SetToSeqs({i \in DOMAIN entries : entries[i].symlink}) :
        \A i, j \in DOMAIN s : i < j => s[i] < s[j]

localWorkerCount ==
    LET n == IF requested <= 0 THEN GoMaxProcs ELSE requested
    IN  IF n < 2 THEN 2 ELSE IF n > MaxWorkers THEN MaxWorkers ELSE n

(* No link, one link (classified by the caller) or a pool.                 *)
classifySymlinks ==
    LET links == Len(symlinkIndices) IN
    /\ phase = "classify"
    /\ CASE links = 0 -> Proceed(ctxErr, "build", "close") /\ UNCHANGED at
         [] links = 1 -> phase' = "single" /\ UNCHANGED <<at, err>>
         [] OTHER ->
              /\ phase' = "send"
              /\ at' = [w \in Workers |-> IF w <= localWorkerCount /\ w <= links THEN "select" ELSE "idle"]
              /\ UNCHANGED err
    /\ UNCHANGED <<inputVars, ctxDone, unread, entries, next, closed, job, found, errorsFound,
                   workerCancel, records>>

(* os.Stat of entry i: a link that leads nowhere stays what it was.        *)
statError(i) == IF content[entries[i].name] = "unreadable link" THEN "stat" ELSE NoError

Classified(i) ==
    IF content[entries[i].name] = "link to directory"
    THEN [entries EXCEPT ![i].directory = TRUE] ELSE entries

classifySingle ==
    LET i == symlinkIndices[1] IN
    /\ phase = "single"
    /\ \/ ctxDone /\ Proceed("cancelled", "build", "close") /\ UNCHANGED entries
       \/ ~ctxDone /\ Proceed(statError(i), "build", "close") /\ entries' = Classified(i)
    /\ UNCHANGED <<inputVars, ctxDone, unread, poolVars, records>>

-----------------------------------------------------------------------------
(* The pool                                                                *)

workerDone == ctxDone \/ workerCancel

(* Worker w is now at a.                                                   *)
WorkerStep(w, a) ==
    /\ at' = [at EXCEPT ![w] = a]
    /\ UNCHANGED <<inputVars, ctxDone, unread, records, err>>

(* Worker w returns; what it had is forgotten.                             *)
WorkerEnds(w) ==
    /\ WorkerStep(w, "done")
    /\ job' = [job EXCEPT ![w] = NoJob]
    /\ found' = [found EXCEPT ![w] = NoError]

(* jobs has no buffer: the caller sends as a worker receives.              *)
SendJob(w) ==
    /\ phase = "send" /\ at[w] = "select" /\ next <= Len(symlinkIndices)
    /\ WorkerStep(w, "check")
    /\ job' = [job EXCEPT ![w] = symlinkIndices[next]]
    /\ next' = next + 1
    /\ UNCHANGED <<phase, entries, closed, found, errorsFound, workerCancel>>

(* Mutant: the last link is not sent.                                      *)
StopSendingEarly ==
    /\ phase = "send" /\ (next >= Len(symlinkIndices) \/ workerDone)
    /\ phase' = "join" /\ closed' = TRUE
    /\ UNCHANGED <<inputVars, ctxDone, unread, entries, next, workerVars, errorsFound, workerCancel,
                   records, err>>

(* All links are sent, or workerCtx has ended; close(jobs).                *)
StopSending ==
    /\ phase = "send" /\ (next > Len(symlinkIndices) \/ workerDone)
    /\ phase' = "join" /\ closed' = TRUE
    /\ UNCHANGED <<inputVars, ctxDone, unread, entries, next, workerVars, errorsFound, workerCancel,
                   records, err>>

WorkerLeaves(w) ==
    /\ at[w] = "select" /\ (workerDone \/ closed)
    /\ WorkerEnds(w)
    /\ UNCHANGED <<phase, entries, next, closed, errorsFound, workerCancel>>

(* classifySymlink asks the context first and calls Stat then.             *)
CheckContext(w) ==
    /\ at[w] = "check"
    /\ IF workerDone
       THEN WorkerStep(w, "report") /\ found' = [found EXCEPT ![w] = "cancelled"]
       ELSE WorkerStep(w, "stat") /\ UNCHANGED found
    /\ UNCHANGED <<phase, entries, next, closed, job, errorsFound, workerCancel>>

classifySymlink(w) ==
    /\ at[w] = "stat"
    /\ IF statError(job[w]) = NoError
       THEN WorkerStep(w, "select") /\ UNCHANGED found
       ELSE WorkerStep(w, "report") /\ found' = [found EXCEPT ![w] = statError(job[w])]
    /\ entries' = Classified(job[w])
    /\ UNCHANGED <<phase, next, closed, job, errorsFound, workerCancel>>

(* Mutant: the others are cancelled before the error is in the channel.    *)
ReportAfterCancel(w) ==
    /\ at[w] = "report"
    /\ IF ~workerCancel
       THEN workerCancel' = TRUE /\ WorkerStep(w, "report") /\ UNCHANGED <<job, found, errorsFound>>
       ELSE /\ WorkerEnds(w)
            /\ errorsFound' = IF errorsFound = NoError THEN found[w] ELSE errorsFound
            /\ UNCHANGED workerCancel
    /\ UNCHANGED <<phase, entries, next, closed>>

(* The first error goes into the channel, later ones are dropped.          *)
Report(w) ==
    /\ at[w] = "report"
    /\ IF errorsFound = NoError
       THEN errorsFound' = found[w] /\ WorkerStep(w, "cancel") /\ UNCHANGED <<job, found>>
       ELSE UNCHANGED errorsFound /\ WorkerEnds(w)
    /\ UNCHANGED <<phase, entries, next, closed, workerCancel>>

(* Mutant: the worker that fails tells nobody.                             *)
CancelNobody(w) ==
    /\ at[w] = "cancel"
    /\ WorkerEnds(w)
    /\ UNCHANGED <<phase, entries, next, closed, errorsFound, workerCancel>>

CancelWorkers(w) ==
    /\ at[w] = "cancel"
    /\ workerCancel' = TRUE
    /\ WorkerEnds(w)
    /\ UNCHANGED <<phase, entries, next, closed, errorsFound>>

(* workers.Wait, then the error that was found or the caller's own.        *)
Join ==
    /\ phase = "join"
    /\ \A w \in Workers : at[w] \in {"idle", "done"}
    /\ Proceed(IF errorsFound # NoError THEN errorsFound ELSE ctxErr, "build", "close")
    /\ workerCancel' = TRUE
    /\ UNCHANGED <<inputVars, ctxDone, unread, entries, next, closed, workerVars, errorsFound, records>>

-----------------------------------------------------------------------------
(* The records                                                             *)

(* The order of sortLocalEntries                                           *)
before(a, b) ==
    IF a.hidden # b.hidden THEN a.hidden
    ELSE IF a.folded # b.folded THEN a.folded < b.folded ELSE a.raw < b.raw

sortLocalEntries(S) ==
    CHOOSE s \in SetToSeqs({e.name : e \in S}) :
        \A i, j \in DOMAIN s : i < j => before(s[i], s[j])

(* Directories first; files for the cp picker alone.  (The two root records
   that precede them, . and .., are left out.)                             *)
buildLocalRecords ==
    LET Of(k, S) == LET s == sortLocalEntries(S) IN [i \in DOMAIN s |-> [kind |-> k, name |-> s[i]]]
        directories == {e \in Range(entries) : e.directory}
        files == IF picker = "cp" THEN {e \in Range(entries) : ~e.directory} ELSE {}
    IN  Of("directory", directories) \o Of("file", files)

BuildRecords ==
    /\ phase = "build"
    /\ Proceed(ctxErr, "close", "close")
    /\ records' = IF ctxDone THEN <<>> ELSE buildLocalRecords
    /\ UNCHANGED <<inputVars, ctxDone, unread, entries, poolVars>>

(* The deferred close; its failure drops the records.                      *)
CloseDirectory ==
    /\ phase = "close"
    /\ phase' = "done"
    /\ \/ UNCHANGED <<records, err>>
       \/ "close" \in Failures /\ records' = <<>> /\ err' = err \cup {"close"}
    /\ UNCHANGED <<inputVars, ctxDone, unread, entries, poolVars>>

-----------------------------------------------------------------------------

Caller ==
    \/ EnumerateLocal \/ readLocalEntries \/ classifySymlinks \/ classifySingle
    \/ (\E w \in Workers : SendJob(w)) \/ StopSending \/ Join \/ BuildRecords \/ CloseDirectory

Worker(w) ==
    WorkerLeaves(w) \/ CheckContext(w) \/ classifySymlink(w) \/ Report(w) \/ CancelWorkers(w)

Next == ContextEnds \/ Caller \/ \E w \in Workers : Worker(w)

Spec == Init /\ [][Next]_vars

(* The goroutines run on and the system's calls return.                    *)
FairSpec == Spec /\ WF_vars(Caller) /\ \A w \in Workers : WF_vars(Worker(w))

-----------------------------------------------------------------------------
(* Properties                                                              *)

(* TestDeterministicFoldedOrderUsesRawByteTie: directories come before     *)
(* files, hidden names before the others, and no two records tie.          *)
Ordered ==
    \A i, j \in DOMAIN records :
        LET a == records[i].name
            b == records[j].name
        IN  i < j =>
              \/ records[i].kind = "directory" /\ records[j].kind = "file"
              \/ /\ records[i].kind = records[j].kind
                 /\ \/ a.hidden /\ ~b.hidden
                    \/ a.hidden = b.hidden /\ a.folded < b.folded
                    \/ a.hidden = b.hidden /\ a.folded = b.folded /\ a.raw < b.raw

(* A link to a directory counts as one, every other link as a file.        *)
IsDirectory(n) == content[n] \in {"directory", "link to directory"}

Expected ==
    LET directories == {n \in DOMAIN content : IsDirectory(n)}
        files == IF picker = "cd" THEN {} ELSE DOMAIN content \ directories
    IN  {[kind |-> "directory", name |-> n] : n \in directories}
            \cup {[kind |-> "file", name |-> n] : n \in files}

(* The records of a call without an error are those of the directory, in   *)
(* an order of their own: each link has been classified, whatever worker   *)
(* did it and in whatever order the system returned the names, and none of *)
(* them was unreadable.  A call that fails returns none.                   *)
SuccessIsComplete ==
    phase = "done" =>
        /\ Range(records) = (IF err = {} THEN Expected ELSE {})
        /\ Ordered
        /\ err = {} => \A n \in DOMAIN content : content[n] # "unreadable link"

(* A call that fails with a cancellation was cancelled by its caller: the  *)
(* cancellation that the workers send each other stays inside.             *)
CancelIsTheCallers == "cancelled" \in err \cup {errorsFound} => ctxDone

(* No worker writes into the slice once the caller reads it.               *)
PoolIsJoined ==
    phase \in {"build", "close", "done"} =>
        \A w \in Workers : at[w] \in {"idle", "done"}

(* Why a cancellation is the caller's: the workers' own is sent only when  *)
(* the channel holds the error that caused it, so that what a worker       *)
(* reports after it is dropped.                                            *)
PoolInv ==
    /\ CancelIsTheCallers /\ PoolIsJoined
    /\ workerCancel /\ phase \notin {"build", "close", "done"} => errorsFound # NoError
    /\ \A w \in Workers :
          /\ at[w] = "cancel" => errorsFound # NoError
          /\ at[w] = "report" => found[w] # NoError
          /\ at[w] = "report" /\ found[w] = "cancelled" => ctxDone \/ workerCancel

(* The call returns: the caller is not left sending to workers that have   *)
(* all gone, nor waiting for one.                                          *)
EnumerationReturns == <>(phase = "done")
=============================================================================
