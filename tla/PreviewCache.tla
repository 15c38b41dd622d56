----------------------------- MODULE PreviewCache -----------------------------
(***************************************************************************)
(* The directory of cached preview artefacts (internal/preview/cache.go,   *)
(* cache_posix.go, cache_quarantine_linux.go), which every preview process *)
(* of every session of a user shares without a lock.                       *)
(*                                                                         *)
(* The directory is modelled by its names: one per key, the temporary name *)
(* of a Put in progress, the quarantine name of a Prune in progress.  A    *)
(* file has as many links as it has names; its number can be given to a    *)
(* new file once it has no name and no open descriptor.  An action is one  *)
(* system call with the checks that surround it, so that two processes and *)
(* the death of one of them meet between any two calls.                    *)
(*                                                                         *)
(* PreviewRender runs these actions as part of rendering a preview.        *)
(***************************************************************************)
EXTENDS Naturals, Sequences, FiniteSets, SequencesExt

CONSTANTS
    Procs,       \* the preview processes
    Keys,        \* Cache.Key of the candidates they preview
    Files,       \* file numbers (fileIdentity)
    None,
    MaxEntries,  \* Cache.maxBytes, in artefacts
    MaxAttempts  \* how often a lost Put looks for the winner: 50

ASSUME CacheAssumption ==
    /\ IsFiniteSet(Procs) /\ IsFiniteSet(Keys) /\ IsFiniteSet(Files)
    /\ None \notin Keys \cup Files
    /\ MaxEntries \in Nat /\ MaxAttempts \in Nat \ {0}

VARIABLES
    pc,          \* where each process is
    key,         \* the key of the candidate it previews
    entry,       \* the file under each key
    temp,        \* the file under the temporary name of each process
    quarantine,  \* the file under the quarantine name of each process
    stray,       \* files left under a quarantine name
    content,     \* what a file holds: nothing, a part, or the artefact of a key
    byAge,       \* the named files, the oldest modification time first
    open,        \* the descriptor a process holds
    attempts,    \* the rounds of the winner loop
    victims,     \* what Prune has listed and not yet dealt with
    total,       \* Prune's idea of the size of the cache
    dirs,        \* the private artefact directories
    staged       \* what a process hands to the image renderers

dirVars == <<entry, temp, quarantine, stray, content, byAge>>
cacheVars == <<pc, key, dirVars, open, attempts, victims, total, dirs, staged>>

Artefacts == {"converter", "stage"}

(* validateOpenFile's link count. *)
Links(f) ==
    Cardinality({k \in Keys : entry[k] = f}) + Cardinality({p \in Procs : temp[p] = f})
      + Cardinality({p \in Procs : quarantine[p] = f}) + Cardinality({f} \cap stray)

(* A file number is free for a new file without a name or a descriptor. *)
Unused == {f \in Files : Links(f) = 0 /\ \A p \in Procs : open[p] # f}

Goes(p, to) == pc' = [pc EXCEPT ![p] = to]

(* Writing a file, or Futimes, makes it the newest. *)
Touched(f) == Append(Remove(byAge, f), f)

CacheInit ==
    /\ pc = [p \in Procs |-> "off"]
    /\ key = [p \in Procs |-> None]
    /\ entry = [k \in Keys |-> None]
    /\ temp = [p \in Procs |-> None]
    /\ quarantine = [p \in Procs |-> None]
    /\ stray = {}
    /\ content = [f \in Files |-> "nothing"]
    /\ byAge = <<>>
    /\ open = [p \in Procs |-> None]
    /\ attempts = [p \in Procs |-> 0]
    /\ victims = [p \in Procs |-> <<>>]
    /\ total = [p \in Procs |-> 0]
    /\ dirs = {}
    /\ staged = [p \in Procs |-> "nothing"]

-----------------------------------------------------------------------------
(* Opening what is under a key, and cacheSource.Validate.                  *)

(* openAcceptedAt: present, with exactly one link. *)
Accepts(k) == entry[k] # None /\ Links(entry[k]) = 1

(* openCacheSource succeeds and leaves a descriptor, or not. *)
OpenSource(p, hit, miss) ==
    /\ Goes(p, IF Accepts(key[p]) THEN hit ELSE miss)
    /\ open' = [open EXCEPT ![p] = IF Accepts(key[p]) THEN entry[key[p]] ELSE None]

(* Validate refreshes the time of the open file, whatever became of its    *)
(* names, and looks at its link count again.                               *)
Refreshed(f) == IF Links(f) > 0 THEN Touched(f) ELSE byAge
StillAccepted(f) == Links(f) = 1

(* Cache.Get *)
GetOpen(p) ==
    /\ pc[p] = "get open"
    /\ OpenSource(p, "get check", "miss")
    /\ UNCHANGED <<key, dirVars, attempts, victims, total, dirs, staged>>

GetCheck(p) ==
    /\ pc[p] = "get check"
    /\ Goes(p, IF StillAccepted(open[p]) THEN "stage open" ELSE "miss")
    /\ open' = [open EXCEPT ![p] = None]
    /\ byAge' = Refreshed(open[p])
    /\ UNCHANGED <<key, entry, temp, quarantine, stray, content, attempts, victims, total,
                   dirs, staged>>

-----------------------------------------------------------------------------
(* Put: a temporary file, linked under the key and then unlinked.          *)

(* A mutation: the file is created under the key itself and then filled. *)
PutCreateInPlace(p) ==
    /\ pc[p] = "put create"
    /\ \E f \in Unused :
          /\ \A g \in Unused : f <= g
          /\ entry' = [entry EXCEPT ![key[p]] = IF entry[key[p]] = None THEN f
                                                ELSE entry[key[p]]]
          /\ open' = [open EXCEPT ![p] = f]
          /\ content' = [content EXCEPT ![f] = "part"]
          /\ byAge' = Touched(f)
    /\ Goes(p, "put copy")
    /\ UNCHANGED <<key, temp, quarantine, stray, attempts, victims, total, dirs, staged>>

(* createFileAt, at the first free file number. *)
PutCreate(p) ==
    /\ pc[p] = "put create"
    /\ \E f \in Unused :
          /\ \A g \in Unused : f <= g
          /\ temp' = [temp EXCEPT ![p] = f]
          /\ open' = [open EXCEPT ![p] = f]
          /\ content' = [content EXCEPT ![f] = "part"]
          /\ byAge' = Touched(f)
    /\ Goes(p, "put copy")
    /\ UNCHANGED <<key, entry, quarantine, stray, attempts, victims, total, dirs, staged>>

(* copyCacheData; the file still has its one link. *)
PutCopy(p) ==
    /\ pc[p] = "put copy"
    /\ content' = [content EXCEPT ![open[p]] = key[p]]
    /\ byAge' = Touched(open[p])
    /\ Goes(p, "put link")
    /\ UNCHANGED <<key, entry, temp, quarantine, stray, open, attempts, victims, total, dirs,
                   staged>>

(* Put returns an error: its deferred calls unlink and close what there is *)
(* of the temporary file.                                                  *)
PutFails(p) ==
    /\ temp' = [temp EXCEPT ![p] = None]
    /\ open' = [open EXCEPT ![p] = None]
    /\ byAge' = IF temp[p] = None THEN byAge ELSE Remove(byAge, temp[p])
    /\ Goes(p, "terminal")
    /\ UNCHANGED <<key, entry, quarantine, stray, content, attempts, victims, total, dirs,
                   staged>>

PutCopyFails(p) == pc[p] = "put copy" /\ PutFails(p)

(* Linkat: EEXIST means that another process has published the key. *)
PutLink(p) ==
    /\ pc[p] = "put link"
    /\ \/ /\ entry[key[p]] = None
          /\ entry' = [entry EXCEPT ![key[p]] = open[p]]
          /\ Goes(p, "put unlink")
       \/ /\ entry[key[p]] # None
          /\ entry' = entry
          /\ Goes(p, "put yield")
    /\ UNCHANGED <<key, temp, quarantine, stray, content, byAge, open, attempts, victims, total,
                   dirs, staged>>

(* Unlinkat of the temporary name.  A published file had two links before, *)
(* which its descriptor shows.                                             *)
PutUnlink(p) ==
    /\ \/ pc[p] = "put unlink" /\ Goes(p, "put check")
       \/ pc[p] = "put yield" /\ Goes(p, "put winner")
    /\ temp' = [temp EXCEPT ![p] = None]
    /\ byAge' = IF Links(open[p]) = 1 THEN Remove(byAge, open[p]) ELSE byAge
    /\ attempts' = [attempts EXCEPT ![p] = 0]
    /\ UNCHANGED <<key, entry, quarantine, stray, content, open, victims, total, dirs, staged>>

(* The published file must have one link left: none if it was pruned. *)
PutCheck(p) ==
    /\ pc[p] = "put check"
    /\ \/ /\ StillAccepted(open[p])
          /\ Goes(p, "put open")
          /\ UNCHANGED <<key, dirVars, open, attempts, victims, total, dirs, staged>>
       \/ ~StillAccepted(open[p]) /\ PutFails(p)

PutReturns(p) ==
    /\ Goes(p, "prune list")
    /\ open' = [open EXCEPT ![p] = None]
    /\ attempts' = [attempts EXCEPT ![p] = 0]
    /\ UNCHANGED <<key, dirVars, victims, total, dirs, staged>>

(* The publisher opens what it published: once, and it must be its own. *)
PutOpen(p) ==
    /\ pc[p] = "put open"
    /\ IF Accepts(key[p]) /\ entry[key[p]] = open[p] THEN PutReturns(p) ELSE PutFails(p)

AttemptsLeft(p) == attempts[p] + 1 < MaxAttempts

(* The loser opens the winner's file, and tries again while that has a     *)
(* second link; a file that is gone ends the loop at once.                 *)
PutWinner(p) ==
    /\ pc[p] = "put winner"
    /\ \/ Accepts(key[p]) /\ PutReturns(p)
       \/ /\ ~Accepts(key[p])
          /\ entry[key[p]] = None \/ ~AttemptsLeft(p)
          /\ PutFails(p)
       \/ /\ ~Accepts(key[p])
          /\ entry[key[p]] # None /\ AttemptsLeft(p)
          /\ attempts' = [attempts EXCEPT ![p] = @ + 1]
          /\ UNCHANGED <<pc, key, dirVars, open, victims, total, dirs, staged>>

-----------------------------------------------------------------------------
(* Prune, which Put calls and whose error it ignores.                      *)

(* The acceptable files, the oldest first (pruneOldest sorts). *)
Prunable ==
    LET item(f) == <<CHOOSE k \in Keys : entry[k] = f, f>>
        kept == SelectSeq(byAge, LAMBDA f : \E k \in Keys : entry[k] = f /\ Accepts(k))
    IN [n \in 1..Len(kept) |-> item(kept[n])]

PruneList(p) ==
    /\ pc[p] = "prune list"
    /\ victims' = [victims EXCEPT ![p] = Prunable]
    /\ total' = [total EXCEPT ![p] = Len(Prunable)]
    /\ Goes(p, "prune next")
    /\ UNCHANGED <<key, dirVars, open, attempts, dirs, staged>>

(* pruneOldest's loop, up to quarantinePrune's rename: it moves whatever   *)
(* file the name has now, and fails if it has none.                        *)
PruneNext(p) ==
    /\ pc[p] = "prune next"
    /\ \/ /\ victims[p] = <<>> \/ total[p] <= MaxEntries
          /\ Goes(p, "stage open")
          /\ victims' = [victims EXCEPT ![p] = <<>>]
          /\ total' = [total EXCEPT ![p] = 0]
          /\ UNCHANGED <<entry, quarantine>>
       \/ /\ victims[p] # <<>> /\ total[p] > MaxEntries
          /\ \E k \in Keys :
                /\ k = Head(victims[p])[1]
                /\ \/ /\ entry[k] = None
                      /\ victims' = [victims EXCEPT ![p] = Tail(@)]
                      /\ UNCHANGED <<pc, entry, quarantine, total>>
                   \/ /\ entry[k] # None
                      /\ quarantine' = [quarantine EXCEPT ![p] = entry[k]]
                      /\ entry' = [entry EXCEPT ![k] = None]
                      /\ Goes(p, "prune settle")
                      /\ UNCHANGED <<victims, total>>
    /\ UNCHANGED <<key, temp, stray, content, byAge, open, attempts, dirs, staged>>

(* The quarantined file is the one that was listed, and nobody else's. *)
IsVictim(p) == quarantine[p] = Head(victims[p])[2] /\ Links(quarantine[p]) = 1

(* quarantinePrune, the rest: unlink the victim, or rename it back without *)
(* replacing what may have been published in the meantime.                 *)
PruneSettle(p) ==
    /\ pc[p] = "prune settle"
    /\ \E k \in Keys :
          /\ k = Head(victims[p])[1]
          /\ \/ /\ IsVictim(p)
                /\ total' = [total EXCEPT ![p] = @ - 1]
                /\ byAge' = Remove(byAge, quarantine[p])
                /\ UNCHANGED <<entry, stray>>
             \/ /\ ~IsVictim(p)
                /\ entry' = [entry EXCEPT ![k] = IF @ = None THEN quarantine[p] ELSE @]
                /\ stray' = IF entry[k] = None THEN stray ELSE stray \cup {quarantine[p]}
                /\ UNCHANGED <<byAge, total>>
    /\ quarantine' = [quarantine EXCEPT ![p] = None]
    /\ victims' = [victims EXCEPT ![p] = Tail(@)]
    /\ Goes(p, "prune next")
    /\ UNCHANGED <<key, temp, content, open, attempts, dirs, staged>>

-----------------------------------------------------------------------------
(* stageCacheArtifact: a private copy for the image renderers.             *)

StageOpen(p) ==
    /\ pc[p] = "stage open"
    /\ OpenSource(p, "stage copy", "unstaged")
    /\ UNCHANGED <<key, dirVars, attempts, victims, total, dirs, staged>>

(* newConverterArtifact: a directory of its own with an empty file in it. *)
NewArtefact(p, artefact) == dirs' = dirs \cup {<<p, artefact>>}

(* newConverterArtifact, OpenWritable and the copy. *)
StageCopy(p) ==
    /\ pc[p] = "stage copy"
    /\ NewArtefact(p, "stage")
    /\ staged' = [staged EXCEPT ![p] = content[open[p]]]
    /\ Goes(p, "stage check")
    /\ UNCHANGED <<key, dirVars, open, attempts, victims, total>>

(* A mutation: a copy that is not accepted stays behind. *)
StageDropsForgotten(p) ==
    /\ staged' = [staged EXCEPT ![p] = "nothing"]
    /\ UNCHANGED dirs

(* stage.Cleanup *)
StageDrops(p) ==
    /\ staged' = [staged EXCEPT ![p] = "nothing"]
    /\ dirs' = dirs \ {<<p, "stage">>}

(* source.Validate and stage.Validate *)
StageCheck(p) ==
    /\ pc[p] = "stage check"
    /\ \/ /\ StillAccepted(open[p])
          /\ Goes(p, "staged")
          /\ UNCHANGED <<dirs, staged>>
       \/ /\ ~StillAccepted(open[p])
          /\ Goes(p, "unstaged")
          /\ StageDrops(p)
    /\ open' = [open EXCEPT ![p] = None]
    /\ byAge' = Refreshed(open[p])
    /\ UNCHANGED <<key, entry, temp, quarantine, stray, content, attempts, victims, total>>

CacheStep(p) ==
    \/ GetOpen(p) \/ GetCheck(p)
    \/ PutCreate(p) \/ PutCopy(p) \/ PutLink(p) \/ PutUnlink(p) \/ PutCheck(p)
    \/ PutOpen(p) \/ PutWinner(p)
    \/ PruneList(p) \/ PruneNext(p) \/ PruneSettle(p)
    \/ StageOpen(p) \/ StageCopy(p) \/ StageCheck(p)

(* A process dies: its descriptors are closed, its names stay. *)
CacheDeath(p) ==
    /\ Goes(p, "dead")
    /\ open' = [open EXCEPT ![p] = None]
    /\ attempts' = [attempts EXCEPT ![p] = 0]
    /\ victims' = [victims EXCEPT ![p] = <<>>]
    /\ total' = [total EXCEPT ![p] = 0]
    /\ UNCHANGED <<key, dirVars>>

-----------------------------------------------------------------------------
(* What is found under a key, and what the image renderers are given, is   *)
(* the whole artefact of that key: cachePut fills its file before it       *)
(* publishes it, and a file that is replaced, pruned or renamed back under *)
(* a reader does not change what it reads.                                 *)
OnlyWholeArtefacts ==
    /\ \A k \in Keys : entry[k] # None => content[entry[k]] = k
    /\ \A p \in Procs : pc[p] = "staged" => staged[p] = key[p]
=============================================================================
