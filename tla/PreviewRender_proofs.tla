------------------------ MODULE PreviewRender_proofs ------------------------
(***************************************************************************)
(* Proofs about PreviewRender and the cache it shares, PreviewCache: any   *)
(* number of processes, keys and file numbers, any limits, any tools.      *)
(*                                                                         *)
(* PreviewInv is inductive.  WholeInv is about the shared directory: the   *)
(* artefact of a key is whole wherever it can be found or come back from,  *)
(* and nobody else reaches the file a Put is still filling.  The other     *)
(* parts are about one process at a time: which names, descriptors and     *)
(* directories it can have at a place (PlaceInv, ArtefactInv) and what it  *)
(* has told the session by then (TelemetryInv).  StartsInv, inductive      *)
(* together with it, bounds the helpers a process has started by the place *)
(* it is at and the renderers it has still to try.                         *)
(***************************************************************************)
EXTENDS PreviewRender, FiniteSetTheorems, TLAPS

(* The places where a process has the temporary name, and a descriptor.    *)
Holding == {"put copy", "put link", "put unlink", "put yield"}
Opened  == Holding \cup {"get check", "put check", "put open", "put winner", "stage copy",
                         "stage check"}

PlaceOf(p) ==
    /\ temp[p] # None => pc[p] \in Holding \cup {"dead"}
    /\ quarantine[p] # None => pc[p] \in {"prune settle", "dead"}
    /\ open[p] # None <=> pc[p] \in Opened
    /\ pc[p] \notin {"off", "dead"} => key[p] \in Keys

PlaceInv == \A p \in Procs : PlaceOf(p)

(* No one else reaches what is still being written; what is published, put *)
(* aside, about to be published or being copied is whole.                  *)
PrivateOf(p) ==
    pc[p] = "put copy" =>
        /\ \A k \in Keys : entry[k] # open[p]
        /\ \A q \in Procs : quarantine[q] # open[p]
        /\ \A q \in Procs \ {p} : open[q] # open[p]

WholeOf(p) ==
    /\ pc[p] \in {"put link", "stage copy"} => content[open[p]] = key[p]
    /\ pc[p] = "prune settle" =>
          quarantine[p] # None /\ content[quarantine[p]] = Head(victims[p])[1]
    /\ pc[p] \in {"stage check", "staged"} => staged[p] = key[p]

EntriesWhole == \A k \in Keys : entry[k] # None => content[entry[k]] = k

WholeInv == EntriesWhole /\ \A p \in Procs : PrivateOf(p) /\ WholeOf(p)

(* Where the private directories may be.                                   *)
Converted == {"put create", "put copy", "put link", "put unlink", "put yield", "put check",
              "put open", "put winner", "prune list", "prune next", "prune settle",
              "stage open", "stage copy", "stage check", "staged", "unstaged"}

ArtefactOf(p) ==
    /\ <<p, "converter">> \in dirs =>
          pc[p] \in Converted \cup {"converting", "external", "rendering", "terminal", "dead"}
    /\ <<p, "stage">> \in dirs =>
          \/ pc[p] \in {"stage check", "staged", "terminal", "dead"}
          \/ pc[p] \in {"external", "rendering"} /\ rich[p]

ArtefactInv == \A p \in Procs : ArtefactOf(p)

(* One helper lives exactly while the process waits for it.                *)
TelemetryOf(p) ==
    /\ telemetry[p].finished => pc[p] = "done"
    /\ pc[p] # "dead" => telemetry[p].live = IF pc[p] \in ChildSteps THEN 1 ELSE 0
    /\ telemetry[p].most <= 1
    /\ started[p] <=> telemetry[p].starts > 0
    /\ started[p] <=> telemetry[p].renderer # "native"

TelemetryInv == \A p \in Procs : TelemetryOf(p)

PreviewInv == TypeOK /\ PlaceInv /\ WholeInv /\ ArtefactInv /\ TelemetryInv

-----------------------------------------------------------------------------
(* Types, and what a step of process p leaves alone: all that is another's *)

(* The two halves of TypeOK.                                               *)
CacheOK ==
    /\ pc \in [Procs -> Places]
    /\ key \in [Procs -> Keys \cup {None}]
    /\ entry \in [Keys -> Files \cup {None}]
    /\ temp \in [Procs -> Files \cup {None}]
    /\ quarantine \in [Procs -> Files \cup {None}]
    /\ open \in [Procs -> Files \cup {None}]
    /\ content \in [Files -> {"nothing", "part"} \cup Keys]
    /\ DOMAIN victims = Procs
    /\ dirs \subseteq Procs \X Artefacts
    /\ staged \in [Procs -> {"nothing", "part"} \cup Keys]

RenderOK ==
    /\ category \in [Procs -> Categories]
    /\ rich \in [Procs -> BOOLEAN]
    /\ started \in [Procs -> BOOLEAN]
    /\ cleanup \in [Procs -> Artefacts \cup {"none"}]
    /\ ctxDone \in [Procs -> BOOLEAN]
    /\ telemetry \in [Procs -> Telemetry]

LEMMA TypeParts == /\ TypeOK <=> CacheOK /\ RenderOK
                   /\ TypeOK' <=> CacheOK' /\ RenderOK'
BY DEF TypeOK, CacheOK, RenderOK

CacheOthers(p) ==
    /\ \A q \in Procs \ {p} :
          /\ pc'[q] = pc[q] /\ key'[q] = key[q] /\ temp'[q] = temp[q]
          /\ quarantine'[q] = quarantine[q] /\ open'[q] = open[q] /\ victims'[q] = victims[q]
          /\ staged'[q] = staged[q]
    /\ \A q \in Procs \ {p}, a \in Artefacts : <<q, a>> \in dirs' <=> <<q, a>> \in dirs

LEMMA GoesEffect ==
    ASSUME CacheOK, NEW p \in Procs, NEW to \in Places, Goes(p, to)
    PROVE  /\ pc' \in [Procs -> Places] /\ pc'[p] = to
           /\ \A q \in Procs \ {p} : pc'[q] = pc[q]
BY DEF CacheOK, Goes

LEMMA PlacesAre ==
    /\ \A x \in ChildSteps \cup Ended : x \in Places
    /\ {"hint", "classified", "miss", "external", "check", "rendered", "native", "return",
        "failed", "terminal"} \subseteq Places
    /\ {"get open", "get check", "put create", "put copy", "put link", "put unlink", "put yield",
        "put check", "put open", "put winner", "prune list", "prune next", "prune settle",
        "stage open", "stage copy", "stage check", "staged", "unstaged"} \subseteq Places
    /\ {"opening", "reading"} \subseteq Places
BY DEF Places, Reading

LEMMA PutFailsEffect ==
    ASSUME CacheOK, NEW p \in Procs, PutFails(p)
    PROVE  /\ CacheOK' /\ CacheOthers(p)
           /\ pc'[p] = "terminal" /\ temp'[p] = None /\ open'[p] = None
           /\ UNCHANGED <<key, entry, quarantine, content, victims, dirs, staged>>
<1>1. /\ pc' \in [Procs -> Places] /\ pc'[p] = "terminal" /\ \A q \in Procs \ {p} : pc'[q] = pc[q]
  BY GoesEffect, PlacesAre DEF PutFails
<1> QED
  BY <1>1 DEF CacheOK, CacheOthers, PutFails

LEMMA PutReturnsEffect ==
    ASSUME CacheOK, NEW p \in Procs, PutReturns(p)
    PROVE  /\ CacheOK' /\ CacheOthers(p)
           /\ pc'[p] = "prune list" /\ open'[p] = None
           /\ UNCHANGED <<key, entry, temp, quarantine, content, victims, dirs, staged>>
<1>1. /\ pc' \in [Procs -> Places] /\ pc'[p] = "prune list" /\ \A q \in Procs \ {p} : pc'[q] = pc[q]
  BY GoesEffect, PlacesAre DEF PutReturns
<1> QED
  BY <1>1 DEF CacheOK, CacheOthers, PutReturns, dirVars

-----------------------------------------------------------------------------
(* The steps of the cache                                                  *)

LEMMA CacheTypes ==
    ASSUME CacheOK, PlaceInv, NEW p \in Procs, CacheStep(p)
    PROVE  CacheOK' /\ CacheOthers(p)
<1>0. PlaceOf(p) /\ (key[p] \in Keys => entry[key[p]] \in Files \cup {None})
  BY DEF PlaceInv, CacheOK
<1>1. CASE GetOpen(p)
  BY <1>0, <1>1, PlacesAre DEF GetOpen, Goes, CacheOK, CacheOthers, PlaceOf, Opened, Holding, OpenSource, Accepts, dirVars
<1>2. CASE GetCheck(p)
  BY <1>0, <1>2, PlacesAre DEF GetCheck, Goes, CacheOK, CacheOthers, PlaceOf, Opened, Holding
<1>3. CASE PutCreate(p)
  <2>1. PICK f \in Files : /\ temp' = [temp EXCEPT ![p] = f] /\ open' = [open EXCEPT ![p] = f]
                           /\ content' = [content EXCEPT ![f] = "part"]
    BY <1>3 DEF PutCreate, Unused
  <2>2. /\ Goes(p, "put copy") /\ UNCHANGED <<key, entry, quarantine, victims, dirs, staged>>
    BY <1>3 DEF PutCreate
  <2>3. pc' \in [Procs -> Places] /\ \A q \in Procs \ {p} : pc'[q] = pc[q]
    BY <2>2, GoesEffect, PlacesAre
  <2> QED
    BY <2>1, <2>2, <2>3 DEF CacheOK, CacheOthers
<1>4. CASE PutCopy(p)
  BY <1>0, <1>4, PlacesAre DEF PutCopy, Goes, CacheOK, CacheOthers, PlaceOf, Opened, Holding
<1>5. CASE PutLink(p)
  <2>1. PICK to \in {"put unlink", "put yield"} : Goes(p, to)
    BY <1>5 DEF PutLink
  <2>2. pc' \in [Procs -> Places] /\ \A q \in Procs \ {p} : pc'[q] = pc[q]
    BY <2>1, GoesEffect, PlacesAre
  <2>3. entry' \in [Keys -> Files \cup {None}]
    BY <1>5 DEF PutLink, CacheOK
  <2> QED
    BY <1>5, <2>2, <2>3 DEF PutLink, CacheOK, CacheOthers
<1>6. CASE PutUnlink(p)
  BY <1>0, <1>6, PlacesAre, ZenonT(30) DEF PutUnlink, Goes, CacheOK, CacheOthers, PlaceOf, Opened, Holding
<1>7. CASE PutCheck(p)
  <2>1. CASE Goes(p, "put open") /\ UNCHANGED <<key, dirVars, open, victims, dirs, staged>>
    BY <2>1, GoesEffect, PlacesAre DEF CacheOK, CacheOthers, dirVars
  <2> QED
    BY <1>7, <2>1, PutFailsEffect, PutReturnsEffect DEF PutCheck, dirVars
<1>8. CASE PutOpen(p)
  BY <1>8, PutFailsEffect, PutReturnsEffect DEF PutOpen
<1>9. CASE PutWinner(p)
  <2>1. CASE UNCHANGED <<pc, key, dirVars, open, victims, dirs, staged>>
    BY <2>1, GoesEffect, PlacesAre DEF CacheOK, CacheOthers, dirVars
  <2> QED
    BY <1>9, <2>1, PutFailsEffect, PutReturnsEffect DEF PutWinner, dirVars
<1>10. CASE PruneList(p)
  BY <1>0, <1>10, PlacesAre DEF PruneList, Goes, CacheOK, CacheOthers, PlaceOf, Opened, Holding, dirVars
<1>11. CASE PruneNext(p)
  <2>0. UNCHANGED <<key, temp, content, open, dirs, staged>>
    BY <1>11 DEF PruneNext
  <2>1. CASE Goes(p, "stage open") /\ victims' = [victims EXCEPT ![p] = <<>>]
             /\ UNCHANGED <<entry, quarantine>>
    BY <2>0, <2>1, GoesEffect, PlacesAre DEF CacheOK, CacheOthers
  <2>2. CASE victims' = [victims EXCEPT ![p] = Tail(@)] /\ UNCHANGED <<pc, entry, quarantine>>
    BY <2>0, <2>2 DEF CacheOK, CacheOthers
  <2>3. ASSUME NEW k \in Keys, quarantine' = [quarantine EXCEPT ![p] = entry[k]],
               entry' = [entry EXCEPT ![k] = None], Goes(p, "prune settle"), UNCHANGED victims
        PROVE  CacheOK' /\ CacheOthers(p)
    BY <2>0, <2>3, GoesEffect, PlacesAre DEF CacheOK, CacheOthers
  <2> QED
    BY <1>11, <2>1, <2>2, <2>3 DEF PruneNext
<1>12. CASE PruneSettle(p)
  BY <1>0, <1>12, PlacesAre DEF PruneSettle, Goes, CacheOK, CacheOthers, PlaceOf, Opened, Holding
<1>13. CASE StageOpen(p)
  BY <1>0, <1>13, PlacesAre DEF StageOpen, Goes, CacheOK, CacheOthers, PlaceOf, Opened, Holding, OpenSource, Accepts, dirVars
<1>14. CASE StageCopy(p)
  <2>1. pc' \in [Procs -> Places] /\ \A q \in Procs \ {p} : pc'[q] = pc[q]
    BY <1>14, GoesEffect, PlacesAre DEF StageCopy
  <2>2. dirs' = dirs \cup {<<p, "stage">>}
    BY <1>14 DEF StageCopy, NewArtefact
  <2>3. /\ dirs' \subseteq Procs \X Artefacts
        /\ \A q \in Procs \ {p}, a \in Artefacts : <<q, a>> \in dirs' <=> <<q, a>> \in dirs
    BY <2>2 DEF CacheOK, Artefacts
  <2>4. content[open[p]] \in {"nothing", "part"} \cup Keys
    BY <1>0, <1>14 DEF StageCopy, PlaceOf, Opened, CacheOK
  <2> QED
    BY <1>14, <2>1, <2>3, <2>4 DEF StageCopy, CacheOK, CacheOthers, dirVars
<1>15. CASE StageCheck(p)
  <2>1. PICK to \in {"staged", "unstaged"} : Goes(p, to)
    BY <1>15 DEF StageCheck
  <2>2. pc' \in [Procs -> Places] /\ \A q \in Procs \ {p} : pc'[q] = pc[q]
    BY <2>1, GoesEffect, PlacesAre
  <2>3. \/ UNCHANGED <<dirs, staged>>
        \/ dirs' = dirs \ {<<p, "stage">>} /\ staged' = [staged EXCEPT ![p] = "nothing"]
    BY <1>15 DEF StageCheck, StageDrops
  <2>4. /\ dirs' \subseteq Procs \X Artefacts
        /\ \A q \in Procs \ {p}, a \in Artefacts : <<q, a>> \in dirs' <=> <<q, a>> \in dirs
    BY <2>3 DEF CacheOK
  <2> QED
    BY <1>15, <2>2, <2>3, <2>4 DEF StageCheck, CacheOK, CacheOthers
<1> QED
  BY <1>1, <1>2, <1>3, <1>4, <1>5, <1>6, <1>7, <1>8, <1>9, <1>10, <1>11, <1>12, <1>13, <1>14, <1>15 DEF CacheStep

-----------------------------------------------------------------------------
(* The steps of the renderer                                               *)

(* What becomes of telemetry.                                              *)
LEMMA StartsEffect ==
    ASSUME RenderOK, NEW p \in Procs, NEW tool, NEW at, ChildStarts(p, tool, at)
    PROVE  /\ telemetry' \in [Procs -> Telemetry]
           /\ started' \in [Procs -> BOOLEAN] /\ started'[p]
           /\ \A q \in Procs \ {p} : telemetry'[q] = telemetry[q] /\ started'[q] = started[q]
           /\ telemetry'[p].starts = telemetry[p].starts + 1
           /\ telemetry'[p].live = telemetry[p].live + 1
           /\ telemetry'[p].most \in {telemetry[p].most, telemetry[p].live + 1}
           /\ telemetry'[p].renderer = IF started[p] THEN telemetry[p].renderer ELSE tool
           /\ telemetry'[p].finished = telemetry[p].finished
           /\ tool \in Installed /\ Goes(p, at)
<1>1. telemetry[p] \in Telemetry /\ tool \in Installed /\ Goes(p, at)
  BY DEF RenderOK, ChildStarts
<1>2. PICK t \in Telemetry : t = telemetry[p]
  BY <1>1
<1>3. /\ t.starts \in Nat /\ t.live \in Int /\ t.most \in Int /\ t.finished \in BOOLEAN
      /\ t.renderer \in Installed \cup {"native"}
  BY <1>2 DEF Telemetry
<1>4. PICK s \in Nat, l \in Int : s = t.starts + 1 /\ l = t.live + 1
  BY <1>3
<1>5. PICK m \in Int : m = IF t.most > t.live THEN t.most ELSE t.live + 1
  BY <1>3
<1>6. PICK w \in Installed \cup {"native"} : w = IF started[p] THEN t.renderer ELSE tool
  BY <1>1, <1>3
<1> DEFINE r == [t EXCEPT !.starts = s, !.live = l, !.most = m, !.renderer = w]
<1>7. /\ r \in Telemetry /\ r.starts = s /\ r.live = l /\ r.most = m
      /\ r.renderer = w /\ r.finished = t.finished
  BY <1>2, <1>4, <1>5, <1>6 DEF Telemetry
<1>8. telemetry' = [telemetry EXCEPT ![p] = r]
  BY <1>2, <1>4, <1>5, <1>6 DEF ChildStarts, RenderOK
<1> HIDE DEF r
<1>9. /\ telemetry' \in [Procs -> Telemetry] /\ telemetry'[p] = r
      /\ \A q \in Procs \ {p} : telemetry'[q] = telemetry[q]
  BY <1>7, <1>8 DEF RenderOK
<1>10. /\ started' \in [Procs -> BOOLEAN] /\ started'[p]
       /\ \A q \in Procs \ {p} : started'[q] = started[q]
  BY DEF ChildStarts, RenderOK
<1>11. m \in {t.most, t.live + 1}
  BY <1>5
<1> QED
  BY <1>1, <1>2, <1>4, <1>6, <1>7, <1>9, <1>10, <1>11

LEMMA ExitsEffect ==
    ASSUME RenderOK, NEW p \in Procs, ChildExits(p)
    PROVE  /\ telemetry' \in [Procs -> Telemetry]
           /\ \A q \in Procs \ {p} : telemetry'[q] = telemetry[q]
           /\ telemetry'[p].starts = telemetry[p].starts
           /\ telemetry'[p].live = telemetry[p].live - 1
           /\ telemetry'[p].most = telemetry[p].most
           /\ telemetry'[p].renderer = telemetry[p].renderer
           /\ telemetry'[p].finished = telemetry[p].finished
<1> DEFINE r == [telemetry[p] EXCEPT !.live = @ - 1]
<1>1. telemetry[p] \in Telemetry
  BY DEF RenderOK
<1>2. telemetry[p].live - 1 \in Int
  BY <1>1 DEF Telemetry
<1>3. telemetry' = [telemetry EXCEPT ![p] = r]
  BY DEF ChildExits, RenderOK
<1>4. /\ r \in Telemetry /\ r.starts = telemetry[p].starts /\ r.live = telemetry[p].live - 1
      /\ r.most = telemetry[p].most /\ r.renderer = telemetry[p].renderer
      /\ r.finished = telemetry[p].finished
  BY <1>1, <1>2 DEF Telemetry
<1> HIDE DEF r
<1> QED
  BY <1>3, <1>4 DEF RenderOK

LEMMA ReturnEffect ==
    ASSUME RenderOK, NEW p \in Procs, telemetry' = [telemetry EXCEPT ![p].finished = TRUE]
    PROVE  /\ telemetry' \in [Procs -> Telemetry]
           /\ \A q \in Procs \ {p} : telemetry'[q] = telemetry[q]
           /\ telemetry'[p].starts = telemetry[p].starts
           /\ telemetry'[p].live = telemetry[p].live
           /\ telemetry'[p].most = telemetry[p].most
           /\ telemetry'[p].renderer = telemetry[p].renderer
<1> DEFINE r == [telemetry[p] EXCEPT !.finished = TRUE]
<1>1. telemetry[p] \in Telemetry
  BY DEF RenderOK
<1>3. telemetry' = [telemetry EXCEPT ![p] = r]
  BY DEF RenderOK
<1>4. /\ r \in Telemetry /\ r.starts = telemetry[p].starts /\ r.live = telemetry[p].live
      /\ r.most = telemetry[p].most /\ r.renderer = telemetry[p].renderer
  BY <1>1 DEF Telemetry
<1> HIDE DEF r
<1> QED
  BY <1>3, <1>4 DEF RenderOK

LEMMA SilentType == /\ Silent \in Telemetry /\ Silent.starts = 0 /\ Silent.live = 0
                    /\ Silent.most = 0 /\ Silent.renderer = "native" /\ Silent.finished = FALSE
BY DEF Silent, Telemetry

(* What becomes of the directories.                                        *)
Directories(p) ==
    /\ dirs' \subseteq Procs \X Artefacts
    /\ \A q \in Procs \ {p}, a \in Artefacts : <<q, a>> \in dirs' <=> <<q, a>> \in dirs

LEMMA DirectoriesEffect ==
    ASSUME CacheOK, NEW p \in Procs,
           \/ UNCHANGED dirs
           \/ \E a \in Artefacts : dirs' = dirs \cup {<<p, a>>}
           \/ \E a : dirs' = dirs \ {<<p, a>>}
           \/ \E A : dirs' = dirs \ ({p} \X A)
    PROVE  Directories(p)
BY DEF CacheOK, Directories

(* The process moves to a place outside the cache's steps, or dies.        *)
Quiet == {"off", "hint", "hinting", "classified", "get open", "failed", "check", "external",
          "converting", "terminal", "dead", "put create", "rendered", "return", "native",
          "rendering", "done", "opening", "reading"}

RenderMove(p) ==
    /\ pc' \in [Procs -> Places] /\ pc'[p] \in Quiet /\ \A q \in Procs \ {p} : pc'[q] = pc[q]
    /\ UNCHANGED <<entry, temp, quarantine, content>>
    /\ \/ pc'[p] = "dead" /\ open' = [open EXCEPT ![p] = None] /\ victims' = [victims EXCEPT ![p] = <<>>]
       \/ /\ pc'[p] # "dead" /\ UNCHANGED <<open, victims>>
          /\ pc[p] \notin Opened \cup Holding \cup {"prune settle", "dead"}
    /\ UNCHANGED staged \/ staged' = [staged EXCEPT ![p] = "nothing"]
    /\ \/ UNCHANGED key /\ (pc'[p] # "dead" => pc[p] # "off")
       \/ \E k \in Keys : key' = [key EXCEPT ![p] = k]
       \/ pc'[p] = "off" /\ key' = [key EXCEPT ![p] = None]

LEMMA RenderMoveTypes ==
    ASSUME CacheOK, NEW p \in Procs, RenderMove(p), Directories(p)
    PROVE  CacheOK' /\ CacheOthers(p)
<1>0. \/ UNCHANGED key
      \/ \E k \in Keys \cup {None} : key' = [key EXCEPT ![p] = k]
  BY DEF RenderMove
<1>1. key' \in [Procs -> Keys \cup {None}] /\ \A q \in Procs \ {p} : key'[q] = key[q]
  BY <1>0 DEF CacheOK
<1>2. open' \in [Procs -> Files \cup {None}] /\ \A q \in Procs \ {p} : open'[q] = open[q]
  BY DEF RenderMove, CacheOK
<1>3. DOMAIN victims' = Procs /\ \A q \in Procs \ {p} : victims'[q] = victims[q]
  BY DEF RenderMove, CacheOK
<1>4. staged' \in [Procs -> {"nothing", "part"} \cup Keys] /\ \A q \in Procs \ {p} : staged'[q] = staged[q]
  BY DEF RenderMove, CacheOK
<1> QED
  BY <1>1, <1>2, <1>3, <1>4 DEF RenderMove, CacheOK, CacheOthers, Directories

LEMMA RenderMovePlace ==
    ASSUME CacheOK, PlaceInv, NEW p \in Procs, RenderMove(p)
    PROVE  PlaceOf(p)'
<1>1. PlaceOf(p) /\ pc'[p] \notin Opened \cup Holding \cup {"prune settle"}
  BY DEF PlaceInv, RenderMove, Quiet, Opened, Holding
<1>2. CASE pc'[p] = "dead"
  <2>1. open'[p] = None
    BY <1>2 DEF RenderMove, CacheOK
  <2> QED
    BY <1>1, <1>2, <2>1 DEF PlaceOf, Opened, Holding
<1>3. CASE pc'[p] # "dead"
  <2>1. temp'[p] = None /\ quarantine'[p] = None /\ open'[p] = None
    BY <1>1, <1>3 DEF PlaceOf, RenderMove
  <2>2. pc'[p] = "off" \/ key'[p] \in Keys
    BY <1>1, <1>3 DEF PlaceOf, RenderMove, CacheOK
  <2> QED
    BY <1>1, <1>3, <2>1, <2>2 DEF PlaceOf
<1> QED
  BY <1>2, <1>3

RenderOthers(p) ==
    \A q \in Procs \ {p} : rich'[q] = rich[q] /\ started'[q] = started[q] /\ telemetry'[q] = telemetry[q]

Effect(p) == RenderMove(p) /\ Directories(p) /\ RenderOK' /\ RenderOthers(p)

LEMMA QuietPlaces == Quiet \subseteq Places /\ ChildSteps \subseteq Quiet
BY DEF Quiet, Places, ChildSteps, Ended, Reading

LEMMA DeathEffect ==
    ASSUME CacheOK, NEW p \in Procs, CacheDeath(p), UNCHANGED staged
    PROVE  RenderMove(p) /\ pc'[p] = "dead"
<1>1. /\ pc' \in [Procs -> Places] /\ pc'[p] = "dead" /\ \A q \in Procs \ {p} : pc'[q] = pc[q]
  BY GoesEffect, QuietPlaces DEF CacheDeath, Quiet
<1> QED
  BY <1>1 DEF RenderMove, CacheDeath, Quiet, dirVars

LEMMA StayEffect ==
    ASSUME CacheOK, NEW p \in Procs, CacheStays, NEW to \in Quiet \ {"dead", "off"}, Goes(p, to),
           pc[p] \notin Opened \cup Holding \cup {"prune settle", "dead", "off"}
    PROVE  RenderMove(p) /\ pc'[p] = to
<1>1. /\ pc' \in [Procs -> Places] /\ pc'[p] = to /\ \A q \in Procs \ {p} : pc'[q] = pc[q]
  BY GoesEffect, QuietPlaces
<1> QED
  BY <1>1 DEF RenderMove, CacheStays, dirVars

LEMMA UnwindEffect ==
    ASSUME CacheOK, RenderOK, NEW p \in Procs, NEW to \in {"check", "rendered"}, Unwind(p, to),
           pc[p] \in {"unstaged", "external", "rendering"}
    PROVE  /\ RenderMove(p) /\ pc'[p] = to
           /\ Directories(p)
           /\ rich' \in [Procs -> BOOLEAN] /\ cleanup' \in [Procs -> Artefacts \cup {"none"}]
           /\ \A q \in Procs \ {p} : rich'[q] = rich[q]
           /\ <<p, "converter">> \notin dirs'
           /\ <<p, "stage">> \in dirs' => <<p, "stage">> \in dirs /\ ~rich[p]
<1>1. /\ pc' \in [Procs -> Places] /\ pc'[p] = to /\ \A q \in Procs \ {p} : pc'[q] = pc[q]
  BY GoesEffect, PlacesAre DEF Unwind
<1>2. RenderMove(p)
  BY <1>1 DEF RenderMove, Unwind, dirVars, Quiet, Opened, Holding
<1>3. Directories(p)
  BY DirectoriesEffect DEF Unwind
<1>4. /\ rich' \in [Procs -> BOOLEAN] /\ cleanup' \in [Procs -> Artefacts \cup {"none"}]
      /\ \A q \in Procs \ {p} : rich'[q] = rich[q]
  BY DEF Unwind, RenderOK
<1>5. dirs' = dirs \ ({p} \X IF rich[p] THEN Artefacts ELSE {"converter"})
  BY DEF Unwind
<1>6. <<p, "converter">> \notin dirs' /\ (<<p, "stage">> \in dirs' => <<p, "stage">> \in dirs /\ ~rich[p])
  BY <1>5 DEF Artefacts
<1> QED
  BY <1>1, <1>2, <1>3, <1>4, <1>6

(* The steps that kill the process.                                        *)
LEMMA KillEffect ==
    ASSUME CacheOK, RenderOK, NEW p \in Procs,
           GroupKill(p) \/ Kill(p) \/ Terminal(p) \/ ConverterExceeds(p)
    PROVE  Effect(p) /\ pc'[p] = "dead" /\ UNCHANGED <<started, telemetry>>
<1>1. RenderMove(p) /\ pc'[p] = "dead"
  BY DeathEffect DEF GroupKill, Kill, Terminal, ConverterExceeds
<1>2. Directories(p)
  BY DirectoriesEffect DEF GroupKill, Kill, Terminal, ConverterExceeds
<1>3. UNCHANGED <<category, rich, started, ctxDone, telemetry>>
  BY DEF GroupKill, Kill, Terminal, ConverterExceeds, renderVars
<1>4. cleanup' \in [Procs -> Artefacts \cup {"none"}]
  BY DEF GroupKill, Kill, Terminal, ConverterExceeds, renderVars, RenderOK
<1> QED
  BY <1>1, <1>2, <1>3, <1>4 DEF Effect, RenderOthers, RenderOK

(* The steps that start no helper and wait for none.                       *)
LEMMA PlainEffect ==
    ASSUME CacheOK, RenderOK, NEW p \in Procs,
           Classified(p) \/ Staged(p) \/ Check(p) \/ Native(p) \/ PipeRead(p)
    PROVE  /\ Effect(p) /\ UNCHANGED <<started, telemetry, dirs>>
           /\ Classified(p) => pc'[p] \in {"failed", "check", "get open", "external"}
           /\ Staged(p) => pc'[p] = "external" /\ rich'[p]
           /\ Check(p) \/ Native(p) \/ PipeRead(p) =>
                 pc'[p] \in {"hint", "classified", "terminal", "failed", "return", "native",
                            "reading"}
<1>0. CacheStays /\ UNCHANGED <<started, telemetry, dirs, category, ctxDone>>
  BY DEF Classified, Staged, Check, Native, PipeRead, ReadPrefix, NativeRead, renderVars
<1>1. Directories(p)
  BY <1>0, DirectoriesEffect
<1>2. /\ rich' \in [Procs -> BOOLEAN] /\ \A q \in Procs \ {p} : rich'[q] = rich[q]
      /\ cleanup' \in [Procs -> Artefacts \cup {"none"}]
  BY DEF Classified, Staged, Check, Native, PipeRead, ReadPrefix, NativeRead, renderVars, RenderOK,
         Artefacts
<1>3. RenderOK' /\ RenderOthers(p)
  BY <1>0, <1>2 DEF RenderOK, RenderOthers
<1>4. CASE Classified(p)
  <2>1. PICK to \in {"failed", "check", "get open", "external"} : Goes(p, to)
    BY <1>4 DEF Classified, External
  <2>2. pc[p] = "classified"
    BY <1>4 DEF Classified
  <2>3. RenderMove(p) /\ pc'[p] = to
    BY <1>0, <2>1, <2>2, StayEffect DEF Quiet, Opened, Holding
  <2> QED
    BY <1>0, <1>1, <1>3, <2>2, <2>3
    DEF Effect, Staged, Check, Native, PipeRead, ReadPrefix, NativeRead
<1>5. CASE Staged(p)
  <2>1. Goes(p, "external") /\ pc[p] = "staged" /\ rich'[p]
    BY <1>5 DEF Staged, External, RenderOK
  <2>2. RenderMove(p) /\ pc'[p] = "external"
    BY <1>0, <2>1, StayEffect DEF Quiet, Opened, Holding
  <2> QED
    BY <1>0, <1>1, <1>3, <2>1, <2>2
    DEF Effect, Classified, Check, Native, PipeRead, ReadPrefix, NativeRead
<1>6. CASE Check(p) \/ Native(p) \/ PipeRead(p)
  <2>1. PICK to \in {"hint", "classified", "terminal", "failed", "return", "native", "reading"} :
            Goes(p, to)
    BY <1>6 DEF Check, Native, PipeRead, ReadPrefix, NativeRead, NativeEnds, Detected
  <2>2. pc[p] \in {"check", "rendered", "native", "opening", "reading"}
    BY <1>6 DEF Check, Native, PipeRead, ReadPrefix, NativeRead
  <2>3. RenderMove(p) /\ pc'[p] = to
    BY <1>0, <2>1, <2>2, StayEffect DEF Quiet, Opened, Holding
  <2> QED
    BY <1>0, <1>1, <1>3, <2>2, <2>3 DEF Effect, Staged, Classified
<1> QED
  BY <1>4, <1>5, <1>6

(* No helper starts or ends: the telemetry tells the same.                 *)
LEMMA TelemetrySame ==
    ASSUME NEW p \in Procs, TelemetryOf(p), UNCHANGED <<started, telemetry>>, pc[p] # "done",
           \/ pc'[p] = "dead"
           \/ pc[p] # "dead" /\ (pc[p] \in ChildSteps <=> pc'[p] \in ChildSteps)
    PROVE  TelemetryOf(p)'
BY DEF TelemetryOf

LEMMA TelemetryStarts ==
    ASSUME RenderOK, NEW p \in Procs, TelemetryOf(p), NEW tool, NEW at \in ChildSteps,
           ChildStarts(p, tool, at), pc'[p] = at, pc[p] \notin ChildSteps \cup {"done", "dead"}
    PROVE  TelemetryOf(p)'
<1>1. /\ started'[p] /\ tool \in Installed
      /\ telemetry'[p].starts = telemetry[p].starts + 1
      /\ telemetry'[p].live = telemetry[p].live + 1
      /\ telemetry'[p].most \in {telemetry[p].most, telemetry[p].live + 1}
      /\ telemetry'[p].renderer = IF started[p] THEN telemetry[p].renderer ELSE tool
      /\ telemetry'[p].finished = telemetry[p].finished
  BY StartsEffect
<1>2. telemetry[p].live = 0 /\ telemetry[p].most <= 1 /\ ~telemetry[p].finished
  BY DEF TelemetryOf
<1>3. telemetry[p].starts \in Nat
  BY DEF RenderOK, Telemetry
<1>4. telemetry'[p].renderer # "native"
  BY <1>1, RenderAssumption DEF TelemetryOf
<1>5. telemetry'[p].starts > 0
  BY <1>1, <1>3
<1> QED
  BY <1>1, <1>2, <1>4, <1>5 DEF TelemetryOf

LEMMA TelemetryExits ==
    ASSUME RenderOK, NEW p \in Procs, TelemetryOf(p), ChildExits(p), UNCHANGED started,
           pc[p] \in ChildSteps, pc'[p] \notin ChildSteps
    PROVE  TelemetryOf(p)'
<1>1. /\ telemetry'[p].starts = telemetry[p].starts
      /\ telemetry'[p].live = telemetry[p].live - 1
      /\ telemetry'[p].most = telemetry[p].most
      /\ telemetry'[p].renderer = telemetry[p].renderer
      /\ telemetry'[p].finished = telemetry[p].finished
  BY ExitsEffect
<1>2. telemetry[p].live = 1 /\ ~telemetry[p].finished
  BY DEF TelemetryOf, ChildSteps
<1> QED
  BY <1>1, <1>2 DEF TelemetryOf

LEMMA HintEffect ==
    ASSUME CacheOK, RenderOK, NEW p \in Procs, ArtefactOf(p), TelemetryOf(p), Hint(p) \/ HintExits(p)
    PROVE  Effect(p) /\ ArtefactOf(p)' /\ TelemetryOf(p)'
<1>0. /\ CacheStays /\ UNCHANGED <<dirs, rich, cleanup, ctxDone>>
      /\ <<p, "converter">> \notin dirs /\ <<p, "stage">> \notin dirs
  BY DEF Hint, HintExits, ArtefactOf, Converted
<1>1. Directories(p)
  BY <1>0, DirectoriesEffect
<1>2. ASSUME NEW to \in Quiet \ {"dead", "off"}, Goes(p, to)
      PROVE  RenderMove(p) /\ pc'[p] = to
  BY <1>0, <1>2, StayEffect DEF Hint, HintExits, Opened, Holding
<1>3. ArtefactOf(p)'
  BY <1>0 DEF ArtefactOf
<1>4. CASE Hint(p)
  <2>0. UNCHANGED category /\ pc[p] = "hint"
    BY <1>4 DEF Hint
  <2>1. CASE ChildStarts(p, "file", "hinting")
    <3>1. RenderMove(p) /\ pc'[p] = "hinting"
      BY <1>2, <2>1 DEF ChildStarts, Quiet
    <3>2. TelemetryOf(p)'
      BY <2>0, <2>1, <3>1, TelemetryStarts DEF ChildSteps
    <3>3. RenderOK' /\ RenderOthers(p)
      BY <1>0, <2>0, <2>1, StartsEffect DEF RenderOK, RenderOthers
    <3> QED
      BY <1>1, <1>3, <3>1, <3>2, <3>3 DEF Effect
  <2>2. CASE Goes(p, "classified") /\ UNCHANGED <<started, telemetry>>
    <3>1. RenderMove(p) /\ pc'[p] = "classified"
      BY <1>2, <2>2 DEF Quiet
    <3>2. TelemetryOf(p)'
      BY <2>0, <2>2, <3>1, TelemetrySame DEF ChildSteps
    <3>3. RenderOK' /\ RenderOthers(p)
      BY <1>0, <2>0, <2>2 DEF RenderOK, RenderOthers
    <3> QED
      BY <1>1, <1>3, <3>1, <3>2, <3>3 DEF Effect
  <2> QED
    BY <1>4, <2>1, <2>2 DEF Hint
<1>5. CASE HintExits(p)
  <2>0. UNCHANGED started /\ pc[p] = "hinting" /\ ChildExits(p)
    BY <1>5 DEF HintExits
  <2>1. PICK to \in {"terminal", "classified"} : Goes(p, to)
    BY <1>5 DEF HintExits
  <2>2. RenderMove(p) /\ pc'[p] = to
    BY <1>2, <2>1 DEF Quiet
  <2>3. TelemetryOf(p)'
    BY <2>0, <2>2, TelemetryExits DEF ChildSteps
  <2>4. category' \in [Procs -> Categories]
    BY <1>5, RenderAssumption DEF HintExits, RenderOK, Categories
  <2>5. RenderOK' /\ RenderOthers(p)
    BY <1>0, <2>0, <2>4, ExitsEffect DEF RenderOK, RenderOthers
  <2> QED
    BY <1>1, <1>3, <2>2, <2>3, <2>5 DEF Effect
<1> QED
  BY <1>4, <1>5

LEMMA ConvertEffect ==
    ASSUME CacheOK, RenderOK, NEW p \in Procs, ArtefactOf(p), TelemetryOf(p),
           Convert(p) \/ ConverterExits(p)
    PROVE  Effect(p) /\ ArtefactOf(p)' /\ TelemetryOf(p)'
<1>0. /\ CacheStays /\ UNCHANGED <<category, rich, ctxDone>>
      /\ pc[p] \in {"miss", "converting"} /\ <<p, "stage">> \notin dirs
  BY DEF Convert, ConverterExits, ArtefactOf
<1>1. Directories(p)
  BY DirectoriesEffect DEF Convert, ConverterExits, NewArtefact, Artefacts
<1>2. ASSUME NEW to \in Quiet \ {"dead", "off"}, Goes(p, to)
      PROVE  RenderMove(p) /\ pc'[p] = to
  BY <1>0, <1>2, StayEffect DEF Opened, Holding
<1>3. <<p, "stage">> \notin dirs'
  <2>1. \/ dirs' = dirs
        \/ dirs' = dirs \cup {<<p, "converter">>}
        \/ dirs' = dirs \ {<<p, "converter">>}
    BY DEF Convert, ConverterExits, NewArtefact
  <2> QED
    BY <1>0, <2>1
<1>4. cleanup' \in [Procs -> Artefacts \cup {"none"}]
  BY DEF Convert, ConverterExits, RenderOK, Artefacts
<1>5. CASE Convert(p)
  <2>0. pc[p] = "miss"
    BY <1>5 DEF Convert
  <2>1. CASE ChildStarts(p, Converter[category[p]], "converting")
    <3>1. RenderMove(p) /\ pc'[p] = "converting"
      BY <1>2, <2>1 DEF ChildStarts, Quiet
    <3>2. TelemetryOf(p)'
      BY <2>0, <2>1, <3>1, TelemetryStarts DEF ChildSteps
    <3>3. RenderOK' /\ RenderOthers(p)
      BY <1>0, <1>4, <2>0, <2>1, StartsEffect DEF RenderOK, RenderOthers
    <3>4. ArtefactOf(p)'
      BY <1>3, <3>1 DEF ArtefactOf
    <3> QED
      BY <1>1, <3>1, <3>2, <3>3, <3>4 DEF Effect
  <2>2. CASE External(p, category[p], "external") /\ UNCHANGED <<started, telemetry>>
    <3>1. RenderMove(p) /\ pc'[p] = "external"
      BY <1>2, <2>2 DEF Quiet, External
    <3>2. TelemetryOf(p)'
      BY <2>0, <2>2, <3>1, TelemetrySame DEF ChildSteps
    <3>3. RenderOK' /\ RenderOthers(p)
      BY <1>0, <1>4, <2>0, <2>2 DEF RenderOK, RenderOthers
    <3>4. ArtefactOf(p)'
      BY <1>3, <3>1 DEF ArtefactOf
    <3> QED
      BY <1>1, <3>1, <3>2, <3>3, <3>4 DEF Effect
  <2> QED
    BY <1>5, <2>1, <2>2 DEF Convert
<1>6. CASE ConverterExits(p)
  <2>0. UNCHANGED started /\ pc[p] = "converting" /\ ChildExits(p)
    BY <1>6 DEF ConverterExits
  <2>1. PICK to \in {"terminal", "put create", "external"} : Goes(p, to)
    BY <1>6 DEF ConverterExits, External
  <2>2. RenderMove(p) /\ pc'[p] = to
    BY <1>2, <2>1 DEF Quiet
  <2>3. TelemetryOf(p)'
    BY <2>0, <2>2, TelemetryExits DEF ChildSteps
  <2>4. RenderOK' /\ RenderOthers(p)
    BY <1>0, <1>4, <2>0, ExitsEffect DEF RenderOK, RenderOthers
  <2>5. ArtefactOf(p)'
    BY <1>3, <2>2 DEF ArtefactOf, Converted
  <2> QED
    BY <1>1, <2>2, <2>3, <2>4, <2>5 DEF Effect
<1> QED
  BY <1>5, <1>6

(* renderExternal and the way back.                                        *)
LEMMA ExternalEffect ==
    ASSUME CacheOK, RenderOK, NEW p \in Procs, ArtefactOf(p), TelemetryOf(p),
           TryTool(p) \/ ToolExits(p) \/ Unstaged(p)
    PROVE  Effect(p) /\ ArtefactOf(p)' /\ TelemetryOf(p)'
<1>0. /\ UNCHANGED <<category, ctxDone>> /\ pc[p] \in {"external", "rendering", "unstaged"}
      /\ <<p, "stage">> \in dirs => rich[p]
  BY DEF TryTool, ToolExits, Unstaged, ArtefactOf
<1>1. ASSUME NEW to \in {"check", "rendered"}, Unwind(p, to), started' \in [Procs -> BOOLEAN],
             \A q \in Procs \ {p} : started'[q] = started[q] /\ telemetry'[q] = telemetry[q],
             telemetry' \in [Procs -> Telemetry]
      PROVE  Effect(p) /\ ArtefactOf(p)' /\ pc'[p] = to
  <2>1. /\ RenderMove(p) /\ pc'[p] = to
        /\ Directories(p)
        /\ rich' \in [Procs -> BOOLEAN] /\ cleanup' \in [Procs -> Artefacts \cup {"none"}]
        /\ \A q \in Procs \ {p} : rich'[q] = rich[q]
        /\ <<p, "converter">> \notin dirs' /\ <<p, "stage">> \notin dirs'
    BY <1>0, <1>1, UnwindEffect
  <2>2. RenderOK' /\ RenderOthers(p)
    BY <1>0, <1>1, <2>1 DEF RenderOK, RenderOthers
  <2>3. ArtefactOf(p)'
    BY <2>1 DEF ArtefactOf
  <2> QED
    BY <2>1, <2>2, <2>3 DEF Effect
<1>2. ASSUME NEW to \in {"external", "rendering", "terminal"}, CacheStays, Goes(p, to),
             UNCHANGED <<dirs, rich, cleanup>>, started' \in [Procs -> BOOLEAN],
             \A q \in Procs \ {p} : started'[q] = started[q] /\ telemetry'[q] = telemetry[q],
             telemetry' \in [Procs -> Telemetry]
      PROVE  Effect(p) /\ ArtefactOf(p)' /\ pc'[p] = to
  <2>1. RenderMove(p) /\ pc'[p] = to
    BY <1>0, <1>2, StayEffect DEF Quiet, Opened, Holding
  <2>2. Directories(p)
    BY <1>2, DirectoriesEffect
  <2>3. RenderOK' /\ RenderOthers(p)
    BY <1>0, <1>2 DEF RenderOK, RenderOthers
  <2>4. ArtefactOf(p)'
    BY <1>0, <1>2, <2>1 DEF ArtefactOf
  <2> QED
    BY <2>1, <2>2, <2>3, <2>4 DEF Effect
<1>3. started \in [Procs -> BOOLEAN] /\ telemetry \in [Procs -> Telemetry]
  BY DEF RenderOK
<1>4. CASE Unstaged(p)
  <2>1. Unwind(p, "check") /\ UNCHANGED <<started, telemetry>> /\ pc[p] = "unstaged"
    BY <1>4 DEF Unstaged
  <2>2. Effect(p) /\ ArtefactOf(p)' /\ pc'[p] = "check"
    BY <1>1, <1>3, <2>1
  <2>3. TelemetryOf(p)'
    BY <2>1, <2>2, TelemetrySame DEF ChildSteps
  <2> QED
    BY <2>2, <2>3
<1>5. CASE TryTool(p)
  <2>0. pc[p] = "external"
    BY <1>5 DEF TryTool
  <2>1. CASE ChildStarts(p, Head(tools[p]), "rendering") /\ CacheStays /\ UNCHANGED <<dirs, rich, cleanup>>
    <3>1. /\ started' \in [Procs -> BOOLEAN] /\ telemetry' \in [Procs -> Telemetry]
          /\ \A q \in Procs \ {p} : started'[q] = started[q] /\ telemetry'[q] = telemetry[q]
          /\ Goes(p, "rendering")
      BY <2>1, StartsEffect
    <3>2. Effect(p) /\ ArtefactOf(p)' /\ pc'[p] = "rendering"
      BY <1>2, <2>1, <3>1
    <3>3. TelemetryOf(p)'
      BY <2>0, <2>1, <3>2, TelemetryStarts DEF ChildSteps
    <3> QED
      BY <3>2, <3>3
  <2>2. CASE CacheStays /\ UNCHANGED <<pc, dirs, rich, started, cleanup, telemetry>>
    <3>1. Goes(p, "external")
      BY <2>0, <2>2 DEF Goes, CacheOK
    <3>2. Effect(p) /\ ArtefactOf(p)' /\ pc'[p] = "external"
      BY <1>2, <1>3, <2>2, <3>1
    <3>3. TelemetryOf(p)'
      BY <2>0, <2>2, <3>2, TelemetrySame DEF ChildSteps
    <3> QED
      BY <3>2, <3>3
  <2>3. CASE Unwind(p, "check") /\ UNCHANGED <<started, telemetry>>
    <3>1. Effect(p) /\ ArtefactOf(p)' /\ pc'[p] = "check"
      BY <1>1, <1>3, <2>3
    <3>2. TelemetryOf(p)'
      BY <2>0, <2>3, <3>1, TelemetrySame DEF ChildSteps
    <3> QED
      BY <3>1, <3>2
  <2> QED
    BY <1>5, <2>1, <2>2, <2>3 DEF TryTool
<1>6. CASE ToolExits(p)
  <2>0. pc[p] = "rendering" /\ ChildExits(p) /\ UNCHANGED started
    BY <1>6 DEF ToolExits
  <2>1. /\ telemetry' \in [Procs -> Telemetry] /\ started' \in [Procs -> BOOLEAN]
        /\ \A q \in Procs \ {p} : started'[q] = started[q] /\ telemetry'[q] = telemetry[q]
    BY <1>3, <2>0, ExitsEffect
  <2>2. CASE Unwind(p, "rendered")
    BY <1>1, <2>0, <2>1, <2>2, TelemetryExits DEF ChildSteps
  <2>3. ASSUME NEW to \in {"terminal", "external"}, Goes(p, to), CacheStays,
               UNCHANGED <<dirs, rich, cleanup>>
        PROVE  Effect(p) /\ ArtefactOf(p)' /\ TelemetryOf(p)'
    BY <1>2, <2>0, <2>1, <2>3, TelemetryExits DEF ChildSteps
  <2> QED
    BY <1>6, <2>2, <2>3 DEF ToolExits
<1> QED
  BY <1>4, <1>5, <1>6

(* The beginning and the end of a preview.                                 *)
LEMMA EndsEffect ==
    ASSUME CacheOK, RenderOK, NEW p \in Procs, ArtefactOf(p), TelemetryOf(p),
           Begin(p) \/ Return(p) \/ Replace(p)
    PROVE  Effect(p) /\ ArtefactOf(p)' /\ TelemetryOf(p)'
<1>0. /\ UNCHANGED <<dirs, rich, cleanup>> /\ pc[p] \in {"off", "return", "failed", "done"}
      /\ <<p, "converter">> \notin dirs /\ <<p, "stage">> \notin dirs
  BY DEF Begin, Return, Replace, ArtefactOf, Converted
<1>1. Directories(p)
  BY <1>0, DirectoriesEffect
<1>2. ArtefactOf(p)'
  BY <1>0 DEF ArtefactOf
<1>3. CASE Begin(p)
  <2>1. PICK c \in Candidates[p] : /\ key' = [key EXCEPT ![p] = c.key]
                                   /\ category' = [category EXCEPT ![p] = c.category]
                                   /\ Goes(p, IF c.key \in Pipes THEN "opening"
                                              ELSE Detected(c.category))
    BY <1>3 DEF Begin
  <2>2. c.key \in Keys /\ c.category \in Categories
    BY RenderAssumption
  <2>3. pc' \in [Procs -> Places] /\ pc'[p] \in {"hint", "classified", "opening"}
        /\ \A q \in Procs \ {p} : pc'[q] = pc[q]
    BY <2>1, GoesEffect, PlacesAre DEF Detected
  <2>4. UNCHANGED <<dirVars, open, victims, staged, started, ctxDone, telemetry>> /\ pc[p] = "off"
    BY <1>3 DEF Begin
  <2>5. RenderMove(p)
    BY <2>1, <2>2, <2>3, <2>4 DEF RenderMove, dirVars, Quiet, Opened, Holding
  <2>6. RenderOK' /\ RenderOthers(p)
    BY <1>0, <2>1, <2>2, <2>4 DEF RenderOK, RenderOthers
  <2>7. TelemetryOf(p)'
    BY <2>3, <2>4, TelemetrySame DEF ChildSteps
  <2> QED
    BY <1>1, <1>2, <2>5, <2>6, <2>7 DEF Effect
<1>4. CASE Return(p)
  <2>1. /\ Goes(p, "done") /\ CacheStays /\ UNCHANGED <<category, started, ctxDone>>
        /\ telemetry' = [telemetry EXCEPT ![p].finished = TRUE] /\ pc[p] \in {"return", "failed"}
    BY <1>4 DEF Return
  <2>2. RenderMove(p) /\ pc'[p] = "done"
    BY <2>1, StayEffect DEF Quiet, Opened, Holding
  <2>3. RenderOK' /\ RenderOthers(p)
    BY <1>0, <2>1, ReturnEffect DEF RenderOK, RenderOthers
  <2>4. TelemetryOf(p)'
    BY <2>1, <2>2, ReturnEffect DEF TelemetryOf, ChildSteps
  <2> QED
    BY <1>1, <1>2, <2>2, <2>3, <2>4 DEF Effect
<1>5. CASE Replace(p)
  <2>1. /\ Goes(p, "off") /\ key' = [key EXCEPT ![p] = None]
        /\ UNCHANGED <<dirVars, open, victims, staged>> /\ pc[p] = "done"
    BY <1>5 DEF Replace
  <2>2. /\ pc' \in [Procs -> Places] /\ pc'[p] = "off" /\ \A q \in Procs \ {p} : pc'[q] = pc[q]
    BY <2>1, GoesEffect, QuietPlaces DEF Quiet
  <2>3. RenderMove(p)
    BY <2>1, <2>2 DEF RenderMove, dirVars, Quiet, Opened, Holding
  <2>4. /\ category' \in [Procs -> Categories] /\ started' \in [Procs -> BOOLEAN]
        /\ ctxDone' \in [Procs -> BOOLEAN] /\ telemetry' \in [Procs -> Telemetry]
        /\ telemetry'[p] = Silent /\ ~started'[p]
        /\ \A q \in Procs \ {p} : started'[q] = started[q] /\ telemetry'[q] = telemetry[q]
    BY <1>5, SilentType DEF Replace, RenderOK, Categories
  <2>5. RenderOK' /\ RenderOthers(p)
    BY <1>0, <2>4 DEF RenderOK, RenderOthers
  <2>6. TelemetryOf(p)'
    BY <2>2, <2>4, SilentType DEF TelemetryOf, ChildSteps
  <2> QED
    BY <1>1, <1>2, <2>3, <2>5, <2>6 DEF Effect
<1> QED
  BY <1>3, <1>4, <1>5

(* Everything the renderer does, but for the passing of the deadline.      *)
RenderStep(p) ==
    \/ GroupKill(p) \/ Kill(p) \/ Terminal(p) \/ ConverterExceeds(p)
    \/ Classified(p) \/ Staged(p) \/ Check(p) \/ Native(p) \/ PipeRead(p)
    \/ Hint(p) \/ HintExits(p) \/ Convert(p) \/ ConverterExits(p)
    \/ TryTool(p) \/ ToolExits(p) \/ Unstaged(p)
    \/ Begin(p) \/ Return(p) \/ Replace(p)

LEMMA RenderEffect ==
    ASSUME CacheOK, RenderOK, NEW p \in Procs, ArtefactOf(p), TelemetryOf(p), RenderStep(p)
    PROVE  Effect(p) /\ ArtefactOf(p)' /\ TelemetryOf(p)'
<1>1. CASE GroupKill(p) \/ Kill(p) \/ Terminal(p) \/ ConverterExceeds(p)
  <2>1. Effect(p) /\ pc'[p] = "dead" /\ UNCHANGED <<started, telemetry>>
    BY <1>1, KillEffect
  <2>2. pc[p] # "done"
    BY <1>1 DEF GroupKill, Kill, Terminal, ConverterExceeds, ChildSteps, Ended
  <2>3. TelemetryOf(p)'
    BY <2>1, <2>2, TelemetrySame
  <2>4. ArtefactOf(p)'
    BY <2>1 DEF ArtefactOf
  <2> QED
    BY <2>1, <2>3, <2>4
<1>2. CASE Classified(p) \/ Staged(p) \/ Check(p) \/ Native(p) \/ PipeRead(p)
  <2>1. /\ Effect(p) /\ UNCHANGED <<started, telemetry, dirs>>
        /\ Classified(p) => pc'[p] \in {"failed", "check", "get open", "external"}
        /\ Staged(p) => pc'[p] = "external" /\ rich'[p]
        /\ Check(p) \/ Native(p) \/ PipeRead(p) =>
              pc'[p] \in {"hint", "classified", "terminal", "failed", "return", "native",
                         "reading"}
    BY <1>2, PlainEffect
  <2>2. pc[p] \in {"classified", "staged", "check", "rendered", "native", "opening", "reading"}
    BY <1>2 DEF Classified, Staged, Check, Native, PipeRead, ReadPrefix, NativeRead
  <2>3. pc'[p] \notin ChildSteps
    BY <1>2, <2>1 DEF ChildSteps
  <2>4. TelemetryOf(p)'
    BY <2>1, <2>2, <2>3, TelemetrySame DEF ChildSteps
  <2>5. CASE Staged(p)
    BY <2>1, <2>4, <2>5 DEF ArtefactOf
  <2>6. CASE ~Staged(p)
    <3>1. pc[p] \in {"classified", "check", "rendered", "native", "opening", "reading"}
      BY <1>2, <2>6 DEF Classified, Check, Native, PipeRead, ReadPrefix, NativeRead
    <3>2. <<p, "converter">> \notin dirs /\ <<p, "stage">> \notin dirs
      BY <3>1 DEF ArtefactOf, Converted
    <3> QED
      BY <2>1, <2>4, <3>2 DEF ArtefactOf
  <2> QED
    BY <2>5, <2>6
<1> QED
  BY <1>1, <1>2, HintEffect, ConvertEffect, ExternalEffect, EndsEffect DEF RenderStep

-----------------------------------------------------------------------------
(* The same for the steps of the cache.                                    *)

LEMMA CachePlace ==
    ASSUME CacheOK, PlaceInv, NEW p \in Procs, CacheStep(p)
    PROVE  PlaceOf(p)'
<1>0. /\ PlaceOf(p) /\ None \notin Files
      /\ \A k \in Keys : entry[k] \in Files \cup {None}
  BY CacheAssumption DEF PlaceInv, CacheOK
<1>1. CASE GetOpen(p) \/ StageOpen(p)
  <2>1. /\ UNCHANGED <<key, temp, quarantine>> /\ pc[p] \in {"get open", "stage open"}
        /\ \/ pc'[p] \in {"get check", "stage copy"} /\ open'[p] # None
           \/ pc'[p] \in {"miss", "unstaged"} /\ open'[p] = None
    BY <1>1 DEF GetOpen, StageOpen, OpenSource, Accepts, Goes, CacheOK, dirVars
  <2> QED
    BY <1>0, <2>1 DEF PlaceOf, Opened, Holding
<1>2. CASE GetCheck(p) \/ StageCheck(p)
  <2>1. /\ UNCHANGED <<key, temp, quarantine>> /\ pc[p] \in {"get check", "stage check"}
        /\ pc'[p] \in {"stage open", "miss", "staged", "unstaged"} /\ open'[p] = None
    BY <1>2 DEF GetCheck, StageCheck, Goes, CacheOK
  <2> QED
    BY <1>0, <2>1 DEF PlaceOf, Opened, Holding
<1>3. CASE PutCreate(p)
  <2>1. PICK f \in Files : temp' = [temp EXCEPT ![p] = f] /\ open' = [open EXCEPT ![p] = f]
    BY <1>3 DEF PutCreate, Unused
  <2>2. /\ UNCHANGED <<key, quarantine>> /\ pc[p] = "put create" /\ pc'[p] = "put copy"
        /\ open'[p] = f
    BY <1>3, <2>1 DEF PutCreate, Goes, CacheOK
  <2> QED
    BY <1>0, <2>2 DEF PlaceOf, Opened, Holding
<1>4. CASE PutCopy(p) \/ PutLink(p)
  <2>1. /\ UNCHANGED <<key, temp, quarantine, open>> /\ pc[p] \in {"put copy", "put link"}
        /\ pc'[p] \in {"put link", "put unlink", "put yield"}
    BY <1>4 DEF PutCopy, PutLink, Goes, CacheOK
  <2> QED
    BY <1>0, <2>1 DEF PlaceOf, Opened, Holding
<1>5. CASE PutUnlink(p)
  <2>1. /\ UNCHANGED <<key, quarantine, open>> /\ pc[p] \in {"put unlink", "put yield"}
        /\ pc'[p] \in {"put check", "put winner"} /\ temp'[p] = None
    BY <1>5 DEF PutUnlink, Goes, CacheOK
  <2> QED
    BY <1>0, <2>1 DEF PlaceOf, Opened, Holding
<1>6. CASE PutCheck(p) \/ PutOpen(p) \/ PutWinner(p)
  <2>0. pc[p] \in {"put check", "put open", "put winner"}
    BY <1>6 DEF PutCheck, PutOpen, PutWinner
  <2>1. CASE PutFails(p)
    BY <1>0, <2>0, <2>1, PutFailsEffect DEF PlaceOf, Opened, Holding
  <2>2. CASE PutReturns(p)
    BY <1>0, <2>0, <2>2, PutReturnsEffect DEF PlaceOf, Opened, Holding
  <2>3. CASE Goes(p, "put open") /\ UNCHANGED <<key, dirVars, open>>
    BY <1>0, <2>0, <2>3 DEF PlaceOf, Opened, Holding, Goes, CacheOK, dirVars
  <2>4. CASE UNCHANGED <<pc, key, dirVars, open>>
    BY <1>0, <2>4 DEF PlaceOf, dirVars
  <2> QED
    BY <1>6, <2>1, <2>2, <2>3, <2>4 DEF PutCheck, PutOpen, PutWinner
<1>7. CASE PruneList(p)
  BY <1>0, <1>7 DEF PruneList, Goes, CacheOK, PlaceOf, Opened, Holding, dirVars
<1>8. CASE PruneNext(p)
  <2>1. /\ UNCHANGED <<key, temp, open>> /\ pc[p] = "prune next"
        /\ \/ pc'[p] \in {"stage open", "prune next"} /\ UNCHANGED quarantine
           \/ pc'[p] = "prune settle"
    BY <1>8 DEF PruneNext, Goes, CacheOK
  <2> QED
    BY <1>0, <2>1 DEF PlaceOf, Opened, Holding
<1>9. CASE PruneSettle(p)
  <2>1. /\ UNCHANGED <<key, temp, open>> /\ pc[p] = "prune settle"
        /\ pc'[p] = "prune next" /\ quarantine'[p] = None
    BY <1>9 DEF PruneSettle, Goes, CacheOK
  <2> QED
    BY <1>0, <2>1 DEF PlaceOf, Opened, Holding
<1>10. CASE StageCopy(p)
  BY <1>0, <1>10 DEF StageCopy, Goes, CacheOK, PlaceOf, Opened, Holding, dirVars
<1> QED
  BY <1>1, <1>2, <1>3, <1>4, <1>5, <1>6, <1>7, <1>8, <1>9, <1>10 DEF CacheStep

(* The places between which the cache's steps go.                          *)
CachePlaces == Converted \cup {"get open", "get check", "miss", "terminal"}

LEMMA CacheWay ==
    ASSUME CacheOK, NEW p \in Procs, CacheStep(p)
    PROVE  /\ pc[p] \in CachePlaces /\ pc'[p] \in CachePlaces /\ pc'[p] # "get open"
           /\ pc[p] \notin {"staged", "unstaged", "miss", "terminal"}
           /\ pc[p] \in {"get open", "get check"} => pc'[p] \in {"get check", "miss", "stage open"}
           /\ pc'[p] \in {"get check", "miss"} => pc[p] \in {"get open", "get check"}
           /\ \/ UNCHANGED dirs /\ (pc[p] = "stage check" => pc'[p] = "staged")
              \/ pc[p] = "stage copy" /\ pc'[p] = "stage check" /\ dirs' = dirs \cup {<<p, "stage">>}
              \/ pc[p] = "stage check" /\ dirs' = dirs \ {<<p, "stage">>}
<1>1. CASE GetOpen(p)
  BY <1>1 DEF GetOpen, OpenSource, Goes, CacheOK, CachePlaces, Converted
<1>2. CASE GetCheck(p)
  BY <1>2 DEF GetCheck, Goes, CacheOK, CachePlaces, Converted
<1>3. CASE PutCreate(p)
  BY <1>3 DEF PutCreate, Goes, CacheOK, CachePlaces, Converted
<1>4. CASE PutCopy(p)
  BY <1>4 DEF PutCopy, Goes, CacheOK, CachePlaces, Converted
<1>5. CASE PutLink(p)
  BY <1>5 DEF PutLink, Goes, CacheOK, CachePlaces, Converted
<1>6. CASE PutUnlink(p)
  BY <1>6 DEF PutUnlink, Goes, CacheOK, CachePlaces, Converted
<1>7. CASE PutCheck(p)
  BY <1>7 DEF PutCheck, PutFails, PutReturns, Goes, CacheOK, CachePlaces, Converted
<1>8. CASE PutOpen(p)
  BY <1>8 DEF PutOpen, PutFails, PutReturns, Goes, CacheOK, CachePlaces, Converted
<1>9. CASE PutWinner(p)
  BY <1>9 DEF PutWinner, PutFails, PutReturns, Goes, CacheOK, CachePlaces, Converted
<1>10. CASE PruneList(p)
  BY <1>10 DEF PruneList, Goes, CacheOK, CachePlaces, Converted
<1>11. CASE PruneNext(p)
  BY <1>11 DEF PruneNext, Goes, CacheOK, CachePlaces, Converted
<1>12. CASE PruneSettle(p)
  BY <1>12 DEF PruneSettle, Goes, CacheOK, CachePlaces, Converted
<1>13. CASE StageOpen(p)
  BY <1>13 DEF StageOpen, OpenSource, Goes, CacheOK, CachePlaces, Converted
<1>14. CASE StageCopy(p)
  BY <1>14 DEF StageCopy, NewArtefact, Goes, CacheOK, CachePlaces, Converted
<1>15. CASE StageCheck(p)
  BY <1>15 DEF StageCheck, StageDrops, Goes, CacheOK, CachePlaces, Converted
<1> QED
  BY <1>1, <1>2, <1>3, <1>4, <1>5, <1>6, <1>7, <1>8, <1>9, <1>10, <1>11, <1>12, <1>13, <1>14, <1>15 DEF CacheStep

LEMMA CacheArtefacts ==
    ASSUME CacheOK, NEW p \in Procs, CacheStep(p), UNCHANGED renderVars, ArtefactOf(p), TelemetryOf(p)
    PROVE  ArtefactOf(p)' /\ TelemetryOf(p)'
<1>1. /\ pc[p] \in CachePlaces /\ pc'[p] \in CachePlaces /\ pc'[p] # "get open"
      /\ pc[p] \notin {"staged", "unstaged", "miss", "terminal"}
      /\ pc[p] \in {"get open", "get check"} => pc'[p] \in {"get check", "miss", "stage open"}
      /\ pc'[p] \in {"get check", "miss"} => pc[p] \in {"get open", "get check"}
      /\ \/ UNCHANGED dirs /\ (pc[p] = "stage check" => pc'[p] = "staged")
         \/ pc[p] = "stage copy" /\ pc'[p] = "stage check" /\ dirs' = dirs \cup {<<p, "stage">>}
         \/ pc[p] = "stage check" /\ dirs' = dirs \ {<<p, "stage">>}
  BY CacheWay
<1>2. TelemetryOf(p)'
  BY <1>1, TelemetrySame DEF CachePlaces, Converted, ChildSteps, renderVars
<1>3. <<p, "converter">> \in dirs' => <<p, "converter">> \in dirs
  <2>1. \/ dirs' = dirs \/ dirs' = dirs \cup {<<p, "stage">>} \/ dirs' = dirs \ {<<p, "stage">>}
    BY <1>1
  <2> QED
    BY <2>1
<1>4. <<p, "converter">> \in dirs' => pc'[p] \in Converted \cup {"terminal"}
  BY <1>1, <1>3 DEF ArtefactOf, CachePlaces, Converted
<1>5. <<p, "stage">> \in dirs' => pc'[p] \in {"stage check", "staged"}
  BY <1>1 DEF ArtefactOf, CachePlaces, Converted
<1> QED
  BY <1>2, <1>4, <1>5 DEF ArtefactOf

-----------------------------------------------------------------------------
(* Whole artefacts                                                         *)

(* Nobody has a new file's number.                                         *)
LEMMA UnusedIsFree ==
    ASSUME NEW f \in Unused
    PROVE  /\ f \in Files
           /\ \A k \in Keys : entry[k] # f
           /\ \A q \in Procs : quarantine[q] # f /\ open[q] # f
<1> DEFINE E == {k \in Keys : entry[k] = f}
           T == {p \in Procs : temp[p] = f}
           Q == {p \in Procs : quarantine[p] = f}
           S == {f} \cap stray
<1>1. IsFiniteSet(E) /\ IsFiniteSet(T) /\ IsFiniteSet(Q)
  BY CacheAssumption, FS_Subset
<1>2. IsFiniteSet(S)
  BY FS_Singleton, FS_Subset
<1>3. /\ f \in Files /\ (\A q \in Procs : open[q] # f)
      /\ Cardinality(E) + Cardinality(T) + Cardinality(Q) + Cardinality(S) = 0
  BY DEF Unused, Links
<1>4. Cardinality(E) \in Nat /\ Cardinality(T) \in Nat /\ Cardinality(Q) \in Nat /\ Cardinality(S) \in Nat
  BY <1>1, <1>2, FS_CardinalityType
<1>5. Cardinality(E) = 0 /\ Cardinality(Q) = 0
  BY <1>3, <1>4
<1>6. E = {} /\ Q = {}
  BY <1>1, <1>5, FS_EmptySet
<1> QED
  BY <1>3, <1>6

(* The files a step of p can put under a name or a descriptor.             *)
Known(p) == {None, open[p], quarantine[p]} \cup {entry[k] : k \in Keys} \cup Unused

LEMMA PrivacyKept ==
    ASSUME CacheOK, PlaceInv, WholeInv, NEW p \in Procs, CacheOthers(p),
           \A k \in Keys : entry'[k] \in Known(p),
           quarantine'[p] \in Known(p), open'[p] \in Known(p)
    PROVE  \A q \in Procs \ {p} : PrivateOf(q)'
<1> SUFFICES ASSUME NEW q \in Procs \ {p}, pc'[q] = "put copy"
             PROVE  /\ \A k \in Keys : entry'[k] # open'[q]
                    /\ \A r \in Procs : quarantine'[r] # open'[q]
                    /\ \A r \in Procs \ {q} : open'[r] # open'[q]
  BY DEF PrivateOf
<1>1. pc[q] = "put copy" /\ open'[q] = open[q]
  BY DEF CacheOthers
<1>2. open[q] # None
  BY <1>1 DEF PlaceInv, PlaceOf, Opened, Holding
<1>3. /\ \A k \in Keys : entry[k] # open[q]
      /\ \A r \in Procs : quarantine[r] # open[q]
      /\ \A r \in Procs \ {q} : open[r] # open[q]
  BY <1>1 DEF WholeInv, PrivateOf
<1>4. open[q] \notin Unused
  BY UnusedIsFree
<1>5. open[q] \notin Known(p)
  BY <1>2, <1>3, <1>4 DEF Known
<1> QED
  BY <1>1, <1>3, <1>5 DEF CacheOthers

(* What the others rely on is as it was.                                   *)
LEMMA OthersWhole ==
    ASSUME CacheOK, WholeInv, NEW p \in Procs, CacheOthers(p), UNCHANGED content
    PROVE  \A q \in Procs \ {p} : WholeOf(q)'
<1> SUFFICES ASSUME NEW q \in Procs \ {p} PROVE WholeOf(q)'
  OBVIOUS
<1>1. WholeOf(q)
  BY DEF WholeInv
<1>2. /\ open'[q] = open[q] /\ quarantine'[q] = quarantine[q] /\ victims'[q] = victims[q]
      /\ pc'[q] = pc[q] /\ key'[q] = key[q] /\ staged'[q] = staged[q]
  BY DEF CacheOthers
<1> QED
  BY <1>1, <1>2 DEF WholeOf

(* A file that nobody else reaches may change.                             *)
LEMMA ContentChanges ==
    ASSUME CacheOK, PlaceInv, WholeInv, NEW p \in Procs, CacheOthers(p), NEW f \in Files, NEW c,
           content' = [content EXCEPT ![f] = c], UNCHANGED entry,
           \A k \in Keys : entry[k] # f,
           \A q \in Procs \ {p} : quarantine[q] # f /\ open[q] # f
    PROVE  EntriesWhole' /\ \A q \in Procs \ {p} : WholeOf(q)'
<1>1. \A g \in Files \ {f} : content'[g] = content[g]
  BY DEF CacheOK
<1>2. EntriesWhole'
  BY <1>1 DEF EntriesWhole, WholeInv, CacheOK
<1>3. ASSUME NEW q \in Procs \ {p} PROVE WholeOf(q)'
  <2>1. WholeOf(q) /\ PlaceOf(q)
    BY DEF WholeInv, PlaceInv
  <2>2. /\ open'[q] = open[q] /\ quarantine'[q] = quarantine[q] /\ victims'[q] = victims[q]
        /\ pc'[q] = pc[q] /\ key'[q] = key[q] /\ staged'[q] = staged[q]
    BY DEF CacheOthers
  <2>3. pc[q] \in {"put link", "stage copy"} => content'[open[q]] = content[open[q]]
    BY <1>1, <2>1 DEF PlaceOf, Opened, Holding, CacheOK
  <2>4. pc[q] = "prune settle" => content'[quarantine[q]] = content[quarantine[q]]
    BY <1>1, <2>1 DEF WholeOf, CacheOK
  <2> QED
    BY <2>1, <2>2, <2>3, <2>4 DEF WholeOf
<1> QED
  BY <1>2, <1>3

LEMMA CacheWhole ==
    ASSUME CacheOK, PlaceInv, WholeInv, NEW p \in Procs, CacheStep(p)
    PROVE  WholeInv'
<1>0. /\ CacheOK' /\ CacheOthers(p) /\ PlaceOf(p) /\ WholeOf(p) /\ PrivateOf(p) /\ EntriesWhole
      /\ \A k \in Keys : entry[k] \in Known(p)
      /\ None \in Known(p) /\ open[p] \in Known(p) /\ quarantine[p] \in Known(p)
  BY CacheTypes DEF PlaceInv, WholeInv, Known
<1>1. ASSUME \A k \in Keys : entry'[k] \in Known(p), quarantine'[p] \in Known(p),
             open'[p] \in Known(p), pc'[p] # "put copy", UNCHANGED content, EntriesWhole', WholeOf(p)'
      PROVE  WholeInv'
  <2>1. \A q \in Procs \ {p} : PrivateOf(q)'
    BY <1>0, <1>1, PrivacyKept
  <2>2. \A q \in Procs \ {p} : WholeOf(q)'
    BY <1>0, <1>1, OthersWhole
  <2>3. PrivateOf(p)'
    BY <1>1 DEF PrivateOf
  <2> QED
    BY <1>1, <2>1, <2>2, <2>3 DEF WholeInv
<1>2. ASSUME UNCHANGED <<entry, content>>, quarantine'[p] \in Known(p), open'[p] \in Known(p),
             pc'[p] # "put copy", WholeOf(p)'
      PROVE  WholeInv'
  <2>1. EntriesWhole' /\ \A k \in Keys : entry'[k] \in Known(p)
    BY <1>0, <1>2 DEF EntriesWhole
  <2> QED
    BY <1>1, <1>2, <2>1
<1>3. ASSUME UNCHANGED <<entry, content, quarantine>>, open'[p] \in {None, open[p]},
             pc'[p] \notin {"put copy", "put link", "stage copy", "prune settle", "stage check", "staged"}
      PROVE  WholeInv'
  <2>1. WholeOf(p)'
    BY <1>3 DEF WholeOf
  <2> QED
    BY <1>0, <1>2, <1>3, <2>1
<1>4. CASE GetOpen(p) \/ StageOpen(p)
  <2>1. UNCHANGED <<key, entry, content, quarantine, victims, staged>> /\ key[p] \in Keys
    BY <1>0, <1>4 DEF GetOpen, StageOpen, dirVars, PlaceOf
  <2>2. \/ open'[p] = None /\ pc'[p] \in {"miss", "unstaged"}
        \/ open'[p] = entry[key[p]] /\ entry[key[p]] # None /\ pc'[p] \in {"get check", "stage copy"}
    BY <1>4 DEF GetOpen, StageOpen, OpenSource, Accepts, Goes, CacheOK
  <2>3. content[entry[key[p]]] = key[p] \/ entry[key[p]] = None
    BY <1>0, <2>1 DEF EntriesWhole
  <2>4. WholeOf(p)'
    BY <2>1, <2>2, <2>3 DEF WholeOf
  <2> QED
    BY <1>0, <1>2, <2>1, <2>2, <2>4
<1>5. CASE GetCheck(p)
  <2>1. UNCHANGED <<entry, content, quarantine>> /\ pc'[p] \in {"stage open", "miss"} /\ open'[p] = None
    BY <1>5 DEF GetCheck, Goes, CacheOK
  <2> QED
    BY <1>3, <2>1
<1>6. CASE PutCreate(p)
  <2>1. PICK f \in Unused : /\ open' = [open EXCEPT ![p] = f]
                            /\ content' = [content EXCEPT ![f] = "part"]
    BY <1>6 DEF PutCreate
  <2>2. /\ f \in Files
        /\ \A k \in Keys : entry[k] # f
        /\ \A q \in Procs : quarantine[q] # f /\ open[q] # f
    BY UnusedIsFree
  <2>3. UNCHANGED <<entry, quarantine>> /\ pc'[p] = "put copy" /\ open'[p] = f /\ f \in Known(p)
    BY <1>6, <2>1 DEF PutCreate, Goes, CacheOK, Known
  <2>4. EntriesWhole' /\ \A q \in Procs \ {p} : WholeOf(q)'
    BY <1>0, <2>1, <2>2, <2>3, ContentChanges
  <2>5. \A q \in Procs \ {p} : PrivateOf(q)'
    BY <1>0, <2>3, PrivacyKept
  <2>6. WholeOf(p)'
    BY <2>3 DEF WholeOf
  <2>7. PrivateOf(p)'
    BY <1>0, <2>2, <2>3 DEF PrivateOf, CacheOthers
  <2> QED
    BY <2>4, <2>5, <2>6, <2>7 DEF WholeInv
<1>7. CASE PutCopy(p)
  <2>1. /\ UNCHANGED <<key, entry, quarantine, open>> /\ pc[p] = "put copy" /\ pc'[p] = "put link"
        /\ content' = [content EXCEPT ![open[p]] = key[p]]
    BY <1>7 DEF PutCopy, Goes, CacheOK
  <2>2. open[p] \in Files
    BY <1>0, <2>1 DEF PlaceOf, Opened, Holding, CacheOK
  <2>3. EntriesWhole' /\ \A q \in Procs \ {p} : WholeOf(q)'
    <3>1. /\ \A k \in Keys : entry[k] # open[p]
          /\ \A q \in Procs \ {p} : quarantine[q] # open[p] /\ open[q] # open[p]
      BY <1>0, <2>1 DEF PrivateOf
    <3> QED
      BY <1>0, <2>1, <2>2, <3>1, ContentChanges
  <2>4. \A q \in Procs \ {p} : PrivateOf(q)'
    BY <1>0, <2>1, PrivacyKept
  <2>5. WholeOf(p)' /\ PrivateOf(p)'
    BY <2>1, <2>2 DEF WholeOf, PrivateOf, CacheOK
  <2> QED
    BY <2>3, <2>4, <2>5 DEF WholeInv
<1>8. CASE PutLink(p)
  <2>1. /\ UNCHANGED <<key, content, quarantine, open>> /\ pc[p] = "put link" /\ key[p] \in Keys
        /\ pc'[p] \in {"put unlink", "put yield"}
        /\ entry' = entry \/ entry' = [entry EXCEPT ![key[p]] = open[p]]
    BY <1>0, <1>8 DEF PutLink, Goes, CacheOK, PlaceOf
  <2>2. content[open[p]] = key[p]
    BY <1>0, <2>1 DEF WholeOf
  <2>3. EntriesWhole' /\ \A k \in Keys : entry'[k] \in Known(p)
    BY <1>0, <2>1, <2>2 DEF EntriesWhole, CacheOK
  <2>4. WholeOf(p)'
    BY <2>1 DEF WholeOf
  <2> QED
    BY <1>0, <1>1, <2>1, <2>3, <2>4
<1>9. CASE PutUnlink(p)
  <2>1. UNCHANGED <<entry, content, quarantine, open>> /\ pc'[p] \in {"put check", "put winner"}
    BY <1>9 DEF PutUnlink, Goes, CacheOK
  <2> QED
    BY <1>3, <2>1
<1>10. CASE PutCheck(p) \/ PutOpen(p) \/ PutWinner(p)
  <2>0. pc[p] \in {"put check", "put open", "put winner"}
    BY <1>10 DEF PutCheck, PutOpen, PutWinner
  <2>1. CASE PutFails(p)
    BY <1>3, <2>1, PutFailsEffect
  <2>2. CASE PutReturns(p)
    BY <1>3, <2>2, PutReturnsEffect
  <2>3. CASE Goes(p, "put open") /\ UNCHANGED <<dirVars, open>>
    BY <1>3, <2>3 DEF Goes, CacheOK, dirVars
  <2>4. CASE UNCHANGED <<pc, dirVars, open>>
    BY <1>3, <2>0, <2>4 DEF dirVars
  <2> QED
    BY <1>10, <2>1, <2>2, <2>3, <2>4 DEF PutCheck, PutOpen, PutWinner
<1>11. CASE PruneList(p)
  <2>1. UNCHANGED <<entry, content, quarantine, open>> /\ pc'[p] = "prune next"
    BY <1>11 DEF PruneList, Goes, CacheOK, dirVars
  <2> QED
    BY <1>3, <2>1
<1>12. CASE PruneNext(p)
  <2>0. UNCHANGED <<content, open>> /\ pc[p] = "prune next"
    BY <1>12 DEF PruneNext
  <2>1. CASE UNCHANGED <<entry, quarantine>> /\ (Goes(p, "stage open") \/ UNCHANGED pc)
    <3>1. pc'[p] \in {"stage open", "prune next"}
      BY <2>0, <2>1 DEF Goes, CacheOK
    <3> QED
      BY <1>3, <2>0, <2>1, <3>1
  <2>2. ASSUME NEW k \in Keys, k = Head(victims[p])[1], entry[k] # None, Goes(p, "prune settle"),
               quarantine' = [quarantine EXCEPT ![p] = entry[k]],
               entry' = [entry EXCEPT ![k] = None], UNCHANGED victims
        PROVE  WholeInv'
    <3>1. quarantine'[p] = entry[k] /\ pc'[p] = "prune settle" /\ content[entry[k]] = k
      BY <1>0, <2>2 DEF Goes, CacheOK, EntriesWhole
    <3>2. EntriesWhole' /\ \A j \in Keys : entry'[j] \in Known(p)
      BY <1>0, <2>0, <2>2 DEF EntriesWhole, CacheOK
    <3>3. WholeOf(p)'
      BY <2>0, <2>2, <3>1 DEF WholeOf
    <3> QED
      BY <1>0, <1>1, <2>0, <3>1, <3>2, <3>3
  <2> QED
    BY <1>12, <2>1, <2>2 DEF PruneNext
<1>13. CASE PruneSettle(p)
  <2>0. /\ UNCHANGED <<content, open>> /\ pc[p] = "prune settle" /\ pc'[p] = "prune next"
        /\ quarantine'[p] = None
    BY <1>13 DEF PruneSettle, Goes, CacheOK
  <2>1. PICK k \in Keys : /\ k = Head(victims[p])[1]
                          /\ \/ UNCHANGED entry
                             \/ entry' = [entry EXCEPT ![k] = IF @ = None THEN quarantine[p] ELSE @]
    BY <1>13 DEF PruneSettle
  <2>2. content[quarantine[p]] = k
    BY <1>0, <2>0, <2>1 DEF WholeOf
  <2>3. EntriesWhole' /\ \A j \in Keys : entry'[j] \in Known(p)
    BY <1>0, <2>0, <2>1, <2>2 DEF EntriesWhole, CacheOK
  <2>4. WholeOf(p)'
    BY <2>0 DEF WholeOf
  <2> QED
    BY <1>0, <1>1, <2>0, <2>3, <2>4
<1>14. CASE StageCopy(p)
  <2>1. /\ UNCHANGED <<key, entry, content, quarantine, open>> /\ pc[p] = "stage copy"
        /\ pc'[p] = "stage check" /\ staged'[p] = content[open[p]]
    BY <1>14 DEF StageCopy, Goes, CacheOK, dirVars
  <2>2. WholeOf(p)'
    BY <1>0, <2>1 DEF WholeOf
  <2> QED
    BY <1>0, <1>2, <2>1, <2>2
<1>15. CASE StageCheck(p)
  <2>1. /\ UNCHANGED <<key, entry, content, quarantine>> /\ pc[p] = "stage check" /\ open'[p] = None
        /\ \/ pc'[p] = "staged" /\ UNCHANGED staged
           \/ pc'[p] = "unstaged"
    BY <1>15 DEF StageCheck, Goes, CacheOK
  <2>2. WholeOf(p)'
    BY <1>0, <2>1 DEF WholeOf
  <2> QED
    BY <1>0, <1>2, <2>1, <2>2
<1> QED
  BY <1>4, <1>5, <1>6, <1>7, <1>8, <1>9, <1>10, <1>11, <1>12, <1>13, <1>14, <1>15 DEF CacheStep

(* The renderer touches no file of the cache.                              *)
LEMMA RenderWhole ==
    ASSUME CacheOK, PlaceInv, WholeInv, NEW p \in Procs, RenderMove(p), CacheOthers(p)
    PROVE  WholeInv'
<1>1. UNCHANGED <<entry, content, quarantine>> /\ pc'[p] \in Quiet /\ open'[p] \in {None, open[p]}
  BY DEF RenderMove, CacheOK
<1>2. \A q \in Procs \ {p} : PrivateOf(q)'
  BY <1>1, PrivacyKept DEF Known
<1>3. \A q \in Procs \ {p} : WholeOf(q)'
  BY <1>1, OthersWhole
<1>4. PrivateOf(p)' /\ WholeOf(p)'
  BY <1>1 DEF PrivateOf, WholeOf, Quiet
<1>5. EntriesWhole'
  BY <1>1 DEF WholeInv, EntriesWhole
<1> QED
  BY <1>2, <1>3, <1>4, <1>5 DEF WholeInv

-----------------------------------------------------------------------------
(* PreviewInv is inductive                                                 *)

(* What holds of p after its step holds of everybody.                      *)
LEMMA OneProcess ==
    ASSUME PlaceInv, ArtefactInv, TelemetryInv, NEW p \in Procs, CacheOthers(p), RenderOthers(p),
           PlaceOf(p)', ArtefactOf(p)', TelemetryOf(p)'
    PROVE  PlaceInv' /\ ArtefactInv' /\ TelemetryInv'
<1>1. ASSUME NEW q \in Procs \ {p} PROVE PlaceOf(q)'
  BY DEF PlaceInv, PlaceOf, CacheOthers
<1>2. ASSUME NEW q \in Procs \ {p} PROVE ArtefactOf(q)'
  BY DEF ArtefactInv, ArtefactOf, CacheOthers, RenderOthers, Artefacts
<1>3. ASSUME NEW q \in Procs \ {p} PROVE TelemetryOf(q)'
  BY DEF TelemetryInv, TelemetryOf, CacheOthers, RenderOthers
<1> QED
  BY <1>1, <1>2, <1>3 DEF PlaceInv, ArtefactInv, TelemetryInv

LEMMA Framed ==
    ASSUME PreviewInv, UNCHANGED <<cacheVars, category, rich, started, cleanup, telemetry>>,
           ctxDone' \in [Procs -> BOOLEAN]
    PROVE  PreviewInv'
<1>0. TypeOK /\ PlaceInv /\ WholeInv /\ ArtefactInv /\ TelemetryInv
  BY DEF PreviewInv
<1>1. TypeOK'
  BY <1>0 DEF TypeOK, cacheVars, dirVars
<1>2. PlaceInv' /\ ArtefactInv'
  BY <1>0 DEF PlaceInv, PlaceOf, ArtefactInv, ArtefactOf, cacheVars, dirVars
<1>3. WholeInv'
  BY <1>0 DEF WholeInv, EntriesWhole, PrivateOf, WholeOf, cacheVars, dirVars
<1>4. TelemetryInv'
  BY <1>0 DEF TelemetryInv, TelemetryOf, cacheVars
<1> QED
  BY <1>1, <1>2, <1>3, <1>4 DEF PreviewInv

LEMMA InitEstablishes == Init => PreviewInv
<1> SUFFICES ASSUME Init PROVE PreviewInv
  OBVIOUS
<1>1. TypeOK
  BY SilentType, PlacesAre DEF Init, CacheInit, TypeOK, Categories, Ended
<1>2. \A p \in Procs : /\ pc[p] = "off" /\ temp[p] = None /\ quarantine[p] = None /\ open[p] = None
                       /\ telemetry[p] = Silent /\ ~started[p]
  BY DEF Init, CacheInit
<1>3. PlaceInv
  BY <1>2 DEF PlaceInv, PlaceOf, Opened, Holding
<1>4. WholeInv
  BY <1>2 DEF WholeInv, EntriesWhole, PrivateOf, WholeOf, Init, CacheInit
<1>5. ArtefactInv
  BY DEF ArtefactInv, ArtefactOf, Init, CacheInit
<1>6. TelemetryInv
  BY <1>2, SilentType DEF TelemetryInv, TelemetryOf, ChildSteps
<1> QED
  BY <1>1, <1>3, <1>4, <1>5, <1>6 DEF PreviewInv

LEMMA PreviewStep ==
    ASSUME PreviewInv, [Next]_vars
    PROVE  PreviewInv'
<1>0. CacheOK /\ RenderOK /\ PlaceInv /\ WholeInv /\ ArtefactInv /\ TelemetryInv
  BY TypeParts DEF PreviewInv
<1>1. ASSUME NEW p \in Procs, CacheOK', RenderOK', CacheOthers(p), RenderOthers(p),
             PlaceOf(p)', ArtefactOf(p)', TelemetryOf(p)', WholeInv'
      PROVE  PreviewInv'
  BY <1>0, <1>1, OneProcess, TypeParts DEF PreviewInv
<1>2. ASSUME NEW p \in Procs, RenderStep(p)
      PROVE  PreviewInv'
  <2>1. Effect(p) /\ ArtefactOf(p)' /\ TelemetryOf(p)'
    BY <1>0, <1>2, RenderEffect DEF ArtefactInv, TelemetryInv
  <2>2. CacheOK' /\ CacheOthers(p)
    BY <1>0, <2>1, RenderMoveTypes DEF Effect
  <2>3. PlaceOf(p)'
    BY <1>0, <2>1, RenderMovePlace DEF Effect
  <2>4. WholeInv'
    BY <1>0, <2>1, <2>2, RenderWhole DEF Effect
  <2> QED
    BY <1>1, <2>1, <2>2, <2>3, <2>4 DEF Effect
<1>3. ASSUME NEW p \in Procs, CacheStep(p), UNCHANGED renderVars
      PROVE  PreviewInv'
  <2>1. CacheOK' /\ CacheOthers(p)
    BY <1>0, <1>3, CacheTypes
  <2>2. PlaceOf(p)' /\ WholeInv'
    BY <1>0, <1>3, CachePlace, CacheWhole
  <2>3. ArtefactOf(p)' /\ TelemetryOf(p)'
    BY <1>0, <1>3, CacheArtefacts DEF ArtefactInv, TelemetryInv
  <2>4. RenderOK' /\ RenderOthers(p)
    BY <1>0, <1>3 DEF RenderOK, RenderOthers, renderVars
  <2> QED
    BY <1>1, <2>1, <2>2, <2>3, <2>4
<1>4. ASSUME NEW p \in Procs, PutFault(p)
      PROVE  PreviewInv'
  <2>0. PutFails(p) /\ pc[p] = "put copy" /\ UNCHANGED renderVars
        /\ PlaceOf(p) /\ ArtefactOf(p) /\ TelemetryOf(p)
    BY <1>0, <1>4 DEF PutFault, PutCopyFails, PlaceInv, ArtefactInv, TelemetryInv
  <2>1. /\ CacheOK' /\ CacheOthers(p)
        /\ pc'[p] = "terminal" /\ temp'[p] = None /\ open'[p] = None
        /\ UNCHANGED <<key, entry, quarantine, content, victims, dirs, staged>>
    BY <1>0, <2>0, PutFailsEffect
  <2>2. PlaceOf(p)'
    BY <2>0, <2>1 DEF PlaceOf, Opened, Holding
  <2>3. ArtefactOf(p)' /\ TelemetryOf(p)'
    BY <2>0, <2>1, TelemetrySame DEF ArtefactOf, ChildSteps, renderVars
  <2>4. WholeInv'
    <3>1. \A q \in Procs \ {p} : PrivateOf(q)'
      BY <1>0, <2>1, PrivacyKept DEF Known
    <3>2. \A q \in Procs \ {p} : WholeOf(q)'
      BY <1>0, <2>1, OthersWhole
    <3>3. PrivateOf(p)' /\ WholeOf(p)' /\ EntriesWhole'
      BY <1>0, <2>1 DEF PrivateOf, WholeOf, WholeInv, EntriesWhole
    <3> QED
      BY <3>1, <3>2, <3>3 DEF WholeInv
  <2>5. RenderOK' /\ RenderOthers(p)
    BY <1>0, <2>0 DEF RenderOK, RenderOthers, renderVars
  <2> QED
    BY <1>1, <2>1, <2>2, <2>3, <2>4, <2>5
<1>5. ASSUME NEW p \in Procs, Expire(p)
      PROVE  PreviewInv'
  BY <1>0, <1>5, Framed DEF Expire, RenderOK
<1>6. CASE UNCHANGED vars
  BY <1>0, <1>6, Framed DEF vars, renderVars, RenderOK
<1> QED
  BY <1>2, <1>3, <1>4, <1>5, <1>6 DEF Next, Step, HelperExits, RenderStep

-----------------------------------------------------------------------------
(* How many helpers there can have been                                    *)

(* The places before any helper, and before the converter.                 *)
Before == {"off", "opening", "hint"}
Unconverted == {"hinting", "classified", "get open", "get check", "miss"}

(* At a place: s helpers were started, h of them to classify the           *)
(* candidate, and n renderers are still to be tried, counting the one that *)
(* is running.                                                             *)
Few(at, s, h, n) ==
    /\ s \in Nat /\ h \in {0, 1} /\ n \in Nat
    /\ at \in Before => s = 0
    /\ at \in Unconverted => s <= h
    /\ at \in Converted \cup {"converting"} => s <= h + 1
    /\ at = "external" => s + n <= h + 3
    /\ at = "rendering" => n >= 1 /\ s + n <= h + 4
    /\ s <= h + 3

Hinted(renderer) == IF renderer = "file" THEN 1 ELSE 0

StartsOf(p) ==
    Few(pc[p], telemetry[p].starts, Hinted(telemetry[p].renderer), Len(tools[p]))

Renderers == {"eza", "glow", "bat", "kitten", "chafa", "exiftool", "unzip", "gzip", "xz", "tar"}

StartsInv == tools \in [Procs -> Seq(Renderers)] /\ \A p \in Procs : StartsOf(p)

(* No helper is started: at most two renderers can be chosen, and one that *)
(* has run is tried no more.                                               *)
LEMMA FewStay ==
    ASSUME NEW at, NEW to, NEW s, NEW h, NEW n, NEW m \in Nat, Few(at, s, h, n),
           \/ to \notin Before \cup Unconverted \cup Converted
                            \cup {"converting", "external", "rendering"}
           \/ at \in Before /\ to \in Before \cup Unconverted
           \/ at \in Unconverted /\ to \in Unconverted \cup Converted
           \/ at \in Converted \cup {"converting"} /\ to \in Converted
           \/ at \in Unconverted \cup Converted \cup {"converting"} /\ to = "external" /\ m <= 2
           \/ at = "rendering" /\ to = "external" /\ m + 1 = n
           \/ at = "external" /\ to = "external" /\ m <= n
           \/ at = to /\ m = n
    PROVE  Few(to, s, h, m)
<1>0. s \in Nat /\ n \in Nat /\ h \in {0, 1} /\ s <= h + 3
  BY DEF Few
<1>1. CASE to \notin Before \cup Unconverted \cup Converted \cup {"converting", "external", "rendering"}
  BY <1>0, <1>1 DEF Few
<1>2. CASE at \in Before /\ to \in Before \cup Unconverted
  <2>1. s = 0 /\ to \notin Converted \cup {"converting", "external", "rendering"}
    BY <1>2 DEF Few, Before, Unconverted, Converted
  <2> QED
    BY <1>0, <2>1 DEF Few
<1>3. CASE at \in Unconverted /\ to \in Unconverted \cup Converted
  <2>1. s <= h /\ to \notin Before \cup {"external", "rendering"}
    BY <1>3 DEF Few, Before, Unconverted, Converted
  <2> QED
    BY <1>0, <2>1 DEF Few
<1>4. CASE at \in Converted \cup {"converting"} /\ to \in Converted
  <2>1. s <= h + 1 /\ to \notin Before \cup Unconverted \cup {"external", "rendering"}
    BY <1>4 DEF Few, Before, Unconverted, Converted
  <2> QED
    BY <1>0, <2>1 DEF Few
<1>5. CASE to = "external" /\ s + m <= h + 3
  <2>1. to \notin Before \cup Unconverted \cup Converted \cup {"converting", "rendering"}
    BY <1>5 DEF Before, Unconverted, Converted
  <2> QED
    BY <1>0, <1>5, <2>1 DEF Few
<1>6. CASE at \in Unconverted \cup Converted \cup {"converting"} /\ to = "external" /\ m <= 2
  <2>1. s <= h + 1
    BY <1>0, <1>6 DEF Few
  <2>2. s + m <= h + 3
    BY <1>0, <1>6, <2>1
  <2> QED
    BY <1>5, <1>6, <2>2
<1>7. CASE at = "rendering" /\ to = "external" /\ m + 1 = n
  <2>1. s + n <= h + 4
    BY <1>7 DEF Few
  <2>2. s + m <= h + 3
    BY <1>0, <1>7, <2>1
  <2> QED
    BY <1>5, <1>7, <2>2
<1>8. CASE at = "external" /\ to = "external" /\ m <= n
  <2>1. s + n <= h + 3
    BY <1>8 DEF Few
  <2>2. s + m <= h + 3
    BY <1>0, <1>8, <2>1
  <2> QED
    BY <1>5, <1>8, <2>2
<1> QED
  BY <1>1, <1>2, <1>3, <1>4, <1>6, <1>7, <1>8

(* A helper is started: "file" before any other, one converter, a renderer *)
(* that was to be tried.                                                   *)
LEMMA FewStart ==
    ASSUME NEW at, NEW to, NEW s, NEW h, NEW n, NEW g \in {0, 1}, Few(at, s, h, n), h <= g,
           \/ at = "hint" /\ to = "hinting" /\ g = 1
           \/ at = "miss" /\ to = "converting"
           \/ at = "external" /\ to = "rendering" /\ n >= 1
    PROVE  Few(to, s + 1, g, n)
<1>0. s \in Nat /\ n \in Nat /\ h \in {0, 1}
  BY DEF Few
<1>1. CASE at = "hint" /\ to = "hinting" /\ g = 1
  <2>1. s = 0 /\ to \notin Before \cup Converted \cup {"converting", "external", "rendering"}
    BY <1>1 DEF Few, Before, Converted
  <2>2. s + 1 \in Nat /\ s + 1 <= g /\ s + 1 <= g + 3
    BY <1>0, <1>1, <2>1
  <2> QED
    BY <1>0, <2>1, <2>2 DEF Few
<1>2. CASE at = "miss" /\ to = "converting"
  <2>1. s <= h /\ to \notin Before \cup Unconverted \cup {"external", "rendering"}
    BY <1>2 DEF Few, Before, Unconverted
  <2>2. s + 1 \in Nat /\ s + 1 <= g + 1 /\ s + 1 <= g + 3
    BY <1>0, <2>1
  <2> QED
    BY <1>0, <2>1, <2>2 DEF Few
<1>3. CASE at = "external" /\ to = "rendering" /\ n >= 1
  <2>1. s + n <= h + 3 /\ to \notin Before \cup Unconverted \cup Converted \cup {"converting", "external"}
    BY <1>3 DEF Few, Before, Unconverted, Converted
  <2>2. s + 1 \in Nat /\ s + 1 + n <= g + 4 /\ s + 1 <= g + 3
    BY <1>0, <1>3, <2>1
  <2> QED
    BY <1>0, <1>3, <2>1, <2>2 DEF Few
<1> QED
  BY <1>1, <1>2, <1>3

(* The renderers that can be chosen.                                       *)
LEMMA ExternalToolsType ==
    ASSUME NEW c \in Categories
    PROVE  ExternalTools(c) \in Seq(Renderers) /\ Len(ExternalTools(c)) <= 2
<1>1. \/ ExternalTools(c) = <<>>
      \/ \E x \in Renderers : ExternalTools(c) = <<x>>
      \/ \E x, y \in Renderers : ExternalTools(c) = <<x, y>>
  BY DEF ExternalTools, Renderers, Categories
<1>2. CASE ExternalTools(c) = <<>>
  BY <1>2
<1>3. ASSUME NEW x \in Renderers, ExternalTools(c) = <<x>>
      PROVE  ExternalTools(c) \in Seq(Renderers) /\ Len(ExternalTools(c)) <= 2
  BY <1>3
<1>4. ASSUME NEW x \in Renderers, NEW y \in Renderers, ExternalTools(c) = <<x, y>>
      PROVE  ExternalTools(c) \in Seq(Renderers) /\ Len(ExternalTools(c)) <= 2
  BY <1>4
<1> QED
  BY <1>1, <1>2, <1>3, <1>4

(* What a step of p has to leave behind.                                   *)
LEMMA StartsMove ==
    ASSUME StartsInv, NEW p \in Procs, NEW t \in Seq(Renderers), tools' = [tools EXCEPT ![p] = t],
           \A q \in Procs \ {p} : pc'[q] = pc[q] /\ telemetry'[q] = telemetry[q],
           Few(pc'[p], telemetry'[p].starts, Hinted(telemetry'[p].renderer), Len(t))
    PROVE  StartsInv'
<1>1. /\ tools' \in [Procs -> Seq(Renderers)] /\ tools'[p] = t
      /\ \A q \in Procs \ {p} : tools'[q] = tools[q]
  BY DEF StartsInv
<1>2. StartsOf(p)'
  BY <1>1 DEF StartsOf
<1>3. ASSUME NEW q \in Procs \ {p} PROVE StartsOf(q)'
  BY <1>1 DEF StartsInv, StartsOf
<1> QED
  BY <1>1, <1>2, <1>3 DEF StartsInv

(* The steps that start no helper and leave the renderers alone.           *)
LEMMA StartsStay ==
    ASSUME StartsInv, NEW p \in Procs, UNCHANGED tools,
           \A q \in Procs \ {p} : pc'[q] = pc[q] /\ telemetry'[q] = telemetry[q],
           telemetry'[p].starts = telemetry[p].starts,
           telemetry'[p].renderer = telemetry[p].renderer,
           \/ pc'[p] \notin Before \cup Unconverted \cup Converted
                               \cup {"converting", "external", "rendering"}
           \/ pc[p] \in Before /\ pc'[p] \in Before \cup Unconverted
           \/ pc[p] \in Unconverted /\ pc'[p] \in Unconverted \cup Converted
           \/ pc[p] \in Converted \cup {"converting"} /\ pc'[p] \in Converted
           \/ pc[p] = pc'[p]
    PROVE  StartsInv'
<1>1. tools[p] \in Seq(Renderers) /\ tools' = [tools EXCEPT ![p] = tools[p]]
  BY DEF StartsInv
<1>2. Len(tools[p]) \in Nat
  BY <1>1
<1>3. Few(pc[p], telemetry[p].starts, Hinted(telemetry[p].renderer), Len(tools[p]))
  BY DEF StartsInv, StartsOf
<1>4. Few(pc'[p], telemetry[p].starts, Hinted(telemetry[p].renderer), Len(tools[p]))
  BY <1>2, <1>3, FewStay
<1> QED
  BY <1>1, <1>4, StartsMove

(* The step in which a helper is started.                                  *)
LEMMA StartsOne ==
    ASSUME CacheOK, RenderOK, StartsInv, TelemetryInv, NEW p \in Procs, NEW tool, NEW at,
           ChildStarts(p, tool, at), UNCHANGED tools,
           \A q \in Procs \ {p} : pc'[q] = pc[q] /\ telemetry'[q] = telemetry[q],
           \/ pc[p] = "hint" /\ at = "hinting" /\ tool = "file"
           \/ pc[p] = "miss" /\ at = "converting"
           \/ pc[p] = "external" /\ at = "rendering" /\ tools[p] # <<>>
    PROVE  StartsInv'
<1> DEFINE h == Hinted(telemetry[p].renderer)
           g == Hinted(telemetry'[p].renderer)
<1>1. /\ telemetry'[p].starts = telemetry[p].starts + 1
      /\ telemetry'[p].renderer = IF started[p] THEN telemetry[p].renderer ELSE tool
      /\ Goes(p, at)
  BY StartsEffect
<1>2. pc'[p] = at
  BY <1>1 DEF Goes, CacheOK
<1>3. tools[p] \in Seq(Renderers) /\ tools' = [tools EXCEPT ![p] = tools[p]]
  BY DEF StartsInv
<1>4. Len(tools[p]) \in Nat /\ (tools[p] # <<>> => Len(tools[p]) >= 1)
  BY <1>3
<1>5. Few(pc[p], telemetry[p].starts, h, Len(tools[p]))
  BY DEF StartsInv, StartsOf
<1>6. TelemetryOf(p)
  BY DEF TelemetryInv
<1>7. h \in {0, 1} /\ g \in {0, 1}
  BY DEF Hinted
<1>8. h <= g
  <2>1. CASE started[p]
    <3>1. h = g
      BY <1>1, <2>1
    <3> QED
      BY <1>7, <3>1
  <2>2. CASE ~started[p]
    <3>1. h = 0
      BY <1>6, <2>2 DEF TelemetryOf, Hinted
    <3> QED
      BY <1>7, <3>1
  <2> QED
    BY <2>1, <2>2
<1>9. pc[p] = "hint" /\ tool = "file" => g = 1
  <2> SUFFICES ASSUME pc[p] = "hint", tool = "file" PROVE g = 1
    OBVIOUS
  <2>1. telemetry[p].starts = 0
    BY <1>5 DEF Few, Before
  <2>2. ~started[p]
    BY <1>6, <2>1 DEF TelemetryOf
  <2> QED
    BY <1>1, <2>2 DEF Hinted
<1> HIDE DEF h
<1>10. Few(at, telemetry[p].starts + 1, g, Len(tools[p]))
  <2> HIDE DEF g
  <2> QED
    BY <1>4, <1>5, <1>7, <1>8, <1>9, FewStart
<1> QED
  BY <1>1, <1>2, <1>3, <1>10, StartsMove

(* What a renderer's step leaves to the other processes.                   *)
LEMMA StartsOthers ==
    ASSUME NEW p \in Procs, Effect(p)
    PROVE  \A q \in Procs \ {p} : pc'[q] = pc[q] /\ telemetry'[q] = telemetry[q]
BY DEF Effect, RenderMove, RenderOthers

(* The steps after which the renderers to be tried are others.             *)
LEMMA StartsChoose ==
    ASSUME CacheOK, RenderOK, StartsInv, NEW p \in Procs, NEW t \in Seq(Renderers),
           tools' = [tools EXCEPT ![p] = t],
           \A q \in Procs \ {p} : pc'[q] = pc[q] /\ telemetry'[q] = telemetry[q],
           telemetry'[p].starts = telemetry[p].starts,
           telemetry'[p].renderer = telemetry[p].renderer,
           \/ pc'[p] \in {"check", "rendered"}
           \/ /\ pc[p] \in Unconverted \cup Converted \cup {"converting"}
              /\ pc'[p] = "external" /\ Len(t) <= 2
           \/ /\ pc[p] \in {"external", "rendering"} /\ tools[p] # <<>>
              /\ pc'[p] = "external" /\ t = Tail(tools[p])
    PROVE  StartsInv'
<1>1. Few(pc[p], telemetry[p].starts, Hinted(telemetry[p].renderer), Len(tools[p]))
  BY DEF StartsInv, StartsOf
<1>2. tools[p] \in Seq(Renderers) /\ Len(t) \in Nat
  BY DEF StartsInv
<1>3. tools[p] # <<>> /\ t = Tail(tools[p]) => Len(t) + 1 = Len(tools[p]) /\ Len(t) <= Len(tools[p])
  BY <1>2
<1>4. CASE pc'[p] \in {"check", "rendered"}
  <2>1. pc'[p] \notin Before \cup Unconverted \cup Converted \cup {"converting", "external", "rendering"}
    BY <1>4 DEF Before, Unconverted, Converted
  <2>2. Few(pc'[p], telemetry[p].starts, Hinted(telemetry[p].renderer), Len(t))
    BY <1>1, <1>2, <2>1, FewStay
  <2> QED
    BY <2>2, StartsMove
<1>5. CASE /\ pc[p] \in Unconverted \cup Converted \cup {"converting"}
           /\ pc'[p] = "external" /\ Len(t) <= 2
  <2>1. Few(pc'[p], telemetry[p].starts, Hinted(telemetry[p].renderer), Len(t))
    BY <1>1, <1>2, <1>5, FewStay
  <2> QED
    BY <2>1, StartsMove
<1>6. CASE /\ pc[p] \in {"external", "rendering"} /\ tools[p] # <<>>
           /\ pc'[p] = "external" /\ t = Tail(tools[p])
  <2>1. Few(pc'[p], telemetry[p].starts, Hinted(telemetry[p].renderer), Len(t))
    BY <1>1, <1>2, <1>3, <1>6, FewStay
  <2> QED
    BY <2>1, StartsMove
<1> QED
  BY <1>4, <1>5, <1>6

(* The steps of the renderer.                                              *)
LEMMA StartsRender ==
    ASSUME PreviewInv, StartsInv, NEW p \in Procs, RenderStep(p)
    PROVE  StartsInv'
<1>0. CacheOK /\ RenderOK /\ TelemetryInv /\ ArtefactOf(p) /\ TelemetryOf(p)
  BY TypeParts DEF PreviewInv, ArtefactInv, TelemetryInv
<1>1. \A q \in Procs \ {p} : pc'[q] = pc[q] /\ telemetry'[q] = telemetry[q]
  BY <1>0, RenderEffect, StartsOthers
<1>2. ASSUME NEW to, Goes(p, to) PROVE pc'[p] = to
  BY <1>0, <1>2 DEF Goes, CacheOK
<1>3. tools \in [Procs -> Seq(Renderers)] /\ <<>> \in Seq(Renderers) /\ category[p] \in Categories
  BY <1>0 DEF StartsInv, RenderOK
<1>4. Few(pc[p], telemetry[p].starts, Hinted(telemetry[p].renderer), Len(tools[p]))
  BY DEF StartsInv, StartsOf
<1>5. CASE GroupKill(p) \/ Kill(p) \/ Terminal(p) \/ ConverterExceeds(p)
  <2>1. pc'[p] = "dead" /\ UNCHANGED <<tools, telemetry>>
    BY <1>2, <1>5 DEF GroupKill, Kill, Terminal, ConverterExceeds, CacheDeath, renderVars
  <2>2. pc'[p] \notin Before \cup Unconverted \cup Converted \cup {"converting", "external", "rendering"}
    BY <2>1 DEF Before, Unconverted, Converted
  <2> QED
    BY <1>1, <2>1, <2>2, StartsStay
<1>6. CASE Check(p) \/ Native(p) \/ NativeRead(p) \/ Return(p)
  <2>1. pc'[p] \in {"terminal", "failed", "return", "native", "reading", "done"} /\ UNCHANGED tools
    BY <1>2, <1>6 DEF Check, Native, NativeRead, NativeEnds, Return, renderVars
  <2>2. /\ telemetry'[p].starts = telemetry[p].starts
        /\ telemetry'[p].renderer = telemetry[p].renderer
    BY <1>0, <1>6, ReturnEffect DEF Check, Native, NativeRead, Return, renderVars
  <2>3. pc'[p] \notin Before \cup Unconverted \cup Converted \cup {"converting", "external", "rendering"}
    BY <2>1 DEF Before, Unconverted, Converted
  <2> QED
    BY <1>1, <2>1, <2>2, <2>3, StartsStay
<1>7. CASE Begin(p) \/ ReadPrefix(p)
  <2>1. PICK to \in {"opening", "hint", "classified"} : Goes(p, to)
    BY <1>7 DEF Begin, ReadPrefix, Detected
  <2>2. pc[p] \in Before /\ pc'[p] \in Before \cup Unconverted /\ UNCHANGED <<tools, telemetry>>
    BY <1>2, <1>7, <2>1 DEF Begin, ReadPrefix, Before, Unconverted, renderVars
  <2> QED
    BY <1>1, <2>2, StartsStay
<1>8. CASE Replace(p)
  <2>1. pc'[p] = "off" /\ UNCHANGED tools /\ telemetry'[p] = Silent
    BY <1>0, <1>2, <1>8 DEF Replace, RenderOK
  <2>2. Hinted(telemetry'[p].renderer) = 0 /\ telemetry'[p].starts = 0
    BY <2>1, SilentType DEF Hinted
  <2>3. Len(tools[p]) \in Nat /\ tools[p] \in Seq(Renderers) /\ tools' = [tools EXCEPT ![p] = tools[p]]
    BY <1>3, <2>1
  <2>4. pc'[p] \notin Unconverted \cup Converted \cup {"converting", "external", "rendering"}
    BY <2>1 DEF Unconverted, Converted
  <2>5. Few(pc'[p], 0, 0, Len(tools[p]))
    BY <2>3, <2>4 DEF Few
  <2> QED
    BY <1>1, <2>2, <2>3, <2>5, StartsMove
<1>9. CASE Hint(p)
  <2>0. pc[p] = "hint" /\ UNCHANGED tools
    BY <1>9 DEF Hint
  <2>1. CASE ChildStarts(p, "file", "hinting")
    BY <1>0, <1>1, <2>0, <2>1, StartsOne
  <2>2. CASE Goes(p, "classified") /\ UNCHANGED telemetry
    <3>1. pc[p] \in Before /\ pc'[p] \in Before \cup Unconverted
      BY <1>2, <2>0, <2>2 DEF Before, Unconverted
    <3> QED
      BY <1>1, <2>0, <2>2, <3>1, StartsStay
  <2> QED
    BY <1>9, <2>1, <2>2 DEF Hint
<1>10. CASE HintExits(p)
  <2>0. pc[p] = "hinting" /\ UNCHANGED tools /\ ChildExits(p)
    BY <1>10 DEF HintExits
  <2>1. PICK to \in {"terminal", "classified"} : Goes(p, to)
    BY <1>10 DEF HintExits
  <2>2. \/ pc'[p] \notin Before \cup Unconverted \cup Converted \cup {"converting", "external", "rendering"}
        \/ pc[p] \in Unconverted /\ pc'[p] \in Unconverted
    BY <1>2, <2>0, <2>1 DEF Before, Unconverted, Converted
  <2>3. /\ telemetry'[p].starts = telemetry[p].starts
        /\ telemetry'[p].renderer = telemetry[p].renderer
    BY <1>0, <2>0, ExitsEffect
  <2> QED
    BY <1>1, <2>0, <2>2, <2>3, StartsStay
<1>11. CASE Classified(p) \/ Staged(p)
  <2>0. pc[p] \in Unconverted \cup Converted /\ UNCHANGED telemetry
    BY <1>11 DEF Classified, Staged, Unconverted, Converted
  <2>1. CASE \E c \in Categories : External(p, c, "external")
    <3>1. PICK c \in Categories : External(p, c, "external")
      BY <2>1
    <3>2. tools' = [tools EXCEPT ![p] = ExternalTools(c)] /\ pc'[p] = "external"
      BY <1>2, <3>1 DEF External
    <3> QED
      BY <1>0, <1>1, <2>0, <3>2, ExternalToolsType, StartsChoose
  <2>2. CASE UNCHANGED tools /\ pc[p] = "classified" /\ \E to \in {"failed", "check", "get open"} : Goes(p, to)
    <3>1. pc'[p] \in {"failed", "check", "get open"}
      BY <1>2, <2>2
    <3>2. \/ pc'[p] \notin Before \cup Unconverted \cup Converted \cup {"converting", "external", "rendering"}
          \/ pc[p] \in Unconverted /\ pc'[p] \in Unconverted
      BY <2>2, <3>1 DEF Before, Unconverted, Converted
    <3> QED
      BY <1>1, <2>0, <2>2, <3>2, StartsStay
  <2>3. "image" \in Categories
    BY DEF Categories
  <2> QED
    BY <1>3, <1>11, <2>1, <2>2, <2>3 DEF Classified, Staged
<1>12. CASE Convert(p)
  <2>0. pc[p] = "miss" /\ "miss" \in Unconverted
    BY <1>12 DEF Convert, Unconverted
  <2>1. CASE ChildStarts(p, Converter[category[p]], "converting") /\ UNCHANGED tools
    BY <1>0, <1>1, <2>0, <2>1, StartsOne
  <2>2. CASE External(p, category[p], "external") /\ UNCHANGED telemetry
    <3>1. tools' = [tools EXCEPT ![p] = ExternalTools(category[p])] /\ pc'[p] = "external"
      BY <1>2, <2>2 DEF External
    <3> QED
      BY <1>0, <1>1, <1>3, <2>0, <2>2, <3>1, ExternalToolsType, StartsChoose
  <2> QED
    BY <1>12, <2>1, <2>2 DEF Convert
<1>13. CASE ConverterExits(p)
  <2>0. pc[p] = "converting" /\ ChildExits(p)
    BY <1>13 DEF ConverterExits
  <2>1. /\ telemetry'[p].starts = telemetry[p].starts
        /\ telemetry'[p].renderer = telemetry[p].renderer
    BY <1>0, <2>0, ExitsEffect
  <2>2. CASE External(p, category[p], "external")
    <3>1. tools' = [tools EXCEPT ![p] = ExternalTools(category[p])] /\ pc'[p] = "external"
      BY <1>2, <2>2 DEF External
    <3> QED
      BY <1>0, <1>1, <1>3, <2>0, <2>1, <3>1, ExternalToolsType, StartsChoose
  <2>3. CASE UNCHANGED tools /\ \E to \in {"terminal", "put create"} : Goes(p, to)
    <3>1. pc'[p] \in {"terminal", "put create"}
      BY <1>2, <2>3
    <3>2. \/ pc'[p] \notin Before \cup Unconverted \cup Converted \cup {"converting", "external", "rendering"}
          \/ pc[p] \in Converted \cup {"converting"} /\ pc'[p] \in Converted
      BY <2>0, <3>1 DEF Before, Unconverted, Converted
    <3> QED
      BY <1>1, <2>1, <2>3, <3>2, StartsStay
  <2> QED
    BY <1>13, <2>2, <2>3 DEF ConverterExits
<1>14. ASSUME NEW to \in {"check", "rendered"}, Unwind(p, to),
              telemetry'[p].starts = telemetry[p].starts,
              telemetry'[p].renderer = telemetry[p].renderer
       PROVE  StartsInv'
  <2>1. tools' = [tools EXCEPT ![p] = <<>>] /\ pc'[p] = to
    BY <1>2, <1>14 DEF Unwind
  <2> QED
    BY <1>0, <1>1, <1>3, <1>14, <2>1, StartsChoose
<1>15. CASE Unstaged(p)
  BY <1>14, <1>15 DEF Unstaged
<1>16. CASE TryTool(p)
  <2>0. pc[p] = "external" /\ tools[p] \in Seq(Renderers)
    BY <1>3, <1>16 DEF TryTool
  <2>1. CASE tools[p] # <<>> /\ ChildStarts(p, Head(tools[p]), "rendering") /\ UNCHANGED tools
    BY <1>0, <1>1, <2>0, <2>1, StartsOne
  <2>2. CASE tools[p] # <<>> /\ tools' = [tools EXCEPT ![p] = Tail(@)] /\ UNCHANGED <<pc, telemetry>>
    <3>1. Tail(tools[p]) \in Seq(Renderers) /\ tools' = [tools EXCEPT ![p] = Tail(tools[p])]
      BY <2>0, <2>2
    <3> QED
      BY <1>0, <1>1, <2>0, <2>2, <3>1, StartsChoose
  <2>3. CASE Unwind(p, "check") /\ UNCHANGED telemetry
    BY <1>14, <2>3
  <2> QED
    BY <1>16, <2>1, <2>2, <2>3 DEF TryTool
<1>17. CASE ToolExits(p)
  <2>0. pc[p] = "rendering" /\ ChildExits(p) /\ tools[p] \in Seq(Renderers)
    BY <1>3, <1>17 DEF ToolExits
  <2>1. /\ telemetry'[p].starts = telemetry[p].starts
        /\ telemetry'[p].renderer = telemetry[p].renderer
    BY <1>0, <2>0, ExitsEffect
  <2>2. CASE Goes(p, "terminal") /\ UNCHANGED tools
    <3>1. pc'[p] \notin Before \cup Unconverted \cup Converted \cup {"converting", "external", "rendering"}
      BY <1>2, <2>2 DEF Before, Unconverted, Converted
    <3> QED
      BY <1>1, <2>1, <2>2, <3>1, StartsStay
  <2>3. CASE Unwind(p, "rendered")
    BY <1>14, <2>1, <2>3
  <2>4. CASE tools' = [tools EXCEPT ![p] = Tail(@)] /\ Goes(p, "external")
    <3>1. Len(tools[p]) >= 1
      BY <1>4, <2>0 DEF Few
    <3>2. tools[p] # <<>>
      BY <2>0, <3>1
    <3>3. Tail(tools[p]) \in Seq(Renderers) /\ tools' = [tools EXCEPT ![p] = Tail(tools[p])]
      BY <2>0, <2>4, <3>2
    <3> QED
      BY <1>0, <1>1, <1>2, <2>0, <2>1, <2>4, <3>2, <3>3, StartsChoose
  <2> QED
    BY <1>17, <2>2, <2>3, <2>4 DEF ToolExits
<1> QED
  BY <1>5, <1>6, <1>7, <1>8, <1>9, <1>10, <1>11, <1>12, <1>13, <1>15, <1>16, <1>17
  DEF RenderStep, PipeRead

(* The steps of the cache are between places of one bound.                 *)
LEMMA StartsCache ==
    ASSUME PreviewInv, StartsInv, NEW p \in Procs, CacheStep(p), UNCHANGED renderVars
    PROVE  StartsInv'
<1>0. CacheOK /\ PlaceInv
  BY TypeParts DEF PreviewInv
<1>1. /\ pc[p] \in CachePlaces /\ pc'[p] \in CachePlaces /\ pc'[p] # "get open"
      /\ pc[p] \notin {"staged", "unstaged", "miss", "terminal"}
      /\ pc[p] \in {"get open", "get check"} => pc'[p] \in {"get check", "miss", "stage open"}
      /\ pc'[p] \in {"get check", "miss"} => pc[p] \in {"get open", "get check"}
  BY <1>0, CacheWay
<1>2. \A q \in Procs \ {p} : pc'[q] = pc[q]
  BY <1>0, CacheTypes DEF CacheOthers
<1>3. \/ pc'[p] \notin Before \cup Unconverted \cup Converted \cup {"converting", "external", "rendering"}
      \/ pc[p] \in Unconverted /\ pc'[p] \in Unconverted \cup Converted
      \/ pc[p] \in Converted \cup {"converting"} /\ pc'[p] \in Converted
  BY <1>1 DEF CachePlaces, Before, Unconverted, Converted
<1> QED
  BY <1>2, <1>3, StartsStay DEF renderVars

(* Any step.                                                               *)
LEMMA StartsStep ==
    ASSUME PreviewInv, StartsInv, [Next]_vars
    PROVE  StartsInv'
<1>1. ASSUME NEW p \in Procs, PutFault(p) PROVE StartsInv'
  <2>0. CacheOK /\ PutFails(p) /\ UNCHANGED renderVars
    BY <1>1, TypeParts DEF PreviewInv, PutFault, PutCopyFails
  <2>1. pc'[p] = "terminal" /\ \A q \in Procs \ {p} : pc'[q] = pc[q]
    BY <2>0, PutFailsEffect DEF CacheOthers
  <2>2. pc'[p] \notin Before \cup Unconverted \cup Converted \cup {"converting", "external", "rendering"}
    BY <2>1 DEF Before, Unconverted, Converted
  <2> QED
    BY <2>0, <2>1, <2>2, StartsStay DEF renderVars
<1>2. CASE UNCHANGED <<pc, tools, telemetry>>
  BY <1>2 DEF StartsInv, StartsOf
<1>3. ASSUME NEW p \in Procs, Expire(p) PROVE UNCHANGED <<pc, tools, telemetry>>
  BY <1>3 DEF Expire, cacheVars
<1>4. UNCHANGED vars => UNCHANGED <<pc, tools, telemetry>>
  BY DEF vars, cacheVars, renderVars
<1> QED
  BY <1>1, <1>2, <1>3, <1>4, StartsRender, StartsCache DEF Next, Step, HelperExits, RenderStep

-----------------------------------------------------------------------------
(* Theorems                                                                *)

(* PreviewInv holds in every state of every number of previews, whatever   *)
(* the order of their system calls and whenever one is killed.             *)
THEOREM PreviewInvariance == Spec => []PreviewInv
BY InitEstablishes, PreviewStep, PTL DEF Spec

(* The processes, the cache's names and the telemetry have their types.    *)
THEOREM PreviewTypeCorrect == Spec => []TypeOK
BY PreviewInvariance, PTL DEF PreviewInv

(* cachePut publishes a file after it is filled, and neither a Put, nor a  *)
(* Prune that gives a file back, nor the death of either lets a reader     *)
(* find anything else: what is under a key, and what the image renderers   *)
(* are given, is the whole artefact of that key.                           *)
THEOREM CacheHoldsWholeArtefacts == Spec => []OnlyWholeArtefacts
<1>1. PreviewInv => OnlyWholeArtefacts
  BY DEF PreviewInv, WholeInv, EntriesWhole, WholeOf, OnlyWholeArtefacts
<1> QED
  BY PreviewInvariance, <1>1, PTL

(* A preview that returns has removed its temporary file, its quarantined  *)
(* file and its private directories, whichever way it went.                *)
THEOREM ReturningCleansUp == Spec => []ReturnsLeaveNothing
<1>1. PreviewInv => ReturnsLeaveNothing
  <2> SUFFICES ASSUME PreviewInv, NEW p \in Procs, pc[p] \in {"off", "done"}
               PROVE  /\ temp[p] = None /\ quarantine[p] = None /\ open[p] = None
                      /\ \A a \in Artefacts : <<p, a>> \notin dirs
    BY DEF ReturnsLeaveNothing
  <2>1. PlaceOf(p) /\ ArtefactOf(p)
    BY DEF PreviewInv, PlaceInv, ArtefactInv
  <2> QED
    BY <2>1 DEF PlaceOf, ArtefactOf, Converted, Opened, Holding, Artefacts
<1> QED
  BY PreviewInvariance, <1>1, PTL

(* What dispatchPreview reports of a finished preview is consistent: every *)
(* helper was waited for, no two lived at once, "native" means none, and   *)
(* there were at most three and the one that classified the candidate.     *)
THEOREM TelemetryIsHonest == Spec => []HonestTelemetry
<1>1. PreviewInv /\ StartsInv => HonestTelemetry
  <2> SUFFICES ASSUME PreviewInv, StartsInv, NEW p \in Procs, telemetry[p].finished
               PROVE  /\ telemetry[p].live = 0 /\ telemetry[p].most <= 1
                      /\ (telemetry[p].renderer = "native") = (telemetry[p].starts = 0)
                      /\ telemetry[p].starts <= (IF telemetry[p].renderer = "file" THEN 4 ELSE 3)
    BY DEF HonestTelemetry
  <2>1. TelemetryOf(p) /\ telemetry[p].starts \in Nat
    BY DEF PreviewInv, TelemetryInv, TypeOK, Telemetry
  <2>2. telemetry[p].live = 0 /\ telemetry[p].most <= 1
    BY <2>1 DEF TelemetryOf, ChildSteps
  <2>3. (telemetry[p].renderer = "native") <=> (telemetry[p].starts = 0)
    BY <2>1 DEF TelemetryOf
  <2>4. telemetry[p].starts <= Hinted(telemetry[p].renderer) + 3
    BY DEF StartsInv, StartsOf, Few
  <2>5. telemetry[p].starts <= (IF telemetry[p].renderer = "file" THEN 4 ELSE 3)
    BY <2>1, <2>4 DEF Hinted
  <2> QED
    BY <2>2, <2>3, <2>5
<1>2. Init => StartsInv
  <2> SUFFICES ASSUME Init PROVE StartsInv
    OBVIOUS
  <2>1. /\ tools = [p \in Procs |-> <<>>] /\ <<>> \in Seq(Renderers)
        /\ \A p \in Procs : pc[p] = "off" /\ telemetry[p] = Silent
    BY DEF Init, CacheInit
  <2>2. Len(<<>>) = 0 /\ Hinted("native") = 0
    BY DEF Hinted
  <2>3. Few("off", 0, 0, 0)
    BY DEF Few, Unconverted, Converted
  <2> QED
    BY <2>1, <2>2, <2>3, SilentType DEF StartsInv, StartsOf
<1> QED
  BY PreviewInvariance, InitEstablishes, PreviewStep, StartsStep, <1>1, <1>2, PTL DEF Spec
=============================================================================
