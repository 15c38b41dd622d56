---------------------------- MODULE PreviewRender ----------------------------
(***************************************************************************)
(* Rendering a preview on Linux (internal/preview/render.go, limit.go,     *)
(* child.go and renderCachedArtifact) in a callback process, and what the  *)
(* callback tells the session of it (internal/callback/dispatch.go).       *)
(*                                                                         *)
(* A preview runs helpers one after another: "file" to classify the        *)
(* candidate, a converter whose result goes through the cache of module    *)
(* PreviewCache, then renderers until one shows something, else the native *)
(* renderer.  The helpers share the process group of the callback, so that *)
(* killing them - which the process runner does when the deadline passes   *)
(* or the output limit is exceeded with a helper alive, and                *)
(* renderSession.terminal does after any resource failure - kills the      *)
(* callback too.  fzf kills a callback whose preview is out of date.       *)
(***************************************************************************)
EXTENDS PreviewCache

CONSTANTS
    Candidates,  \* what each process may be run for: keys and detected categories
    Hints,       \* the categories "file" may report
    Installed,   \* the tools lookupTool finds
    Pipes,       \* the keys of candidates that are named pipes
    MaxPreviews, \* previews in all: a process that returned is replaced
    MaxTroubles  \* previews fzf kills, helpers that do not start, failing files

VARIABLES
    category,    \* of the candidate
    tools,       \* the renderers renderExternal has still to try
    rich,        \* an artefact of the cache is being rendered
    started,     \* renderSession.started: a tree is retained
    cleanup,     \* renderSession.cleanup: the artefact it removes
    ctxDone,     \* the render context is done
    telemetry,   \* previewTelemetry, and what was reported
    previews, troubles

renderVars == <<category, tools, rich, started, cleanup, ctxDone, telemetry>>
budgets == <<previews, troubles>>
vars == <<cacheVars, renderVars, budgets>>

Categories == {"directory", "markdown", "text", "image", "pdf", "video", "audio", "zip",
               "gzip", "xz", "tar", "bzip", "binary"}

(* richConverterFor *)
Converter ==
    [c \in {"pdf", "video", "audio"} |->
       CASE c = "pdf" -> "pdftoppm" [] c = "video" -> "ffmpegthumbnailer"
         [] c = "audio" -> "ffmpeg"]

(* externalTools, in a terminal that takes kitten's images. *)
ExternalTools(c) ==
    CASE c = "directory" -> <<"eza">>
      [] c = "markdown" -> <<"glow", "bat">>
      [] c = "text" -> <<"bat">>
      [] c = "image" -> <<"kitten", "chafa">>
      [] c = "audio" -> <<"exiftool">>
      [] c = "zip" -> <<"unzip">>
      [] c = "gzip" -> <<"gzip">>
      [] c = "xz" -> <<"xz">>
      [] c \in {"tar", "bzip"} -> <<"tar">>
      [] OTHER -> <<>>

(* The categories whose native renderer opens the file.                    *)
ReadNatively == {"markdown", "text", "zip", "gzip", "tar"}

(* Only a helper that is found is started, and "native" is not a helper.   *)
ASSUME RenderAssumption ==
    /\ Candidates \in [Procs -> SUBSET [key : Keys, category : Categories]]
    /\ Hints \subseteq Categories /\ Pipes \subseteq Keys
    /\ "native" \notin Installed

ChildSteps == {"hinting", "converting", "rendering"}
Ended == {"off", "done", "dead"}

(* The callback itself opens or reads what may be a pipe.                  *)
Reading == {"opening", "reading"}

Places ==
    ChildSteps \cup Ended \cup Reading
      \cup {"hint", "classified", "miss", "external", "check", "rendered", "native", "return",
            "failed", "terminal"}
      \cup {"get open", "get check", "put create", "put copy", "put link", "put unlink",
            "put yield", "put check", "put open", "put winner", "prune list", "prune next",
            "prune settle", "stage open", "stage copy", "stage check", "staged", "unstaged"}

Telemetry == [renderer : Installed \cup {"native"}, starts : Nat, live : Int, most : Int,
              finished : BOOLEAN]

Silent == [renderer |-> "native", starts |-> 0, live |-> 0, most |-> 0, finished |-> FALSE]

Init ==
    /\ CacheInit
    /\ category = [p \in Procs |-> "binary"]
    /\ tools = [p \in Procs |-> <<>>]
    /\ rich = [p \in Procs |-> FALSE]
    /\ started = [p \in Procs |-> FALSE]
    /\ cleanup = [p \in Procs |-> "none"]
    /\ ctxDone = [p \in Procs |-> FALSE]
    /\ telemetry = [p \in Procs |-> Silent]
    /\ previews = 0 /\ troubles = 0

Trouble == troubles < MaxTroubles /\ troubles' = troubles + 1 /\ UNCHANGED previews

CacheStays == UNCHANGED <<key, dirVars, open, attempts, victims, total, staged>>

-----------------------------------------------------------------------------
(* Helpers.                                                                *)

(* ObservePreviewProcess "start"; ObservePreviewDispatch only for the      *)
(* session's first helper, which is also when the tree is retained.        *)
ChildStarts(p, tool, at) ==
    /\ tool \in Installed
    /\ Goes(p, at)
    /\ started' = [started EXCEPT ![p] = TRUE]
    /\ telemetry' = [telemetry EXCEPT
          ![p].starts = @ + 1, ![p].live = @ + 1,
          ![p].most = IF @ > telemetry[p].live THEN @ ELSE telemetry[p].live + 1,
          ![p].renderer = IF started[p] THEN @ ELSE tool]

(* A tool is missing, or does not start. *)
NoChild(tool) == IF tool \in Installed THEN Trouble ELSE UNCHANGED budgets

(* Child.Wait returned and the "exit" was observed. *)
ChildExits(p) == telemetry' = [telemetry EXCEPT ![p].live = @ - 1]

(* A mutation: the context of the helpers is not the one with a deadline. *)
GroupKillNever(p) ==
    /\ FALSE
    /\ UNCHANGED vars

(* watchCancellation: the context is done while a helper lives.  The kill  *)
(* reaches the callback too, wherever it is.                               *)
GroupKill(p) ==
    /\ pc[p] \in ChildSteps
    /\ ctxDone[p]
    /\ CacheDeath(p)
    /\ UNCHANGED <<dirs, staged, renderVars, budgets>>

(* renderSession.terminal: remove the artefact the session knows of, then  *)
(* kill the tree.                                                          *)
Terminal(p) ==
    /\ pc[p] = "terminal"
    /\ CacheDeath(p)
    /\ dirs' = dirs \ {<<p, cleanup[p]>>}
    /\ cleanup' = [cleanup EXCEPT ![p] = "none"]
    /\ UNCHANGED <<staged, category, tools, rich, started, ctxDone, telemetry, budgets>>

-----------------------------------------------------------------------------
(* Render, from the top.                                                   *)

(* Where detection leads. *)
Detected(c) == IF c = "binary" THEN "hint" ELSE "classified"

(* dispatchPreview has resolved a candidate; Render stats it, reads its    *)
(* prefix and detects its category.  The prefix of a pipe is there when    *)
(* its writer has come, if one ever does.                                  *)
Begin(p) ==
    /\ pc[p] = "off"
    /\ previews < MaxPreviews
    /\ previews' = previews + 1
    /\ \E c \in Candidates[p] :
          /\ key' = [key EXCEPT ![p] = c.key]
          /\ category' = [category EXCEPT ![p] = c.category]
          /\ Goes(p, IF c.key \in Pipes THEN "opening" ELSE Detected(c.category))
    /\ UNCHANGED <<dirVars, open, attempts, victims, total, dirs, staged, tools, rich, started,
                   cleanup, ctxDone, telemetry, troubles>>

(* readPrefix of a pipe has what it wants. *)
ReadPrefix(p) ==
    /\ pc[p] = "opening"
    /\ Goes(p, Detected(category[p]))
    /\ CacheStays
    /\ UNCHANGED <<dirs, renderVars, budgets>>

(* fileHint *)
Hint(p) ==
    /\ pc[p] = "hint"
    /\ \/ ChildStarts(p, "file", "hinting") /\ UNCHANGED budgets
       \/ NoChild("file") /\ Goes(p, "classified") /\ UNCHANGED <<started, telemetry>>
    /\ CacheStays
    /\ UNCHANGED <<dirs, category, tools, rich, cleanup, ctxDone>>

(* fileHint's end: categoryFromMIME, or "binary" still when "file" failed. *)
HintExits(p) ==
    /\ pc[p] = "hinting"
    /\ ChildExits(p)
    /\ \/ ctxDone[p] /\ Goes(p, "terminal") /\ UNCHANGED category
       \/ /\ ~ctxDone[p]
          /\ \E c \in Hints \cup {"binary"} : category' = [category EXCEPT ![p] = c]
          /\ Goes(p, "classified")
    /\ CacheStays
    /\ UNCHANGED <<dirs, tools, rich, started, cleanup, ctxDone, budgets>>

(* The way into renderExternal. *)
External(p, c, at) ==
    /\ tools' = [tools EXCEPT ![p] = ExternalTools(c)]
    /\ Goes(p, at)

(* preflightZip refuses the archive, or NewCache the cache's directory. *)
PreflightFails(p) == category[p] = "zip" /\ Trouble
NoCache(p) == category[p] \in DOMAIN Converter /\ Trouble

(* Too large a file is an error, a ZIP that fails its preflight is native, *)
(* a category with a converter goes to the cache if there is one.          *)
Classified(p) ==
    /\ pc[p] = "classified"
    /\ \/ Trouble /\ Goes(p, "failed") /\ UNCHANGED tools
       \/ PreflightFails(p) /\ Goes(p, "check") /\ UNCHANGED tools
       \/ category[p] \in DOMAIN Converter /\ UNCHANGED <<tools, budgets>> /\ Goes(p, "get open")
       \/ NoCache(p) /\ External(p, category[p], "external")
       \/ /\ category[p] \notin DOMAIN Converter
          /\ UNCHANGED budgets
          /\ External(p, category[p], "external")
    /\ CacheStays
    /\ UNCHANGED <<dirs, category, rich, started, cleanup, ctxDone, telemetry>>

-----------------------------------------------------------------------------
(* renderCachedArtifact after a miss.                                      *)

(* newConverterArtifact and the start of the converter; without a helper   *)
(* the deferred call removes the artefact again.                           *)
Convert(p) ==
    /\ pc[p] = "miss"
    /\ LET tool == Converter[category[p]]
       IN \/ /\ ChildStarts(p, tool, "converting")
             /\ NewArtefact(p, "converter")
             /\ cleanup' = [cleanup EXCEPT ![p] = "converter"]
             /\ UNCHANGED <<tools, budgets>>
          \/ /\ NoChild(tool)
             /\ External(p, category[p], "external")
             /\ UNCHANGED <<started, telemetry, dirs, cleanup>>
    /\ CacheStays
    /\ UNCHANGED <<category, rich, ctxDone>>

(* A mutation: the converter is not waited for when its artefact is too    *)
(* large.                                                                  *)
ConverterExceedsUnjoined(p) ==
    /\ pc[p] = "converting"
    /\ Trouble
    /\ dirs' = dirs \ {<<p, "converter">>}
    /\ cleanup' = [cleanup EXCEPT ![p] = "none"]
    /\ Goes(p, "failed")
    /\ CacheStays
    /\ UNCHANGED <<category, tools, rich, started, ctxDone, telemetry>>

(* waitConverter sees an artefact over the limit: remove it and kill the   *)
(* tree, which is the end of this process.                                 *)
ConverterExceeds(p) ==
    /\ pc[p] = "converting"
    /\ Trouble
    /\ CacheDeath(p)
    /\ dirs' = dirs \ {<<p, "converter">>}
    /\ cleanup' = [cleanup EXCEPT ![p] = "none"]
    /\ UNCHANGED <<staged, category, tools, rich, started, ctxDone, telemetry>>

(* The converter ends.  Its exit status is not looked at: what it left is  *)
(* put into the cache unless it is empty.                                  *)
ConverterExits(p) ==
    /\ pc[p] = "converting"
    /\ ChildExits(p)
    /\ \/ ctxDone[p] /\ Goes(p, "terminal") /\ UNCHANGED <<tools, dirs, cleanup>>
       \/ ~ctxDone[p] /\ Goes(p, "put create") /\ UNCHANGED <<tools, dirs, cleanup>>
       \/ /\ ~ctxDone[p]
          /\ External(p, category[p], "external")
          /\ dirs' = dirs \ {<<p, "converter">>}
          /\ cleanup' = [cleanup EXCEPT ![p] = "none"]
    /\ CacheStays
    /\ UNCHANGED <<category, rich, started, ctxDone, budgets>>

PutFault(p) == PutCopyFails(p) /\ Trouble /\ UNCHANGED renderVars

(* renderStagedCache: the session now removes the stage. *)
Staged(p) ==
    /\ pc[p] = "staged"
    /\ cleanup' = [cleanup EXCEPT ![p] = "stage"]
    /\ rich' = [rich EXCEPT ![p] = TRUE]
    /\ External(p, "image", "external")
    /\ CacheStays
    /\ UNCHANGED <<dirs, category, started, ctxDone, telemetry, budgets>>

(* The deferred Cleanup calls, of renderStagedCache for the stage and of   *)
(* renderCachedArtifact for the converter's artefact, on the way back.     *)
Unwind(p, to) ==
    /\ dirs' = dirs \ ({p} \X IF rich[p] THEN Artefacts ELSE {"converter"})
    /\ staged' = [staged EXCEPT ![p] = "nothing"]
    /\ cleanup' = [cleanup EXCEPT ![p] = "none"]
    /\ rich' = [rich EXCEPT ![p] = FALSE]
    /\ tools' = [tools EXCEPT ![p] = <<>>]
    /\ Goes(p, to)
    /\ UNCHANGED <<key, dirVars, open, attempts, victims, total>>

(* No stage: "handled" all the same, so that the native renderer is next. *)
Unstaged(p) ==
    /\ pc[p] = "unstaged"
    /\ Unwind(p, "check")
    /\ UNCHANGED <<category, started, ctxDone, telemetry, budgets>>

-----------------------------------------------------------------------------
(* renderExternal, and the end of Render.                                  *)

TryTool(p) ==
    /\ pc[p] = "external"
    /\ \/ /\ tools[p] # <<>>
          /\ ChildStarts(p, Head(tools[p]), "rendering")
          /\ CacheStays
          /\ UNCHANGED <<dirs, tools, rich, cleanup, budgets>>
       \/ /\ tools[p] # <<>>
          /\ NoChild(Head(tools[p]))
          /\ tools' = [tools EXCEPT ![p] = Tail(@)]
          /\ CacheStays
          /\ UNCHANGED <<pc, dirs, rich, started, cleanup, telemetry>>
       \/ /\ tools[p] = <<>>
          /\ Unwind(p, "check")
          /\ UNCHANGED <<started, telemetry, budgets>>
    /\ UNCHANGED <<category, ctxDone>>

(* The renderer showed something, or the next one is tried. *)
ToolExits(p) ==
    /\ pc[p] = "rendering"
    /\ ChildExits(p)
    /\ \/ /\ ctxDone[p]
          /\ Goes(p, "terminal")
          /\ CacheStays
          /\ UNCHANGED <<dirs, tools, rich, cleanup>>
       \/ ~ctxDone[p] /\ Unwind(p, "rendered")
       \/ /\ ~ctxDone[p]
          /\ tools' = [tools EXCEPT ![p] = Tail(@)]
          /\ Goes(p, "external")
          /\ CacheStays
          /\ UNCHANGED <<dirs, rich, cleanup>>
    /\ UNCHANGED <<category, started, ctxDone, budgets>>

(* resourceFailure after the renderers. *)
Check(p) ==
    /\ pc[p] \in {"check", "rendered"}
    /\ Goes(p, IF ctxDone[p] THEN IF started[p] THEN "terminal" ELSE "failed"
               ELSE IF pc[p] = "rendered" THEN "return" ELSE "native")
    /\ CacheStays
    /\ UNCHANGED <<dirs, renderVars, budgets>>

(* The native renderer is done, or does not begin.                         *)
NativeEnds(p) ==
    \/ ~ctxDone[p] /\ Goes(p, "return") /\ UNCHANGED budgets
    \/ ~ctxDone[p] /\ Goes(p, "failed") /\ Trouble
    \/ ctxDone[p] /\ Goes(p, IF started[p] THEN "terminal" ELSE "failed") /\ UNCHANGED budgets

(* renderNative, dispatched as "native" only if there was no helper.  A    *)
(* pipe is opened once more.                                               *)
Native(p) ==
    /\ pc[p] = "native"
    /\ IF key[p] \in Pipes /\ category[p] \in ReadNatively /\ ~ctxDone[p]
       THEN Goes(p, "reading") /\ UNCHANGED budgets
       ELSE NativeEnds(p)
    /\ CacheStays
    /\ UNCHANGED <<dirs, renderVars>>

(* The pipe was read. *)
NativeRead(p) ==
    /\ pc[p] = "reading"
    /\ NativeEnds(p)
    /\ CacheStays
    /\ UNCHANGED <<dirs, renderVars>>

(* session.close, and dispatchPreview's report of the finished preview. *)
Return(p) ==
    /\ pc[p] \in {"return", "failed"}
    /\ Goes(p, "done")
    /\ telemetry' = [telemetry EXCEPT ![p].finished = TRUE]
    /\ CacheStays
    /\ UNCHANGED <<dirs, category, tools, rich, started, cleanup, ctxDone, budgets>>

(* The deadline passes, or the output limit is exceeded. *)
Expire(p) ==
    /\ pc[p] \notin Ended
    /\ ~ctxDone[p]
    /\ ctxDone' = [ctxDone EXCEPT ![p] = TRUE]
    /\ UNCHANGED <<cacheVars, category, tools, rich, started, cleanup, telemetry, budgets>>

(* fzf kills the preview's process group. *)
Kill(p) ==
    /\ pc[p] \notin Ended
    /\ Trouble
    /\ CacheDeath(p)
    /\ UNCHANGED <<dirs, staged, renderVars>>

(* The next preview is another process. *)
Replace(p) ==
    /\ pc[p] = "done"
    /\ previews < MaxPreviews
    /\ Goes(p, "off")
    /\ key' = [key EXCEPT ![p] = None]
    /\ category' = [category EXCEPT ![p] = "binary"]
    /\ started' = [started EXCEPT ![p] = FALSE]
    /\ ctxDone' = [ctxDone EXCEPT ![p] = FALSE]
    /\ telemetry' = [telemetry EXCEPT ![p] = Silent]
    /\ UNCHANGED <<dirVars, open, attempts, victims, total, dirs, staged, tools, rich, cleanup,
                   budgets>>

(* What the callback does by itself: everything but the helpers' exits. *)
Step(p) ==
    \/ CacheStep(p) /\ UNCHANGED <<renderVars, budgets>>
    \/ GroupKill(p) \/ Terminal(p)
    \/ Hint(p) \/ Classified(p) \/ Convert(p) \/ Staged(p) \/ Unstaged(p)
    \/ TryTool(p) \/ Check(p) \/ Native(p) \/ Return(p)

HelperExits(p) == HintExits(p) \/ ConverterExits(p) \/ ConverterExceeds(p) \/ ToolExits(p)

PipeRead(p) == ReadPrefix(p) \/ NativeRead(p)

Next ==
    \E p \in Procs : \/ Begin(p) \/ Step(p) \/ HelperExits(p) \/ PipeRead(p) \/ PutFault(p)
                     \/ Expire(p) \/ Kill(p) \/ Replace(p)

(* As long as a callback can take its next step or its deadline can pass,  *)
(* one of these happens; nothing is assumed of the helpers or of who       *)
(* writes into a pipe.                                                     *)
Progress == \E p \in Procs : Step(p) \/ Expire(p)

Spec == Init /\ [][Next]_vars /\ WF_vars(Progress)

-----------------------------------------------------------------------------
TypeOK ==
    /\ pc \in [Procs -> Places]
    /\ key \in [Procs -> Keys \cup {None}]
    /\ entry \in [Keys -> Files \cup {None}]
    /\ temp \in [Procs -> Files \cup {None}]
    /\ quarantine \in [Procs -> Files \cup {None}]
    /\ open \in [Procs -> Files \cup {None}]
    /\ content \in [Files -> {"nothing", "part"} \cup Keys]
    /\ DOMAIN victims = Procs
    /\ dirs \subseteq Procs \X Artefacts
    /\ staged \in [Procs -> {"nothing", "part"} \cup Keys]
    /\ category \in [Procs -> Categories]
    /\ rich \in [Procs -> BOOLEAN]
    /\ started \in [Procs -> BOOLEAN]
    /\ cleanup \in [Procs -> Artefacts \cup {"none"}]
    /\ ctxDone \in [Procs -> BOOLEAN]
    /\ telemetry \in [Procs -> Telemetry]

(* A preview that returns leaves no temporary file, quarantined file or    *)
(* private directory in the cache, whichever way its Put, its Prune and    *)
(* its stage went: cachePut's and newConverterArtifact's deferred calls.   *)
(* Only a preview that is killed does.                                     *)
ReturnsLeaveNothing ==
    \A p \in Procs : pc[p] \in {"off", "done"} =>
       /\ temp[p] = None /\ quarantine[p] = None /\ open[p] = None
       /\ \A a \in Artefacts : <<p, a>> \notin dirs

(* previewTelemetry.snapshot finds fault with a finished preview only when *)
(* "file" had to classify what then took three helpers more: every helper  *)
(* that was started has been waited for, no two lived at once, "native" is *)
(* reported exactly when there was none, and there were at most three      *)
(* (ObservePreviewProcess), one for each of converter and renderers, and   *)
(* one for "file".                                                         *)
HonestTelemetry ==
    \A p \in Procs : telemetry[p].finished =>
       /\ telemetry[p].live = 0 /\ telemetry[p].most <= 1
       /\ (telemetry[p].renderer = "native") = (telemetry[p].starts = 0)
       /\ telemetry[p].starts <= (IF telemetry[p].renderer = "file" THEN 4 ELSE 3)

(* Every preview ends, also when a helper hangs: the deadline ends it,     *)
(* taking the callback along.  Only one whose candidate is a pipe stays    *)
(* where the callback itself reads it, for as long as nobody writes: there *)
(* the deadline has nothing to kill.                                       *)
EveryPreviewEnds == []<>(\A p \in Procs : pc[p] \in Ended \cup Reading)
=============================================================================
