# A TLA+ model of shell-picker

shell-picker starts `fzf` on a list of directories (or files), lets the user
move through the tree with key bindings, and hands the chosen path back to the
shell.  Around that simple idea the program runs a session actor, a coordinator
that adds zoxide's directories to the list while the user already types, a local
HTTP server that `fzf`'s key bindings call back into, several child processes
and a preview cache.  This directory holds the TLA+ modules of the parts where
interleavings decide whether the program is right, the configurations TLC checks
them with, and proofs for the parameters TLC cannot exhaust.

All paths below are relative to the repository.

## 1. The system

| part | source | state it keeps | operations |
|---|---|---|---|
| session actor | `internal/session/actor.go`, `actor_api.go` | the current snapshot (generation, state, records), the pending transition, the replacement, the shutdown cause | `Current`, `Snapshot`, `Apply`, `Enrich`, `Close`; the generator goroutine's completion |
| session events | `internal/session/events.go`, `selection.go` | none of its own; `Handle` creates a directory tree for an Add | `Handle`, `Reduce`, outcome validation |
| fzf actions and options | `internal/fzf/action.go`, `options.go`, `output.go` | none of their own; what they leave in `fzf`: bindings, search, prompt, header, list, marks | `RenderEffect`, the initial options, the selection |
| enrichment coordinator | `internal/app/enrichment*.go` | the gate: active, committing, in-flight events, reservations, terminal cause; the base generation; one trace record | `HandleEvent`, `FinalizeEvent`, `BeginLoad`, `FinalizeLoad`, `Activate`, `Stop`, `Wait`, the source goroutine's `run` and `commit` |
| fzf input stream | `internal/fzf/input.go` | the readable bytes, closed | `Append`, `AppendAfter`, `Close` |
| picker run | `internal/app/run.go`, `backend.go` | the life of one session | start the actor, the server, the source and fzf; clean up in order |
| callback server and client | `internal/sessionipc`, `internal/callback` | admitted handlers (at most sixteen), closing, the join of `Close` | event, load, preview and display requests; finalizations with a 250 ms limit; `Close` |
| process runner | `internal/process` | one child: exit seen, target valid, killed, cancel cause; pumps; streams | `Start`, `Wait`, `KillTree`, `RetainTree` |
| candidate builder and zoxide cache | `internal/candidate/builder.go`, `zoxide.go` | the shared cache and its one load, the fresh permit | `Build`, `LoadInitialZoxide`, `Load`, `Records` |
| zoxide output | `internal/candidate/zoxide_limits.go`, `zoxide.go` | bytes, rows and the length of the row so far | `Write`, `finalize`, `parseZoxideRecords` |
| record merge | `internal/candidate/builder.go`, `merge_key*.go` | the keys met so far | `MergeNewRecords` |
| local enumeration | `internal/candidate/local.go` | a slice of entries that a pool of workers completes | `EnumerateLocal` |
| fzf sidecar | `internal/fzfsidecar` | one polling session over fzf's listen socket: started, stopped, waited, the last label, two retry windows | `Start`, `Stop`, `Wait`, the pages of a snapshot, the post of a label |
| preview | `internal/preview` | a cache directory shared by processes; per render the live helper, the output budget, the artefact to remove | `Get`, `Put`, `stage`, `pruneOldest`, the render session |
| path utilities, protocol, trace, finder information, command line, release tooling, adapters | the remaining packages | none that interleaves | parsing, encoding, formatting |

How they interact.  `fzf` runs the program again for each key binding; that
callback process posts the event to the server of the picker process and prints
the answer, an action, for `fzf`.  The server hands the event to the
coordinator, which reserves the gate, calls `session.Handle`, and keeps the
reservation until the callback process has reported what became of the action
(the finalization) and, for an action that reloads the list, until the exact
load has been written.  `session.Handle` observes the actor's snapshot, reduces
the event to a proposal and applies it with the generation it observed; a
proposal that navigates is answered after a generator goroutine has read the new
directory.  Meanwhile the source goroutine waits for zoxide and, if the launch
view is still the one on the screen, publishes the merged records through
`Actor.Enrich` and appends them to `fzf`'s standard input, with the input
stream's lock held over both.  `fzf`, zoxide and the preview converters are
children of the process runner, each with goroutines of its own.

What is hard.  Almost every operation races with another: a newer command with
the build of an older one, a caller's cancellation with the answer, a key event
with zoxide's late records, a finalization that may be lost with the load that
waits for it, three threads that stop the coordinator, a context that ends as a
child exits, a kill by process-group number with the reaping that frees the
number, a preview that is killed while it publishes a file others read, a key
pressed while the session still works on the last one.  `PROJECT.json` lists
these hazards with the line where each one bites and the properties aimed at it.

What makes each part correct:

* **session actor**: optimistic concurrency control on generations (no lost
  update), a generation number names one set of records for good, a retired
  transition is never published, the tree an Add created stays exactly if the
  Add won and is never removed under a build that reads it, nothing is left
  running or waiting when the actor has ended, and `Close`, a cancelled call and
  a superseding command make progress.
* **coordinator**: events and the source's commit exclude each other; the list
  on the screen is the snapshot an event is resolved against; only the launch
  view is enriched; a reservation is released only when `fzf` shows what was
  promised; the trace and the lifecycle error tell what happened; waiting
  events, reloads and the clean-up all make progress.
* **process runner**: `Wait` is a join; no stranger's process group is
  signalled; the caller's streams are closed only in an emergency; an exit that
  was seen beats a later cancellation; `Wait` returns.
* **candidate builder and zoxide cache**: the permit comes back on every path,
  one zoxide runs at a time, a call fails only for its own reasons or those of
  the call that owns the shared load, nothing outlives a call, and every call
  returns.
* **zoxide output and record merge**: the limits are exact however the output is
  cut into pieces; all rows become records or none does; of the rows that lead
  to one file the first is kept, and none that the launch view has already.
* **local enumeration**: the records are those of the directory whatever the
  order of reading and the workers' interleaving; the workers' own cancellation
  is never reported as the caller's; the call returns, after its workers.
* **session events and fzf actions**: after any sequence of keys `fzf` shows and
  binds what the session believes; what the user accepts is known to the
  session; rolling back an Add takes nothing that a published one has made; no
  key press is left unanswered.
* **callback server and client**: no request is handled after `Close` has
  returned; the coordinator is told that an action was applied exactly if `fzf`
  has it; a callback does not keep out its own finalization; `Close` returns,
  and without a loss every reservation comes back.
* **sidecar**: no poll after a completed `Wait`; a failed post is retried within
  one window; the label catches up with the selection, also after a lost reply;
  every `Wait` returns.
* **preview**: what is found under a key is the whole artefact of that key; a
  preview that returns leaves nothing of its own in the cache; the telemetry
  tells what ran, in few enough helpers; every preview ends although its helpers
  may hang.

## 2. Modules

| module | models | uses |
|---|---|---|
| `SessionActor` | the actor, its callers and its generators | `SessionPromise` (refinement) |
| `SessionPromise` | what a caller of the actor may rely on: a view changed by compare-and-swap | |
| `InitialEnrichment` | the coordinator with the input stream, the start and the clean-up of `RunPicker`, and the event and load callbacks | the actor as its promise leaves it: a generation, replaced only against its current value |
| `ProcessChild` | one child on Unix, from the successful start to the return of `Wait` | |
| `ZoxideSource` | the builder and the cache, used by several calls at once | the child as `ProcessChild` leaves it: a run returns once its context has ended |
| `ZoxideRecords` | the way of zoxide's output to the screen: the limit writer, the parser, `MergeNewRecords` | |
| `LocalEnumeration` | one call of `EnumerateLocal` and its workers | |
| `PickerEvents` | from a key press to what `fzf` shows, for the copy picker: `Handle`, `Reduce`, `CreateDirectoryTree`, `Rollback`, `RenderEffect`, the selection | the actor as `SessionActor` leaves it, with one build and one replacement |
| `SessionIpc` | callback processes, the server's admission, handlers and `Close` | the coordinator as `InitialEnrichment` leaves it: one reservation |
| `FzfSidecar` | the sidecar's session, its callers, the polling loop, `fzf`'s listen socket | |
| `PreviewCache` | the cache directory on Linux, used by several processes | |
| `PreviewRender` | the renders that use it, their helpers, limits, clean-up and telemetry | extends `PreviewCache` |
| `MC...` | the symmetry sets and constants of the configurations | `MCZoxide` joins `ZoxideSource` and `ZoxideRecords` |
| `SessionActor_proofs`, `InitialEnrichment_proofs`, `ProcessChild_proofs`, `Zoxide_proofs`, `LocalEnumeration_proofs`, `FzfLinks_proofs`, `PickerEvents_proofs`, `PreviewRender_proofs` | the theorems | the component's module (`FzfLinks_proofs`: `SessionIpc` and `FzfSidecar`; `Zoxide_proofs`: `ZoxideSource` and `ZoxideRecords`) |

### SessionActor

The local variables of `Actor.run` are variables of the module (`current`,
`pending`, `replacement`, `shutdownErr`, `sessionArmed`); each case of its
`select` is one action (`ReceiveApply`, `ReceiveEnrich`, `ReceiveCompletion`,
`ReceiveCallerDone`, `ReceiveSessionDone`, `ReceiveClose`), and so are the check
at the top of the loop (`Exit`) and the deferred `close(done)` (`CloseDone`),
because a caller of `enqueue` can see the time between them.  The command channel
is unbuffered: a send and its receipt are one step.  Reply channels are buffered:
a reply is part of the step that decides it.  The closure `start` is an operator
over the snapshot, the generators and the replies already given, because the
completion case publishes one transition and starts the next one in the same
iteration.

A member of `Calls` is one call of `Handle` or `Enrich` with its own context,
which may be cancelled at any time.  A generation number is at most
`MaxGeneration`, which stands for the last 64-bit value, so that the branch for
an exhausted counter is reachable.  Records, prompts and states are abstracted
to the call that produced them.  A directory tree is `"made"` when
`CreateDirectoryTree` has returned and `"removed"` by its rollback; that two
trees may share a parent is what `PickerEvents` is about.  The reads of the
actor (`Current`, `CurrentState`, `Snapshot`, `ResolveCurrent`) change no state
and are one action, `Observe`.

### InitialEnrichment

One critical section of `initialEnrichment.gate` is one step, and what a thread
does after it unlocks is a step of its own: `HandleEvent` becomes
`reserveEvent`, `Handle`, `BuildEnds`, `suppressActiveRestore`, `resolveEvent`,
`answerEvent`; `commit` becomes `beginCommit`, `Snapshot`, `AppendAfter` (which
takes the stream's lock), `publish`, `Enrich`, `Expose` (which releases it),
`finishCommit`.  `Stop` and a callback failure set the gate's fields in one
step, then close the stream and cancel the context in two more (`finishing`),
since either may wait or be overtaken.  `terminalErr` is the set of causes that
`errors.Join` has collected, `cancelledWith` the cause of the source's context.

`shown` is the generation `fzf` displays.  It is changed by what `fzf` is given:
the launch records, the enrichment, a load, the empty list of an invalid path.
`fzf` (external) starts a reload only once its initial input has ended: that is
why the finalization of a reload closes the stream.  The callback process may
fail to write an action, may give up on a finalization that still arrives or
never does, and its load may time out.

`Environment` selects what the world around the coordinator may do, so that each
question is asked with the disturbances that matter to it.

### ProcessChild

The four goroutines of a child (`reap`, `watchCancellation`, the pumps, the
caller of `Wait`) are separate, a critical section of `lifeMu` is one step, and
the three containments are chosen in the initial state.  The system is external:
a child exits when it likes, a descendant may hold the pipes and may leave the
process group, `SIGKILL` to one's own group succeeds, a pipe without readers
breaks, and the group number is free once the leader was reaped (`struck`
records a signal after that).  `watchCancellation` takes the end of the context
and decides in a later step, under `lifeMu`, whether the exit has been seen by
then: between the two the child may exit.  With `inherit` the group is the
program's own, and a signal ends the program (`ended`).  The two output pumps
behave alike and are one.

### ZoxideSource

A member of `Callers` is one call of `LoadInitialZoxide` or of an initial
`Build` for the cd picker; a `Build` has two goroutines, `local` and `source`,
and collects what they send (`Collect`, `Drain`, `ReturnBuild`).  `cause[c]` is
the cause of the context the goroutines run under: the caller's, or what
`buildWithZoxide` cancelled it with.  `cache[k]` is a cache and its one load:
the shared one (`NoCaller`) or the one a fresh call made.  A load has the owner
whose context it runs under; a cause of that context, the timeout or the limit
writer end its run, whichever comes first.  When the load is `ready` the state
of its run is forgotten.  An error is a pair, whose it is and why, so that the
properties can tell a call's own failure from the owner's.  The permit is taken
in one step (`acquireFreshPermit`) and the context asked again in the next
(`NewCache`), as in the code.

### ZoxideRecords, LocalEnumeration

The loops of the limit writer, the parser and the merge are one action per
iteration, so that no recursion is needed; the pieces in which the pump calls
`Write` are chosen freely.  `pass` tells the pump's writer from the second one,
through which the parser sends the whole buffer.  The properties compare with
definitions that know no loop: where a row or a name starts and ends (`Starts`,
`Part`), what becomes of the whole output (`Parsed`), the names on a path
(`File`).  A byte is a newline, NUL, a slash or anything else, and the key of a
path is what `filepath.Clean` makes of it.  The merge starts from the views that
`local.go` produces in an ordinary directory, at the root of a Unix file system
and at the root of a Windows drive (`rootRecords`).  `MCZoxide` puts this module
and `ZoxideSource` into one run: they share no variable, and `half` says which
of the two moves.

In `LocalEnumeration` the caller of `classifySymlinks` (`phase`) and the workers
(`at`) interleave; a send over the unbuffered `jobs` is one step of both.
`workerCancel` is the cancellation the workers send each other, `ctxDone` the
caller's.  `ReadDir` returns the names in any order and in batches of any size
up to the limit.  A name is what the order tells apart: hidden or not, the
folded form, the bytes.

### PickerEvents

`ui` is what the user has in front of them: the bound keys, whether `fzf`
searches, the prompt, the header, the list with its marks, the query. `Press`
runs a bound key's callback; `Look` is `CreateDirectoryTree`, one `mkdir` at a
time through `fs`; `Submit`, `Complete` and `StartReplacement` are the actor's
side; `Deliver` is the rendered action in `fzf`.  The list of a location has the
records `.` and `..` before the names in it.  A build may fail, because its
directory cannot be read or is gone.  A callback may give up (`GiveUp`): the
session works on, `fzf` is free for the next key, and two events overlap.  This
is the only way they can: `fzf` runs one callback at a time.  Paths are
sequences of names below one root, and one plain file is enough for an Add that
fails and for a mark that is not a directory.

### SessionIpc

A callback makes up to two requests (`Legs`): the one it was started for, and
the finalization that says whether its output reached `fzf`; a preview's second
request is its telemetry.  A request is admitted or refused (`Admit`, with the
server's gate held), handled, answered; its slot is free before the answer can
arrive.  A callback may be killed at any step and gives up when its limit is
over, while the server goes on with the request.  `Close` is its three steps:
refuse and cancel, close the listener, join.

### FzfSidecar

`loop` is where the polling goroutine is; a request ends in every way the code
tells apart, and a failed one may have taken effect (`GetFails`, `PostFails`).
`Tick` is one unit of time, in which the readiness limit and the retry windows
are counted; a pause ends in a step of its own, so that a window may be met
exactly.  The callers are the picker, which starts, stops and joins, and others
that may do so in any order.

### PreviewCache, PreviewRender

A file of the cache is a member of `Files`, with what it contains and where it
is linked: under a key, as somebody's temporary file, as somebody's quarantined
file.  A system call of `cache_posix.go` is one step.  An artefact is whole when
its content is the key's; the content is written in two steps, so that somebody
may look in between.  A render goes through the classification, the converter
and the renderers; the helpers share the callback's process group, so that
killing them kills the callback (`GroupKill`), and a killed preview stops where
it is.  The callback itself opens the candidate to detect what it is and, in the
native renderer, to show it: a named pipe (`Pipes`) keeps it there until
somebody has written (`opening`, `reading`).

## 3. Runs

| run | question | distinct states |
|---|---|---|
| `actor` | two concurrent calls of any kind, with generators that return only when cancelled | about 45,000 |
| `enrichment_delivery` | two events against the commit, with losses and time-outs | about 919,000 |
| `enrichment_shutdown` | one event and three threads that stop the coordinator: what is told, and that the clean-up joins | about 1,629,000 |
| `process` | every containment, observer, source and sink may fail; `Wait` returns | about 161,000 |
| `process_normal_exit` | expected to be violated, see section 4 | |
| `zoxide` | two overlapping calls of either kind under both policies, with every failure, each of which returns; and every output of up to six bytes in every cutting, parsed and merged | about 1,164,000 |
| `records_root` | expected to be violated, see section 4 | |
| `local` | directories of up to three entries, two workers, every failure; the call returns | about 427,000 |
| `sidecar` | two callers, two faults, two changes of the list | about 1,220,000 |
| `ipc` | two callbacks of any kind, one slot, two callers of `Close` | about 779,000 |
| `preview` | two processes at a time, three previews, one of them killed or in trouble | about 1,126,000 |
| `events` | four key presses, one of which its callback may give up on | about 1,176,000 |

The bounds and why they are enough.

* Two calls of the actor: one is pending, the other supersedes it, enriches or
  finds it retiring.  Cases for three calls (a third meets a transition that is
  already retiring and a replacement that waits) and for an exhausted counter
  are left to the proof of `ActorInv`, which holds for any number of calls and
  any limit.
* Two events: one holds the gate, the other waits for it; a third would wait
  like the second.  The run about the shutdown has one event because the three
  stopping threads are what it is about.
* A child has one input pump, one output pump, one waiter; there is nothing to
  bound.
* Two calls of the builder: one owns the shared load or the permit, the other
  waits for it; a third would wait like the second.
* Three directory entries with two workers: one link more than workers, so that
  the caller can be left sending.  Three names are enough for every comparison
  of the order: one hidden, two that differ only in their bytes.
* Five bytes, two rows, two bytes per row as limits, outputs of up to six bytes:
  each limit is met exactly and exceeded by one, alone and together with others;
  and two rows may be a new file and another spelling of it (`/` and `//`), or
  one of the view.
* Of the kinds of entries, a directory and three links: one to a directory, a
  broken one, one that cannot be read.  A file and a link to a file end up like
  the broken link, as files.
* One handler slot: the smallest limit, so that a request of either callback
  keeps out the other's.  Two callbacks are an event and its load, two events
  that want the gate, or either beside a preview.
* Sidecar: a retry window and a readiness limit of one tick, each met and
  passed; two faults, so that a retry may fail too; two changes, so that the
  list may return to what was posted before; a page of one record and lists of
  up to two pages.
* Preview: one entry fits, so that the second artefact prunes the first; one
  process previews PDF files, the other a file that "file" has to classify, or a
  named pipe; they meet on one key or work on two, and a third preview finds
  what a killed one left.  Both renderers of images are installed, so that a
  preview can take four helpers.  One trouble (a kill, a helper that does not
  start, a failing file) per behaviour, so that what follows is the code's
  reaction to it.
* Four key presses: to normal mode, to add mode, Enter, and Enter again on the
  same names while the first Add is under way; or an Add that is refused and
  left; or a rejected path, its restore and a navigation that fails.  The
  queries are empty, a name, a nested pair and the file's name, which is what an
  Add fails on.  After an event that its callback gave up on one more is pressed
  (`MaxLate`), so that two overlap; one mark, on `..` or on a name.

`TypeOK` in each module gives the types of its variables; it holds of every
instance above and is not listed among the properties of the runs.

Deadlock is not reported: every session ends, with the actor `done`, the picker
`joined`, `Wait` returned or all callbacks gone, and then nothing is left to do.
The liveness properties say what must not be stuck.

### Fairness

* A goroutine that can run does run, and a Go channel serves blocked senders in
  the order of arrival, so a call blocked in `enqueue` is received as long as
  the loop keeps receiving: weak fairness per call.
* In `SessionActor` a generator is only sure to return once its context is
  cancelled, and in `ZoxideSource` and `InitialEnrichment` so is zoxide's load.
  In `InitialEnrichment` (`BuildEnds`) and `PickerEvents` (`Complete`) the build
  of a command does end by itself, with a list or an error: it is
  `EnumerateLocal`, which returns because a directory can be read
  (`EnumerationReturns`).  No fairness says that a child exits, that a source
  ends, that a user leaves `fzf` or cancels.
* An event that waits for the gate competes with the source and with other
  events for it; `gateChanged` wakes all of them and each rereads the state, so
  it gets strong fairness: it is not overlooked for ever by a gate that becomes
  free again and again.  There are finitely many competitors in a session, so
  this assumes no more than that the scheduler runs the waiter.
* A finalization may be lost in `enrichment_delivery`: `EventsProceed` then
  names the reservation it has orphaned.
* A pump returns when its pipe has no peer, or its end or its source is closed:
  this is the cooperation that the README's section on stream ownership asks of
  a caller's stream.  A timer fires.
* In `SessionIpc`, `PreviewRender` and `PickerEvents` each request, preview and
  key press happens once and no step repeats, so one condition for all of them
  is enough: as long as one can go on, one does.  A request ends, because its
  limit does; a helper may hang, and it is the deadline that is sure to come;
  nobody need write into a pipe; a user need not press a key.
* In `FzfSidecar` the loop repeats, so fairness is stated for the loop, for the
  clock and for each caller.  `fzf` need never come up or go away.
* zoxide need never end by itself; a run returns once its context has ended,
  which `ProcessChild!WaitReturns` shows.  A directory can be read and `Stat`
  returns.  In `ZoxideSource` each call is made once and no step is repeated, so
  one condition for all goroutines is enough: as long as one can go on, one
  does.

### What the runs show

`ImplementsPromise` says that the actor, seen by its callers, is a plain
compare-and-swap register: everything about supersession, cancellation and
shutdown only ever refuses.  `InitialEnrichment` uses the actor in exactly that
shape.

`GateExclusion` includes that the error paths for a conflict
(`ErrStaleGeneration`, `ErrTransitionPending` from `Enrich`) are unreachable in
a live session, so that the code is right to treat them as failures of the
picker.  `HeldCommandsAreFresh`, a consequence of `ActorInv`, does the same for
the two comparisons of generations that the actor repeats when a transition
starts late and when it completes.

`OutputDecides` compares the writer, its second use and the parser with one
function of the whole output (`Parsed`): neither the outcome nor the records
depend on how the pump cut it into pieces.  `FirstsAreMerged` compares the
merge, which looks at one record at a time and at keys, with the set of rows it
should admit, told by the files they lead to.

`HonestTelemetry` says when `snapshot` has a reason to call a finished preview
invalid: only for a fourth helper, and only when the first was `file`.

`EveryPreviewEnds` says for which previews nothing ends them but `fzf`: those
whose callback reads a pipe.

`AcknowledgedTruthfully` and `ReleasedWhenShown` are the two halves of one
promise: the callback tells the truth about what `fzf` has, and the coordinator
releases the session only on that.  `EverythingEnds` and `EventsProceed` say
under which losses it is not released.

`Agreement` holds as long as no callback was lost, with Adds and navigations
that fail; section 4 says what a lost one does.  `OnlyWholeArtefacts` holds with
kills at every step: it is the order write, publish, and the link count that
keep it.

## 4. Findings and observations

* `process_normal_exit`.  A child that exits with 0 before it has read
  everything it was sent makes the input pump fail with `EPIPE`, `Wait` returns
  that error, and `fzf.Run` reports it as a failure of the picker.
  `process_test.go` demands a clean exit of a child whose opted-in source is
  open, and the coordinator's comment calls a normal `fzf` exit no error.
* `records_root`.  At `/` the rows `.` and `..` of the launch view lead to one
  directory.  When zoxide adds anything, the merge takes the second for known
  and drops it from the records that the actor takes over
  (`candidate/builder.go:331`), while `fzf` goes on showing it: what is selected
  there is refused as unknown. `builder_test.go` demands that the merge
  preserves the base records, and `enrichment_test.go` that the actor resolves
  every row that was streamed.  Away from the root of a Unix file system the
  base is preserved.

Observations, made while modelling, that no run is about:

* Coordinator.  `docs/security.md` says that any exact event or load reported as
  not applied terminates the session.  `FinalizeLoad`
  (`internal/app/enrichment_callback.go:173`) does so only when the finalization
  of the load's event has arrived before; otherwise it returns an error to the
  callback process and the session goes on with the reservation held.
* Zoxide.  `docs/security.md` says that the caller's cause wins over a later
  private timeout.  A call that waits for the shared load and whose context
  ended first may still be answered by the timeout: both cases of the `select`
  in `ZoxideCache.Load` are ready, and after a timeout `loadInitialZoxide` does
  not ask for the cause (`LoadReturns`, `initialError`).  A leading or interior
  empty row makes zoxide's output malformed (`zoxide_test.go`); an empty last
  row is accepted.
* Shutdown.  `docs/architecture.md` and the README give an order in which the
  server and the actor are closed before the source is joined, while `RunPicker`
  joins the source first.  A callback failure that reaches the coordinator after
  `Wait` is recorded nowhere.
* Server.  A finalization that is refused with 429, given up after 250 ms, or
  never sent because the callback was killed leaves the reservation held for the
  rest of the session (`Lost` in `EverythingEnds`).  `writeJSON` writes into the
  response's buffer, so the server seldom learns that the client is gone.
* Preview.  A category with a converter may start four helpers (`file`, the
  converter, two renderers), where `docs/preview.md` promises at most three and
  the telemetry then calls the preview invalid.  Killing a helper's group kills
  the callback itself, so its private directories stay; the clean-up of stale
  ones does nothing on Linux.  A preview killed between `Linkat` and `Unlinkat`
  leaves an entry with two links, which every later `Get` refuses and `Put` does
  not replace.  A publisher that is slower than the 50 ms of retries, or a prune
  at the wrong moment, makes another's `Put` fail; that ends the preview, and
  kills its process group, instead of showing it without the cache
  (`cache.go:207`).  A named pipe that nobody writes into keeps the callback in
  `os.Open`, where the deadline kills nobody.  A converter's exit status is not
  looked at: a file it left half written is cached as it is.
* Session events.  A proposal without a build keeps the generation, so that two
  overlapping events may both win and one undo the other's mode change.  An
  action that is lost after the actor took it leaves `fzf` in another mode than
  the session.  The rollback of a refused Add may remove an empty directory that
  it made and that another Add has meanwhile entered as its location.

## 5. Proofs

Eight modules hold theorems; each extends the module of its component
(`FzfLinks_proofs` those of two, the links in either direction between the
picker and `fzf`, `Zoxide_proofs` those of the cache and of the output) and
proves an inductive invariant of its specification, from which the properties of
the runs follow.  Every proof is for all values of the constants that satisfy
the assumptions of the component's module, which TLC evaluates in each run.

| module | invariant | properties of the runs that are theorems |
|---|---|---|
| `SessionActor_proofs` | `ActorInv` | `ActorInv`, `ImplementsPromise`, `RetiredNeverPublished` |
| `InitialEnrichment_proofs` | `EnrichmentInv` | `GateExclusion`, `ViewIsCurrent`, `TraceTellsWhatHappened`, `OnlyLaunchViewEnriched`, `ReleasedWhenShown` |
| `ProcessChild_proofs` | `ChildInv`, `ReportInv`, `OwnFailure` | `NeverStrikesStranger`, `WaitJoinsEverything`, `ExitBeatsLateCancel` |
| `Zoxide_proofs` | `ZoxideInv`, `RecordsInv`, `MergeInv` | `OneLiveProcess`, `NothingLeftBehind`, `FailuresHaveAReason`, `OutputDecides`, `FirstsAreMerged` |
| `LocalEnumeration_proofs` | `LocalInv` | `SuccessIsComplete`, `PoolInv` |
| `FzfLinks_proofs` | `IpcInv`, `SidecarInv` | `NoWorkAfterClose`, `AcknowledgedTruthfully`, `RoomForOwnFinalization`, `NoWorkAfterWait`, `RetriesAreBounded` |
| `PickerEvents_proofs` | `TreeInv`, `SyncInv` | `Agreement`, `AcceptanceIsHonoured`, `PublishedAddsKeepTheirDirectories` |
| `PreviewRender_proofs` | `PreviewInv`, `StartsInv` | `OnlyWholeArtefacts`, `ReturnsLeaveNothing`, `HonestTelemetry` |

`TypeOK` is a theorem in each of them.  The layout is the same everywhere: the
parts of the invariant are named for what they say, a lemma per action (or per
group of actions with the same effect) shows that the parts survive it, and one
temporal step combines them.  TLC checked each invariant on the instance of its
run before it was proved.

### SessionActor_proofs

For every set of calls and every generation limit.  The assumptions are that
`NoCall` is not a call and that `MaxGeneration` is a positive natural number.

None of the actor's properties is inductive alone.  That a refused Add has lost
its tree needs to know that a call with a reply is not held any more, that an
applied call lost no update needs to know that its base lies below the current
generation, and both need the shape of the loop's variables.  `ActorInv` states
that shape: a pending transition has the last number that was given out, its
generator is alive and its base is current (`PendingInv`); a replacement waits
behind a retiring transition or a shutdown (`ReplacementInv`); a living
generator is the pending one's (`BuildInv`); a received call is one of the two,
and an applied one has a base below the current generation (`CallInv`); when the
loop has ended both are gone (`PhaseInv`).  From it follow `TreeMatchesOutcome`,
`NoRollbackUnderBuild`, `NothingOutlivesActor`, `NoLostUpdate` and
`HeldCommandsAreFresh`.

The refinement: `Allowed` lists what a step may do to the view and the replies
(refuse, let one call observe, let one call win).  Every step of the actor is
`Allowed`, and what is `Allowed` is a step of `SessionPromise` or a stutter, so
the actor implements its promise.  `RetiredNeverPublished` follows from
`Allowed`, too: the winner is never the retired transition.

### InitialEnrichment_proofs

For every finite set of events, in any environment.  The assumption that no
event has the name of the source, the picker or the parent context concerns the
model only, where `finishing` is indexed by all of them.

The gate is a lock with three kinds of holders: an event inside the actor, an
event whose action or load is not finalized, and the committing source.
`HeldInv` says that it has at most one holder and that `inFlight` tells so,
which gives the first two parts of `GateExclusion`; for the third, `CauseInv`
follows the causes from one thread to the other, and the snapshot that the
source takes stays current because nobody else can hold the gate (`BaseInv`).
`ViewIsCurrent` needs to know who is to blame when the screen is behind the
actor (`ViewInv`): an event with a reload that is not shown yet, or the source
between `Enrich` and `Expose`, both of which hold the gate, or a session that
has become terminal; and that nobody changes anything after accept
(`AcceptInv`).  `ReservedInv` says what a reservation waits for at each step of
its callback, from which `ReleasedWhenShown` follows.  `TraceTellsWhatHappened`
rests on `BlameInv` and `DiscardInv`: whoever cancels the load on purpose has
recorded the discard before, and a context is cancelled with another cause only
when there was an error.  Cardinalities enter through `inFlight` and through the
bound on generations (`CountInv`).  An event is followed through its steps by
frames: what a kind of step leaves alone is stated once and used for each part
of the invariant.

### ProcessChild_proofs

For every set of containments and of failures.  `GoroutineInv`: how far `Wait`
has come determines which goroutines are done.  `TargetInv`: the target is
invalid from the moment the reaping is about to start or the observer failed,
from which it follows that no signal comes after it.  `StreamInv`: who is about
to close the streams has a reason (`CallersKeepTheirStreams`).

`ExitBeatsLateCancel` speaks of every later moment: once the exit has been seen
with no cancellation decided, the context may end, the watcher may already have
taken its end from the `select`, and `WaitDelay` may pass, and the result of
`Wait` is still the child's own.  `ExitStaysFirst` is the heart of it: no step
decides a cancellation any more, because `watchCancellation` asks for the exit
under `lifeMu` in the step that would.  `ReportInv` says where an error that
`Wait` may return comes from, `OwnFailure` when it is the child's, and both
together what is left to return.  `NoCancelAfterExit` is the same race as an
action property.

### Zoxide_proofs

`ZoxideInv`, for every set of calls, either policy, any failures.  `PermitInv`:
the permit lies in its channel or one call has it, and keeps it as long as its
own cache exists; `LoadInv`: a load is under way only while the call that owns
it joins it.  Together they make `OneLiveProcess`.  `CallInv`: a call returns
after both its goroutines.  `ErrorInv` follows each error from where it is made
to the result: it is the call's own, or the one with which the owner of the
shared load took that load along.

`RecordsInv`, for any output, any pieces and any limits.  The three counters of
the limit writer are a function of the prefix it has scanned: `Scanned(output,
n, r, b)` says that `b` bytes stand since the last newline, how many rows have
started, and that none so far is beyond a limit.  It holds with `n = total +
index` in both passes and does not mention where a piece ends, which is why the
pieces do not matter.  A byte that `refuses` rejects then puts the whole output
beyond its limits (`RefusedIsBeyond`), and an output that is scanned to its end
is within them (`AcceptedIsWithin`).  `Reads` says the same of the parser:
`start` is where a row starts or the end, and `records` are the rows before it,
none with a fault. `OutputDecides` is no invariant by itself, for it says
nothing before the outcome is known.  That the `k`-th row read is the `k`-th
part of the output rests on lemmas about the rank of a position in a set of
positions (`NthOfRank`, `NextRank`).

`MergeInv`, for the same and any launch view, that of `/` included.  At every
moment of the merge, `filesystem` holds the keys of `merged`, and `merged` is
the first records of their targets in the part that has been looked at
(`MergedUpTo`); what was admitted is those among them that are beyond the launch
view.  The merge compares keys and `FirstsAreMerged` the files that paths lead
to: two absolute paths have the same key exactly when they have the same names.
One half (`OneFileOneKey`) shows that the positions that `Clean` keeps are those
of the names and of the slash before each (`KeptIsSpanned`), and that matching
positions of the two paths are in the same order, so that the `k`-th kept byte
of the one is the `k`-th kept byte of the other (`MatchRanks`).  The other
(`OneKeyOneFile`) finds for each name of the one path a name of the other with
the same bytes (`OneKeyTwins`). `ScreenMatchesSnapshot` is no theorem:
`records_root` refutes it.

### LocalEnumeration_proofs

For every finite directory, batch size, number of workers asked for and set of
failures.  `CancelIsTheCallers` alone is not inductive: a worker may hold a
cancellation that another worker caused.  `PoolInv` adds why it is dropped:
whoever cancels the others has put its error into the channel before, and the
channel holds one.

`SuccessIsComplete` needs `CompleteInv` besides: every name is unread or has an
entry, and an entry is a directory only if it is known to be (`EntryInv`); a
link that was sent is settled, in the hands of a worker, or given up together
with the call (`JobInv`); the records are built from settled entries
(`ResultInv`).  What the sorted lists contain is proved from their definition: a
finite set with a total order can be sorted (`SortedExists`), by a least
counterexample among its subsets (`LeastSubset`), and the result enumerates it
(`Enumerations`).

### FzfLinks_proofs

`IpcInv`, for any finite set of callbacks, any limit of handlers and any callers
of `Close`: how far `Close` has come when admission is off (`CloseInv`), and
what the two sides know of each other (`CallbackInv`, `HeardInv`): output
reaches `fzf` only after the first request is done with, and the backend hears
of a callback only when its output has reached `fzf` or never will.

`SidecarInv`, for any callers, lists, page sizes and windows: `Start` is what
makes a loop, and a `Wait` returns only when there is none and can be none
(`WaitInv`); the retry window is at least as old as the post in doubt
(`WindowInv`).

### PickerEvents_proofs

For any finite set of events, any names, any finite set of queries and any
bounds. `EventsAssumption` says what tells these apart: `None` is neither an
event, a path nor a candidate, there is a name, the file in the tree is called
by another one, and a query is a path.

`TreeInv` holds whatever callbacks are lost.  Beside the types and the calls
that the actor holds (`Held`) it says whose every directory is (`Owned`): a
directory of an Add under way exists, is in the list of one call only and there
once, and is not yet kept.  `PublishedAddsKeepTheirDirectories` is not inductive
without it: a rollback removes what its list says, and only `Owned` keeps a
published directory out of it.  A directory enters a list when it did not exist,
so it was in no other and not kept; it leaves the list when it is removed or
when the Add is published.

`SyncInv` holds while no callback has been lost.  Then one event is under way at
a time, the one that `fzf` waits for (`OneAtATime`), and `InSync` follows its
effect from `Reduce` to the screen.  Before the actor has answered, `fzf` shows
the whole snapshot and the effect tells everything in which the proposal differs
from it (`Fits`); once it has answered, what `fzf` shows with the effect on top
is the current snapshot (`Lands`); when the effect has been applied, `fzf` shows
it or loads its list (`Rests`).  A lemma per opcode shows that what `Reduce`
proposes `Fits`, one that an accepted or refused proposal `Lands`, one that
`renderEffect` makes of it a screen that `Rests`.  `Agreement` and
`AcceptanceIsHonoured` are about the last of the three alone, and neither is
inductive: the marks that an acceptance sends are records of the session because
a new list clears them.

### PreviewRender_proofs

For any finite sets of processes, keys and files, any limits and any installed
tools.  `RenderAssumption` types the candidates and keeps the built-in renderer
apart from the installed ones.  `WholeInv` is about the shared directory: an
entry, and whatever may come back as one from a quarantine, is whole, and nobody
else reaches the file a `Put` is still filling.  `PlaceInv` and `ArtefactInv`
say which names, descriptors and directories a process can have at a place,
`TelemetryInv` what it has told by then.  `StartsInv` bounds the helpers: the
place and the renderers still to be tried tell how many can have been started
(`Few`), because a renderer is tried once, a converter only before the
renderers, and "file" only before both.

### Left to TLC

* Every liveness property: `NobodyIsStuck`, `EventsProceed`, `CleanupJoins`,
  `WaitReturns`, `CallsReturn`, `EnumerationReturns`, `LabelConverges`,
  `WaitsReturn`, `EverythingEnds`, `EveryPreviewEnds`, `EveryPressEnds`.  The
  prover does not handle fairness.

Every other property of the passing runs is a theorem.

## 6. Not modelled

* The Windows variant of the process runner: job objects and handles in place of
  process groups, the same life cycle.
* The preview caches of Windows and Darwin, which publish and quarantine through
  other system calls; the native listing of archives, directories and binary
  files, which is reading and formatting; the detection of a category from a
  name.
* The failures of `Runner.Start` before the child exists: the function closes
  what it opened and returns.
* The contents of records, prompts and metrics; the HTTP encoding and
  authentication of callbacks, the grammar of their arguments and what it
  refuses (`callback/grammar.go`, `validation.go`); the sidecar's JSON and the
  text of its label.
* In `SessionActor`, a rollback that fails: its error is joined to the call's
  (`types.go:319`) and changes nothing else.  That a rollback leaves a directory
  that is not empty is in `PickerEvents`.
* A preview's `Stat` of a candidate that never returns, and a named pipe whose
  name is that of an archive, which the preflight of an archive opens as well.
* In `PickerEvents`: the directory picker's own rules, the list of drives and
  network shares, symbolic links, names that differ only in case, a header that
  does not fit the screen, editing the query in normal mode, and marks that
  `fzf` itself drops at a reload.  In `PreviewCache`: the reuse of an inode
  number between a listing and the removal it leads to.
* Modelled but not met at the bounds: the sidecar's limit on the number of
  pages, and a quarantined file that cannot be renamed back.  Modelled but not
  typed in the run: a query that climbs with `..`.
* The counters of `zoxideTracker`; the list of Windows drives; the display texts
  of records.
* The trace writer and the checks of the benchmarks' schema, the command line,
  finder information, release tooling and the shell adapters: no state that
  outlives a call.

## 7. Plan

1. **Done**: the actor, the coordinator and the process runner; the candidate
   packages; the session events, the server and the callbacks, the sidecar and
   the preview, with their runs.
2. **Done**: the proofs of section 5, the refinement of `SessionPromise`
   included.
3. **Windows**: a second variant of `ProcessChild` over job handles, and of
   `PreviewCache` over its publication by rename.
