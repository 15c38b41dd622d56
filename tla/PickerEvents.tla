---------------------------- MODULE PickerEvents ----------------------------
(***************************************************************************)
(* From a key press to what fzf shows: the events of the copy picker       *)
(* (internal/session/events.go and selection.go, internal/fzf/action.go,   *)
(* options.go and output.go, internal/pathutil, internal/callback).        *)
(*                                                                         *)
(* fzf runs the callback of a bound key and waits for the action it        *)
(* prints.  The session reduces the event against the snapshot it has,     *)
(* creates the directories of an Add itself, and hands a proposal to the   *)
(* actor; the answer is rendered to an fzf action that changes bindings,   *)
(* search, prompt, header and list.  A callback can give up on its request *)
(* while the session works on; the next key then meets the earlier event   *)
(* half done.  The copy picker has no coordinator in between: for the      *)
(* directory picker see InitialEnrichment, for the actor SessionActor.     *)
(***************************************************************************)
EXTENDS Naturals, Sequences, FiniteSets, SequencesExt

CONSTANTS
    Calls,      \* slots for events in flight
    None,
    Names,      \* names of directories
    Queries,    \* what is typed: sequences of path components
    FileName,   \* the one plain file, at the root
    MaxPresses, \* events in all
    MaxLate,    \* events after one that a callback has given up on
    MaxMarks,   \* marked candidates
    Markable,   \* the records that are marked, by their displays
    MaxLosses   \* events a callback gives up on

(* Names, the parent, and what is left of a query with a slash or a tilde  *)
(* put behind it.                                                          *)
Components == Names \cup {FileName, "..", "?"}
Paths == Seq(Components)

(* The records . and .. and those of directories and files.  A record is   *)
(* looked up by all that fzf got of it: two of one path are two records.   *)
Candidates == [display : {".", "..", "name"}, path : Paths]

ASSUME EventsAssumption ==
    /\ IsFiniteSet(Calls) /\ None \notin Calls \cup Paths \cup Candidates
    /\ Names # {} /\ FileName \notin Names
    /\ Queries \subseteq Paths /\ IsFiniteSet(Queries)
    /\ {MaxPresses, MaxLate, MaxMarks, MaxLosses} \subseteq Nat

VARIABLES
    current,    \* the actor's snapshot
    nextID,     \* Actor.nextID
    pending,    \* the call whose generation is being built
    retiring,   \* it has been cancelled
    replacement,\* the call that replaces it
    cleaning,   \* the call whose directories the actor is removing
    fs,         \* the directories that exist
    call,       \* the events in flight
    ui,         \* fzf
    outcome,    \* what the picker returns
    keys,       \* the events that are left to the user
    losses,
    kept        \* history: the directories made by Adds that were published

actorVars == <<current, nextID, pending, retiring, replacement, cleaning>>
vars == <<actorVars, fs, call, ui, outcome, keys, losses, kept>>

Modes == {"insert", "normal", "add"}
Root == <<>>
Home == <<>>
Parent(loc) == IF loc = Root THEN Root ELSE Front(loc)
Junk == <<"?">>  \* a query with a slash or a tilde put behind it

File == <<FileName>>
Children(d) == {e \in fs \cup {File} : e # Root /\ Parent(e) = d}

Candidate(d, p) == [display |-> d, path |-> p]

(* The candidates of a location: ordinaryRootRecords, then what is in it.  *)
Listing(loc) ==
    {Candidate(".", loc), Candidate("..", Parent(loc))}
        \cup {Candidate("name", e) : e \in Children(loc)}

IsFile(r) == r.path = File

NoEffect ==
    [rebind |-> "", prompt |-> "", header |-> None, clearQuery |-> FALSE, clearMulti |-> FALSE,
     reload |-> 0, restore |-> 0, put |-> FALSE, invalid |-> FALSE, finish |-> "",
     ignore |-> FALSE]

Idle ==
    [at |-> "idle", op |-> "", query |-> <<>>, item |-> None, base |-> 0, state |-> None,
     build |-> None, target |-> Root, todo |-> <<>>, created |-> <<>>, effect |-> NoEffect,
     ctxDone |-> FALSE]

(* modePrompt *)
Prompt(mode, addError) == IF addError THEN "add error" ELSE mode

(* The keys that are bound in a mode: rebind and unbind of action.go leave *)
(* exactly these, whatever was bound before.                               *)
BoundIn(mode) ==
    CASE mode = "insert" -> {"navigation"}
      [] mode = "normal" -> {"navigation", "normal"}
      [] mode = "add" -> {}

Init ==
    /\ fs = {Root} \cup {<<n>> : n \in {CHOOSE n \in Names : TRUE}}
    /\ current = [gen |-> 1, mode |-> "insert", addError |-> FALSE, loc |-> Root,
                  records |-> Listing(Root)]
    /\ nextID = 1
    /\ pending = None /\ retiring = FALSE /\ replacement = None /\ cleaning = None
    /\ call = [c \in Calls |-> Idle]
    /\ ui = [bound |-> BoundIn("insert"), search |-> TRUE, prompt |-> "insert",
             header |-> Root, armed |-> FALSE, view |-> 1, records |-> Listing(Root),
             selected |-> {}, query |-> <<>>, busy |-> None, load |-> 0, exit |-> ""]
    /\ outcome = "none"
    /\ keys = MaxPresses /\ losses = 0
    /\ kept = {}

-----------------------------------------------------------------------------
(* Reduce: what an event means in a snapshot.                              *)

State(mode, addError, loc) == [mode |-> mode, addError |-> addError, loc |-> loc]

Proposes(state, build, effect) ==
    [kind |-> "proposal", state |-> state, build |-> build, effect |-> effect]
Refuses == [kind |-> "error"]
Adds == [kind |-> "add"]
Effects(effect) ==
    Proposes(State(current.mode, current.addError, current.loc), None, effect)

(* modeEffect; search is off in normal mode only. *)
ModeEffect(mode, clearQuery, restore) ==
    [NoEffect EXCEPT !.rebind = mode, !.prompt = Prompt(mode, FALSE),
                     !.clearQuery = clearQuery, !.restore = restore]

(* A mutation: a change of mode leaves the list as it is. *)
SetModeNoRestore(mode, clearQuery) ==
    Proposes(State(mode, FALSE, current.loc), None, ModeEffect(mode, clearQuery, 0))

(* setMode *)
SetMode(mode, clearQuery) ==
    Proposes(State(mode, FALSE, current.loc), None, ModeEffect(mode, clearQuery, current.gen))

(* A mutation: navigation keeps the marks of the list it leaves. *)
SetNavigationKeepsMarks(target) ==
    LET mode == IF current.mode = "add" THEN "normal" ELSE current.mode
    IN Proposes(State(mode, FALSE, target), target,
                [ModeEffect(mode, TRUE, 0) EXCEPT !.header = target])

(* setNavigationUnchecked *)
SetNavigation(target) ==
    LET mode == IF current.mode = "add" THEN "normal" ELSE current.mode
    IN Proposes(State(mode, FALSE, target), target,
                [ModeEffect(mode, TRUE, 0) EXCEPT !.header = target, !.clearMulti = TRUE])

(* addErrorProposal, for a snapshot in add mode *)
AddError(loc) ==
    Proposes(State("add", TRUE, loc), None, [NoEffect EXCEPT !.prompt = Prompt("add", TRUE)])

Ignores == Effects([NoEffect EXCEPT !.ignore = TRUE])
Puts == Effects([NoEffect EXCEPT !.put = TRUE])

(* resolveNavigationRecord, canNavigate *)
Forward(item) ==
    IF current.mode = "add" THEN Ignores
    ELSE IF item = None \/ item \notin current.records \/ IsFile(item) THEN Refuses
    ELSE SetNavigation(item.path)

(* exactImmediateChild and what is around it. *)
Slash(query) ==
    CASE current.mode = "add" -> Puts
      [] current.mode # "add" /\ query = <<>> -> SetNavigation(Root)
      [] current.mode = "normal" /\ query # <<>> -> Ignores
      [] current.mode = "insert" /\ query = <<"..">> -> SetNavigation(Parent(current.loc))
      [] OTHER -> LET child == Candidate("name", current.loc \o query)
                  IN  IF Len(query) = 1 /\ child \in current.records /\ ~IsFile(child)
                      THEN SetNavigation(child.path)
                      ELSE Effects([NoEffect EXCEPT !.put = TRUE, !.invalid = TRUE])

HomeKey(query) ==
    CASE current.mode = "add" \/ (current.mode = "insert" /\ query # <<>>) -> Puts
      [] current.mode = "normal" /\ query # <<>> -> Ignores
      [] OTHER -> SetNavigation(Home)

Escape ==
    CASE current.mode = "insert" -> SetMode("normal", FALSE)
      [] current.mode = "normal" -> Effects([NoEffect EXCEPT !.finish = "abort"])
      [] current.mode = "add" -> SetMode("normal", TRUE)

(* ValidateAddQuery refuses an empty query and "..". *)
ValidAddQuery(query) == query # <<>> /\ ".." \notin ToSet(query)

(* reduceEnter *)
Enter(query, item) ==
    IF current.mode = "add"
    THEN IF ValidAddQuery(query) THEN Adds ELSE AddError(current.loc)
    ELSE IF item # None /\ item \notin current.records THEN Refuses
    ELSE Effects([NoEffect EXCEPT !.finish = "accept"])

Reduce(op, query, item) ==
    CASE op = "insert" -> IF current.mode = "normal" THEN SetMode("insert", FALSE) ELSE Refuses
      [] op = "add" -> IF current.mode = "normal" THEN SetMode("add", TRUE) ELSE Refuses
      [] op = "escape" -> Escape
      [] op = "forward" -> Forward(item)
      [] op = "parent" -> IF current.mode = "add" THEN Ignores
                          ELSE SetNavigation(Parent(current.loc))
      [] op = "slash" -> Slash(query)
      [] op = "home" -> HomeKey(query)
      [] op = "enter" -> Enter(query, item)
      [] op = "restore" -> Effects([NoEffect EXCEPT !.restore = current.gen])

-----------------------------------------------------------------------------
(* Keys.                                                                   *)

(* A slot for the next event; the slots are alike. *)
Free == CHOOSE c \in Calls : call[c].at = "idle"
Fires(op, item) ==
    /\ \E c \in Calls : call[c].at = "idle"
    /\ call' = [call EXCEPT ![Free] = [Idle EXCEPT !.at = "asked", !.op = op,
                                          !.query = ui.query, !.item = item]]
    /\ keys' = keys - 1

(* fzf takes no key while it waits for a callback or for a list; the user  *)
(* touches none when no event is left.                                     *)
Attentive == ui.busy = None /\ ui.load = 0 /\ ui.exit = "" /\ keys > 0

(* The keys of the opcodes, by the group that binds them. *)
GroupOf(op) ==
    CASE op \in {"insert", "add"} -> {"normal"}
      [] op \in {"forward", "parent", "slash", "home"} -> {"navigation"}
      [] op \in {"enter", "escape"} -> {}

(* A bound key runs the callback with the query and the item under the     *)
(* cursor (none when nothing matches the query), which only these two read. *)
Press(op, item) ==
    /\ Attentive
    /\ GroupOf(op) \subseteq ui.bound
    /\ IF op \in {"forward", "enter"}
       THEN item # None \/ ui.records = {} \/ ui.query # <<>>
       ELSE item = None
    /\ Fires(op, item)
    /\ ui' = [ui EXCEPT !.busy = Free]
    /\ UNCHANGED <<actorVars, fs, outcome, losses, kept>>

(* Editing the query where the letters are not bound.  While "change" is   *)
(* bound, the edit is an event too.                                        *)
Type(query) ==
    /\ Attentive
    /\ "normal" \notin ui.bound /\ query # ui.query
    /\ IF ui.armed
       THEN /\ Fires("restore", None)
            /\ ui' = [ui EXCEPT !.query = query, !.busy = Free]
       ELSE /\ ui' = [ui EXCEPT !.query = query]
            /\ UNCHANGED <<call, keys>>
    /\ UNCHANGED <<actorVars, fs, outcome, losses, kept>>

(* space *)
Toggle(item) ==
    /\ Attentive
    /\ "normal" \in ui.bound
    /\ item.display \in Markable
    /\ item \in ui.selected \/ Cardinality(ui.selected) < MaxMarks
    /\ ui' = [ui EXCEPT !.selected = SymDiff(@, {item})]
    /\ UNCHANGED <<actorVars, fs, call, outcome, keys, losses, kept>>

(* q *)
Quit ==
    /\ Attentive
    /\ "normal" \in ui.bound
    /\ ui' = [ui EXCEPT !.exit = "abort"]
    /\ UNCHANGED <<actorVars, fs, call, outcome, keys, losses, kept>>

-----------------------------------------------------------------------------
(* Handle.                                                                 *)

(* The actor is in its select: not removing directories for a call it has  *)
(* refused, and not about to start a replacement.                          *)
Serving == cleaning = None /\ ~(pending = None /\ replacement # None)

(* The answer of a call; without an effect it failed, and fzf goes on.     *)
Answered(r, effect) ==
    [Idle EXCEPT !.at = "answered", !.effect = effect,
                 !.item = IF effect.finish = "accept" THEN r.item ELSE None]

Sends(r, p) ==
    [r EXCEPT !.at = "sending", !.op = "", !.query = <<>>, !.target = Root,
              !.state = p.state, !.build = p.build, !.effect = p.effect]

Handle(c) ==
    LET r == Reduce(call[c].op, call[c].query, call[c].item)
        based == [call[c] EXCEPT !.base = current.gen, !.target = current.loc,
                                 !.state = State(current.mode, current.addError, current.loc)]
    IN  /\ call[c].at = "asked" /\ Serving
        /\ call' = [call EXCEPT ![c] =
                IF call[c].ctxDone \/ r.kind = "error" THEN Answered(call[c], NoEffect)
                ELSE IF r.kind = "proposal" THEN Sends(based, r)
                ELSE [based EXCEPT !.at = "ancestry", !.todo = call[c].query, !.query = <<>>]]
        /\ UNCHANGED <<actorVars, fs, ui, outcome, keys, losses, kept>>

(* CreateDirectoryTree and Handle's reaction: each system call a step.     *)
Undoes(r, next) == [r EXCEPT !.at = "undo", !.op = next]

Ancestry(c) ==
    /\ call[c].at = "ancestry"
    /\ call' = [call EXCEPT ![c] = IF \A n \in 0..Len(call[c].target) :
                                         SubSeq(call[c].target, 1, n) \in fs
                                   THEN [@ EXCEPT !.at = "look"]
                                   ELSE Undoes(@, "add error")]
    /\ UNCHANGED <<actorVars, fs, ui, outcome, keys, losses, kept>>

Step(r) == Append(r.target, Head(r.todo))
Entered(r) == [r EXCEPT !.at = "look", !.target = Step(r), !.todo = Tail(r.todo)]

(* A mutation: a directory that is already there counts as created. *)
LookClaims(c) ==
    /\ call[c].at = "look" /\ call[c].todo # <<>>
    /\ call' = [call EXCEPT ![c] =
            IF Step(@) \in fs
            THEN [Entered(@) EXCEPT !.created = Append(call[c].created, Step(call[c]))]
            ELSE IF Step(@) = File THEN Undoes(@, "add error")
            ELSE [@ EXCEPT !.at = "make"]]
    /\ UNCHANGED <<actorVars, fs, ui, outcome, keys, losses, kept>>

(* Lstat *)
Look(c) ==
    /\ call[c].at = "look" /\ call[c].todo # <<>>
    /\ call' = [call EXCEPT ![c] =
            IF Step(@) \in fs THEN Entered(@)
            ELSE IF Step(@) = File THEN Undoes(@, "add error")
            ELSE [@ EXCEPT !.at = "make"]]
    /\ UNCHANGED <<actorVars, fs, ui, outcome, keys, losses, kept>>

(* Mkdir; it fails when another call has made the directory or removed     *)
(* its parent since Lstat.                                                 *)
Make(c) ==
    /\ call[c].at = "make"
    /\ IF Step(call[c]) \notin fs /\ call[c].target \in fs
       THEN /\ fs' = fs \cup {Step(call[c])}
            /\ call' = [call EXCEPT ![c] =
                    [Entered(@) EXCEPT !.created = Append(call[c].created, Step(call[c]))]]
       ELSE /\ call' = [call EXCEPT ![c] = Undoes(@, "add error")]
            /\ UNCHANGED fs
    /\ UNCHANGED <<actorVars, ui, outcome, keys, losses, kept>>

(* The tree is there: the proposal, unless the request is gone. *)
Made(c) ==
    /\ call[c].at = "look" /\ call[c].todo = <<>>
    /\ call' = [call EXCEPT ![c] =
            IF @.ctxDone THEN Undoes(@, "failed")
            ELSE Sends(@, Proposes(State("normal", FALSE, @.target), @.target,
                                   [ModeEffect("normal", TRUE, 0) EXCEPT
                                       !.header = call[c].target, !.clearMulti = TRUE]))]
    /\ UNCHANGED <<actorVars, fs, ui, outcome, keys, losses, kept>>

(* Rollback: one Remove, which leaves a directory that is not empty.       *)
Removes(c) ==
    /\ fs' = fs \ {d \in {Last(call[c].created)} : Children(d) = {}}
    /\ call' = [call EXCEPT ![c].created = Front(@)]

Undo(c) ==
    /\ call[c].at = "undo"
    /\ IF call[c].created # <<>> THEN Removes(c)
       ELSE /\ call' = [call EXCEPT ![c] =
                    IF @.op = "add error" THEN Sends(@, AddError(@.state.loc))
                    ELSE Answered(@, NoEffect)]
            /\ UNCHANGED fs
    /\ UNCHANGED <<actorVars, ui, outcome, keys, losses, kept>>

-----------------------------------------------------------------------------
(* The actor.                                                              *)

(* replyApplyError *)
Refuse(c) ==
    IF call[c].created = <<>>
    THEN call' = [call EXCEPT ![c] = Answered(@, NoEffect)] /\ UNCHANGED cleaning
    ELSE call' = [call EXCEPT ![c].at = "removing"] /\ cleaning' = c

Start(c) ==
    IF call[c].ctxDone \/ call[c].base # current.gen
    THEN Refuse(c) /\ UNCHANGED <<current, nextID, pending, retiring>>
    ELSE IF call[c].build = None
    THEN /\ current' = [current EXCEPT !.mode = call[c].state.mode,
                            !.addError = call[c].state.addError, !.loc = call[c].state.loc]
         /\ call' = [call EXCEPT ![c] = Answered(@, @.effect)]
         /\ UNCHANGED <<nextID, pending, retiring, cleaning>>
    ELSE /\ nextID' = nextID + 1
         /\ pending' = c /\ retiring' = FALSE
         /\ call' = [call EXCEPT ![c].at = "held"]
         /\ UNCHANGED <<current, cleaning>>

(* The actor takes a proposal. *)
Submit(c) ==
    /\ call[c].at = "sending" /\ Serving
    /\ IF pending = None THEN Start(c) /\ UNCHANGED replacement
       ELSE IF call[c].ctxDone \/ call[c].base # current.gen \/ retiring \/ replacement # None
       THEN Refuse(c) /\ UNCHANGED <<current, nextID, pending, retiring, replacement>>
       ELSE /\ retiring' = TRUE /\ replacement' = c
            /\ call' = [call EXCEPT ![c].at = "held"]
            /\ UNCHANGED <<current, nextID, pending, cleaning>>
    /\ UNCHANGED <<fs, ui, outcome, keys, losses, kept>>

(* enqueue gives up instead, and Apply removes the directories itself.     *)
Withdraw(c) ==
    /\ call[c].at = "sending" /\ call[c].ctxDone
    /\ call' = [call EXCEPT ![c] = Undoes(@, "failed")]
    /\ UNCHANGED <<actorVars, fs, ui, outcome, keys, losses, kept>>

StartReplacement ==
    /\ pending = None /\ replacement # None /\ cleaning = None
    /\ Start(replacement)
    /\ replacement' = None
    /\ UNCHANGED <<fs, ui, outcome, keys, losses, kept>>

CallerDone ==
    /\ Serving /\ pending # None /\ ~retiring /\ call[pending].ctxDone
    /\ retiring' = TRUE
    /\ UNCHANGED <<current, nextID, pending, replacement, cleaning, fs, call, ui, outcome,
                   keys, losses, kept>>

(* The completion of a build is received.  The generator fails when the    *)
(* location is gone, and may fail for reasons of its own: the directory    *)
(* may not be read, or somebody else removes it.                           *)
Complete ==
    LET r == call[pending]
    IN \E read \in BOOLEAN :
        LET ok == ~retiring /\ ~r.ctxDone /\ read /\ r.base = current.gen
        IN
        /\ Serving /\ pending # None
        /\ read => r.build \in fs
        /\ IF ~ok THEN Refuse(pending) /\ UNCHANGED <<current, kept>>
           ELSE /\ current' = [gen |-> nextID, mode |-> r.state.mode,
                               addError |-> r.state.addError, loc |-> r.state.loc,
                               records |-> Listing(r.build)]
                /\ call' = [call EXCEPT ![pending] =
                                Answered(r, [r.effect EXCEPT !.reload = nextID])]
                /\ kept' = kept \cup ToSet(r.created)
                /\ UNCHANGED cleaning
        /\ pending' = None /\ retiring' = FALSE
        /\ UNCHANGED <<nextID, replacement, fs, ui, outcome, keys, losses>>

(* The actor's own rollback, during which it serves nobody. *)
Clean ==
    /\ cleaning # None
    /\ IF call[cleaning].created # <<>> THEN Removes(cleaning) /\ UNCHANGED cleaning
       ELSE /\ call' = [call EXCEPT ![cleaning] = Answered(@, NoEffect)]
            /\ cleaning' = None
            /\ UNCHANGED fs
    /\ UNCHANGED <<current, nextID, pending, retiring, replacement, ui, outcome, keys,
                   losses, kept>>

-----------------------------------------------------------------------------
(* The callback and fzf.                                                   *)

(* The callback gives up on its request or is killed; fzf goes on.         *)
GiveUp ==
    /\ ui.busy # None /\ losses < MaxLosses
    /\ ui' = [ui EXCEPT !.busy = None]
    /\ losses' = losses + 1
    /\ keys' = IF keys > MaxLate THEN MaxLate ELSE keys
    /\ UNCHANGED <<actorVars, fs, call, outcome, kept>>

(* The server learns of it sooner or later. *)
Cancel(c) ==
    /\ call[c].at \notin {"idle", "answered"} /\ ui.busy # c /\ ~call[c].ctxDone
    /\ call' = [call EXCEPT ![c].ctxDone = TRUE]
    /\ UNCHANGED <<actorVars, fs, ui, outcome, keys, losses, kept>>

(* renderEffect, carried out by fzf. *)
Rendered(e, item) ==
    LET lists == e.reload + e.restore
    IN  [ui EXCEPT
            !.busy = None,
            !.bound = IF e.rebind # "" THEN BoundIn(e.rebind) ELSE @,
            !.search = IF e.rebind # "" THEN e.rebind # "normal" ELSE @,
            !.prompt = IF e.prompt # "" THEN e.prompt ELSE @,
            !.header = IF e.header # None THEN e.header ELSE @,
            !.load = lists,
            !.armed = e.invalid \/ (@ /\ lists = 0),
            !.view = IF e.invalid THEN 0 ELSE @,
            !.records = IF e.invalid THEN {} ELSE @,
            !.query = IF e.put THEN Junk ELSE IF e.clearQuery THEN <<>> ELSE @,
            !.exit = e.finish,
            !.selected = IF e.clearMulti THEN {}
                         ELSE IF e.finish = "accept" /\ @ = {} THEN {item} \ {None}
                         ELSE @]

(* Mutation: the answer of a call fzf no longer waits for is discarded     *)
(* without the callback telling fzf.                                       *)
DeliverOnlyEffects(c) ==
    /\ call[c].at = "answered" /\ call[c].effect # NoEffect
    /\ ui' = IF ui.busy = c THEN Rendered(call[c].effect, call[c].item) ELSE ui
    /\ call' = [call EXCEPT ![c] = Idle]
    /\ UNCHANGED <<actorVars, fs, outcome, keys, losses, kept>>

(* dispatchEventAction; an effect that both reloads and restores is an     *)
(* error and nothing is printed.                                           *)
Deliver(c) ==
    /\ call[c].at = "answered"
    /\ ui' = IF ui.busy # c THEN ui
             ELSE IF call[c].effect.reload # 0 /\ call[c].effect.restore # 0
             THEN [ui EXCEPT !.busy = None]
             ELSE Rendered(call[c].effect, call[c].item)
    /\ call' = [call EXCEPT ![c] = Idle]
    /\ UNCHANGED <<actorVars, fs, outcome, keys, losses, kept>>

(* LoadGeneration; an error leaves fzf an empty list.  Whether the marks   *)
(* survive a reload is fzf's affair.                                       *)
Load ==
    /\ ui.load # 0 /\ Serving
    /\ \E marks \in {ui.selected, {}} :
           ui' = [ui EXCEPT !.load = 0, !.selected = marks,
                     !.view = IF ui.load = current.gen THEN current.gen ELSE 0,
                     !.records = IF ui.load = current.gen THEN current.records ELSE {}]
    /\ UNCHANGED <<actorVars, fs, call, outcome, keys, losses, kept>>

(* ValidateCP looks every accepted line up in the current snapshot. *)
ValidateCP(selected) ==
    IF selected \subseteq current.records THEN "accepted" ELSE "unknown selection"

(* ParseOutput, and the validation of what was accepted. *)
Finish ==
    /\ ui.exit # "" /\ outcome = "none" /\ Serving
    /\ outcome' = IF ui.exit = "abort" THEN "aborted"
                  ELSE IF ui.selected = {} THEN "no match"
                  ELSE ValidateCP(ui.selected)
    /\ UNCHANGED <<actorVars, fs, call, ui, keys, losses, kept>>

-----------------------------------------------------------------------------

Session(c) ==
    \/ Handle(c) \/ Ancestry(c) \/ Look(c) \/ Make(c) \/ Made(c) \/ Undo(c)
    \/ Submit(c) \/ Deliver(c)

Progress ==
    \/ \E c \in Calls : Session(c)
    \/ StartReplacement \/ CallerDone \/ Complete \/ Clean \/ Load \/ Finish

Opcodes == {"insert", "add", "escape", "forward", "parent", "slash", "home", "enter"}

User ==
    \/ \E op \in Opcodes, item \in ui.records \cup {None} : Press(op, item)
    \/ \E query \in Queries : Type(query)
    \/ \E item \in ui.records : Toggle(item)
    \/ Quit

Next ==
    \/ Progress \/ User
    \/ GiveUp
    \/ \E c \in Calls : Cancel(c) \/ Withdraw(c)

Spec == Init /\ [][Next]_vars

(* Every goroutine of the session and the actor is scheduled, callbacks    *)
(* and fzf run; the user, a callback that gives up and the choice of       *)
(* enqueue's select are left free.                                         *)
FairSpec == Spec /\ WF_vars(Progress)

-----------------------------------------------------------------------------

EffectRecords ==
    [rebind : Modes \cup {""}, prompt : Modes \cup {"", "add error"},
     header : Paths \cup {None}, clearQuery : BOOLEAN, clearMulti : BOOLEAN,
     reload : Nat, restore : Nat, put : BOOLEAN, invalid : BOOLEAN,
     finish : {"", "abort", "accept"}, ignore : BOOLEAN]

States == [mode : Modes, addError : BOOLEAN, loc : Paths]

CallRecords ==
    [at : {"idle", "asked", "ancestry", "look", "make", "undo", "sending", "held", "removing",
           "answered"},
     op : Opcodes \cup {"", "restore", "add error", "failed"},
     query : Paths, item : Candidates \cup {None}, base : Nat, state : States \cup {None},
     build : Paths \cup {None}, target : Paths, todo : Paths, created : Seq(Paths),
     effect : EffectRecords, ctxDone : BOOLEAN]

UiRecords ==
    [bound : SUBSET {"navigation", "normal"}, search : BOOLEAN,
     prompt : Modes \cup {"add error"}, header : Paths, armed : BOOLEAN, view : Nat,
     records : SUBSET Candidates, selected : SUBSET Candidates, query : Paths,
     busy : Calls \cup {None}, load : Nat, exit : {"", "abort", "accept"}]

TypeOK ==
    /\ current \in [gen : Nat \ {0}, mode : Modes, addError : BOOLEAN, loc : Paths,
                    records : SUBSET Candidates]
    /\ nextID \in Nat /\ current.gen <= nextID
    /\ pending \in Calls \cup {None} /\ replacement \in Calls \cup {None}
    /\ cleaning \in Calls \cup {None} /\ retiring \in BOOLEAN
    /\ fs \subseteq Paths /\ kept \subseteq Paths
    /\ call \in [Calls -> CallRecords]
    /\ \A c \in Calls :
          /\ call[c].at = "asked" => call[c].op \in Opcodes \cup {"restore"}
          /\ call[c].at = "make" => call[c].todo # <<>>
          /\ call[c].at \notin {"idle", "asked", "answered"} => call[c].state \in States
    /\ ui \in UiRecords
    /\ outcome \in {"none", "aborted", "no match", "accepted", "unknown selection"}
    /\ keys \in 0..MaxPresses /\ losses \in 0..MaxLosses

Quiet == ui.busy = None /\ ui.load = 0 /\ \A c \in Calls : call[c].at = "idle"

(* While no callback has been lost, what fzf shows and binds is what the   *)
(* session believes: after any sequence of events, rejected paths, Adds    *)
(* that fail (on an empty query, on the file's name or because the new     *)
(* directory cannot be read) and navigation into a directory that cannot   *)
(* be read or is gone included, the bound keys, search, prompt, header and *)
(* list are those of the current snapshot; only a rejected path shows an   *)
(* empty list, in insert mode, where the next edit restores it             *)
(* (renderEffect, Reduce).                                                 *)
Agreement ==
    losses = 0 /\ Quiet =>
        /\ ui.bound = BoundIn(current.mode)
        /\ ui.search = (current.mode # "normal")
        /\ ui.prompt = Prompt(current.mode, current.addError)
        /\ ui.header = current.loc
        /\ IF ui.armed THEN ui.view = 0 /\ current.mode = "insert"
           ELSE ui.view = current.gen /\ ui.records = current.records

(* What the user accepts is on the current list: while no callback has     *)
(* been lost, marks, moves through the tree and mode changes never lead to *)
(* an acceptance that ValidateCP refuses as unknown.                       *)
AcceptanceIsHonoured == losses = 0 => outcome # "unknown selection"

(* Rolling back an Add removes nothing another Add has made: the           *)
(* directories of a published Add stay, whatever Adds overlapped with it   *)
(* and were refused, cancelled or superseded (CreateDirectoryTree,         *)
(* Rollback).                                                              *)
PublishedAddsKeepTheirDirectories == kept \subseteq fs

(* fzf is never left waiting: every event, its list and every rollback     *)
(* come to an end.                                                         *)
EveryPressEnds == []<>Quiet

====
