------------------------ MODULE PickerEvents_proofs ------------------------
(***************************************************************************)
(* Proofs about PickerEvents, for any number of events, any names and any  *)
(* queries.                                                                *)
(*                                                                         *)
(* TreeInv holds whatever callbacks give up: types, the calls the actor    *)
(* holds, and whose every directory of an Add is.  SyncInv holds while no  *)
(* callback has been lost: one event is under way at a time, and at every  *)
(* step of it fzf shows the snapshot it started from, or will once the     *)
(* effect that is under way has landed.  Its parts follow an effect from   *)
(* Reduce (Fits) through the actor's answer (Lands) to the screen (Rests). *)
(***************************************************************************)
EXTENDS PickerEvents, TLAPS, FiniteSetTheorems

(* Paths, and what Parent and joining make of them.                        *)
LEMMA PathFacts ==
  /\ Root \in Paths /\ Home \in Paths /\ Junk \in Paths /\ File \in Paths /\ <<>> \in Paths
  /\ \A p \in Paths : Parent(p) \in Paths
  /\ \A n \in Names : <<n>> \in Paths
  /\ None \notin Paths /\ None \notin Calls /\ None \notin Candidates
  /\ \A p \in Paths, q \in Paths : p \o q \in Paths
PROOF
  <1>1. \A p \in Paths : Parent(p) \in Paths
    BY DEF Parent, Root, Front, Paths
  <1> QED BY <1>1, EventsAssumption DEF Root, Home, Junk, File, Paths, Components

(* An empty effect and an idle call have their types.                      *)
LEMMA Constants ==
  /\ NoEffect \in EffectRecords
  /\ Idle \in CallRecords
PROOF
  <1>1. NoEffect \in EffectRecords
    BY DEF NoEffect, EffectRecords, Modes
  <1> QED BY <1>1, PathFacts DEF Idle, CallRecords, Root

(* An answered call carries the effect, and no directories.                *)
LEMMA AnsweredFields ==
  ASSUME NEW r \in CallRecords, NEW e \in EffectRecords
  PROVE  /\ Answered(r, e) \in CallRecords
         /\ Answered(r, e).at = "answered" /\ Answered(r, e).effect = e
         /\ Answered(r, e).created = <<>> /\ ~Answered(r, e).ctxDone
         /\ Answered(r, e).item = IF e.finish = "accept" THEN r.item ELSE None
PROOF
  <1> DEFINE i == IF e.finish = "accept" THEN r.item ELSE None
  <1>1. i \in Candidates \cup {None}
    BY DEF CallRecords
  <1>2. Answered(r, e) = [Idle EXCEPT !.at = "answered", !.effect = e, !.item = i]
    BY DEF Answered
  <1> HIDE DEF i
  <1>3. Idle \in CallRecords /\ Idle.created = <<>> /\ Idle.ctxDone = FALSE
    BY Constants DEF Idle
  <1> QED BY <1>1, <1>2, <1>3, ZenonT(30) DEF CallRecords, i

(* A proposal on its way to the actor carries its parts.                   *)
LEMMA SendsFields ==
  ASSUME NEW r \in CallRecords, NEW s \in States, NEW b \in Paths \cup {None}, NEW e \in EffectRecords
  PROVE  LET q == Sends(r, Proposes(s, b, e))
         IN  /\ q \in CallRecords
             /\ q.at = "sending" /\ q.state = s /\ q.build = b /\ q.effect = e
             /\ q.item = r.item /\ q.base = r.base /\ q.created = r.created
             /\ (q.ctxDone <=> r.ctxDone)
PROOF
  <1>1. Root \in Paths /\ <<>> \in Paths
    BY PathFacts
  <1> QED BY <1>1, ZenonT(30) DEF Sends, Proposes, CallRecords

(* fzf, in state u, shows the mode, the prompt and the location of a       *)
(* snapshot s, and its records or a rejected path.                         *)
ShowsMode(u, s) ==
    /\ u.bound = BoundIn(s.mode)
    /\ u.search <=> (s.mode # "normal")
    /\ u.prompt = Prompt(s.mode, s.addError)
    /\ u.header = s.loc

(* It shows the records of s, or an empty list after a rejected path.      *)
ShowsList(u, s) ==
    IF u.armed THEN u.view = 0 /\ s.mode = "insert"
    ELSE u.view = s.gen /\ u.records = s.records

(* An effect e fits a proposal to go from snapshot s to state t when it    *)
(* shows everything in which the two differ, and a new list clears the     *)
(* marks.                                                                  *)
Fits(t, b, e, item, s) ==
    /\ IF e.rebind = "" THEN t.mode = s.mode ELSE e.rebind = t.mode
    /\ IF e.prompt = "" THEN t.mode = s.mode /\ (t.addError <=> s.addError)
       ELSE e.prompt = Prompt(t.mode, t.addError)
    /\ IF e.header = None THEN t.loc = s.loc ELSE e.header = t.loc
    /\ e.reload = 0 /\ e.restore \in {0, s.gen}
    /\ e.invalid => e.restore = 0 /\ t.mode = "insert"
    /\ b = None /\ e.restore = 0 => t.mode = s.mode
    /\ b # None => e.restore = 0 /\ ~e.invalid /\ e.clearMulti /\ e.finish = ""
    /\ e.finish = "accept" => item \in s.records \cup {None}

(* The snapshot has its type.                                              *)
SnapshotOK ==
    current \in [gen : Nat \ {0}, mode : Modes, addError : BOOLEAN, loc : Paths,
                 records : SUBSET Candidates]

(* A proposal that is typed and fits.                                      *)
Fitting(p, item) ==
    /\ p = Proposes(p.state, p.build, p.effect)
    /\ p.state \in States /\ p.build \in Paths \cup {None} /\ p.effect \in EffectRecords
    /\ Fits(p.state, p.build, p.effect, item, current)

(* A proposal put together from typed parts that fit is fitting.           *)
LEMMA FittingIntro ==
  ASSUME NEW s \in States, NEW b \in Paths \cup {None}, NEW e \in EffectRecords, NEW item,
         Fits(s, b, e, item, current)
  PROVE  Fitting(Proposes(s, b, e), item)
  BY DEF Fitting, Proposes

(* setMode proposes a mode and an effect that shows it.                    *)
LEMMA SetModeFits ==
  ASSUME SnapshotOK, NEW m \in Modes, NEW q \in BOOLEAN, NEW item
  PROVE  Fitting(SetMode(m, q), item)
PROOF
  <1> DEFINE s == State(m, FALSE, current.loc)
             e == ModeEffect(m, q, current.gen)
  <1>1. current.gen \in Nat \ {0} /\ current.loc \in Paths
    BY DEF SnapshotOK
  <1>2. s \in States /\ s.mode = m /\ s.loc = current.loc /\ ~s.addError
    BY <1>1 DEF State, States
  <1>3. e \in EffectRecords /\ e.rebind = m /\ e.prompt = m /\ e.header = None /\ e.reload = 0
        /\ e.restore = current.gen /\ ~e.invalid /\ e.finish = ""
    BY <1>1 DEF ModeEffect, NoEffect, EffectRecords, Prompt, Modes
  <1>4. SetMode(m, q) = Proposes(s, None, e)
    BY DEF SetMode
  <1> HIDE DEF s, e
  <1>5. Fits(s, None, e, item, current)
    BY <1>1, <1>2, <1>3 DEF Fits, Prompt, Modes
  <1> QED BY <1>2, <1>3, <1>4, <1>5, FittingIntro

(* The effect of a navigation, field by field.                             *)
LEMMA NavigationEffect ==
  ASSUME NEW m \in Modes, NEW l \in Paths
  PROVE  LET e == [ModeEffect(m, TRUE, 0) EXCEPT !.header = l, !.clearMulti = TRUE]
         IN  /\ e \in EffectRecords
             /\ e.rebind = m /\ e.prompt = m /\ e.header = l /\ e.reload = 0 /\ e.restore = 0
             /\ ~e.invalid /\ e.clearMulti /\ e.finish = ""
  BY DEF ModeEffect, NoEffect, EffectRecords, Prompt, Modes

(* A navigation shows its mode and location and clears the marks.          *)
LEMMA NavigationFits ==
  ASSUME SnapshotOK, NEW m \in Modes, NEW l \in Paths, NEW item
  PROVE  Fitting(Proposes(State(m, FALSE, l), l,
                          [ModeEffect(m, TRUE, 0) EXCEPT !.header = l, !.clearMulti = TRUE]), item)
PROOF
  <1> DEFINE s == State(m, FALSE, l)
             e == [ModeEffect(m, TRUE, 0) EXCEPT !.header = l, !.clearMulti = TRUE]
  <1>1. s \in States /\ s.mode = m /\ s.loc = l /\ ~s.addError
    BY DEF State, States
  <1>2. e \in EffectRecords /\ e.rebind = m /\ e.prompt = m /\ e.header = l /\ e.reload = 0
        /\ e.restore = 0 /\ ~e.invalid /\ e.clearMulti /\ e.finish = ""
    BY NavigationEffect
  <1> HIDE DEF s, e
  <1>3. Fits(s, l, e, item, current)
    BY <1>1, <1>2, PathFacts DEF Fits, Prompt, Modes
  <1>4. Fitting(Proposes(s, l, e), item)
    BY <1>1, <1>2, <1>3, FittingIntro
  <1> QED BY <1>4 DEF s, e

(* The same for setNavigationUnchecked.                                    *)
LEMMA SetNavigationFits ==
  ASSUME SnapshotOK, NEW l \in Paths, NEW item
  PROVE  Fitting(SetNavigation(l), item)
PROOF
  <1> DEFINE m == IF current.mode = "add" THEN "normal" ELSE current.mode
  <1>1. m \in Modes
    BY DEF SnapshotOK, Modes
  <1>2. SetNavigation(l) = Proposes(State(m, FALSE, l), l,
                          [ModeEffect(m, TRUE, 0) EXCEPT !.header = l, !.clearMulti = TRUE])
    BY DEF SetNavigation
  <1> HIDE DEF m
  <1> QED BY <1>1, <1>2, NavigationFits

(* addErrorProposal, in add mode, shows the failed Add in the prompt.      *)
LEMMA AddErrorFits ==
  ASSUME SnapshotOK, current.mode = "add", NEW item
  PROVE  Fitting(AddError(current.loc), item)
PROOF
  <1> DEFINE s == State("add", TRUE, current.loc)
             e == [NoEffect EXCEPT !.prompt = Prompt("add", TRUE)]
  <1>1. s \in States /\ s.mode = "add" /\ s.loc = current.loc /\ s.addError
    BY DEF State, States, SnapshotOK, Modes
  <1>2. e \in EffectRecords /\ e.rebind = "" /\ e.prompt = "add error" /\ e.header = None
        /\ e.reload = 0 /\ e.restore = 0 /\ ~e.invalid /\ e.finish = ""
    BY DEF NoEffect, EffectRecords, Prompt, Modes
  <1>3. AddError(current.loc) = Proposes(s, None, e)
    BY DEF AddError
  <1> HIDE DEF s, e
  <1>4. Fits(s, None, e, item, current)
    BY <1>1, <1>2 DEF Fits, Prompt, Modes
  <1> QED BY <1>1, <1>2, <1>3, <1>4, FittingIntro

(* An effect without a change of state fits when it shows none.            *)
LEMMA EffectsFit ==
  ASSUME SnapshotOK, NEW item, NEW e \in EffectRecords,
         e.rebind = "", e.prompt = "", e.header = None, e.reload = 0,
         e.restore \in {0, current.gen},
         e.invalid => e.restore = 0 /\ current.mode = "insert",
         e.finish = "accept" => item \in current.records \cup {None}
  PROVE  Fitting(Effects(e), item)
PROOF
  <1> DEFINE s == State(current.mode, current.addError, current.loc)
  <1>1. current.mode \in Modes /\ current.addError \in BOOLEAN /\ current.loc \in Paths
    BY DEF SnapshotOK
  <1>2. s \in States /\ s.mode = current.mode /\ s.loc = current.loc
        /\ (s.addError <=> current.addError)
    <2>1. s \in States /\ s.mode = current.mode /\ s.loc = current.loc
      BY <1>1 DEF State, States
    <2>2. s.addError = current.addError
      BY Zenon DEF State
    <2> QED BY <2>1, <2>2
  <1>3. Effects(e) = Proposes(s, None, e)
    BY DEF Effects
  <1> HIDE DEF s
  <1>4. Fits(s, None, e, item, current)
    BY <1>2 DEF Fits
  <1> QED BY <1>2, <1>3, <1>4, FittingIntro

(* The effects that Reduce proposes without a change of state.             *)
LEMMA PlainEffectsFit ==
  ASSUME SnapshotOK, NEW item
  PROVE  /\ Fitting(Ignores, item) /\ Fitting(Puts, item)
         /\ Fitting(Effects([NoEffect EXCEPT !.finish = "abort"]), item)
         /\ Fitting(Effects([NoEffect EXCEPT !.restore = current.gen]), item)
         /\ current.mode = "insert" =>
                Fitting(Effects([NoEffect EXCEPT !.put = TRUE, !.invalid = TRUE]), item)
         /\ item \in current.records \cup {None} =>
                Fitting(Effects([NoEffect EXCEPT !.finish = "accept"]), item)
PROOF
  <1> DEFINE Plain(e) ==
        /\ e \in EffectRecords /\ e.rebind = "" /\ e.prompt = "" /\ e.header = None
        /\ e.reload = 0
  <1>a. ASSUME NEW e, Plain(e), e.restore \in {0, current.gen},
               e.invalid => e.restore = 0 /\ current.mode = "insert",
               e.finish = "accept" => item \in current.records \cup {None}
        PROVE  Fitting(Effects(e), item)
    BY <1>a, EffectsFit
  <1>1. Fitting(Ignores, item)
    <2> DEFINE e == [NoEffect EXCEPT !.ignore = TRUE]
    <2>1. Plain(e) /\ e.restore = 0 /\ ~e.invalid /\ e.finish = ""
      BY DEF NoEffect, EffectRecords
    <2> HIDE DEF e, Plain
    <2>2. Fitting(Effects(e), item)
      BY <2>1, <1>a
    <2> QED BY <2>2 DEF Ignores, e
  <1>2. Fitting(Puts, item)
    <2> DEFINE e == [NoEffect EXCEPT !.put = TRUE]
    <2>1. Plain(e) /\ e.restore = 0 /\ ~e.invalid /\ e.finish = ""
      BY DEF NoEffect, EffectRecords
    <2> HIDE DEF e, Plain
    <2>2. Fitting(Effects(e), item)
      BY <2>1, <1>a
    <2> QED BY <2>2 DEF Puts, e
  <1>3. Fitting(Effects([NoEffect EXCEPT !.finish = "abort"]), item)
    <2> DEFINE e == [NoEffect EXCEPT !.finish = "abort"]
    <2>1. Plain(e) /\ e.restore = 0 /\ ~e.invalid /\ e.finish = "abort"
      BY DEF NoEffect, EffectRecords
    <2> HIDE DEF e, Plain
    <2>2. Fitting(Effects(e), item)
      BY <2>1, <1>a
    <2> QED BY <2>2 DEF e
  <1>4. Fitting(Effects([NoEffect EXCEPT !.restore = current.gen]), item)
    <2> DEFINE e == [NoEffect EXCEPT !.restore = current.gen]
    <2>1. Plain(e) /\ e.restore = current.gen /\ ~e.invalid /\ e.finish = ""
      BY DEF NoEffect, EffectRecords, SnapshotOK
    <2> HIDE DEF e, Plain
    <2>2. Fitting(Effects(e), item)
      BY <2>1, <1>a
    <2> QED BY <2>2 DEF e
  <1>5. ASSUME current.mode = "insert"
        PROVE  Fitting(Effects([NoEffect EXCEPT !.put = TRUE, !.invalid = TRUE]), item)
    <2> DEFINE e == [NoEffect EXCEPT !.put = TRUE, !.invalid = TRUE]
    <2>1. Plain(e) /\ e.restore = 0 /\ e.finish = ""
      BY DEF NoEffect, EffectRecords
    <2> HIDE DEF e, Plain
    <2>2. Fitting(Effects(e), item)
      BY <2>1, <1>a, <1>5
    <2> QED BY <2>2 DEF e
  <1>6. ASSUME item \in current.records \cup {None}
        PROVE  Fitting(Effects([NoEffect EXCEPT !.finish = "accept"]), item)
    <2> DEFINE e == [NoEffect EXCEPT !.finish = "accept"]
    <2>1. Plain(e) /\ e.restore = 0 /\ ~e.invalid
      BY DEF NoEffect, EffectRecords
    <2> HIDE DEF e, Plain
    <2>2. Fitting(Effects(e), item)
      BY <2>1, <1>a, <1>6
    <2> QED BY <2>2 DEF e
  <1> QED BY <1>1, <1>2, <1>3, <1>4, <1>5, <1>6

(* Whatever an event means in a snapshot, its effect shows what it         *)
(* changes.                                                                *)
LEMMA ReduceFits ==
  ASSUME SnapshotOK, NEW op \in Opcodes \cup {"restore"}, NEW query \in Paths,
         NEW item \in Candidates \cup {None}
  PROVE  LET r == Reduce(op, query, item)
         IN  \/ Fitting(r, item) /\ r.kind = "proposal"
             \/ r.kind = "error"
             \/ r.kind = "add" /\ current.mode = "add"
PROOF
  <1> DEFINE Right(r) == \/ Fitting(r, item) /\ r.kind = "proposal"
                         \/ r.kind = "error"
                         \/ r.kind = "add" /\ current.mode = "add"
  <1>a. ASSUME NEW p, Fitting(p, item) PROVE Right(p)
    BY <1>a DEF Fitting, Proposes
  <1>b. Right(Refuses)
    BY DEF Refuses
  <1>c. current.mode = "add" => Right(Adds)
    BY DEF Adds
  <1>d. current.mode \in Modes /\ current.loc \in Paths /\ current.records \subseteq Candidates
    BY DEF SnapshotOK
  <1>e. /\ Fitting(Ignores, item) /\ Fitting(Puts, item)
        /\ Fitting(Effects([NoEffect EXCEPT !.finish = "abort"]), item)
        /\ Fitting(Effects([NoEffect EXCEPT !.restore = current.gen]), item)
        /\ current.mode = "insert" =>
               Fitting(Effects([NoEffect EXCEPT !.put = TRUE, !.invalid = TRUE]), item)
        /\ item \in current.records \cup {None} =>
               Fitting(Effects([NoEffect EXCEPT !.finish = "accept"]), item)
    BY PlainEffectsFit
  <1>f. /\ Fitting(SetMode("insert", FALSE), item) /\ Fitting(SetMode("normal", FALSE), item)
        /\ Fitting(SetMode("normal", TRUE), item) /\ Fitting(SetMode("add", TRUE), item)
    BY SetModeFits DEF Modes
  <1>g. \A l \in Paths : Fitting(SetNavigation(l), item)
    BY SetNavigationFits
  <1>h. current.mode = "add" => Fitting(AddError(current.loc), item)
    BY AddErrorFits
  <1> HIDE DEF Right
  <1>i. \A r \in Candidates : r.path \in Paths
    BY DEF Candidates
  <1>j. \A q \in Paths : Candidate("name", q).path = q
    BY DEF Candidate
  <1>1. Right(Forward(item))
    BY <1>a, <1>b, <1>d, <1>e, <1>g, <1>i, Zenon DEF Forward
  <1>2. Right(Slash(query))
    BY <1>a, <1>d, <1>e, <1>g, <1>j, PathFacts, Zenon DEF Slash, Modes
  <1>3. Right(HomeKey(query))
    BY <1>a, <1>e, <1>g, PathFacts, Zenon DEF HomeKey
  <1>4. Right(Escape)
    BY <1>a, <1>d, <1>e, <1>f, Zenon DEF Escape, Modes
  <1>5. Right(Enter(query, item))
    BY <1>a, <1>b, <1>c, <1>e, <1>h, Zenon DEF Enter
  <1>6. Right(IF current.mode = "normal" THEN SetMode("insert", FALSE) ELSE Refuses)
    BY <1>a, <1>b, <1>f, Zenon
  <1>7. Right(IF current.mode = "normal" THEN SetMode("add", TRUE) ELSE Refuses)
    BY <1>a, <1>b, <1>f, Zenon
  <1>8. Right(IF current.mode = "add" THEN Ignores ELSE SetNavigation(Parent(current.loc)))
    BY <1>a, <1>d, <1>e, <1>g, PathFacts, Zenon
  <1>9. Right(Effects([NoEffect EXCEPT !.restore = current.gen]))
    BY <1>a, <1>e, Zenon
  <1>10. Right(Reduce(op, query, item))
    BY <1>1, <1>2, <1>3, <1>4, <1>5, <1>6, <1>7, <1>8, <1>9, Zenon DEF Reduce, Opcodes
  <1> QED BY <1>10 DEF Right

-----------------------------------------------------------------------------

(* What a call has to carry where it is.                                   *)
InPlace(r) ==
    /\ r.at = "asked" => r.op \in Opcodes \cup {"restore"}
    /\ r.at = "make" => r.todo # <<>>
    /\ r.at \notin {"idle", "asked", "answered"} => r.state \in States

(* TypeOK, for the calls.                                                  *)
CallsOK ==
    /\ call \in [Calls -> CallRecords]
    /\ \A c \in Calls : InPlace(call[c])

(* What one call becomes.                                                  *)
Becomes(c, r) ==
    /\ r \in CallRecords /\ InPlace(r)
    /\ call' = [call EXCEPT ![c] = r]

(* One call changes and the calls keep their types.                        *)
LEMMA CallsStay ==
  ASSUME CallsOK, NEW c \in Calls, NEW r, Becomes(c, r)
  PROVE  /\ CallsOK'
         /\ call'[c] = r /\ \A d \in Calls : d # c => call'[d] = call[d]
  BY DEF CallsOK, Becomes

(* An event that is handled is based on the snapshot.                      *)
Based(r, b, l, s) == [r EXCEPT !.base = b, !.target = l, !.state = s]

(* The fields of a based event.                                            *)
LEMMA AskedFields ==
  ASSUME NEW r \in CallRecords, NEW b \in Nat, NEW l \in Paths, NEW s \in States
  PROVE  LET q == Based(r, b, l, s)
         IN  /\ q \in CallRecords /\ q.base = b /\ q.target = l /\ q.state = s
             /\ q.at = r.at /\ q.item = r.item /\ q.created = r.created /\ (q.ctxDone <=> r.ctxDone)
  BY DEF CallRecords, Based

(* The fields of a call that starts an Add.                                *)
LEMMA AncestryFields ==
  ASSUME NEW r \in CallRecords, NEW l \in Paths
  PROVE  LET q == [r EXCEPT !.at = "ancestry", !.todo = l, !.query = <<>>]
         IN  /\ q \in CallRecords /\ q.at = "ancestry" /\ q.base = r.base /\ q.state = r.state
             /\ q.created = r.created /\ (q.ctxDone <=> r.ctxDone)
  BY PathFacts DEF CallRecords

(* The fields of a call that only moves.                                   *)
LEMMA AtFields ==
  ASSUME NEW r \in CallRecords,
         NEW a \in {"look", "make", "undo", "held", "removing"}
  PROVE  LET q == [r EXCEPT !.at = a]
         IN  /\ q \in CallRecords /\ q.at = a /\ q.base = r.base /\ q.state = r.state
             /\ q.created = r.created /\ (q.ctxDone <=> r.ctxDone) /\ q.build = r.build
             /\ q.effect = r.effect /\ q.item = r.item
  BY ZenonT(30) DEF CallRecords

(* The fields of a call that rolls back.                                   *)
LEMMA UndoesFields ==
  ASSUME NEW r \in CallRecords, NEW n \in {"add error", "failed"}
  PROVE  /\ Undoes(r, n) \in CallRecords /\ Undoes(r, n).at = "undo" /\ Undoes(r, n).base = r.base
         /\ Undoes(r, n).state = r.state /\ Undoes(r, n).created = r.created
         /\ (Undoes(r, n).ctxDone <=> r.ctxDone)
  BY DEF CallRecords, Undoes

(* The next directory of an Add is a path.                                 *)
LEMMA StepType ==
  ASSUME NEW r \in CallRecords, r.todo # <<>>
  PROVE  Step(r) \in Paths /\ Tail(r.todo) \in Paths
PROOF
  <1>1. r.todo \in Seq(Components) /\ r.target \in Seq(Components)
    BY DEF CallRecords, Paths
  <1>2. Head(r.todo) \in Components /\ Tail(r.todo) \in Seq(Components)
    BY <1>1
  <1> QED BY <1>1, <1>2 DEF Step, Paths

(* The fields of a call that has entered a directory.                      *)
LEMMA EnteredFields ==
  ASSUME NEW r \in CallRecords, r.todo # <<>>
  PROVE  /\ Entered(r) \in CallRecords /\ Entered(r).at = "look" /\ Entered(r).base = r.base
         /\ Entered(r).state = r.state /\ Entered(r).created = r.created
         /\ (Entered(r).ctxDone <=> r.ctxDone)
PROOF
  <1> DEFINE p == Step(r)
             l == Tail(r.todo)
  <1>1. p \in Paths /\ l \in Paths
    BY StepType
  <1>2. Entered(r) = [r EXCEPT !.at = "look", !.target = p, !.todo = l]
    BY DEF Entered
  <1> HIDE DEF p, l
  <1> QED BY <1>1, <1>2, ZenonT(30) DEF CallRecords

(* The fields of a call with another list of directories.                  *)
LEMMA CreatedFields ==
  ASSUME NEW r \in CallRecords, NEW l \in Seq(Paths)
  PROVE  LET q == [r EXCEPT !.created = l]
         IN  /\ q \in CallRecords /\ q.at = r.at /\ q.base = r.base /\ q.state = r.state
             /\ q.created = l /\ (q.ctxDone <=> r.ctxDone)
  BY DEF CallRecords

(* A call that is making or removing directories for an Add.               *)
InTree(r, s) ==
    /\ r.at \in {"ancestry", "look", "make", "undo"}
    /\ r.base = s.gen /\ s.mode = "add" /\ r.state.loc = s.loc

(* What the session may make of a call that was in step with the actor.    *)
Continues(c, r) ==
    /\ r.ctxDone => call[c].ctxDone
    /\ \/ r.at = "answered" /\ r.effect = NoEffect
       \/ /\ r.at = "sending" /\ r.base = current.gen
          /\ Fits(r.state, r.build, r.effect, r.item, current)
       \/ InTree(r, current)

(* The steps of a session on one call, as what the call becomes.           *)
LEMMA HandleBecomes ==
  ASSUME TypeOK, NEW c \in Calls, Handle(c)
  PROVE  \E r : /\ Becomes(c, r) /\ r.created \in {call[c].created, <<>>}
                /\ Continues(c, r)
PROOF
  <1> DEFINE q == Reduce(call[c].op, call[c].query, call[c].item)
             s == State(current.mode, current.addError, current.loc)
             based == Based(call[c], current.gen, current.loc, s)
  <1>1. call[c] \in CallRecords /\ SnapshotOK
    BY DEF TypeOK, SnapshotOK
  <1>2. s \in States /\ s.loc = current.loc
    BY <1>1 DEF State, States, SnapshotOK
  <1>3. current.gen \in Nat /\ current.loc \in Paths
    BY <1>1 DEF SnapshotOK
  <1>4. call[c].query \in Paths /\ call[c].item \in Candidates \cup {None}
    BY <1>1 DEF CallRecords
  <1> HIDE DEF s
  <1>5. /\ based \in CallRecords /\ based.base = current.gen /\ based.state = s
        /\ based.item = call[c].item /\ based.created = call[c].created
        /\ (based.ctxDone <=> call[c].ctxDone)
    BY <1>1, <1>2, <1>3, AskedFields
  <1> HIDE DEF based, q
  <1>6. call[c].op \in Opcodes \cup {"restore"}
    BY DEF TypeOK, Handle
  <1>7. \/ Fitting(q, call[c].item) /\ q.kind = "proposal"
        \/ q.kind = "error"
        \/ q.kind = "add" /\ current.mode = "add"
    BY <1>1, <1>4, <1>6, ReduceFits DEF q
  <1>8. call' = [call EXCEPT ![c] =
                IF call[c].ctxDone \/ q.kind = "error" THEN Answered(call[c], NoEffect)
                ELSE IF q.kind = "proposal" THEN Sends(based, q)
                ELSE [based EXCEPT !.at = "ancestry", !.todo = call[c].query, !.query = <<>>]]
    BY DEF Handle, q, based, s, Based
  <1>9. CASE call[c].ctxDone \/ q.kind = "error"
    <2> DEFINE r == Answered(call[c], NoEffect)
    <2>1. /\ r \in CallRecords /\ r.at = "answered" /\ r.effect = NoEffect
          /\ r.created = <<>> /\ ~r.ctxDone
      BY <1>1, Constants, AnsweredFields
    <2> HIDE DEF r
    <2>2. call' = [call EXCEPT ![c] = r]
      BY <1>8, <1>9 DEF r
    <2> QED BY <2>1, <2>2 DEF Becomes, InPlace, Continues, InTree
  <1>10. CASE ~(call[c].ctxDone \/ q.kind = "error") /\ q.kind = "proposal"
    <2> DEFINE r == Sends(based, q)
    <2>1. Fitting(q, call[c].item)
      BY <1>7, <1>10
    <2>2. /\ q = Proposes(q.state, q.build, q.effect)
          /\ q.state \in States /\ q.build \in Paths \cup {None} /\ q.effect \in EffectRecords
          /\ Fits(q.state, q.build, q.effect, call[c].item, current)
      BY <2>1 DEF Fitting
    <2>3. /\ r \in CallRecords
          /\ r.at = "sending" /\ r.state = q.state /\ r.build = q.build /\ r.effect = q.effect
          /\ r.item = based.item /\ r.base = based.base /\ r.created = based.created
          /\ (r.ctxDone <=> based.ctxDone)
      BY <1>5, <2>2, SendsFields
    <2> HIDE DEF r
    <2>4. call' = [call EXCEPT ![c] = r]
      BY <1>8, <1>10 DEF r
    <2>5. Fits(r.state, r.build, r.effect, r.item, current)
      BY <2>2, <2>3, <1>5
    <2> QED BY <1>5, <2>2, <2>3, <2>4, <2>5 DEF Becomes, InPlace, Continues, InTree
  <1>11. CASE ~(call[c].ctxDone \/ q.kind = "error") /\ q.kind # "proposal"
    <2> DEFINE r == [based EXCEPT !.at = "ancestry", !.todo = call[c].query, !.query = <<>>]
    <2>1. /\ r \in CallRecords /\ r.at = "ancestry" /\ r.base = based.base
          /\ r.state = based.state /\ r.created = based.created /\ (r.ctxDone <=> based.ctxDone)
      BY <1>4, <1>5, AncestryFields
    <2> HIDE DEF r
    <2>2. call' = [call EXCEPT ![c] = r]
      BY <1>8, <1>11 DEF r
    <2>3. current.mode = "add"
      BY <1>7, <1>11
    <2> QED BY <1>2, <1>5, <2>1, <2>2, <2>3 DEF Becomes, InPlace, Continues, InTree
  <1> QED BY <1>9, <1>10, <1>11

(* Ancestry and Lstat only move the call on.                               *)
LEMMA WalkBecomes ==
  ASSUME TypeOK, NEW c \in Calls, Ancestry(c) \/ Look(c)
  PROVE  \E r : /\ Becomes(c, r) /\ r.created = call[c].created
                /\ InTree(call[c], current) => Continues(c, r)
PROOF
  <1>1. call[c] \in CallRecords /\ InPlace(call[c])
    BY DEF TypeOK, InPlace
  <1>2. ASSUME NEW r \in CallRecords, r.at \in {"look", "make", "undo"}, r.base = call[c].base,
               r.state = call[c].state, r.created = call[c].created, r.ctxDone <=> call[c].ctxDone,
               r.at = "make" => r.todo # <<>>, call[c].at \in {"ancestry", "look"},
               call' = [call EXCEPT ![c] = r]
        PROVE  \E q : /\ Becomes(c, q) /\ q.created = call[c].created
                      /\ InTree(call[c], current) => Continues(c, q)
    <2>1. Becomes(c, r)
      BY <1>1, <1>2 DEF Becomes, InPlace
    <2>2. InTree(call[c], current) => Continues(c, r)
      BY <1>2 DEF Continues, InTree
    <2> QED BY <1>2, <2>1, <2>2
  <1>3. CASE Ancestry(c)
    <2>1. call[c].at = "ancestry"
      BY <1>3 DEF Ancestry
    <2>2. CASE call' = [call EXCEPT ![c] = [call[c] EXCEPT !.at = "look"]]
      BY <1>1, <1>2, <2>1, <2>2, AtFields
    <2>3. CASE call' = [call EXCEPT ![c] = Undoes(call[c], "add error")]
      BY <1>1, <1>2, <2>1, <2>3, UndoesFields
    <2> QED BY <1>3, <2>2, <2>3 DEF Ancestry
  <1>4. CASE Look(c)
    <2>1. call[c].at = "look" /\ call[c].todo # <<>>
      BY <1>4 DEF Look
    <2>2. CASE call' = [call EXCEPT ![c] = Entered(call[c])]
      BY <1>1, <1>2, <2>1, <2>2, EnteredFields
    <2>3. CASE call' = [call EXCEPT ![c] = Undoes(call[c], "add error")]
      BY <1>1, <1>2, <2>1, <2>3, UndoesFields
    <2>4. CASE call' = [call EXCEPT ![c] = [call[c] EXCEPT !.at = "make"]]
      <3> DEFINE r == [call[c] EXCEPT !.at = "make"]
      <3>1. r.todo = call[c].todo
        BY <1>1 DEF CallRecords
      <3>2. /\ r \in CallRecords /\ r.at = "make" /\ r.base = call[c].base
            /\ r.state = call[c].state /\ r.created = call[c].created
            /\ (r.ctxDone <=> call[c].ctxDone)
        BY <1>1, AtFields
      <3> HIDE DEF r
      <3>3. call' = [call EXCEPT ![c] = r]
        BY <2>4 DEF r
      <3> QED BY <1>2, <2>1, <3>1, <3>2, <3>3
    <2> QED BY <1>4, <2>2, <2>3, <2>4 DEF Look
  <1> QED BY <1>3, <1>4

(* The proposal of an Add whose tree is there, or its rollback.            *)
LEMMA MadeBecomes ==
  ASSUME TypeOK, NEW c \in Calls, Made(c)
  PROVE  \E r : /\ Becomes(c, r) /\ r.created = call[c].created
                /\ InTree(call[c], current) => Continues(c, r)
PROOF
  <1>1. call[c] \in CallRecords /\ InPlace(call[c]) /\ SnapshotOK
    BY DEF TypeOK, InPlace, SnapshotOK
  <1>2. call[c].at = "look" /\ call[c].target \in Paths
    BY <1>1 DEF Made, CallRecords
  <1> DEFINE l == call[c].target
             p == Proposes(State("normal", FALSE, l), l,
                           [ModeEffect("normal", TRUE, 0) EXCEPT !.header = l, !.clearMulti = TRUE])
  <1>3. CASE call[c].ctxDone
    <2> DEFINE r == Undoes(call[c], "failed")
    <2>1. /\ r \in CallRecords /\ r.at = "undo" /\ r.base = call[c].base
          /\ r.state = call[c].state /\ r.created = call[c].created /\ (r.ctxDone <=> call[c].ctxDone)
      BY <1>1, UndoesFields
    <2>2. call' = [call EXCEPT ![c] = r]
      BY <1>3 DEF Made
    <2> HIDE DEF r
    <2> QED BY <1>1, <1>2, <2>1, <2>2 DEF Becomes, InPlace, Continues, InTree
  <1>4. CASE ~call[c].ctxDone
    <2> DEFINE r == Sends(call[c], p)
    <2>1. call' = [call EXCEPT ![c] = r]
      BY <1>4 DEF Made
    <2>2. Fitting(p, call[c].item)
      BY <1>1, <1>2, NavigationFits DEF Modes
    <2> HIDE DEF p
    <2>3. /\ p = Proposes(p.state, p.build, p.effect)
          /\ p.state \in States /\ p.build \in Paths \cup {None} /\ p.effect \in EffectRecords
          /\ Fits(p.state, p.build, p.effect, call[c].item, current)
      BY <2>2 DEF Fitting
    <2>4. /\ r \in CallRecords
          /\ r.at = "sending" /\ r.state = p.state /\ r.build = p.build /\ r.effect = p.effect
          /\ r.item = call[c].item /\ r.base = call[c].base /\ r.created = call[c].created
          /\ (r.ctxDone <=> call[c].ctxDone)
      <3> DEFINE s == p.state
                 b == p.build
                 e == p.effect
      <3>1. r = Sends(call[c], Proposes(s, b, e))
        BY <2>3, Zenon
      <3>2. s \in States /\ b \in Paths \cup {None} /\ e \in EffectRecords
        BY <2>3
      <3> HIDE DEF s, b, e, r
      <3>3. /\ r \in CallRecords
            /\ r.at = "sending" /\ r.state = s /\ r.build = b /\ r.effect = e
            /\ r.item = call[c].item /\ r.base = call[c].base /\ r.created = call[c].created
            /\ (r.ctxDone <=> call[c].ctxDone)
        BY <1>1, <3>1, <3>2, SendsFields
      <3> QED BY <3>3 DEF s, b, e
    <2> HIDE DEF r
    <2>5. Fits(r.state, r.build, r.effect, r.item, current)
      BY <2>3, <2>4
    <2> QED BY <2>1, <2>3, <2>4, <2>5 DEF Becomes, InPlace, Continues, InTree
  <1> QED BY <1>3, <1>4

-----------------------------------------------------------------------------
(* The directories of Adds under way: each is there, was made by one call  *)
(* and entered once in its list, and no published Add has it.              *)
Owned ==
    /\ kept \subseteq fs
    /\ \A c \in Calls : \A i \in 1..Len(call[c].created) : call[c].created[i] \in fs \ kept
    /\ \A c, d \in Calls :
          \A i \in 1..Len(call[c].created), j \in 1..Len(call[d].created) :
              call[c].created[i] = call[d].created[j] => c = d /\ i = j

(* The list of directories of a call is a sequence of paths.               *)
LEMMA CreatedTypes ==
  ASSUME CallsOK, NEW c \in Calls
  PROVE  call[c] \in CallRecords /\ call[c].created \in Seq(Paths)
  BY DEF CallsOK, CallRecords

(* A call keeps its directories or gives them all up.                      *)
LEMMA OwnedStays ==
  ASSUME CallsOK, Owned, NEW c \in Calls, NEW r, Becomes(c, r),
         r.created \in {call[c].created, <<>>}, UNCHANGED <<fs, kept>>
  PROVE  Owned'
PROOF
  <1>1. call'[c] = r /\ \A d \in Calls : d # c => call'[d] = call[d]
    BY CallsStay
  <1>2. \A d \in Calls : call'[d].created \in {call[d].created, <<>>}
    BY <1>1
  <1>3. \A d \in Calls : \A i \in 1..Len(call'[d].created) :
           i \in 1..Len(call[d].created) /\ call'[d].created[i] = call[d].created[i]
    BY <1>2
  <1> QED BY <1>3, SMTT(30) DEF Owned

(* A directory that was not there is nobody else's.                        *)
LEMMA OwnedMakes ==
  ASSUME CallsOK, Owned, NEW c \in Calls, NEW r, Becomes(c, r), NEW p \in Paths, p \notin fs,
         r.created = Append(call[c].created, p), fs' = fs \cup {p}, kept' = kept
  PROVE  Owned'
PROOF
  <1>1. call'[c] = r /\ \A d \in Calls : d # c => call'[d] = call[d]
    BY CallsStay
  <1> DEFINE n == Len(call[c].created)
  <1>2. call[c].created \in Seq(Paths) /\ n \in Nat
    BY CreatedTypes
  <1>3. /\ Len(call'[c].created) = n + 1 /\ call'[c].created[n + 1] = p
        /\ \A i \in 1..n : call'[c].created[i] = call[c].created[i]
    BY <1>1, <1>2
  <1> HIDE DEF n
  <1>4. \A d \in Calls : \A i \in 1..Len(call'[d].created) :
           \/ i \in 1..Len(call[d].created) /\ call'[d].created[i] = call[d].created[i]
           \/ d = c /\ i = n + 1 /\ call'[d].created[i] = p
    BY <1>1, <1>2, <1>3 DEF n
  <1>5. \A d \in Calls : \A i \in 1..Len(call[d].created) : call[d].created[i] # p
    BY DEF Owned
  <1>6. p \notin kept /\ p \in fs' /\ kept' \subseteq fs'
    BY DEF Owned
  <1>7. ASSUME NEW d \in Calls, NEW i \in 1..Len(call'[d].created)
        PROVE  call'[d].created[i] \in fs' \ kept'
    BY <1>4, <1>6, <1>7 DEF Owned
  <1>8. ASSUME NEW d \in Calls, NEW e \in Calls,
               NEW i \in 1..Len(call'[d].created), NEW j \in 1..Len(call'[e].created),
               call'[d].created[i] = call'[e].created[j]
        PROVE  d = e /\ i = j
    <2>1. CASE call'[d].created[i] = p
      <3>1. d = c /\ i = n + 1
        BY <1>4, <1>5, <2>1
      <3>2. e = c /\ j = n + 1
        BY <1>4, <1>5, <1>8, <2>1
      <3> QED BY <3>1, <3>2
    <2>2. CASE call'[d].created[i] # p
      <3>1. i \in 1..Len(call[d].created) /\ call'[d].created[i] = call[d].created[i]
        BY <1>4, <2>2
      <3>2. j \in 1..Len(call[e].created) /\ call'[e].created[j] = call[e].created[j]
        BY <1>4, <1>8, <2>2
      <3>3. call[d].created[i] = call[e].created[j]
        BY <1>8, <3>1, <3>2
      <3>4. \A k \in 1..Len(call[d].created), m \in 1..Len(call[e].created) :
               call[d].created[k] = call[e].created[m] => d = e /\ k = m
        BY DEF Owned
      <3> QED BY <3>1, <3>2, <3>3, <3>4
    <2> QED BY <2>1, <2>2
  <1> QED BY <1>6, <1>7, <1>8 DEF Owned

(* What Front and Last are.                                                *)
LEMMA FrontFacts ==
  ASSUME NEW l \in Seq(Paths), l # <<>>
  PROVE  /\ Front(l) \in Seq(Paths) /\ Len(Front(l)) = Len(l) - 1 /\ Len(l) \in Nat \ {0}
         /\ \A i \in 1..Len(Front(l)) : Front(l)[i] = l[i]
         /\ Last(l) = l[Len(l)]
PROOF
  <1>1. Len(l) \in Nat \ {0}
    OBVIOUS
  <1>2. Front(l) \in Seq(Paths) /\ Len(Front(l)) = Len(l) - 1
    BY <1>1, SMTT(30) DEF Front
  <1>3. \A i \in 1..(Len(l) - 1) : Front(l)[i] = l[i]
    BY <1>1 DEF Front
  <1> QED BY <1>1, <1>2, <1>3 DEF Last

(* Removing the last directory of a call touches no other.                 *)
LEMMA OwnedRemoves ==
  ASSUME CallsOK, Owned, NEW c \in Calls, NEW r, Becomes(c, r), call[c].created # <<>>,
         r.created = Front(call[c].created), kept' = kept,
         fs' \in {fs, fs \ {Last(call[c].created)}}
  PROVE  Owned'
PROOF
  <1>1. call'[c] = r /\ \A d \in Calls : d # c => call'[d] = call[d]
    BY CallsStay
  <1> DEFINE n == Len(call[c].created)
  <1>2. call[c].created \in Seq(Paths)
    BY CreatedTypes
  <1>3. /\ n \in Nat \ {0} /\ Len(call'[c].created) = n - 1
        /\ \A i \in 1..(n - 1) : call'[c].created[i] = call[c].created[i]
        /\ Last(call[c].created) = call[c].created[n]
    BY <1>1, <1>2, FrontFacts, SMTT(30)
  <1> HIDE DEF n
  <1>4. \A d \in Calls : \A i \in 1..Len(call'[d].created) :
           /\ i \in 1..Len(call[d].created) /\ call'[d].created[i] = call[d].created[i]
           /\ ~(d = c /\ i = n)
    BY <1>1, <1>3, SMTT(30) DEF n
  <1>5. n \in 1..Len(call[c].created)
    BY <1>3 DEF n
  <1>6. \A d \in Calls : \A i \in 1..Len(call'[d].created) :
           call'[d].created[i] # call[c].created[n]
    BY <1>4, <1>5 DEF Owned
  <1>7. call[c].created[n] \notin kept
    BY <1>5 DEF Owned
  <1>8. \A x \in fs : x # call[c].created[n] => x \in fs'
    BY <1>3
  <1> QED BY <1>4, <1>6, <1>7, <1>8, SMTT(30) DEF Owned

(* Publishing an Add moves its directories from the call to kept.          *)
LEMMA OwnedKeeps ==
  ASSUME CallsOK, Owned, NEW c \in Calls, NEW r, Becomes(c, r), r.created = <<>>,
         kept' = kept \cup ToSet(call[c].created), fs' = fs
  PROVE  Owned'
PROOF
  <1>1. call'[c] = r /\ \A d \in Calls : d # c => call'[d] = call[d]
    BY CallsStay
  <1>2. call[c].created \in Seq(Paths)
    BY CreatedTypes
  <1>3. \A x \in ToSet(call[c].created) : \E i \in 1..Len(call[c].created) : x = call[c].created[i]
    BY <1>2 DEF ToSet
  <1>4. \A d \in Calls : \A i \in 1..Len(call'[d].created) :
           i \in 1..Len(call[d].created) /\ call'[d].created[i] = call[d].created[i] /\ d # c
    BY <1>1
  <1>5. kept' \subseteq fs'
    BY <1>3 DEF Owned
  <1>6. ASSUME NEW d \in Calls, NEW i \in 1..Len(call'[d].created)
        PROVE  call'[d].created[i] \in fs' \ kept'
    <2>1. d # c /\ i \in 1..Len(call[d].created) /\ call'[d].created[i] = call[d].created[i]
      BY <1>4, <1>6
    <2>2. call[d].created[i] \in fs \ kept
      BY <2>1 DEF Owned
    <2>3. call[d].created[i] \notin ToSet(call[c].created)
      BY <2>1, <1>3 DEF Owned
    <2> QED BY <2>1, <2>2, <2>3
  <1>7. ASSUME NEW d \in Calls, NEW e \in Calls,
               NEW i \in 1..Len(call'[d].created), NEW j \in 1..Len(call'[e].created),
               call'[d].created[i] = call'[e].created[j]
        PROVE  d = e /\ i = j
    BY <1>4, <1>7 DEF Owned
  <1> QED BY <1>5, <1>6, <1>7 DEF Owned

-----------------------------------------------------------------------------
(* The calls that the actor holds are where it left them.                  *)
Held ==
    /\ pending # None => call[pending].at = "held"
    /\ replacement # None => call[replacement].at = "held"
    /\ pending # None => pending # replacement
    /\ cleaning # None => call[cleaning].at = "removing"

(* The invariant that holds whatever callbacks give up.                    *)
TreeInv == TypeOK /\ Held /\ Owned

(* TypeOK without the calls.                                               *)
RestOK ==
    /\ SnapshotOK
    /\ nextID \in Nat /\ current.gen <= nextID
    /\ pending \in Calls \cup {None} /\ replacement \in Calls \cup {None}
    /\ cleaning \in Calls \cup {None} /\ retiring \in BOOLEAN
    /\ fs \subseteq Paths /\ kept \subseteq Paths
    /\ ui \in UiRecords
    /\ outcome \in {"none", "aborted", "no match", "accepted", "unknown selection"}
    /\ keys \in 0..MaxPresses /\ losses \in 0..MaxLosses

(* TypeOK is made of these two.                                            *)
LEMMA TypeParts == /\ TypeOK <=> CallsOK /\ RestOK
                   /\ TypeOK' <=> CallsOK' /\ RestOK'
PROOF
  <1>1. TypeOK <=> CallsOK /\ RestOK
    BY DEF TypeOK, CallsOK, RestOK, SnapshotOK, InPlace
  <1>2. TypeOK' <=> CallsOK' /\ RestOK'
    BY DEF TypeOK, CallsOK, RestOK, SnapshotOK, InPlace
  <1> QED BY <1>1, <1>2

(* What a step of the session leaves alone.                                *)
sessionFrame == <<actorVars, ui, outcome, keys, losses>>

(* A call that the actor does not hold may become anything but held.       *)
LEMMA HeldStays ==
  ASSUME TypeOK, Held, NEW c \in Calls, NEW r, Becomes(c, r), UNCHANGED actorVars,
         call[c].at \notin {"held", "removing"} \/ r.at = call[c].at
  PROVE  Held'
PROOF
  <1>1. call'[c] = r /\ \A d \in Calls : d # c => call'[d] = call[d]
    BY TypeParts, CallsStay
  <1> QED BY <1>1 DEF Held, TypeOK, actorVars

(* A step of a call that touches no directory.                             *)
LEMMA QuietStep ==
  ASSUME TreeInv, NEW c \in Calls, NEW r, Becomes(c, r),
         call[c].at \notin {"held", "removing"} \/ r.at = call[c].at,
         r.created \in {call[c].created, <<>>}, UNCHANGED <<sessionFrame, fs, kept>>
  PROVE  TreeInv'
PROOF
  <1>1. CallsOK /\ RestOK /\ TypeOK /\ Held /\ Owned
    BY TypeParts DEF TreeInv
  <1>2. CallsOK'
    BY <1>1, CallsStay
  <1>3. RestOK'
    BY <1>1 DEF RestOK, SnapshotOK, sessionFrame, actorVars
  <1>4. Owned'
    BY <1>1, OwnedStays
  <1>5. Held'
    BY <1>1, HeldStays DEF sessionFrame
  <1> QED BY <1>2, <1>3, <1>4, <1>5, TypeParts DEF TreeInv

(* A proposal that enqueue gives up is rolled back.                        *)
LEMMA WithdrawBecomes ==
  ASSUME TypeOK, NEW c \in Calls, Withdraw(c)
  PROVE  \E r : Becomes(c, r) /\ r.created = call[c].created
PROOF
  <1> DEFINE r == Undoes(call[c], "failed")
  <1>1. call[c] \in CallRecords /\ InPlace(call[c])
    BY DEF TypeOK, InPlace
  <1>2. r \in CallRecords /\ r.at = "undo" /\ r.state = call[c].state /\ r.created = call[c].created
    BY <1>1, UndoesFields
  <1>3. call' = [call EXCEPT ![c] = r] /\ call[c].at = "sending"
    BY DEF Withdraw
  <1> HIDE DEF r
  <1> QED BY <1>1, <1>2, <1>3 DEF Becomes, InPlace

(* A cancelled call stays where it is.                                     *)
LEMMA CancelBecomes ==
  ASSUME TypeOK, NEW c \in Calls, Cancel(c)
  PROVE  \E r : Becomes(c, r) /\ r.created = call[c].created /\ r.at = call[c].at
PROOF
  <1> DEFINE r == [call[c] EXCEPT !.ctxDone = TRUE]
  <1>1. call[c] \in CallRecords /\ InPlace(call[c])
    BY DEF TypeOK, InPlace
  <1>2. /\ r \in CallRecords /\ r.at = call[c].at /\ r.state = call[c].state
        /\ r.created = call[c].created /\ r.op = call[c].op /\ r.todo = call[c].todo
    BY <1>1 DEF CallRecords
  <1>3. call' = [call EXCEPT ![c] = r]
    BY DEF Cancel
  <1> HIDE DEF r
  <1> QED BY <1>1, <1>2, <1>3 DEF Becomes, InPlace

(* The steps of the session that touch no directory.                       *)
LEMMA SessionTree ==
  ASSUME TreeInv, NEW c \in Calls,
         Handle(c) \/ Ancestry(c) \/ Look(c) \/ Made(c) \/ Withdraw(c) \/ Cancel(c)
  PROVE  TreeInv'
PROOF
  <1>1. TypeOK
    BY DEF TreeInv
  <1>2. UNCHANGED <<sessionFrame, fs, kept>>
    BY DEF Handle, Ancestry, Look, Made, Withdraw, Cancel, sessionFrame
  <1>3. CASE Handle(c)
    <2>1. call[c].at = "asked"
      BY <1>3 DEF Handle
    <2> QED BY <1>1, <1>2, <1>3, <2>1, HandleBecomes, QuietStep
  <1>4. CASE Ancestry(c) \/ Look(c)
    <2>1. call[c].at \in {"ancestry", "look"}
      BY <1>4 DEF Ancestry, Look
    <2> QED BY <1>1, <1>2, <1>4, <2>1, WalkBecomes, QuietStep
  <1>5. CASE Made(c)
    <2>1. call[c].at = "look"
      BY <1>5 DEF Made
    <2> QED BY <1>1, <1>2, <1>5, <2>1, MadeBecomes, QuietStep
  <1>6. CASE Withdraw(c)
    <2>1. call[c].at = "sending"
      BY <1>6 DEF Withdraw
    <2> QED BY <1>1, <1>2, <1>6, <2>1, WithdrawBecomes, QuietStep
  <1>7. CASE Cancel(c)
    BY <1>1, <1>2, <1>7, CancelBecomes, QuietStep
  <1> QED BY <1>3, <1>4, <1>5, <1>6, <1>7

(* Mkdir, and what becomes of the call.                                    *)
LEMMA MakeBecomes ==
  ASSUME TypeOK, NEW c \in Calls, Make(c)
  PROVE  \E r : /\ Becomes(c, r)
                /\ InTree(call[c], current) => Continues(c, r)
                /\ \/ r.created = call[c].created /\ fs' = fs
                   \/ /\ Step(call[c]) \in Paths \ fs
                      /\ r.created = Append(call[c].created, Step(call[c]))
                      /\ fs' = fs \cup {Step(call[c])}
PROOF
  <1>1. call[c] \in CallRecords /\ InPlace(call[c]) /\ call[c].at = "make" /\ call[c].todo # <<>>
    BY DEF TypeOK, InPlace, Make
  <1>2. Step(call[c]) \in Paths
    BY <1>1, StepType
  <1>3. CASE Step(call[c]) \notin fs /\ call[c].target \in fs
    <2> DEFINE e == Entered(call[c])
               l == Append(call[c].created, Step(call[c]))
               r == [e EXCEPT !.created = l]
    <2>1. /\ e \in CallRecords /\ e.at = "look" /\ e.base = call[c].base
          /\ e.state = call[c].state /\ e.created = call[c].created
          /\ (e.ctxDone <=> call[c].ctxDone)
      BY <1>1, EnteredFields
    <2>2. l \in Seq(Paths)
      <3>1. call[c].created \in Seq(Paths)
        BY <1>1 DEF CallRecords
      <3> QED BY <1>2, <3>1
    <2>4. call' = [call EXCEPT ![c] = r]
      BY <1>3 DEF Make
    <2> HIDE DEF e, l
    <2>5. /\ r \in CallRecords /\ r.at = e.at /\ r.base = e.base /\ r.state = e.state
          /\ r.created = l /\ (r.ctxDone <=> e.ctxDone)
      BY <2>1, <2>2, CreatedFields
    <2> HIDE DEF r
    <2>6. Becomes(c, r)
      BY <1>1, <2>1, <2>4, <2>5 DEF Becomes, InPlace
    <2>7. InTree(call[c], current) => Continues(c, r)
      BY <2>1, <2>5 DEF InTree, Continues
    <2>8. fs' = fs \cup {Step(call[c])} /\ r.created = Append(call[c].created, Step(call[c]))
      BY <1>3, <2>5 DEF Make, l
    <2> QED BY <1>2, <1>3, <2>6, <2>7, <2>8
  <1>4. CASE ~(Step(call[c]) \notin fs /\ call[c].target \in fs)
    <2> DEFINE r == Undoes(call[c], "add error")
    <2>1. /\ r \in CallRecords /\ r.at = "undo" /\ r.base = call[c].base
          /\ r.state = call[c].state /\ r.created = call[c].created
          /\ (r.ctxDone <=> call[c].ctxDone)
      BY <1>1, UndoesFields
    <2>2. call' = [call EXCEPT ![c] = r] /\ fs' = fs
      BY <1>4 DEF Make
    <2> HIDE DEF r
    <2> QED BY <1>1, <2>1, <2>2 DEF Becomes, InPlace, InTree, Continues
  <1> QED BY <1>3, <1>4

(* One Remove takes the last directory off the list, and off the disk when *)
(* it is empty.                                                            *)
LEMMA RemovesBecomes ==
  ASSUME TypeOK, NEW c \in Calls, Removes(c), call[c].created # <<>>
  PROVE  /\ fs' \in {fs, fs \ {Last(call[c].created)}}
         /\ \E r : /\ Becomes(c, r) /\ r.at = call[c].at
                   /\ r.base = call[c].base /\ r.state = call[c].state
                   /\ (r.ctxDone <=> call[c].ctxDone)
                   /\ r.created = Front(call[c].created)
PROOF
  <1>1. call[c] \in CallRecords /\ InPlace(call[c]) /\ call[c].created \in Seq(Paths)
    BY DEF TypeOK, InPlace, CallRecords
  <1> DEFINE l == Front(call[c].created)
             r == [call[c] EXCEPT !.created = l]
  <1>2. l \in Seq(Paths)
    BY <1>1, FrontFacts
  <1>3. call' = [call EXCEPT ![c] = r]
    BY DEF Removes
  <1> HIDE DEF l
  <1>4. /\ r \in CallRecords /\ r.at = call[c].at /\ r.base = call[c].base
        /\ r.state = call[c].state /\ r.created = l /\ (r.ctxDone <=> call[c].ctxDone)
        /\ r.op = call[c].op /\ r.todo = call[c].todo
    BY <1>1, <1>2 DEF CallRecords
  <1> HIDE DEF r
  <1>5. Becomes(c, r)
    BY <1>1, <1>3, <1>4 DEF Becomes, InPlace
  <1>6. fs' \in {fs, fs \ {Last(call[c].created)}}
    BY DEF Removes
  <1> QED BY <1>4, <1>5, <1>6 DEF l

(* addErrorProposal is a typed proposal, in any mode.                      *)
LEMMA AddErrorParts ==
  ASSUME NEW l \in Paths
  PROVE  \E s \in States, b \in {None}, e \in EffectRecords : AddError(l) = Proposes(s, b, e)
PROOF
  <1> DEFINE s == State("add", TRUE, l)
             e == [NoEffect EXCEPT !.prompt = Prompt("add", TRUE)]
  <1>1. s \in States
    BY DEF State, States, Modes
  <1>2. e \in EffectRecords
    BY DEF NoEffect, EffectRecords, Prompt, Modes
  <1>3. AddError(l) = Proposes(s, None, e)
    BY DEF AddError
  <1> HIDE DEF s, e
  <1> QED BY <1>1, <1>2, <1>3

(* The rollback has come to its end.                                       *)
LEMMA UndoneBecomes ==
  ASSUME TypeOK, NEW c \in Calls, Undo(c), call[c].created = <<>>
  PROVE  \E r : /\ Becomes(c, r) /\ r.created = <<>>
                /\ InTree(call[c], current) => Continues(c, r)
PROOF
  <1>1. call[c] \in CallRecords /\ call[c].at = "undo" /\ call[c].state \in States /\ SnapshotOK
    BY DEF TypeOK, Undo, SnapshotOK
  <1>2. CASE call[c].op = "add error"
    <2> DEFINE r == Sends(call[c], AddError(call[c].state.loc))
    <2>1. call' = [call EXCEPT ![c] = r]
      BY <1>2 DEF Undo
    <2>2. call[c].state.loc \in Paths
      BY <1>1 DEF States
    <2>3. PICK s \in States, b \in {None}, e \in EffectRecords :
             AddError(call[c].state.loc) = Proposes(s, b, e)
      BY <2>2, AddErrorParts
    <2>4. r = Sends(call[c], Proposes(s, b, e))
      BY <2>3, Zenon
    <2> HIDE DEF r
    <2>5. /\ r \in CallRecords /\ r.at = "sending" /\ r.state = s /\ r.build = b
          /\ r.effect = e /\ r.item = call[c].item /\ r.base = call[c].base
          /\ r.created = call[c].created /\ (r.ctxDone <=> call[c].ctxDone)
      <3>1. b \in Paths \cup {None} /\ call[c] \in CallRecords
        BY <1>1
      <3> QED BY <2>4, <3>1, SendsFields, SMTT(30)
    <2>6. Becomes(c, r)
      BY <2>1, <2>5 DEF Becomes, InPlace
    <2>7. ASSUME InTree(call[c], current)
          PROVE  Continues(c, r)
      <3>1. current.mode = "add" /\ call[c].state.loc = current.loc /\ call[c].base = current.gen
        BY <2>7 DEF InTree
      <3>2. Fitting(Proposes(s, b, e), call[c].item)
        BY <1>1, <2>3, <3>1, AddErrorFits
      <3>3. Fits(s, b, e, call[c].item, current)
        BY <3>2 DEF Fitting, Proposes
      <3> QED BY <2>5, <3>1, <3>3 DEF Continues
    <2> QED BY <2>5, <2>6, <2>7
  <1>3. CASE call[c].op # "add error"
    <2> DEFINE r == Answered(call[c], NoEffect)
    <2>1. call' = [call EXCEPT ![c] = r]
      BY <1>3 DEF Undo
    <2>2. /\ r \in CallRecords /\ r.at = "answered" /\ r.effect = NoEffect
          /\ r.created = <<>> /\ ~r.ctxDone
      BY <1>1, Constants, AnsweredFields
    <2> HIDE DEF r
    <2> QED BY <2>1, <2>2 DEF Becomes, InPlace, Continues
  <1> QED BY <1>2, <1>3

(* Mkdir.                                                                  *)
LEMMA MakeTree ==
  ASSUME TreeInv, NEW c \in Calls, Make(c)
  PROVE  TreeInv'
PROOF
  <1>1. CallsOK /\ RestOK /\ TypeOK /\ Held /\ Owned
    BY TypeParts DEF TreeInv
  <1>2. UNCHANGED <<sessionFrame, kept>> /\ call[c].at = "make"
    BY DEF Make, sessionFrame
  <1>3. PICK r : /\ Becomes(c, r)
                 /\ \/ r.created = call[c].created /\ fs' = fs
                    \/ /\ Step(call[c]) \in Paths \ fs
                       /\ r.created = Append(call[c].created, Step(call[c]))
                       /\ fs' = fs \cup {Step(call[c])}
    BY <1>1, MakeBecomes
  <1>4. CallsOK' /\ Held'
    BY <1>1, <1>2, <1>3, CallsStay, HeldStays DEF sessionFrame
  <1>5. RestOK'
    BY <1>1, <1>2, <1>3 DEF RestOK, SnapshotOK, sessionFrame, actorVars
  <1>6. Owned'
    <2>1. CASE r.created = call[c].created /\ fs' = fs
      BY <1>1, <1>2, <1>3, <2>1, OwnedStays
    <2>2. CASE /\ Step(call[c]) \in Paths \ fs
               /\ r.created = Append(call[c].created, Step(call[c]))
               /\ fs' = fs \cup {Step(call[c])}
      <3> DEFINE d == Step(call[c])
      <3>1. d \in Paths /\ d \notin fs /\ r.created = Append(call[c].created, d) /\ fs' = fs \cup {d}
        BY <2>2
      <3> HIDE DEF d
      <3> QED BY <1>1, <1>2, <1>3, <3>1, OwnedMakes
    <2> QED BY <1>3, <2>1, <2>2
  <1> QED BY <1>4, <1>5, <1>6, TypeParts DEF TreeInv

(* One Remove, by the session or by the actor.                             *)
LEMMA RemovesTree ==
  ASSUME TreeInv, NEW c \in Calls, Removes(c), call[c].created # <<>>,
         UNCHANGED <<sessionFrame, kept>>
  PROVE  TreeInv'
PROOF
  <1>1. CallsOK /\ RestOK /\ TypeOK /\ Held /\ Owned
    BY TypeParts DEF TreeInv
  <1>2. fs' \in {fs, fs \ {Last(call[c].created)}}
    BY <1>1, RemovesBecomes
  <1>3. PICK r : Becomes(c, r) /\ r.at = call[c].at /\ r.created = Front(call[c].created)
    BY <1>1, RemovesBecomes
  <1>4. CallsOK' /\ Held'
    BY <1>1, <1>3, CallsStay, HeldStays DEF sessionFrame
  <1>5. RestOK'
    BY <1>1, <1>2 DEF RestOK, SnapshotOK, sessionFrame, actorVars
  <1>6. Owned'
    BY <1>1, <1>2, <1>3, OwnedRemoves
  <1> QED BY <1>4, <1>5, <1>6, TypeParts DEF TreeInv

(* The session's own rollback.                                             *)
LEMMA UndoTree ==
  ASSUME TreeInv, NEW c \in Calls, Undo(c)
  PROVE  TreeInv'
PROOF
  <1>1. TypeOK
    BY DEF TreeInv
  <1>2. UNCHANGED <<sessionFrame, kept>> /\ call[c].at = "undo"
    BY DEF Undo, sessionFrame
  <1>3. CASE call[c].created # <<>>
    <2>1. Removes(c)
      BY <1>3 DEF Undo
    <2> QED BY <1>2, <1>3, <2>1, RemovesTree
  <1>4. CASE call[c].created = <<>>
    <2>1. UNCHANGED <<sessionFrame, fs, kept>>
      BY <1>2, <1>4 DEF Undo
    <2>2. PICK r : Becomes(c, r) /\ r.created = <<>>
      BY <1>1, <1>4, UndoneBecomes
    <2> QED BY <1>2, <2>1, <2>2, QuietStep
  <1> QED BY <1>3, <1>4

-----------------------------------------------------------------------------
(* The actor refuses a proposal: an answer, or first the rollback.         *)
LEMMA RefuseBecomes ==
  ASSUME TypeOK, NEW c \in Calls, call[c].at \in {"sending", "held"}, Refuse(c)
  PROVE  \E r : /\ Becomes(c, r) /\ (r.ctxDone => call[c].ctxDone)
                /\ r.created \in {call[c].created, <<>>}
                /\ \/ r.at = "answered" /\ r.effect = NoEffect /\ cleaning' = cleaning
                   \/ r.at = "removing" /\ r.base = call[c].base /\ cleaning' = c
PROOF
  <1>1. call[c] \in CallRecords /\ InPlace(call[c]) /\ call[c].state \in States
    BY DEF TypeOK, InPlace
  <1>2. CASE call[c].created = <<>>
    <2> DEFINE r == Answered(call[c], NoEffect)
    <2>1. call' = [call EXCEPT ![c] = r] /\ cleaning' = cleaning
      BY <1>2 DEF Refuse
    <2>2. /\ r \in CallRecords /\ r.at = "answered" /\ r.effect = NoEffect
          /\ r.created = <<>> /\ ~r.ctxDone
      BY <1>1, Constants, AnsweredFields
    <2> HIDE DEF r
    <2> QED BY <2>1, <2>2 DEF Becomes, InPlace
  <1>3. CASE call[c].created # <<>>
    <2> DEFINE r == [call[c] EXCEPT !.at = "removing"]
    <2>1. call' = [call EXCEPT ![c] = r] /\ cleaning' = c
      BY <1>3 DEF Refuse
    <2>2. /\ r \in CallRecords /\ r.at = "removing" /\ r.base = call[c].base
          /\ r.state = call[c].state /\ r.created = call[c].created
          /\ (r.ctxDone <=> call[c].ctxDone)
      BY <1>1, AtFields
    <2> HIDE DEF r
    <2> QED BY <1>1, <2>1, <2>2 DEF Becomes, InPlace
  <1> QED BY <1>2, <1>3

(* What an actor step leaves alone, apart from current and kept.           *)
actorFrame == <<fs, ui, outcome, keys, losses>>

(* A call that the actor holds is otherwise as it was.                     *)
LEMMA HoldBecomes ==
  ASSUME TypeOK, NEW c \in Calls, call[c].at \in {"sending", "held"},
         call' = [call EXCEPT ![c].at = "held"]
  PROVE  \E r : /\ Becomes(c, r) /\ r.at = "held" /\ r.created = call[c].created
                /\ (r.ctxDone <=> call[c].ctxDone) /\ r.base = call[c].base
                /\ r.state = call[c].state /\ r.build = call[c].build
                /\ r.effect = call[c].effect /\ r.item = call[c].item
PROOF
  <1> DEFINE r == [call[c] EXCEPT !.at = "held"]
  <1>1. call[c] \in CallRecords /\ InPlace(call[c]) /\ call[c].state \in States
    BY DEF TypeOK, InPlace
  <1>2. call' = [call EXCEPT ![c] = r]
    OBVIOUS
  <1>3. /\ r \in CallRecords /\ r.at = "held" /\ r.base = call[c].base
        /\ r.state = call[c].state /\ r.created = call[c].created
        /\ (r.ctxDone <=> call[c].ctxDone) /\ r.build = call[c].build
        /\ r.effect = call[c].effect /\ r.item = call[c].item
    BY <1>1, AtFields
  <1> HIDE DEF r
  <1> QED BY <1>1, <1>2, <1>3 DEF Becomes, InPlace

(* An answer with the effect of the proposal, or with a new list.          *)
LEMMA AnswerBecomes ==
  ASSUME TypeOK, NEW c \in Calls, NEW e \in EffectRecords,
         call' = [call EXCEPT ![c] = Answered(call[c], e)]
  PROVE  \E r : /\ Becomes(c, r) /\ r.at = "answered" /\ r.created = <<>> /\ ~r.ctxDone
                /\ r.effect = e
                /\ r.item = IF e.finish = "accept" THEN call[c].item ELSE None
PROOF
  <1> DEFINE r == Answered(call[c], e)
  <1>1. call[c] \in CallRecords
    BY DEF TypeOK
  <1>2. /\ r \in CallRecords /\ r.at = "answered" /\ r.effect = e
        /\ r.created = <<>> /\ ~r.ctxDone
        /\ r.item = IF e.finish = "accept" THEN call[c].item ELSE None
    BY <1>1, AnsweredFields
  <1> HIDE DEF r
  <1>3. call' = [call EXCEPT ![c] = r]
    BY DEF r
  <1> QED BY <1>2, <1>3 DEF Becomes, InPlace

(* Starting a proposal when nothing is pending.                            *)
LEMMA StartTree ==
  ASSUME TreeInv, NEW c \in Calls, call[c].at \in {"sending", "held"}, Start(c),
         pending = None, cleaning = None, replacement' = None, UNCHANGED <<actorFrame, kept>>
  PROVE  TreeInv'
PROOF
  <1>1. CallsOK /\ RestOK /\ TypeOK /\ Held /\ Owned
    BY TypeParts DEF TreeInv
  <1>2. call[c] \in CallRecords /\ call[c].state \in States
    BY <1>1 DEF TypeOK
  <1>3. CASE call[c].ctxDone \/ call[c].base # current.gen
    <2>1. Refuse(c) /\ UNCHANGED <<current, nextID, pending, retiring>>
      BY <1>3 DEF Start
    <2>2. PICK r : /\ Becomes(c, r) /\ r.created \in {call[c].created, <<>>}
                   /\ \/ r.at = "answered" /\ cleaning' = cleaning
                      \/ r.at = "removing" /\ cleaning' = c
      BY <1>1, <2>1, RefuseBecomes
    <2>3. CallsOK' /\ call'[c] = r
      BY <1>1, <2>2, CallsStay
    <2>4. Owned'
      BY <1>1, <2>2, OwnedStays DEF actorFrame
    <2>5. RestOK'
      BY <1>1, <2>1, <2>2 DEF RestOK, SnapshotOK, actorFrame
    <2>6. Held'
      BY <2>1, <2>2, <2>3, PathFacts DEF Held
    <2> QED BY <2>3, <2>4, <2>5, <2>6, TypeParts DEF TreeInv
  <1>4. CASE ~(call[c].ctxDone \/ call[c].base # current.gen) /\ call[c].build = None
    <2>1. /\ current' = [current EXCEPT !.mode = call[c].state.mode,
                            !.addError = call[c].state.addError, !.loc = call[c].state.loc]
          /\ call' = [call EXCEPT ![c] = Answered(call[c], call[c].effect)]
          /\ UNCHANGED <<nextID, pending, retiring, cleaning>>
      BY <1>4 DEF Start
    <2> DEFINE e == call[c].effect
    <2>2. e \in EffectRecords
      BY <1>2 DEF CallRecords
    <2> HIDE DEF e
    <2>3. PICK r : Becomes(c, r) /\ r.at = "answered" /\ r.created = <<>>
      <3>1. call' = [call EXCEPT ![c] = Answered(call[c], e)]
        BY <2>1 DEF e
      <3> QED BY <1>1, <2>2, <3>1, AnswerBecomes
    <2>4. CallsOK'
      BY <1>1, <2>3, CallsStay
    <2>5. Owned'
      BY <1>1, <2>3, OwnedStays DEF actorFrame
    <2>6. RestOK'
      <3>1. call[c].state.mode \in Modes /\ call[c].state.addError \in BOOLEAN
            /\ call[c].state.loc \in Paths
        BY <1>2 DEF States
      <3>2. SnapshotOK' /\ current'.gen = current.gen
        BY <1>1, <2>1, <3>1 DEF RestOK, SnapshotOK
      <3> QED BY <1>1, <2>1, <3>2 DEF RestOK, actorFrame
    <2>7. Held'
      BY <2>1 DEF Held
    <2> QED BY <2>4, <2>5, <2>6, <2>7, TypeParts DEF TreeInv
  <1>5. CASE ~(call[c].ctxDone \/ call[c].base # current.gen) /\ call[c].build # None
    <2>1. /\ nextID' = nextID + 1 /\ pending' = c /\ retiring' = FALSE
          /\ call' = [call EXCEPT ![c].at = "held"]
          /\ UNCHANGED <<current, cleaning>>
      BY <1>5 DEF Start
    <2>2. PICK r : Becomes(c, r) /\ r.at = "held" /\ r.created = call[c].created
      BY <1>1, <2>1, HoldBecomes
    <2>3. CallsOK' /\ call'[c] = r
      BY <1>1, <2>2, CallsStay
    <2>4. Owned'
      BY <1>1, <2>2, OwnedStays DEF actorFrame
    <2>5. RestOK'
      <3>a. nextID \in Nat /\ current.gen \in Nat /\ current.gen <= nextID
        BY <1>1 DEF RestOK, SnapshotOK
      <3>b. nextID' = nextID + 1
        BY <2>1
      <3>1. nextID' \in Nat /\ current.gen <= nextID'
        BY <3>a, <3>b
      <3> QED BY <1>1, <2>1, <3>1 DEF RestOK, SnapshotOK, actorFrame
    <2>6. Held'
      BY <2>1, <2>2, <2>3, PathFacts DEF Held
    <2> QED BY <2>3, <2>4, <2>5, <2>6, TypeParts DEF TreeInv
  <1> QED BY <1>3, <1>4, <1>5

(* The actor takes a proposal: starts it, refuses it or holds it.          *)
LEMMA SubmitTree ==
  ASSUME TreeInv, NEW c \in Calls, Submit(c)
  PROVE  TreeInv'
PROOF
  <1>1. CallsOK /\ RestOK /\ TypeOK /\ Held /\ Owned
    BY TypeParts DEF TreeInv
  <1>2. call[c].at = "sending" /\ cleaning = None /\ UNCHANGED <<actorFrame, kept>>
    BY DEF Submit, Serving, actorFrame
  <1>3. CASE pending = None
    <2>1. Start(c) /\ replacement' = None
      BY <1>3 DEF Submit, Serving
    <2> QED BY <1>2, <1>3, <2>1, StartTree
  <1>4. CASE pending # None /\ (call[c].ctxDone \/ call[c].base # current.gen \/ retiring \/ replacement # None)
    <2>1. Refuse(c) /\ UNCHANGED <<current, nextID, pending, retiring, replacement>>
      BY <1>4 DEF Submit
    <2>2. PICK r : /\ Becomes(c, r) /\ r.created \in {call[c].created, <<>>}
                   /\ \/ r.at = "answered" /\ cleaning' = cleaning
                      \/ r.at = "removing" /\ cleaning' = c
      BY <1>1, <1>2, <2>1, RefuseBecomes
    <2>3. CallsOK' /\ call'[c] = r /\ \A d \in Calls : d # c => call'[d] = call[d]
      BY <1>1, <2>2, CallsStay
    <2>4. Owned'
      BY <1>1, <1>2, <2>2, OwnedStays DEF actorFrame
    <2>5. RestOK'
      BY <1>1, <1>2, <2>1, <2>2 DEF RestOK, SnapshotOK, actorFrame
    <2>6. Held'
      BY <1>1, <1>2, <2>1, <2>2, <2>3, PathFacts DEF Held, RestOK
    <2> QED BY <2>3, <2>4, <2>5, <2>6, TypeParts DEF TreeInv
  <1>5. CASE pending # None /\ ~(call[c].ctxDone \/ call[c].base # current.gen \/ retiring \/ replacement # None)
    <2>1. /\ retiring' = TRUE /\ replacement' = c
          /\ call' = [call EXCEPT ![c].at = "held"]
          /\ UNCHANGED <<current, nextID, pending, cleaning>>
      BY <1>5 DEF Submit
    <2>2. PICK r : Becomes(c, r) /\ r.at = "held" /\ r.created = call[c].created
      BY <1>1, <1>2, <2>1, HoldBecomes
    <2>3. CallsOK' /\ call'[c] = r /\ \A d \in Calls : d # c => call'[d] = call[d]
      BY <1>1, <2>2, CallsStay
    <2>4. Owned'
      BY <1>1, <1>2, <2>2, OwnedStays DEF actorFrame
    <2>5. RestOK'
      BY <1>1, <1>2, <2>1 DEF RestOK, SnapshotOK, actorFrame
    <2>6. Held'
      BY <1>1, <1>2, <2>1, <2>2, <2>3, PathFacts DEF Held, RestOK
    <2> QED BY <2>3, <2>4, <2>5, <2>6, TypeParts DEF TreeInv
  <1> QED BY <1>3, <1>4, <1>5

(* The replacement starts once the build it replaces is gone.              *)
LEMMA ReplacementTree ==
  ASSUME TreeInv, StartReplacement
  PROVE  TreeInv'
PROOF
  <1>1. /\ replacement \in Calls /\ call[replacement].at = "held" /\ Start(replacement)
        /\ pending = None /\ cleaning = None /\ replacement' = None
        /\ UNCHANGED <<actorFrame, kept>>
    BY DEF TreeInv, TypeOK, Held, StartReplacement, actorFrame
  <1> QED BY <1>1, StartTree

(* The actor hears that the caller of a build has gone.                    *)
LEMMA CallerDoneTree ==
  ASSUME TreeInv, CallerDone
  PROVE  TreeInv'
PROOF
  <1>1. CallsOK /\ RestOK /\ Held /\ Owned
    BY TypeParts DEF TreeInv
  <1>2. /\ retiring' = TRUE
        /\ UNCHANGED <<current, nextID, pending, replacement, cleaning, fs, call, ui, outcome,
                       keys, losses, kept>>
    BY DEF CallerDone
  <1>3. CallsOK' /\ RestOK'
    BY <1>1, <1>2 DEF CallsOK, RestOK, SnapshotOK
  <1>4. Held' /\ Owned'
    BY <1>1, <1>2 DEF Held, Owned
  <1> QED BY <1>3, <1>4, TypeParts DEF TreeInv

(* A listing consists of candidates.                                       *)
LEMMA ListingType ==
  ASSUME fs \subseteq Paths, NEW l \in Paths
  PROVE  Listing(l) \subseteq Candidates
PROOF
  <1>1. Children(l) \subseteq Paths
    BY PathFacts DEF Children
  <1>2. Parent(l) \in Paths
    BY PathFacts
  <1>3. \A d \in {".", "..", "name"}, q \in Paths : Candidate(d, q) \in Candidates
    BY DEF Candidate, Candidates
  <1> QED BY <1>1, <1>2, <1>3 DEF Listing

(* What a completion makes of the snapshot and of the call.                *)
LEMMA CompleteBecomes ==
  ASSUME TypeOK, Held, Complete
  PROVE  /\ pending \in Calls /\ call[pending].at = "held" /\ cleaning = None
         /\ pending' = None /\ retiring' = FALSE
         /\ UNCHANGED <<nextID, replacement, fs, ui, outcome, keys, losses>>
         /\ \/ Refuse(pending) /\ UNCHANGED <<current, kept>>
            \/ \E r, e :
                  /\ call[pending].base = current.gen
                  /\ current' = [gen |-> nextID, mode |-> call[pending].state.mode,
                                 addError |-> call[pending].state.addError,
                                 loc |-> call[pending].state.loc,
                                 records |-> Listing(call[pending].build)]
                  /\ e \in EffectRecords /\ e = [call[pending].effect EXCEPT !.reload = nextID]
                  /\ Becomes(pending, r) /\ r.at = "answered" /\ r.created = <<>> /\ ~r.ctxDone
                  /\ r.effect = e
                  /\ r.item = IF e.finish = "accept" THEN call[pending].item ELSE None
                  /\ kept' = kept \cup ToSet(call[pending].created) /\ cleaning' = cleaning
PROOF
  <1>1. /\ pending \in Calls /\ call[pending].at = "held" /\ cleaning = None
        /\ pending' = None /\ retiring' = FALSE
        /\ UNCHANGED <<nextID, replacement, fs, ui, outcome, keys, losses>>
    BY DEF Complete, TypeOK, Held, Serving
  <1>2. ASSUME ~(Refuse(pending) /\ UNCHANGED <<current, kept>>)
        PROVE  \E r, e :
                  /\ call[pending].base = current.gen
                  /\ current' = [gen |-> nextID, mode |-> call[pending].state.mode,
                                 addError |-> call[pending].state.addError,
                                 loc |-> call[pending].state.loc,
                                 records |-> Listing(call[pending].build)]
                  /\ e \in EffectRecords /\ e = [call[pending].effect EXCEPT !.reload = nextID]
                  /\ Becomes(pending, r) /\ r.at = "answered" /\ r.created = <<>> /\ ~r.ctxDone
                  /\ r.effect = e
                  /\ r.item = IF e.finish = "accept" THEN call[pending].item ELSE None
                  /\ kept' = kept \cup ToSet(call[pending].created) /\ cleaning' = cleaning
    <2> DEFINE e == [call[pending].effect EXCEPT !.reload = nextID]
    <2>1. /\ call[pending].base = current.gen
          /\ current' = [gen |-> nextID, mode |-> call[pending].state.mode,
                         addError |-> call[pending].state.addError,
                         loc |-> call[pending].state.loc,
                         records |-> Listing(call[pending].build)]
          /\ call' = [call EXCEPT ![pending] = Answered(call[pending], e)]
          /\ kept' = kept \cup ToSet(call[pending].created) /\ cleaning' = cleaning
      BY <1>2, Zenon DEF Complete
    <2>2. e \in EffectRecords
      <3>1. call[pending].effect \in EffectRecords /\ nextID \in Nat
        BY <1>1 DEF TypeOK, CallRecords
      <3> QED BY <3>1 DEF EffectRecords
    <2>3. e = [call[pending].effect EXCEPT !.reload = nextID]
      OBVIOUS
    <2> HIDE DEF e
    <2>4. PICK r : /\ Becomes(pending, r) /\ r.at = "answered" /\ r.created = <<>> /\ ~r.ctxDone
                   /\ r.effect = e
                   /\ r.item = IF e.finish = "accept" THEN call[pending].item ELSE None
      BY <1>1, <2>1, <2>2, AnswerBecomes
    <2> QED BY <2>1, <2>2, <2>3, <2>4
  <1> QED BY <1>1, <1>2

(* A build completes.                                                      *)
LEMMA CompleteTree ==
  ASSUME TreeInv, Complete
  PROVE  TreeInv'
PROOF
  <1>1. CallsOK /\ RestOK /\ TypeOK /\ Held /\ Owned
    BY TypeParts DEF TreeInv
  <1>2. /\ pending \in Calls /\ call[pending].at = "held" /\ cleaning = None
        /\ pending' = None /\ retiring' = FALSE
        /\ UNCHANGED <<nextID, replacement, fs, ui, outcome, keys, losses>>
    BY <1>1, CompleteBecomes
  <1>3. CASE Refuse(pending) /\ UNCHANGED <<current, kept>>
    <2>2. PICK r : /\ Becomes(pending, r) /\ r.created \in {call[pending].created, <<>>}
                   /\ \/ r.at = "answered" /\ cleaning' = cleaning
                      \/ r.at = "removing" /\ cleaning' = pending
      BY <1>1, <1>2, <1>3, RefuseBecomes
    <2>3. CallsOK' /\ call'[pending] = r /\ \A d \in Calls : d # pending => call'[d] = call[d]
      BY <1>1, <1>2, <2>2, CallsStay
    <2>4. Owned'
      BY <1>1, <1>2, <1>3, <2>2, OwnedStays
    <2>5. RestOK'
      BY <1>1, <1>2, <1>3, <2>2 DEF RestOK, SnapshotOK
    <2>6. Held'
      BY <1>1, <1>2, <2>2, <2>3, PathFacts DEF Held, RestOK
    <2> QED BY <2>3, <2>4, <2>5, <2>6, TypeParts DEF TreeInv
  <1>4. CASE ~(Refuse(pending) /\ UNCHANGED <<current, kept>>)
    <2>2. PICK r : /\ Becomes(pending, r) /\ r.at = "answered" /\ r.created = <<>>
                   /\ current' = [gen |-> nextID, mode |-> call[pending].state.mode,
                                  addError |-> call[pending].state.addError,
                                  loc |-> call[pending].state.loc,
                                  records |-> Listing(call[pending].build)]
                   /\ kept' = kept \cup ToSet(call[pending].created) /\ cleaning' = cleaning
      BY <1>1, <1>4, CompleteBecomes
    <2>3. CallsOK' /\ call'[pending] = r /\ \A d \in Calls : d # pending => call'[d] = call[d]
      BY <1>1, <1>2, <2>2, CallsStay
    <2>4. Owned'
      BY <1>1, <1>2, <2>2, OwnedKeeps
    <2>5. RestOK'
      <3>1. call[pending].state \in States
        BY <1>1, <1>2 DEF TypeOK
      <3>b. call[pending].build \in fs /\ fs \subseteq Paths
        BY <1>1, <1>4, Zenon DEF Complete, RestOK
      <3>2. Listing(call[pending].build) \subseteq Candidates
        BY <3>b, ListingType
      <3> DEFINE l == Listing(call[pending].build)
                 s == call[pending].state
      <3>3. s.mode \in Modes /\ s.addError \in BOOLEAN /\ s.loc \in Paths
        BY <3>1 DEF States
      <3>a. nextID \in Nat /\ current.gen \in Nat \ {0} /\ current.gen <= nextID
        BY <1>1 DEF RestOK, SnapshotOK
      <3>4. nextID \in Nat \ {0}
        BY <3>a
      <3> HIDE DEF l, s
      <3>5. SnapshotOK' /\ current'.gen = nextID
        BY <2>2, <3>2, <3>3, <3>4 DEF SnapshotOK, l, s
      <3>6. kept' \subseteq Paths
        BY <2>4, <1>1, <1>2 DEF Owned, RestOK
      <3>7. nextID' \in Nat /\ current'.gen <= nextID'
        BY <1>2, <3>a, <3>5
      <3>8. cleaning' = cleaning /\ fs' \subseteq Paths
        BY <1>1, <1>2, <2>2 DEF RestOK
      <3> QED BY <1>1, <1>2, <3>5, <3>6, <3>7, <3>8 DEF RestOK
    <2>6. Held'
      BY <1>1, <1>2, <2>2, <2>3, PathFacts DEF Held, RestOK
    <2> QED BY <2>3, <2>4, <2>5, <2>6, TypeParts DEF TreeInv
  <1> QED BY <1>3, <1>4

(* The actor's rollback.                                                   *)
LEMMA CleanTree ==
  ASSUME TreeInv, Clean
  PROVE  TreeInv'
PROOF
  <1>1. CallsOK /\ RestOK /\ TypeOK /\ Held /\ Owned
    BY TypeParts DEF TreeInv
  <1>2. cleaning \in Calls /\ call[cleaning].at = "removing"
    BY <1>1 DEF Clean, Held, RestOK
  <1>3. CASE call[cleaning].created # <<>>
    <2>1. Removes(cleaning) /\ UNCHANGED <<sessionFrame, kept>>
      BY <1>3 DEF Clean, sessionFrame, actorVars
    <2> QED BY <1>2, <1>3, <2>1, RemovesTree
  <1>4. CASE call[cleaning].created = <<>>
    <2>1. /\ call' = [call EXCEPT ![cleaning] = Answered(call[cleaning], NoEffect)]
          /\ cleaning' = None
          /\ UNCHANGED <<fs, current, nextID, pending, retiring, replacement, ui, outcome,
                         keys, losses, kept>>
      BY <1>4 DEF Clean
    <2>2. PICK r : Becomes(cleaning, r) /\ r.at = "answered" /\ r.created = <<>>
      BY <1>1, <1>2, <2>1, Constants, AnswerBecomes
    <2>3. CallsOK' /\ \A d \in Calls : d # cleaning => call'[d] = call[d]
      BY <1>1, <1>2, <2>2, CallsStay
    <2>4. Owned'
      BY <1>1, <1>2, <2>1, <2>2, OwnedStays
    <2>5. RestOK'
      BY <1>1, <2>1 DEF RestOK, SnapshotOK
    <2>6. Held'
      BY <1>1, <1>2, <2>1, <2>3, PathFacts DEF Held, RestOK
    <2> QED BY <2>3, <2>4, <2>5, <2>6, TypeParts DEF TreeInv
  <1> QED BY <1>3, <1>4

-----------------------------------------------------------------------------
(* Everything in fzf's state replaced.                                     *)
Redrawn(w, b, s, p, h, n, a, v, l, q, x, m) ==
    [w EXCEPT !.busy = None, !.bound = b, !.search = s, !.prompt = p, !.header = h,
              !.load = n, !.armed = a, !.view = v, !.records = l, !.query = q,
              !.exit = x, !.selected = m]

(* It has the type of fzf's state.                                         *)
LEMMA RedrawnType ==
  ASSUME NEW w \in UiRecords, NEW b \in SUBSET {"navigation", "normal"}, NEW s \in BOOLEAN,
         NEW p \in Modes \cup {"add error"}, NEW h \in Paths, NEW n \in Nat, NEW a \in BOOLEAN,
         NEW v \in Nat, NEW l \in SUBSET Candidates, NEW q \in Paths,
         NEW x \in {"", "abort", "accept"}, NEW m \in SUBSET Candidates
  PROVE  Redrawn(w, b, s, p, h, n, a, v, l, q, x, m) \in UiRecords
  BY DEF UiRecords, Redrawn

(* What fzf shows after an effect, field by field.                         *)
LEMMA RenderedFields ==
  ASSUME ui \in UiRecords, NEW e \in EffectRecords, NEW item \in Candidates \cup {None}
  PROVE  LET u == Rendered(e, item)
             lists == e.reload + e.restore
         IN  /\ u \in UiRecords
             /\ u.busy = None /\ u.load = lists /\ u.exit = e.finish
             /\ u.bound = IF e.rebind # "" THEN BoundIn(e.rebind) ELSE ui.bound
             /\ u.search <=> IF e.rebind # "" THEN e.rebind # "normal" ELSE ui.search
             /\ u.prompt = IF e.prompt # "" THEN e.prompt ELSE ui.prompt
             /\ u.header = IF e.header # None THEN e.header ELSE ui.header
             /\ u.armed <=> e.invalid \/ (ui.armed /\ lists = 0)
             /\ u.view = IF e.invalid THEN 0 ELSE ui.view
             /\ u.records = IF e.invalid THEN {} ELSE ui.records
             /\ u.selected = IF e.clearMulti THEN {}
                             ELSE IF e.finish = "accept" /\ ui.selected = {} THEN {item} \ {None}
                             ELSE ui.selected
PROOF
  <1> DEFINE lists == e.reload + e.restore
             b == IF e.rebind # "" THEN BoundIn(e.rebind) ELSE ui.bound
             s == IF e.rebind # "" THEN e.rebind # "normal" ELSE ui.search
             p == IF e.prompt # "" THEN e.prompt ELSE ui.prompt
             h == IF e.header # None THEN e.header ELSE ui.header
             a == e.invalid \/ (ui.armed /\ lists = 0)
             v == IF e.invalid THEN 0 ELSE ui.view
             l == IF e.invalid THEN {} ELSE ui.records
             q == IF e.put THEN Junk ELSE IF e.clearQuery THEN <<>> ELSE ui.query
             x == e.finish
             m == IF e.clearMulti THEN {}
                  ELSE IF e.finish = "accept" /\ ui.selected = {} THEN {item} \ {None}
                  ELSE ui.selected
  <1>1. Rendered(e, item) =
           Redrawn(ui, b, s, p, h, lists, a, v, l, q, x, m)
    BY Zenon DEF Rendered, Redrawn
  <1>2. lists \in Nat
    <2>1. e.reload \in Nat /\ e.restore \in Nat
      BY DEF EffectRecords
    <2> QED BY <2>1
  <1>3. b \in SUBSET {"navigation", "normal"}
    BY DEF EffectRecords, UiRecords, BoundIn, Modes
  <1>4. s \in BOOLEAN /\ a \in BOOLEAN
    BY DEF EffectRecords, UiRecords
  <1>5. p \in Modes \cup {"add error"} /\ h \in Paths
    BY DEF EffectRecords, UiRecords
  <1>6. v \in Nat /\ l \in SUBSET Candidates /\ x \in {"", "abort", "accept"}
    BY DEF EffectRecords, UiRecords
  <1>7. q \in Paths
    BY PathFacts DEF UiRecords
  <1>8. m \in SUBSET Candidates
    BY DEF UiRecords
  <1> DEFINE u == Rendered(e, item)
  <1> HIDE DEF lists, b, s, p, h, a, v, l, q, x, m
  <1>9. /\ u \in UiRecords /\ u.busy = None /\ u.load = lists /\ u.exit = x /\ u.bound = b
        /\ u.prompt = p /\ u.header = h /\ u.view = v /\ u.records = l /\ u.selected = m
        /\ (u.search <=> s) /\ (u.armed <=> a)
    <2>1. u = Redrawn(ui, b, s, p, h, lists, a, v, l, q, x, m)
      BY <1>1
    <2> HIDE DEF u
    <2>2. u \in UiRecords
      BY <2>1, <1>2, <1>3, <1>4, <1>5, <1>6, <1>7, <1>8, RedrawnType, Zenon
    <2>3. u.busy = None /\ u.load = lists /\ u.exit = x /\ u.bound = b
      BY <2>1 DEF Redrawn, UiRecords
    <2>4. u.prompt = p /\ u.header = h /\ u.view = v /\ u.records = l /\ u.selected = m
      BY <2>1 DEF Redrawn, UiRecords
    <2>5. u.search = s /\ u.armed = a
      BY <2>1 DEF Redrawn, UiRecords
    <2> QED BY <2>2, <2>3, <2>4, <2>5
  <1>10. (u.search <=> s) /\ (u.armed <=> a)
    BY <1>9
  <1> HIDE DEF u
  <1>11. (s <=> IF e.rebind # "" THEN e.rebind # "normal" ELSE ui.search)
         /\ (a <=> e.invalid \/ (ui.armed /\ lists = 0))
    BY DEF s, a
  <1>12. u.search <=> IF e.rebind # "" THEN e.rebind # "normal" ELSE ui.search
    BY <1>10, <1>11
  <1>13. u.armed <=> e.invalid \/ (ui.armed /\ e.reload + e.restore = 0)
    BY <1>10, <1>11 DEF lists
  <1> QED BY <1>9, <1>12, <1>13 DEF lists, b, p, h, v, l, x, m, u

(* A step of fzf alone.                                                    *)
LEMMA UiTree ==
  ASSUME TreeInv, ui' \in UiRecords, UNCHANGED <<actorVars, fs, call, kept>>,
         outcome' \in {"none", "aborted", "no match", "accepted", "unknown selection"},
         keys' \in 0..MaxPresses, losses' \in 0..MaxLosses
  PROVE  TreeInv'
PROOF
  <1>1. CallsOK /\ RestOK /\ Held /\ Owned
    BY TypeParts DEF TreeInv
  <1>2. CallsOK' /\ RestOK'
    BY <1>1 DEF CallsOK, RestOK, SnapshotOK, actorVars
  <1>3. Held' /\ Owned'
    <2>1. fs' = fs /\ kept' = kept /\ call' = call
      OBVIOUS
    <2>2. Owned'
      BY <1>1, <2>1, ZenonT(30) DEF Owned
    <2>3. Held'
      BY <1>1 DEF Held, actorVars
    <2> QED BY <2>2, <2>3
  <1> QED BY <1>2, <1>3, TypeParts DEF TreeInv

(* A call that comes or goes.                                              *)
LEMMA CallTree ==
  ASSUME TreeInv, ui' \in UiRecords, NEW c \in Calls, NEW r, Becomes(c, r), r.created = <<>>,
         call[c].at \in {"idle", "answered"},
         UNCHANGED <<actorVars, fs, kept, outcome, losses>>, keys' \in 0..MaxPresses
  PROVE  TreeInv'
PROOF
  <1>1. CallsOK /\ RestOK /\ TypeOK /\ Held /\ Owned
    BY TypeParts DEF TreeInv
  <1>2. CallsOK' /\ Held'
    BY <1>1, CallsStay, HeldStays
  <1>3. RestOK'
    BY <1>1 DEF RestOK, SnapshotOK, actorVars
  <1>4. Owned'
    BY <1>1, OwnedStays
  <1> QED BY <1>2, <1>3, <1>4, TypeParts DEF TreeInv

(* A call that is delivered leaves an idle slot.                           *)
LEMMA IdleBecomes ==
  ASSUME NEW c \in Calls, call' = [call EXCEPT ![c] = Idle]
  PROVE  Becomes(c, Idle) /\ Idle.at = "idle" /\ Idle.created = <<>> /\ ~Idle.ctxDone
PROOF
  <1>1. Idle \in CallRecords
    BY Constants
  <1>2. Idle.at = "idle" /\ Idle.created = <<>> /\ ~Idle.ctxDone
    BY DEF Idle
  <1> QED BY <1>1, <1>2 DEF Becomes, InPlace

(* What fzf becomes when an answer is delivered has its type.              *)
LEMMA DeliverUi ==
  ASSUME TypeOK, NEW c \in Calls, Deliver(c)
  PROVE  ui' \in UiRecords
PROOF
  <1>1. ui \in UiRecords /\ call[c].effect \in EffectRecords /\ call[c].item \in Candidates \cup {None}
    BY DEF TypeOK, CallRecords
  <1>2. Rendered(call[c].effect, call[c].item) \in UiRecords
    BY <1>1, RenderedFields
  <1>3. [ui EXCEPT !.busy = None] \in UiRecords
    BY <1>1 DEF UiRecords
  <1>4. ui' \in {ui, [ui EXCEPT !.busy = None], Rendered(call[c].effect, call[c].item)}
    BY DEF Deliver
  <1> QED BY <1>1, <1>2, <1>3, <1>4

(* The slot of a new event, and the event in it.                           *)
LEMMA FiresBecomes ==
  ASSUME TypeOK, NEW op \in Opcodes \cup {"restore"}, NEW item \in Candidates \cup {None},
         Fires(op, item), keys > 0
  PROVE  /\ Free \in Calls /\ call[Free].at = "idle"
         /\ keys' \in 0..MaxPresses
         /\ \E r : Becomes(Free, r) /\ r.at = "asked" /\ r.created = <<>> /\ ~r.ctxDone
PROOF
  <1>1. Free \in Calls /\ call[Free].at = "idle"
    BY DEF Fires, Free
  <1> DEFINE r == [Idle EXCEPT !.at = "asked", !.op = op, !.query = ui.query, !.item = item]
  <1>2. call' = [call EXCEPT ![Free] = r]
    BY DEF Fires
  <1>3. Idle \in CallRecords /\ Idle.created = <<>> /\ ~Idle.ctxDone
    BY Constants DEF Idle
  <1>4. ui.query \in Paths
    BY DEF TypeOK, UiRecords
  <1>5. r \in CallRecords /\ r.at = "asked" /\ r.op = op /\ r.created = <<>> /\ ~r.ctxDone
    BY <1>3, <1>4 DEF CallRecords
  <1> HIDE DEF r
  <1>6. Becomes(Free, r)
    BY <1>2, <1>5 DEF Becomes, InPlace
  <1>7. keys' \in 0..MaxPresses
    <2>1. keys \in 0..MaxPresses /\ MaxPresses \in Nat
      BY EventsAssumption DEF TypeOK
    <2>2. keys > 0 /\ keys' = keys - 1
      BY DEF Fires
    <2> QED BY <2>1, <2>2
  <1> QED BY <1>1, <1>5, <1>6, <1>7

(* An answer is delivered.                                                 *)
LEMMA DeliverTree ==
  ASSUME TreeInv, NEW c \in Calls, Deliver(c)
  PROVE  TreeInv'
PROOF
  <1>1. TypeOK /\ keys \in 0..MaxPresses
    BY DEF TreeInv, TypeOK
  <1>2. /\ call[c].at = "answered" /\ call' = [call EXCEPT ![c] = Idle]
        /\ UNCHANGED <<actorVars, fs, kept, outcome, losses, keys>>
    BY DEF Deliver
  <1> QED BY <1>1, <1>2, DeliverUi, IdleBecomes, CallTree

(* What fzf becomes when a key is pressed has its type.                    *)
LEMMA PressUi ==
  ASSUME TypeOK, Free \in Calls, NEW q \in Paths
  PROVE  [ui EXCEPT !.busy = Free] \in UiRecords /\ [ui EXCEPT !.query = q] \in UiRecords
         /\ [ui EXCEPT !.query = q, !.busy = Free] \in UiRecords
PROOF
  <1> DEFINE f == Free
  <1>1. f \in Calls /\ ui \in UiRecords
    BY DEF TypeOK
  <1> HIDE DEF f
  <1>2. [ui EXCEPT !.busy = f] \in UiRecords /\ [ui EXCEPT !.query = q] \in UiRecords
         /\ [ui EXCEPT !.query = q, !.busy = f] \in UiRecords
    BY <1>1 DEF UiRecords
  <1> QED BY <1>2 DEF f

(* Keys, edits, marks and quitting.                                        *)
LEMMA UserTree ==
  ASSUME TreeInv, User
  PROVE  TreeInv'
PROOF
  <1>1. /\ TypeOK /\ ui \in UiRecords /\ keys \in 0..MaxPresses /\ losses \in 0..MaxLosses
        /\ ui.records \subseteq Candidates /\ <<>> \in Paths
        /\ outcome \in {"none", "aborted", "no match", "accepted", "unknown selection"}
    BY PathFacts DEF TreeInv, TypeOK, UiRecords
  <1>2. ASSUME NEW op \in Opcodes, NEW item \in ui.records \cup {None}, Press(op, item)
        PROVE  TreeInv'
    <2>1. /\ Fires(op, item) /\ item \in Candidates \cup {None} /\ op \in Opcodes \cup {"restore"}
          /\ keys > 0
      BY <1>1, <1>2 DEF Press, Attentive
    <2>2. /\ Free \in Calls /\ call[Free].at = "idle" /\ keys' \in 0..MaxPresses
          /\ \E r : Becomes(Free, r) /\ r.at = "asked" /\ r.created = <<>>
      BY <1>1, <2>1, FiresBecomes
    <2>3. ui' = [ui EXCEPT !.busy = Free] /\ UNCHANGED <<actorVars, fs, kept, outcome, losses>>
      BY <1>2 DEF Press
    <2>4. ui' \in UiRecords
      BY <1>1, <2>2, <2>3, PressUi
    <2> QED BY <2>2, <2>3, <2>4, CallTree
  <1>3. ASSUME NEW query \in Queries, Type(query)
        PROVE  TreeInv'
    <2>1. query \in Paths /\ UNCHANGED <<actorVars, fs, kept, outcome, losses>>
      BY <1>3, EventsAssumption DEF Type
    <2>2. CASE ui.armed
      <3>1. /\ Fires("restore", None) /\ ui' = [ui EXCEPT !.query = query, !.busy = Free]
            /\ keys > 0
        BY <1>3, <2>2 DEF Type, Attentive
      <3>2. /\ Free \in Calls /\ call[Free].at = "idle" /\ keys' \in 0..MaxPresses
            /\ \E r : Becomes(Free, r) /\ r.at = "asked" /\ r.created = <<>>
        BY <1>1, <3>1, FiresBecomes
      <3>3. ui' \in UiRecords
        BY <1>1, <2>1, <3>1, <3>2, PressUi
      <3> QED BY <2>1, <3>2, <3>3, CallTree
    <2>3. CASE ~ui.armed
      <3>1. ui' = [ui EXCEPT !.query = query] /\ UNCHANGED <<call, keys>>
        BY <1>3, <2>3 DEF Type
      <3>2. ui' \in UiRecords
        BY <1>1, <2>1, <3>1 DEF UiRecords
      <3> QED BY <1>1, <2>1, <3>1, <3>2, UiTree
    <2> QED BY <2>2, <2>3
  <1>4. ASSUME NEW item \in ui.records, Toggle(item)
        PROVE  TreeInv'
    <2> DEFINE m == SymDiff(ui.selected, {item})
    <2>1. /\ ui' = [ui EXCEPT !.selected = m]
          /\ UNCHANGED <<actorVars, fs, call, outcome, keys, losses, kept>>
      BY <1>4 DEF Toggle
    <2>2. m \in SUBSET Candidates
      BY <1>1, <1>4 DEF SymDiff, UiRecords
    <2> HIDE DEF m
    <2>3. ui' \in UiRecords
      BY <1>1, <2>1, <2>2 DEF UiRecords
    <2> QED BY <1>1, <2>1, <2>3, UiTree
  <1>5. CASE Quit
    <2>1. /\ ui' = [ui EXCEPT !.exit = "abort"]
          /\ UNCHANGED <<actorVars, fs, call, outcome, keys, losses, kept>>
      BY <1>5 DEF Quit
    <2>2. ui' \in UiRecords
      BY <1>1, <2>1 DEF UiRecords
    <2> QED BY <1>1, <2>1, <2>2, UiTree
  <1> QED BY <1>2, <1>3, <1>4, <1>5 DEF User

(* Loading a list, the end of fzf and a callback that gives up.            *)
LEMMA FzfTree ==
  ASSUME TreeInv, Load \/ Finish \/ GiveUp
  PROVE  TreeInv'
PROOF
  <1>1. /\ TypeOK /\ ui \in UiRecords /\ keys \in 0..MaxPresses /\ losses \in 0..MaxLosses
        /\ outcome \in {"none", "aborted", "no match", "accepted", "unknown selection"}
        /\ current.gen \in Nat /\ current.records \in SUBSET Candidates
    BY DEF TreeInv, TypeOK
  <1>2. CASE Load
    <2>1. PICK marks \in {ui.selected, {}} :
             ui' = [ui EXCEPT !.load = 0, !.selected = marks,
                     !.view = IF ui.load = current.gen THEN current.gen ELSE 0,
                     !.records = IF ui.load = current.gen THEN current.records ELSE {}]
      BY <1>2 DEF Load
    <2>2. UNCHANGED <<actorVars, fs, call, outcome, keys, losses, kept>>
      BY <1>2 DEF Load
    <2> DEFINE v == IF ui.load = current.gen THEN current.gen ELSE 0
               l == IF ui.load = current.gen THEN current.records ELSE {}
    <2>3. v \in Nat /\ l \in SUBSET Candidates /\ marks \in SUBSET Candidates
      BY <1>1 DEF UiRecords
    <2>4. ui' = [ui EXCEPT !.load = 0, !.selected = marks, !.view = v, !.records = l]
      BY <2>1
    <2> HIDE DEF v, l
    <2>5. ui' \in UiRecords
      BY <1>1, <2>3, <2>4 DEF UiRecords
    <2> QED BY <1>1, <2>2, <2>5, UiTree
  <1>3. CASE Finish
    <2>1. /\ outcome' \in {"none", "aborted", "no match", "accepted", "unknown selection"}
          /\ UNCHANGED <<actorVars, fs, call, ui, keys, losses, kept>>
      BY <1>3 DEF Finish, ValidateCP
    <2> QED BY <1>1, <2>1, UiTree
  <1>4. CASE GiveUp
    <2>1. /\ ui' = [ui EXCEPT !.busy = None] /\ losses' = losses + 1 /\ losses < MaxLosses
          /\ UNCHANGED <<actorVars, fs, call, outcome, kept>>
          /\ keys' = IF keys > MaxLate THEN MaxLate ELSE keys
      BY <1>4 DEF GiveUp
    <2>2. ui' \in UiRecords
      BY <1>1, <2>1 DEF UiRecords
    <2>3. losses' \in 0..MaxLosses
      <3>1. MaxLosses \in Nat /\ losses \in 0..MaxLosses
        BY <1>1, EventsAssumption
      <3>2. losses' = losses + 1 /\ losses < MaxLosses
        BY <2>1
      <3> QED BY <3>1, <3>2
    <2>4. keys' \in 0..MaxPresses
      <3>1. MaxLate \in Nat /\ MaxPresses \in Nat /\ keys \in 0..MaxPresses
        BY <1>1, EventsAssumption
      <3> QED BY <2>1, <3>1
    <2> QED BY <1>1, <2>1, <2>2, <2>3, <2>4, UiTree
  <1> QED BY <1>2, <1>3, <1>4

-----------------------------------------------------------------------------
(* It holds initially,                                                     *)
LEMMA InitTree == Init => TreeInv
PROOF
  <1> SUFFICES ASSUME Init PROVE TreeInv
    OBVIOUS
  <1> DEFINE n == CHOOSE n \in Names : TRUE
  <1>1. n \in Names
    BY EventsAssumption
  <1> HIDE DEF n
  <1>2. fs = {Root} \cup {<<m>> : m \in {n}}
    BY Zenon DEF Init, n
  <1>3. fs \subseteq Paths
    BY <1>1, <1>2, PathFacts
  <1>4. Listing(Root) \subseteq Candidates
    BY <1>3, ListingType, PathFacts
  <1> DEFINE l == Listing(Root)
  <1> HIDE DEF l
  <1>5. current = [gen |-> 1, mode |-> "insert", addError |-> FALSE, loc |-> Root, records |-> l]
    BY DEF Init, l
  <1>6. SnapshotOK /\ current.gen = 1
    BY <1>4, <1>5, PathFacts DEF SnapshotOK, Modes, l
  <1>7. ui = [bound |-> {"navigation"}, search |-> TRUE, prompt |-> "insert",
             header |-> Root, armed |-> FALSE, view |-> 1, records |-> l,
             selected |-> {}, query |-> <<>>, busy |-> None, load |-> 0, exit |-> ""]
    BY DEF Init, BoundIn, l
  <1>8. ui \in UiRecords
    BY <1>4, <1>7, PathFacts DEF UiRecords, Modes, l
  <1>a. /\ keys = MaxPresses /\ losses = 0 /\ nextID = 1 /\ pending = None /\ retiring = FALSE
        /\ replacement = None /\ cleaning = None /\ kept = {} /\ outcome = "none"
    BY DEF Init
  <1>b. MaxPresses \in Nat /\ MaxLosses \in Nat
    BY EventsAssumption
  <1>9. keys \in 0..MaxPresses /\ losses \in 0..MaxLosses
    BY <1>a, <1>b
  <1>10. RestOK
    <2>1. nextID \in Nat /\ current.gen <= nextID
      BY <1>6, <1>a
    <2> QED BY <1>3, <1>6, <1>8, <1>9, <1>a, <2>1 DEF RestOK
  <1>11. \A c \in Calls : call[c] = Idle
    BY DEF Init
  <1>12. Idle.at = "idle" /\ Idle.created = <<>>
    BY DEF Idle
  <1>13. CallsOK
    BY <1>11, <1>12, Constants DEF CallsOK, InPlace, Init
  <1>14. Held
    BY DEF Held, Init
  <1>15. Owned
    <2>1. \A c \in Calls : call[c].created = <<>>
      BY <1>11, <1>12
    <2>2. \A c \in Calls : 1..Len(call[c].created) = {}
      BY <2>1
    <2> QED BY <1>a, <2>2 DEF Owned
  <1> QED BY <1>10, <1>13, <1>14, <1>15, TypeParts DEF TreeInv

(* and every step preserves it.                                            *)
LEMMA NextTree == TreeInv /\ [Next]_vars => TreeInv'
PROOF
  <1> SUFFICES ASSUME TreeInv, [Next]_vars PROVE TreeInv'
    OBVIOUS
  <1>1. ASSUME NEW c \in Calls, Session(c)
        PROVE  TreeInv'
    BY <1>1, SessionTree, MakeTree, UndoTree, SubmitTree, DeliverTree DEF Session
  <1>2. CASE StartReplacement \/ CallerDone \/ Complete \/ Clean
    BY <1>2, ReplacementTree, CallerDoneTree, CompleteTree, CleanTree
  <1>3. CASE Load \/ Finish \/ GiveUp
    BY <1>3, FzfTree
  <1>4. CASE User
    BY <1>4, UserTree
  <1>5. ASSUME NEW c \in Calls, Cancel(c) \/ Withdraw(c)
        PROVE  TreeInv'
    BY <1>5, SessionTree
  <1>6. CASE UNCHANGED vars
    <2>1. /\ ui' = ui /\ UNCHANGED <<actorVars, fs, call, kept>>
          /\ outcome' = outcome /\ keys' = keys /\ losses' = losses
      BY <1>6 DEF vars
    <2>2. /\ ui \in UiRecords /\ keys \in 0..MaxPresses /\ losses \in 0..MaxLosses
          /\ outcome \in {"none", "aborted", "no match", "accepted", "unknown selection"}
      BY DEF TreeInv, TypeOK
    <2> QED BY <2>1, <2>2, UiTree
  <1> QED BY <1>1, <1>2, <1>3, <1>4, <1>5, <1>6 DEF Next, Progress

(* The types, the calls that the actor holds and the directories of Adds   *)
(* under way hold in every state, whatever callbacks gave up.              *)
THEOREM TreeInvariant == Spec => []TreeInv
  BY InitTree, NextTree, PTL DEF Spec

(* Type correctness of the events, the session and fzf.                    *)
THEOREM TypeCorrectness == Spec => []TypeOK
PROOF
  <1>1. TreeInv => TypeOK
    BY DEF TreeInv
  <1> QED BY <1>1, TreeInvariant, PTL

(* No rollback, by the session or by the actor, removes a directory that a *)
(* published Add has made (CreateDirectoryTree, Rollback).                 *)
THEOREM AddsKeepTheirDirectories == Spec => []PublishedAddsKeepTheirDirectories
PROOF
  <1>1. TreeInv => PublishedAddsKeepTheirDirectories
    BY DEF TreeInv, Owned, PublishedAddsKeepTheirDirectories
  <1> QED BY <1>1, TreeInvariant, PTL

-----------------------------------------------------------------------------
(* While no callback has been lost there is one event at a time, the one   *)
(* fzf waits for, and nothing of the actor's overlaps with it.             *)
OneAtATime ==
    /\ \A c \in Calls : call[c].at # "idle" <=> ui.busy = c
    /\ \A c \in Calls : ~call[c].ctxDone
    /\ ~retiring /\ replacement = None
    /\ ui.busy # None => ui.load = 0 /\ ui.exit = ""

(* Where a call is while the session or the actor works on it.             *)
Working == {"ancestry", "look", "make", "undo", "sending", "held", "removing"}

(* fzf u shows all of snapshot s.                                          *)
ShowsAll(u, s) == ShowsMode(u, s) /\ ShowsList(u, s) /\ u.selected \subseteq s.records

(* fzf, to which effect e is delivered in state u, shows all of s or loads *)
(* its list.                                                               *)
Lands(e, item, u, s) ==
    /\ IF e.rebind = "" THEN u.bound = BoundIn(s.mode) /\ (u.search <=> (s.mode # "normal"))
       ELSE e.rebind = s.mode
    /\ (IF e.prompt = "" THEN u.prompt ELSE e.prompt) = Prompt(s.mode, s.addError)
    /\ (IF e.header = None THEN u.header ELSE e.header) = s.loc
    /\ e.reload = 0 \/ e.restore = 0
    /\ e.reload \in {0, s.gen} /\ e.restore \in {0, s.gen}
    /\ e.reload # 0 \/ e.restore # 0 => ~e.invalid
    /\ e.invalid => s.mode = "insert"
    /\ e.reload = 0 /\ e.restore = 0 /\ ~e.invalid => ShowsList(u, s)
    /\ ~e.clearMulti => u.selected \subseteq s.records
    /\ e.finish = "accept" => item \in s.records \cup {None}

(* fzf waits for nobody.                                                   *)
Rests(u, s) ==
    /\ ShowsMode(u, s) /\ u.selected \subseteq s.records
    /\ IF u.load = 0 THEN ShowsList(u, s) ELSE u.load = s.gen /\ ~u.armed

(* What a call is to fzf u and the snapshot s, at each step.               *)
InStep(r, u, s) ==
    /\ r.at \in Working \cup {"asked"} => ShowsAll(u, s)
    /\ r.at \in Working => r.base = s.gen
    /\ r.at \in {"ancestry", "look", "make", "undo"} => InTree(r, s)
    /\ r.at \in {"sending", "held"} => Fits(r.state, r.build, r.effect, r.item, s)
    /\ r.at = "answered" => Lands(r.effect, r.item, u, s)

(* The session and fzf agree, up to the effect that is under way.          *)
InSync ==
    /\ ui.busy = None => Rests(ui, current)
    /\ \A c \in Calls : InStep(call[c], ui, current)
    /\ outcome # "unknown selection"

(* The invariant that holds while no callback has been lost.               *)
SyncInv == losses = 0 => OneAtATime /\ InSync

(* The snapshots of the actor.                                             *)
Snapshots ==
    [gen : Nat \ {0}, mode : Modes, addError : BOOLEAN, loc : Paths, records : SUBSET Candidates]

(* A failure changes nothing in fzf.                                       *)
LEMMA NoEffectLands ==
  ASSUME NEW u, NEW s \in Snapshots, NEW item, ShowsAll(u, s)
  PROVE  Lands(NoEffect, item, u, s)
PROOF
  <1>1. /\ NoEffect.rebind = "" /\ NoEffect.prompt = "" /\ NoEffect.header = None
        /\ NoEffect.reload = 0 /\ NoEffect.restore = 0 /\ ~NoEffect.invalid
        /\ NoEffect.finish = ""
    BY DEF NoEffect
  <1> QED BY <1>1 DEF Lands, ShowsAll, ShowsMode

(* A proposal without a new list: its effect lands on the state proposed.  *)
LEMMA ProposalLands ==
  ASSUME NEW u, NEW s \in Snapshots, NEW t \in States, NEW e \in EffectRecords, NEW item, NEW i,
         ShowsAll(u, s), Fits(t, None, e, item, s),
         i = IF e.finish = "accept" THEN item ELSE None
  PROVE  Lands(e, i, u, [s EXCEPT !.mode = t.mode, !.addError = t.addError, !.loc = t.loc])
PROOF
  <1> DEFINE n == [s EXCEPT !.mode = t.mode, !.addError = t.addError, !.loc = t.loc]
  <1>1. /\ n.gen = s.gen /\ n.mode = t.mode /\ n.loc = t.loc /\ n.records = s.records
        /\ n.addError = t.addError
    BY DEF Snapshots
  <1>2. (n.addError <=> t.addError) /\ s.gen # 0
    BY <1>1 DEF Snapshots
  <1> HIDE DEF n
  <1>3. IF e.rebind = "" THEN u.bound = BoundIn(n.mode) /\ (u.search <=> (n.mode # "normal"))
        ELSE e.rebind = n.mode
    BY <1>1 DEF Fits, ShowsAll, ShowsMode
  <1>4. (IF e.prompt = "" THEN u.prompt ELSE e.prompt) = Prompt(n.mode, n.addError)
    BY <1>1, <1>2 DEF Fits, ShowsAll, ShowsMode, Prompt
  <1>5. (IF e.header = None THEN u.header ELSE e.header) = n.loc
    BY <1>1 DEF Fits, ShowsAll, ShowsMode
  <1>6. /\ e.reload = 0 /\ e.restore \in {0, n.gen}
        /\ e.restore # 0 => ~e.invalid
        /\ e.invalid => n.mode = "insert"
    BY <1>1 DEF Fits
  <1>7. e.restore = 0 /\ ~e.invalid => ShowsList(u, n)
    BY <1>1 DEF Fits, ShowsAll, ShowsList
  <1>8. u.selected \subseteq n.records
    BY <1>1 DEF ShowsAll
  <1>9. e.finish = "accept" => i \in n.records \cup {None}
    BY <1>1 DEF Fits
  <1>10. Lands(e, i, u, n)
    BY <1>3, <1>4, <1>5, <1>6, <1>7, <1>8, <1>9 DEF Lands
  <1> QED BY <1>10 DEF n

(* A proposal with a new list: its effect lands on the new snapshot.       *)
LEMMA NavigationLands ==
  ASSUME NEW u, NEW s \in Snapshots, NEW t \in States, NEW e \in EffectRecords, NEW item, NEW i,
         NEW b, b # None, NEW g \in Nat \ {0}, NEW l,
         ShowsAll(u, s), Fits(t, b, e, item, s),
         NEW f, f = [e EXCEPT !.reload = g],
         NEW n, n = [gen |-> g, mode |-> t.mode, addError |-> t.addError, loc |-> t.loc,
                     records |-> l]
  PROVE  Lands(f, i, u, n)
PROOF
  <1>1. n.gen = g /\ n.mode = t.mode /\ n.loc = t.loc /\ n.records = l /\ n.addError = t.addError
    OBVIOUS
  <1>2. (n.addError <=> t.addError)
    BY <1>1
  <1>3. /\ f.reload = g /\ f.restore = e.restore /\ f.rebind = e.rebind /\ f.prompt = e.prompt
        /\ f.header = e.header /\ (f.invalid <=> e.invalid) /\ (f.clearMulti <=> e.clearMulti)
        /\ f.finish = e.finish
    BY DEF EffectRecords
  <1>4. e.restore = 0 /\ ~e.invalid /\ e.clearMulti /\ e.finish = ""
    BY DEF Fits
  <1>5. IF f.rebind = "" THEN u.bound = BoundIn(n.mode) /\ (u.search <=> (n.mode # "normal"))
        ELSE f.rebind = n.mode
    BY <1>1, <1>3 DEF Fits, ShowsAll, ShowsMode
  <1>6. (IF f.prompt = "" THEN u.prompt ELSE f.prompt) = Prompt(n.mode, n.addError)
    BY <1>1, <1>2, <1>3 DEF Fits, ShowsAll, ShowsMode, Prompt
  <1>7. (IF f.header = None THEN u.header ELSE f.header) = n.loc
    BY <1>1, <1>3 DEF Fits, ShowsAll, ShowsMode
  <1> QED BY <1>1, <1>3, <1>4, <1>5, <1>6, <1>7 DEF Lands

(* Delivering an effect that lands leaves fzf at rest.                     *)
LEMMA DeliveredRests ==
  ASSUME NEW s \in Snapshots, ui \in UiRecords, NEW e \in EffectRecords,
         NEW item \in Candidates \cup {None}, Lands(e, item, ui, s)
  PROVE  Rests(Rendered(e, item), s)
PROOF
  <1> DEFINE u == Rendered(e, item)
             lists == e.reload + e.restore
  <1>1. /\ u.busy = None /\ u.load = lists /\ u.exit = e.finish
        /\ u.bound = IF e.rebind # "" THEN BoundIn(e.rebind) ELSE ui.bound
        /\ u.search <=> IF e.rebind # "" THEN e.rebind # "normal" ELSE ui.search
        /\ u.prompt = IF e.prompt # "" THEN e.prompt ELSE ui.prompt
        /\ u.header = IF e.header # None THEN e.header ELSE ui.header
        /\ u.armed <=> e.invalid \/ (ui.armed /\ lists = 0)
        /\ u.view = IF e.invalid THEN 0 ELSE ui.view
        /\ u.records = IF e.invalid THEN {} ELSE ui.records
        /\ u.selected = IF e.clearMulti THEN {}
                        ELSE IF e.finish = "accept" /\ ui.selected = {} THEN {item} \ {None}
                        ELSE ui.selected
    BY RenderedFields
  <1>2. /\ e.reload \in Nat /\ e.restore \in Nat /\ (e.reload = 0 \/ e.restore = 0)
        /\ e.reload \in {0, s.gen} /\ e.restore \in {0, s.gen} /\ s.gen \in Nat \ {0}
    BY DEF Lands, EffectRecords, Snapshots
  <1>3. lists \in {0, s.gen} /\ (lists = 0 <=> e.reload = 0 /\ e.restore = 0)
    BY <1>2
  <1> HIDE DEF u, lists
  <1>4. ShowsMode(u, s)
    BY <1>1 DEF Lands, ShowsMode
  <1>5. u.selected \subseteq s.records
    BY <1>1 DEF Lands
  <1>6. CASE lists = 0
    <2>1. ShowsList(u, s)
      BY <1>1, <1>3, <1>6 DEF Lands, ShowsList
    <2> QED BY <1>1, <1>4, <1>5, <1>6, <2>1 DEF Rests, u
  <1>7. CASE lists # 0
    <2>1. u.load = s.gen /\ ~u.armed
      BY <1>1, <1>3, <1>7 DEF Lands
    <2> QED BY <1>1, <1>4, <1>5, <1>7, <2>1 DEF Rests, u
  <1> QED BY <1>6, <1>7

-----------------------------------------------------------------------------
(* An idle call is in step with anything.                                  *)
LEMMA IdleInStep ==
  ASSUME NEW r, r.at = "idle", NEW u, NEW s
  PROVE  InStep(r, u, s)
  BY DEF InStep, Working

(* The call fzf waits for moves on, and fzf goes on waiting.               *)
LEMMA CallSync ==
  ASSUME TypeOK, OneAtATime, InSync, NEW c \in Calls, NEW r, Becomes(c, r),
         call[c].at # "idle", r.at # "idle", ~r.ctxDone,
         ui' = ui, ~retiring', replacement' = None, outcome' = outcome,
         InStep(r, ui, current')
  PROVE  OneAtATime' /\ InSync'
PROOF
  <1>1. call'[c] = r /\ \A d \in Calls : d # c => call'[d] = call[d]
    BY TypeParts, CallsStay
  <1>2. ui.busy = c /\ c # None
    BY PathFacts DEF OneAtATime
  <1>3. \A d \in Calls : d # c => call[d].at = "idle" /\ ~call[d].ctxDone
    BY <1>2 DEF OneAtATime
  <1>4. OneAtATime'
    BY <1>1, <1>2, <1>3 DEF OneAtATime
  <1>5. \A d \in Calls : InStep(call'[d], ui', current')
    BY <1>1, <1>3, IdleInStep
  <1>6. ui'.busy # None /\ outcome' # "unknown selection"
    BY <1>2 DEF InSync
  <1> QED BY <1>4, <1>5, <1>6 DEF InSync

(* fzf changes while it waits for nobody.                                  *)
LEMMA RestSync ==
  ASSUME OneAtATime, InSync, ui.busy = None, ui'.busy = None, call' = call,
         UNCHANGED <<retiring, replacement>>, outcome' # "unknown selection",
         Rests(ui', current')
  PROVE  OneAtATime' /\ InSync'
PROOF
  <1>1. \A d \in Calls : call[d].at = "idle" /\ ~call[d].ctxDone /\ d # None
    BY PathFacts DEF OneAtATime
  <1>2. OneAtATime'
    BY <1>1 DEF OneAtATime
  <1>3. \A d \in Calls : InStep(call'[d], ui', current')
    BY <1>1, IdleInStep
  <1> QED BY <1>2, <1>3 DEF InSync

(* fzf runs a callback.                                                    *)
LEMMA FiredSync ==
  ASSUME TypeOK, OneAtATime, InSync, ui.busy = None, NEW c \in Calls, NEW r, Becomes(c, r),
         r.at = "asked", ~r.ctxDone, ui'.busy = c, ui'.load = 0, ui'.exit = "",
         UNCHANGED <<current, retiring, replacement, outcome>>, ShowsAll(ui', current)
  PROVE  OneAtATime' /\ InSync'
PROOF
  <1>1. call'[c] = r /\ \A d \in Calls : d # c => call'[d] = call[d]
    BY TypeParts, CallsStay
  <1>2. \A d \in Calls : call[d].at = "idle" /\ ~call[d].ctxDone /\ d # None
    BY PathFacts DEF OneAtATime
  <1>3. OneAtATime'
    BY <1>1, <1>2 DEF OneAtATime
  <1>4. InStep(r, ui', current')
    BY DEF InStep, Working
  <1>5. \A d \in Calls : InStep(call'[d], ui', current')
    BY <1>1, <1>2, <1>4, IdleInStep
  <1>6. ui'.busy # None /\ outcome' # "unknown selection"
    BY <1>2 DEF InSync
  <1> QED BY <1>3, <1>5, <1>6 DEF InSync

(* What a session makes of a call keeps it in step.                        *)
LEMMA ContinuesInStep ==
  ASSUME TypeOK, NEW c \in Calls, NEW r, Continues(c, r), ShowsAll(ui, current)
  PROVE  InStep(r, ui, current) /\ r.at # "idle"
PROOF
  <1>1. current \in Snapshots
    BY DEF TypeOK, Snapshots
  <1>2. CASE r.at = "answered" /\ r.effect = NoEffect
    <2>1. Lands(r.effect, r.item, ui, current)
      BY <1>1, <1>2, NoEffectLands
    <2> QED BY <1>2, <2>1 DEF InStep, Working
  <1>3. CASE /\ r.at = "sending" /\ r.base = current.gen
             /\ Fits(r.state, r.build, r.effect, r.item, current)
    BY <1>3 DEF InStep, Working
  <1>4. CASE InTree(r, current)
    BY <1>4 DEF InStep, Working, InTree
  <1> QED BY <1>2, <1>3, <1>4 DEF Continues

(* What the session does to a call keeps fzf and the session in step.      *)
LEMMA ContinuesSync ==
  ASSUME TypeOK, OneAtATime, InSync, NEW c \in Calls, NEW r, Becomes(c, r), Continues(c, r),
         call[c].at \in {"asked", "ancestry", "look", "make", "undo"}, UNCHANGED sessionFrame
  PROVE  OneAtATime' /\ InSync'
PROOF
  <1>1. ShowsAll(ui, current) /\ ~call[c].ctxDone
    BY DEF InSync, InStep, Working, OneAtATime
  <1>2. InStep(r, ui, current) /\ r.at # "idle" /\ ~r.ctxDone
    BY <1>1, ContinuesInStep DEF Continues
  <1>3. /\ ui' = ui /\ ~retiring' /\ replacement' = None /\ outcome' = outcome
        /\ current' = current
    BY DEF sessionFrame, actorVars, OneAtATime
  <1> QED BY <1>2, <1>3, CallSync

(* A call that makes directories belongs to the snapshot in add mode.      *)
LEMMA TreeOfCall ==
  ASSUME InSync, NEW c \in Calls, call[c].at \in {"ancestry", "look", "make", "undo"}
  PROVE  InTree(call[c], current)
  BY DEF InSync, InStep

(* Handle, the steps of an Add and its rollback.                           *)
LEMMA SessionSync ==
  ASSUME TypeOK, OneAtATime, InSync, NEW c \in Calls,
         Handle(c) \/ Ancestry(c) \/ Look(c) \/ Make(c) \/ Made(c) \/ Undo(c)
  PROVE  OneAtATime' /\ InSync'
PROOF
  <1>1. UNCHANGED sessionFrame
    BY DEF Handle, Ancestry, Look, Make, Made, Undo, sessionFrame
  <1>2. CASE Handle(c)
    <2>1. call[c].at = "asked"
      BY <1>2 DEF Handle
    <2>2. PICK r : Becomes(c, r) /\ Continues(c, r)
      BY <1>2, HandleBecomes
    <2> QED BY <1>1, <2>1, <2>2, ContinuesSync
  <1>3. CASE Ancestry(c) \/ Look(c)
    <2>1. call[c].at \in {"ancestry", "look"}
      BY <1>3 DEF Ancestry, Look
    <2>2. PICK r : Becomes(c, r) /\ Continues(c, r)
      BY <1>3, <2>1, WalkBecomes, TreeOfCall
    <2> QED BY <1>1, <2>1, <2>2, ContinuesSync
  <1>4. CASE Make(c)
    <2>1. call[c].at = "make"
      BY <1>4 DEF Make
    <2>2. PICK r : Becomes(c, r) /\ Continues(c, r)
      BY <1>4, <2>1, MakeBecomes, TreeOfCall
    <2> QED BY <1>1, <2>1, <2>2, ContinuesSync
  <1>5. CASE Made(c)
    <2>1. call[c].at = "look"
      BY <1>5 DEF Made
    <2>2. PICK r : Becomes(c, r) /\ Continues(c, r)
      BY <1>5, <2>1, MadeBecomes, TreeOfCall
    <2> QED BY <1>1, <2>1, <2>2, ContinuesSync
  <1>6. CASE Undo(c)
    <2>1. call[c].at = "undo" /\ InTree(call[c], current)
      BY <1>6, TreeOfCall DEF Undo
    <2>2. CASE call[c].created = <<>>
      <3>1. PICK r : Becomes(c, r) /\ Continues(c, r)
        BY <1>6, <2>1, <2>2, UndoneBecomes
      <3> QED BY <1>1, <2>1, <3>1, ContinuesSync
    <2>3. CASE call[c].created # <<>>
      <3>1. Removes(c)
        BY <1>6, <2>3 DEF Undo
      <3>2. PICK r : /\ Becomes(c, r) /\ r.at = call[c].at /\ r.base = call[c].base
                     /\ r.state = call[c].state /\ (r.ctxDone <=> call[c].ctxDone)
        BY <2>3, <3>1, RemovesBecomes
      <3>3. Continues(c, r)
        BY <2>1, <3>2 DEF Continues, InTree
      <3> QED BY <1>1, <2>1, <3>2, <3>3, ContinuesSync
    <2> QED BY <2>2, <2>3
  <1> QED BY <1>2, <1>3, <1>4, <1>5, <1>6

-----------------------------------------------------------------------------
(* A call the actor refuses is answered, or its directories are removed.   *)
LEMMA RefusedSync ==
  ASSUME TypeOK, OneAtATime, InSync, NEW c \in Calls, call[c].at \in {"sending", "held"},
         Refuse(c), ui' = ui, ~retiring', replacement' = None,
         UNCHANGED <<current, outcome>>
  PROVE  OneAtATime' /\ InSync'
PROOF
  <1>1. PICK r : /\ Becomes(c, r) /\ (r.ctxDone => call[c].ctxDone)
                 /\ \/ r.at = "answered" /\ r.effect = NoEffect
                    \/ r.at = "removing" /\ r.base = call[c].base
    BY RefuseBecomes
  <1>2. ShowsAll(ui, current) /\ ~call[c].ctxDone /\ call[c].base = current.gen
    BY DEF InSync, InStep, Working, OneAtATime
  <1>3. current \in Snapshots
    BY DEF TypeOK, Snapshots
  <1>4. InStep(r, ui, current)
    <2>1. CASE r.at = "answered" /\ r.effect = NoEffect
      <3>1. Lands(r.effect, r.item, ui, current)
        BY <1>2, <1>3, <2>1, NoEffectLands
      <3> QED BY <2>1, <3>1 DEF InStep, Working
    <2>2. CASE r.at = "removing" /\ r.base = call[c].base
      BY <1>2, <2>2 DEF InStep, Working
    <2> QED BY <1>1, <2>1, <2>2
  <1> QED BY <1>1, <1>2, <1>4, CallSync

(* A proposal meets an actor that has nothing to do.                       *)
LEMMA SubmitSync ==
  ASSUME TypeOK, Held, OneAtATime, InSync, NEW c \in Calls, Submit(c)
  PROVE  OneAtATime' /\ InSync'
PROOF
  <1>1. call[c].at = "sending" /\ UNCHANGED <<ui, outcome>> /\ call[c] \in CallRecords
    BY DEF Submit, TypeOK
  <1>2. /\ ShowsAll(ui, current) /\ ~call[c].ctxDone /\ call[c].base = current.gen
        /\ Fits(call[c].state, call[c].build, call[c].effect, call[c].item, current)
    BY <1>1 DEF InSync, InStep, Working, OneAtATime
  <1>3. pending = None
    <2>1. ui.busy = c
      BY <1>1 DEF OneAtATime
    <2>2. ASSUME pending # None PROVE FALSE
      <3>1. pending \in Calls /\ call[pending].at = "held"
        BY <2>2 DEF TypeOK, Held
      <3> QED BY <1>1, <2>1, <3>1 DEF OneAtATime
    <2> QED BY <2>2
  <1>4. Start(c) /\ replacement' = None
    BY <1>3 DEF Submit, OneAtATime
  <1>5. CASE call[c].build = None
    <2>1. /\ current' = [current EXCEPT !.mode = call[c].state.mode,
                            !.addError = call[c].state.addError, !.loc = call[c].state.loc]
          /\ call' = [call EXCEPT ![c] = Answered(call[c], call[c].effect)]
          /\ retiring' = retiring
      BY <1>2, <1>4, <1>5 DEF Start
    <2> DEFINE e == call[c].effect
               s == call[c].state
               item == call[c].item
    <2>2. e \in EffectRecords /\ s \in States /\ current \in Snapshots
      BY <1>1 DEF CallRecords, TypeOK, Snapshots
    <2>3. call' = [call EXCEPT ![c] = Answered(call[c], e)]
      BY <2>1
    <2>4. /\ current' = [current EXCEPT !.mode = s.mode, !.addError = s.addError, !.loc = s.loc]
          /\ Fits(s, None, e, item, current)
      BY <1>2, <1>5, <2>1
    <2> HIDE DEF e, s
    <2>5. PICK r : /\ Becomes(c, r) /\ r.at = "answered" /\ r.created = <<>> /\ ~r.ctxDone
                   /\ r.effect = e
                   /\ r.item = IF e.finish = "accept" THEN call[c].item ELSE None
      BY <2>2, <2>3, AnswerBecomes
    <2> HIDE DEF item
    <2>6. r.item = IF e.finish = "accept" THEN item ELSE None
      BY <2>5 DEF item
    <2>7. Lands(r.effect, r.item, ui, current')
      BY <1>2, <2>2, <2>4, <2>5, <2>6, ProposalLands
    <2>8. InStep(r, ui, current')
      BY <2>5, <2>7 DEF InStep, Working
    <2>9. ~retiring'
      BY <2>1 DEF OneAtATime
    <2> QED BY <1>1, <1>4, <2>5, <2>8, <2>9, CallSync
  <1>6. CASE call[c].build # None
    <2>1. /\ retiring' = FALSE /\ call' = [call EXCEPT ![c].at = "held"]
          /\ current' = current
      BY <1>2, <1>4, <1>6 DEF Start
    <2>2. PICK r : /\ Becomes(c, r) /\ r.at = "held"
                   /\ (r.ctxDone <=> call[c].ctxDone) /\ r.base = call[c].base
                   /\ r.state = call[c].state /\ r.build = call[c].build
                   /\ r.effect = call[c].effect /\ r.item = call[c].item
      BY <1>1, <2>1, HoldBecomes
    <2>3. InStep(r, ui, current')
      BY <1>2, <2>1, <2>2 DEF InStep, Working
    <2> QED BY <1>1, <1>2, <1>4, <2>1, <2>2, <2>3, CallSync
  <1> QED BY <1>5, <1>6

(* The list is built and published, or the directory cannot be read.       *)
LEMMA CompleteSync ==
  ASSUME TypeOK, Held, OneAtATime, InSync, Complete
  PROVE  OneAtATime' /\ InSync'
PROOF
  <1>1. /\ pending \in Calls /\ call[pending].at = "held" /\ retiring' = FALSE
        /\ UNCHANGED <<replacement, ui, outcome>>
    BY CompleteBecomes
  <1>2. ~retiring' /\ replacement' = None
    BY <1>1 DEF OneAtATime
  <1>3. CASE Refuse(pending) /\ UNCHANGED <<current, kept>>
    BY <1>1, <1>2, <1>3, RefusedSync
  <1>4. CASE ~(Refuse(pending) /\ UNCHANGED <<current, kept>>)
    <2>1. PICK r, e :
                  /\ current' = [gen |-> nextID, mode |-> call[pending].state.mode,
                                 addError |-> call[pending].state.addError,
                                 loc |-> call[pending].state.loc,
                                 records |-> Listing(call[pending].build)]
                  /\ e \in EffectRecords /\ e = [call[pending].effect EXCEPT !.reload = nextID]
                  /\ Becomes(pending, r) /\ r.at = "answered" /\ r.created = <<>> /\ ~r.ctxDone
                  /\ r.effect = e
      BY <1>4, CompleteBecomes
    <2>2. call[pending].build # None
      <3>1. call[pending].build \in fs
        BY <1>4, Zenon DEF Complete
      <3> QED BY <3>1, PathFacts DEF TypeOK
    <2>3. /\ ShowsAll(ui, current)
          /\ Fits(call[pending].state, call[pending].build, call[pending].effect,
                  call[pending].item, current)
      BY <1>1 DEF InSync, InStep, Working
    <2> DEFINE s == call[pending].state
               b == call[pending].build
               f == call[pending].effect
               item == call[pending].item
               l == Listing(call[pending].build)
               g == nextID
               n == current'
    <2>4. s \in States /\ f \in EffectRecords /\ current \in Snapshots
      BY <1>1 DEF TypeOK, CallRecords, Snapshots
    <2>5. nextID \in Nat \ {0}
      <3>1. nextID \in Nat /\ current.gen \in Nat \ {0} /\ current.gen <= nextID
        BY DEF TypeOK
      <3> QED BY <3>1
    <2>6. /\ n = [gen |-> g, mode |-> s.mode, addError |-> s.addError, loc |-> s.loc,
                  records |-> l]
          /\ e = [f EXCEPT !.reload = g] /\ ShowsAll(ui, current) /\ Fits(s, b, f, item, current)
          /\ b # None /\ g \in Nat \ {0}
      BY <2>1, <2>2, <2>3, <2>5
    <2> HIDE DEF s, b, f, item, l, g, n
    <2>7. Lands(e, r.item, ui, n)
      BY <2>4, <2>6, NavigationLands, Zenon
    <2>8. InStep(r, ui, current')
      BY <2>1, <2>7 DEF InStep, Working, n
    <2> QED BY <1>1, <1>2, <2>1, <2>8, CallSync
  <1> QED BY <1>3, <1>4

(* The actor removes the directories of a call it has refused.             *)
LEMMA CleanSync ==
  ASSUME TypeOK, Held, OneAtATime, InSync, Clean
  PROVE  OneAtATime' /\ InSync'
PROOF
  <1>1. /\ cleaning \in Calls /\ call[cleaning].at = "removing"
        /\ UNCHANGED <<current, retiring, replacement, ui, outcome>>
    BY DEF Clean, Held, TypeOK
  <1>2. /\ ShowsAll(ui, current) /\ ~call[cleaning].ctxDone /\ call[cleaning].base = current.gen
        /\ ~retiring' /\ replacement' = None
    BY <1>1 DEF InSync, InStep, Working, OneAtATime
  <1>3. CASE call[cleaning].created # <<>>
    <2>1. Removes(cleaning)
      BY <1>3 DEF Clean
    <2>2. PICK r : /\ Becomes(cleaning, r) /\ r.at = "removing"
                   /\ r.base = call[cleaning].base /\ (r.ctxDone <=> call[cleaning].ctxDone)
      BY <1>1, <1>3, <2>1, RemovesBecomes
    <2>3. InStep(r, ui, current')
      BY <1>1, <1>2, <2>2 DEF InStep, Working
    <2> QED BY <1>1, <1>2, <2>2, <2>3, CallSync
  <1>4. CASE call[cleaning].created = <<>>
    <2>1. call' = [call EXCEPT ![cleaning] = Answered(call[cleaning], NoEffect)]
      BY <1>4 DEF Clean
    <2>2. PICK r : /\ Becomes(cleaning, r) /\ r.at = "answered" /\ r.created = <<>> /\ ~r.ctxDone
                   /\ r.effect = NoEffect
                   /\ r.item = IF NoEffect.finish = "accept" THEN call[cleaning].item ELSE None
      BY <1>1, <2>1, Constants, AnswerBecomes
    <2>3. current \in Snapshots
      BY DEF TypeOK, Snapshots
    <2>4. Lands(r.effect, r.item, ui, current')
      BY <1>1, <1>2, <2>2, <2>3, NoEffectLands
    <2>5. InStep(r, ui, current')
      BY <2>2, <2>4 DEF InStep, Working
    <2> QED BY <1>1, <1>2, <2>2, <2>5, CallSync
  <1> QED BY <1>3, <1>4

-----------------------------------------------------------------------------
(* What fzf shows is the same in u and w.                                  *)
SameScreen(u, w) ==
    /\ u.bound = w.bound /\ (u.search <=> w.search) /\ u.prompt = w.prompt
    /\ u.header = w.header /\ (u.armed <=> w.armed) /\ u.view = w.view
    /\ u.records = w.records

(* Then both show the same of a snapshot,                                  *)
LEMMA SameShows ==
  ASSUME NEW u, NEW w, NEW s, SameScreen(u, w)
  PROVE  /\ ShowsMode(w, s) => ShowsMode(u, s)
         /\ ShowsList(w, s) => ShowsList(u, s)
PROOF
  <1>1. ShowsMode(w, s) => ShowsMode(u, s)
    BY DEF SameScreen, ShowsMode
  <1>2. ShowsList(w, s) => ShowsList(u, s)
    BY DEF SameScreen, ShowsList
  <1> QED BY <1>1, <1>2

(* and one is at rest when the other is.                                   *)
LEMMA SameRests ==
  ASSUME NEW u, NEW w, NEW s, SameScreen(u, w), Rests(w, s), u.load = w.load,
         u.selected \subseteq s.records
  PROVE  Rests(u, s) /\ (w.load = 0 => ShowsAll(u, s))
PROOF
  <1>1. /\ ShowsMode(w, s) => ShowsMode(u, s)
        /\ ShowsList(w, s) => ShowsList(u, s)
    BY SameShows
  <1>2. u.armed <=> w.armed
    BY DEF SameScreen
  <1> QED BY <1>1, <1>2 DEF Rests, ShowsAll

(* What stays on the screen when only the other fields change.             *)
LEMMA UiSame ==
  ASSUME ui \in UiRecords, NEW f, NEW q, NEW m, NEW x
  PROVE  /\ LET u == [ui EXCEPT !.busy = f]
            IN  SameScreen(u, ui) /\ u.load = ui.load /\ u.selected = ui.selected /\ u.busy = f
                /\ u.exit = ui.exit
         /\ LET u == [ui EXCEPT !.query = q]
            IN  SameScreen(u, ui) /\ u.load = ui.load /\ u.selected = ui.selected
                /\ u.busy = ui.busy
         /\ LET u == [ui EXCEPT !.selected = m]
            IN  SameScreen(u, ui) /\ u.load = ui.load /\ u.selected = m /\ u.busy = ui.busy
         /\ LET u == [ui EXCEPT !.exit = x]
            IN  SameScreen(u, ui) /\ u.load = ui.load /\ u.selected = ui.selected
                /\ u.busy = ui.busy
  BY DEF UiRecords, SameScreen

(* fzf is attentive only when it shows the snapshot.                       *)
LEMMA AttentiveShows ==
  ASSUME InSync, Attentive
  PROVE  /\ ui.busy = None /\ ui.load = 0 /\ ui.exit = "" /\ Rests(ui, current)
         /\ ui.selected \subseteq current.records
  BY DEF InSync, Attentive, Rests

(* Keys, edits, marks and quitting.                                        *)
LEMMA UserSync ==
  ASSUME TypeOK, OneAtATime, InSync, User
  PROVE  OneAtATime' /\ InSync'
PROOF
  <1>1. ui \in UiRecords /\ ui.records \subseteq Candidates /\ outcome # "unknown selection"
    BY DEF TypeOK, UiRecords, InSync
  <1>2. ASSUME NEW op \in Opcodes \cup {"restore"}, NEW item \in Candidates \cup {None},
               Fires(op, item), Attentive, UNCHANGED <<current, retiring, replacement, outcome>>,
               SameScreen(ui', ui), ui'.load = ui.load, ui'.selected = ui.selected,
               ui'.busy = Free, ui'.exit = ui.exit
        PROVE  OneAtATime' /\ InSync'
    <2>1. /\ ui.busy = None /\ ui.load = 0 /\ ui.exit = "" /\ Rests(ui, current)
          /\ ui.selected \subseteq current.records
      BY <1>2, AttentiveShows
    <2>2. Free \in Calls /\ \E r : Becomes(Free, r) /\ r.at = "asked" /\ r.created = <<>> /\ ~r.ctxDone
      <3>1. keys > 0
        BY <1>2 DEF Attentive
      <3> QED BY <1>2, <3>1, FiresBecomes
    <2> DEFINE f == Free
               w == ui'
    <2>3. ShowsAll(w, current)
      <3>1. SameScreen(w, ui) /\ w.load = ui.load /\ w.selected \subseteq current.records
        BY <1>2, <2>1
      <3> HIDE DEF w
      <3> QED BY <2>1, <3>1, SameRests
    <2>4. PICK r : Becomes(f, r) /\ r.at = "asked" /\ ~r.ctxDone
      BY <2>2
    <2>5. f \in Calls /\ ui'.busy = f /\ ui'.load = 0 /\ ui'.exit = ""
      BY <1>2, <2>1, <2>2
    <2> HIDE DEF f
    <2> QED BY <1>2, <2>1, <2>3, <2>4, <2>5, FiredSync
  <1>3. ASSUME NEW op \in Opcodes, NEW item \in ui.records \cup {None}, Press(op, item)
        PROVE  OneAtATime' /\ InSync'
    <2>1. /\ Fires(op, item) /\ Attentive /\ ui' = [ui EXCEPT !.busy = Free]
          /\ UNCHANGED <<current, retiring, replacement, outcome>>
      BY <1>3 DEF Press, actorVars
    <2>2. /\ SameScreen(ui', ui) /\ ui'.load = ui.load /\ ui'.selected = ui.selected
          /\ ui'.busy = Free /\ ui'.exit = ui.exit
      BY <1>1, <2>1, UiSame
    <2>3. op \in Opcodes \cup {"restore"} /\ item \in Candidates \cup {None}
      BY <1>1
    <2> QED BY <1>2, <2>1, <2>2, <2>3
  <1>4. ASSUME NEW u, ui' = u, Attentive, SameScreen(u, ui), u.load = ui.load, u.busy = ui.busy,
               u.selected \subseteq current.records,
               UNCHANGED <<actorVars, call, outcome>>
        PROVE  OneAtATime' /\ InSync'
    <2>1. ui.busy = None /\ Rests(ui, current)
      BY <1>4, AttentiveShows
    <2>2. Rests(u, current)
      BY <1>4, <2>1, SameRests
    <2> QED BY <1>1, <1>4, <2>1, <2>2, RestSync DEF actorVars
  <1>5. ASSUME NEW query \in Queries, Type(query)
        PROVE  OneAtATime' /\ InSync'
    <2>1. Attentive /\ UNCHANGED <<actorVars, outcome>>
      BY <1>5 DEF Type
    <2>2. CASE ui.armed
      <3>1. Fires("restore", None) /\ ui' = [ui EXCEPT !.query = query, !.busy = Free]
        BY <1>5, <2>2 DEF Type
      <3>2. /\ SameScreen(ui', ui) /\ ui'.load = ui.load /\ ui'.selected = ui.selected
            /\ ui'.busy = Free /\ ui'.exit = ui.exit
        <4> DEFINE f == Free
        <4>1. ui' = [ui EXCEPT !.query = query, !.busy = f]
          BY <3>1
        <4> HIDE DEF f
        <4>2. /\ SameScreen(ui', ui) /\ ui'.load = ui.load /\ ui'.selected = ui.selected
              /\ ui'.busy = f /\ ui'.exit = ui.exit
          BY <1>1, <4>1 DEF UiRecords, SameScreen
        <4> QED BY <4>2 DEF f
      <3>3. UNCHANGED <<current, retiring, replacement, outcome>>
        BY <2>1 DEF actorVars
      <3> QED BY <1>2, <2>1, <3>1, <3>2, <3>3
    <2>3. CASE ~ui.armed
      <3>1. ui' = [ui EXCEPT !.query = query] /\ call' = call
        BY <1>5, <2>3 DEF Type
      <3>2. /\ SameScreen(ui', ui) /\ ui'.load = ui.load /\ ui'.selected = ui.selected
            /\ ui'.busy = ui.busy
        BY <1>1, <3>1, UiSame
      <3>3. ui.selected \subseteq current.records
        BY <2>1, AttentiveShows
      <3> QED BY <1>4, <2>1, <3>1, <3>2, <3>3
    <2> QED BY <2>2, <2>3
  <1>6. ASSUME NEW item \in ui.records, Toggle(item)
        PROVE  OneAtATime' /\ InSync'
    <2> DEFINE m == SymDiff(ui.selected, {item})
    <2>1. /\ ui' = [ui EXCEPT !.selected = m] /\ Attentive /\ "normal" \in ui.bound
          /\ UNCHANGED <<actorVars, call, outcome>>
      BY <1>6 DEF Toggle
    <2>2. /\ ui.load = 0 /\ Rests(ui, current) /\ ui.selected \subseteq current.records
      BY <2>1, AttentiveShows
    <2>3. current.mode = "normal"
      <3>1. ui.bound = BoundIn(current.mode) /\ current.mode \in Modes
        BY <2>2 DEF Rests, ShowsMode, TypeOK
      <3>2. "normal" \in BoundIn(current.mode)
        BY <2>1, <3>1
      <3>3. "normal" \notin BoundIn("insert") /\ "normal" \notin BoundIn("add")
        BY DEF BoundIn
      <3> QED BY <3>1, <3>2, <3>3 DEF Modes
    <2>4. ui.records = current.records
      BY <2>2, <2>3 DEF Rests, ShowsList
    <2>5. m \subseteq current.records
      BY <2>2, <2>4 DEF SymDiff
    <2> HIDE DEF m
    <2>6. SameScreen(ui', ui) /\ ui'.load = ui.load /\ ui'.selected = m /\ ui'.busy = ui.busy
      BY <1>1, <2>1, UiSame
    <2> QED BY <1>4, <2>1, <2>5, <2>6
  <1>7. CASE Quit
    <2>1. /\ ui' = [ui EXCEPT !.exit = "abort"] /\ Attentive
          /\ UNCHANGED <<actorVars, call, outcome>>
      BY <1>7 DEF Quit
    <2>2. /\ SameScreen(ui', ui) /\ ui'.load = ui.load /\ ui'.selected = ui.selected
          /\ ui'.busy = ui.busy
      BY <1>1, <2>1, UiSame
    <2>3. ui.selected \subseteq current.records
      BY <2>1, AttentiveShows
    <2> QED BY <1>4, <2>1, <2>2, <2>3
  <1> QED BY <1>3, <1>5, <1>6, <1>7 DEF User

(* The answer fzf waits for puts it at rest.                               *)
LEMMA DeliverSync ==
  ASSUME TypeOK, OneAtATime, InSync, NEW c \in Calls, Deliver(c)
  PROVE  OneAtATime' /\ InSync'
PROOF
  <1>1. /\ call[c].at = "answered" /\ call' = [call EXCEPT ![c] = Idle]
        /\ UNCHANGED <<actorVars, outcome>>
    BY DEF Deliver
  <1>2. ui.busy = c /\ Lands(call[c].effect, call[c].item, ui, current)
    BY <1>1 DEF OneAtATime, InSync, InStep
  <1> DEFINE e == call[c].effect
             item == call[c].item
  <1>3. /\ e \in EffectRecords /\ item \in Candidates \cup {None} /\ ui \in UiRecords
        /\ current \in Snapshots
    BY DEF TypeOK, CallRecords, Snapshots
  <1>4. ui' = Rendered(e, item)
    BY <1>2 DEF Deliver, Lands
  <1>5. Lands(e, item, ui, current)
    BY <1>2
  <1> HIDE DEF e, item
  <1> DEFINE u == Rendered(e, item)
  <1>6. Rests(u, current)
    BY <1>3, <1>5, DeliveredRests
  <1>7. u.busy = None
    BY <1>3, RenderedFields
  <1> HIDE DEF u
  <1>8. ui' = u /\ current' = current
    BY <1>1, <1>4 DEF u, actorVars
  <1>9. Becomes(c, Idle) /\ Idle.at = "idle" /\ ~Idle.ctxDone
    BY <1>1, IdleBecomes
  <1>10. call'[c] = Idle /\ \A d \in Calls : d # c => call'[d] = call[d]
    BY <1>9, TypeParts, CallsStay
  <1>11. \A d \in Calls : call'[d].at = "idle" /\ ~call'[d].ctxDone /\ d # None
    BY <1>2, <1>9, <1>10, PathFacts DEF OneAtATime
  <1>12. OneAtATime'
    BY <1>1, <1>7, <1>8, <1>11 DEF OneAtATime, actorVars
  <1>13. \A d \in Calls : InStep(call'[d], ui', current')
    BY <1>11, IdleInStep
  <1> QED BY <1>1, <1>6, <1>8, <1>12, <1>13 DEF InSync

(* fzf reads the list it was told to.                                      *)
LEMMA LoadSync ==
  ASSUME TypeOK, OneAtATime, InSync, Load
  PROVE  OneAtATime' /\ InSync'
PROOF
  <1>1. ui.busy = None
    BY DEF OneAtATime, Load
  <1>2. Rests(ui, current) /\ ui.load = current.gen /\ ~ui.armed /\ ShowsMode(ui, current)
    BY <1>1 DEF InSync, Load, Rests
  <1>3. UNCHANGED <<actorVars, call, outcome>>
    BY DEF Load
  <1>4. PICK marks \in {ui.selected, {}} :
           ui' = [ui EXCEPT !.load = 0, !.selected = marks,
                   !.view = IF ui.load = current.gen THEN current.gen ELSE 0,
                   !.records = IF ui.load = current.gen THEN current.records ELSE {}]
    BY DEF Load
  <1>5. ui' = [ui EXCEPT !.load = 0, !.selected = marks, !.view = current.gen,
                 !.records = current.records]
    BY <1>2, <1>4
  <1>6. marks \subseteq current.records
    BY <1>2, <1>4 DEF Rests
  <1>7. ui \in UiRecords
    BY DEF TypeOK
  <1>8. /\ ui'.load = 0 /\ ui'.selected = marks /\ ui'.view = current.gen
        /\ ui'.records = current.records /\ ui'.busy = None /\ (ui'.armed <=> ui.armed)
        /\ ui'.bound = ui.bound /\ (ui'.search <=> ui.search) /\ ui'.prompt = ui.prompt
        /\ ui'.header = ui.header
    BY <1>1, <1>5, <1>7 DEF UiRecords
  <1>9. ShowsMode(ui', current)
    BY <1>2, <1>8 DEF ShowsMode
  <1>10. ShowsList(ui', current)
    BY <1>2, <1>8 DEF ShowsList
  <1>11. Rests(ui', current)
    BY <1>6, <1>8, <1>9, <1>10 DEF Rests
  <1>12. Rests(ui', current') /\ outcome' # "unknown selection"
    BY <1>3, <1>11 DEF actorVars, InSync
  <1> QED BY <1>1, <1>3, <1>8, <1>12, RestSync DEF actorVars

(* What is accepted was marked on, or picked from, the current list.       *)
LEMMA FinishSync ==
  ASSUME TypeOK, OneAtATime, InSync, Finish
  PROVE  OneAtATime' /\ InSync'
PROOF
  <1>1. ui.busy = None
    BY DEF OneAtATime, Finish
  <1>2. Rests(ui, current) /\ ui.selected \subseteq current.records
    BY <1>1 DEF InSync, Rests
  <1>3. outcome' # "unknown selection"
    BY <1>2 DEF Finish, ValidateCP
  <1>4. UNCHANGED <<actorVars, call, ui>>
    BY DEF Finish
  <1> QED BY <1>1, <1>2, <1>3, <1>4, RestSync DEF actorVars

-----------------------------------------------------------------------------
(* It holds initially,                                                     *)
LEMMA InitSync == Init => SyncInv
PROOF
  <1> SUFFICES ASSUME Init PROVE OneAtATime /\ InSync
    BY DEF SyncInv
  <1> DEFINE l == Listing(Root)
  <1> HIDE DEF l
  <1>1. current = [gen |-> 1, mode |-> "insert", addError |-> FALSE, loc |-> Root, records |-> l]
    BY DEF Init, l
  <1>2. ui = [bound |-> BoundIn("insert"), search |-> TRUE, prompt |-> "insert",
             header |-> Root, armed |-> FALSE, view |-> 1, records |-> l,
             selected |-> {}, query |-> <<>>, busy |-> None, load |-> 0, exit |-> ""]
    BY DEF Init, l
  <1>3. \A c \in Calls : call[c].at = "idle" /\ ~call[c].ctxDone /\ c # None
    BY PathFacts DEF Init, Idle
  <1>4. ~retiring /\ replacement = None /\ outcome = "none"
    BY DEF Init
  <1>5. OneAtATime
    BY <1>2, <1>3, <1>4 DEF OneAtATime
  <1>6. ShowsMode(ui, current) /\ ShowsList(ui, current)
    BY <1>1, <1>2 DEF ShowsMode, ShowsList, Prompt
  <1>7. Rests(ui, current)
    BY <1>2, <1>6 DEF Rests
  <1>8. \A c \in Calls : InStep(call[c], ui, current)
    BY <1>3, IdleInStep
  <1> QED BY <1>4, <1>5, <1>7, <1>8 DEF InSync

(* and every step preserves it.                                            *)
LEMMA NextSync == TreeInv /\ SyncInv /\ [Next]_vars => SyncInv'
PROOF
  <1> SUFFICES ASSUME TreeInv, SyncInv, [Next]_vars, losses' = 0 PROVE OneAtATime' /\ InSync'
    BY DEF SyncInv
  <1>1. TypeOK /\ Held /\ losses \in Nat
    <2>1. TypeOK /\ Held /\ losses \in 0..MaxLosses
      BY DEF TreeInv, TypeOK
    <2> QED BY <2>1
  <1>2. losses = 0 /\ ~GiveUp
    <2>1. CASE GiveUp
      <3>1. losses' = losses + 1
        BY <2>1 DEF GiveUp
      <3> QED BY <1>1, <3>1
    <2>2. CASE ~GiveUp
      <3>1. losses' = losses
        BY <2>2 DEF Next, Progress, Session, User, vars, Handle, Ancestry, Look, Make, Made,
                    Undo, Submit, Deliver, StartReplacement, CallerDone, Complete, Clean, Load,
                    Finish, Press, Type, Toggle, Quit, Cancel, Withdraw
      <3> QED BY <2>2, <3>1
    <2> QED BY <2>1, <2>2
  <1>3. OneAtATime /\ InSync
    BY <1>2 DEF SyncInv
  <1>4. ASSUME NEW c \in Calls, Session(c)
        PROVE  OneAtATime' /\ InSync'
    BY <1>1, <1>3, <1>4, SessionSync, SubmitSync, DeliverSync DEF Session
  <1>5. ~StartReplacement
    BY <1>3 DEF StartReplacement, OneAtATime
  <1>6. ~CallerDone
    BY <1>1, <1>3 DEF CallerDone, OneAtATime, TypeOK
  <1>7. CASE Complete \/ Clean
    BY <1>1, <1>3, <1>7, CompleteSync, CleanSync
  <1>8. CASE Load \/ Finish
    BY <1>1, <1>3, <1>8, LoadSync, FinishSync
  <1>9. CASE User
    BY <1>1, <1>3, <1>9, UserSync
  <1>10. ASSUME NEW c \in Calls
         PROVE  ~Cancel(c) /\ ~Withdraw(c)
    BY <1>3 DEF Cancel, Withdraw, OneAtATime
  <1>11. CASE UNCHANGED vars
    <2>1. UNCHANGED <<actorVars, call, ui, outcome>>
      BY <1>11 DEF vars
    <2>2. OneAtATime'
      BY <1>3, <2>1 DEF OneAtATime, actorVars
    <2>3. InSync'
      BY <1>3, <2>1 DEF InSync, actorVars
    <2> QED BY <2>2, <2>3
  <1> QED BY <1>2, <1>4, <1>5, <1>6, <1>7, <1>8, <1>9, <1>10, <1>11 DEF Next, Progress

(* While no callback has been lost, one event is under way at a time, and  *)
(* at every step of it what fzf shows, together with the effect still to   *)
(* come, is the snapshot of the session.                                   *)
THEOREM SyncInvariant == Spec => []SyncInv
  BY InitTree, NextTree, InitSync, NextSync, PTL DEF Spec

(* Between events fzf shows the mode, the prompt, the location and the     *)
(* records of the current snapshot (renderEffect, Reduce).                 *)
THEOREM ScreenAgrees == Spec => []Agreement
PROOF
  <1>1. TreeInv /\ SyncInv => Agreement
    <2> SUFFICES ASSUME TreeInv, SyncInv, losses = 0, Quiet
                 PROVE  /\ ui.bound = BoundIn(current.mode)
                        /\ ui.search = (current.mode # "normal")
                        /\ ui.prompt = Prompt(current.mode, current.addError)
                        /\ ui.header = current.loc
                        /\ IF ui.armed THEN ui.view = 0 /\ current.mode = "insert"
                           ELSE ui.view = current.gen /\ ui.records = current.records
      BY DEF Agreement
    <2>1. Rests(ui, current) /\ ui.load = 0
      BY DEF SyncInv, InSync, Quiet
    <2>2. ShowsMode(ui, current) /\ ShowsList(ui, current)
      BY <2>1 DEF Rests
    <2>3. ui.search \in BOOLEAN
      BY DEF TreeInv, TypeOK, UiRecords
    <2>4. ui.search <=> (current.mode # "normal")
      BY <2>2 DEF ShowsMode
    <2>5. ui.search = (current.mode # "normal")
      BY <2>3, <2>4
    <2> QED BY <2>2, <2>5 DEF ShowsMode, ShowsList
  <1> QED BY <1>1, TreeInvariant, SyncInvariant, PTL

(* ValidateCP never refuses what the user accepted while no callback was   *)
(* lost: marks and the item under the cursor are on the current list.      *)
THEOREM AcceptanceHonoured == Spec => []AcceptanceIsHonoured
PROOF
  <1>1. SyncInv => AcceptanceIsHonoured
    BY DEF SyncInv, InSync, AcceptanceIsHonoured
  <1> QED BY <1>1, SyncInvariant, PTL
====
