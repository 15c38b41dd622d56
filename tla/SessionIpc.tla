------------------------------ MODULE SessionIpc ------------------------------
(***************************************************************************)
(* Callback processes and the session's IPC server (internal/sessionipc,   *)
(* internal/callback/dispatch.go, internal/app/backend.go).                *)
(*                                                                         *)
(* fzf runs a callback process per event, reload and preview.  A callback  *)
(* sends one request, writes what it got to fzf, and sends a second one    *)
(* that says whether that worked.  The server admits at most MaxHandlers   *)
(* requests at a time, hands each to the picker's backend, and is closed   *)
(* while callbacks are still coming.  A callback can be killed at any time *)
(* and its requests can time out; the server may go on serving them.       *)
(*                                                                         *)
(* The backend is reduced to the event reservation that InitialEnrichment  *)
(* describes in full: one event at a time, kept from HandleEvent until the *)
(* action - and for a reload its records - are acknowledged.               *)
(***************************************************************************)
EXTENDS Naturals, FiniteSets

CONSTANTS
    Callbacks,    \* the callback processes fzf runs
    MaxHandlers,  \* capacity of Server.semaphore
    Closers,      \* callers of Server.Close
    NoCallback

ASSUME IpcAssumption ==
    /\ IsFiniteSet(Callbacks)
    /\ MaxHandlers \in Nat \ {0}
    /\ NoCallback \notin Callbacks

First == 1   \* a callback's request
Second == 2  \* its finalization (or, for a preview, its telemetry)
Legs == {First, Second}

VARIABLES
    callback,    \* what each callback process is and is doing
    handler,     \* per request: where the server is with it
    reply,       \* per request: the status the server answers with
    closing,     \* Server.closing
    baseDone,    \* the base context is cancelled
    listening,   \* the listener is open
    closer,      \* how far Server.close has come
    closeCaller, \* the callers of Close
    reservation, \* the backend: which event holds the gate, and how far
    terminal,    \* the backend: initialEnrichment.terminal
    acknowledged,\* history: what the backend was told of each callback
    received,    \* history: the callbacks whose output fzf has in full
    starved      \* history: was a finalization refused for want of a slot?

serverVars == <<closing, baseDone, listening, closer, closeCaller>>
backendVars == <<reservation, terminal, acknowledged>>
history == <<received, starved>>
vars == <<callback, handler, reply, serverVars, backendVars, history>>

Kinds == {"event", "load", "preview", "display"}
Requests == Callbacks \X Legs
Free == [owner |-> NoCallback, phase |-> "free"]

(* The requests that hold a slot of the semaphore and count in handlers. *)
Admitted == {q \in Requests : handler[q] \in {"backend", "reply", "undo"}}

CallbackStates ==
    [kind: Kinds \cup {"unused"},
     at: {"off", "request", "write", "finalize", "exited", "gave up", "killed"},
     of: Callbacks \cup {NoCallback}, applied: BOOLEAN]
HandlerStates == {"none", "conn", "backend", "reply", "undo", "flush", "done"}
Replies == {"none", "ok", "reload", "busy", "closing", "bad request", "not found", "failed"}
Reservations ==
    [owner: Callbacks \cup {NoCallback},
     phase: {"free", "handling", "pending", "pending load", "applied", "loading"}]

TypeOK ==
    /\ callback \in [Callbacks -> CallbackStates]
    /\ handler \in [Requests -> HandlerStates]
    /\ reply \in [Requests -> Replies]
    /\ closing \in BOOLEAN /\ baseDone \in BOOLEAN
    /\ listening \in BOOLEAN /\ terminal \in BOOLEAN
    /\ closer \in {"open", "flagged", "joining", "closed"}
    /\ closeCaller \in [Closers -> {"free", "waiting", "returned"}]
    /\ reservation \in Reservations
    /\ acknowledged \in [Callbacks -> {"nothing", "applied", "not applied"}]
    /\ received \in SUBSET Callbacks
    /\ starved \in {"no", "by others", "by itself"}

Init ==
    /\ callback = [c \in Callbacks |->
                     [kind |-> "unused", at |-> "off", of |-> NoCallback, applied |-> FALSE]]
    /\ handler = [q \in Requests |-> "none"]
    /\ reply = [q \in Requests |-> "none"]
    /\ closing = FALSE /\ baseDone = FALSE /\ listening = TRUE
    /\ closer = "open"
    /\ closeCaller = [k \in Closers |-> "free"]
    /\ reservation = Free
    /\ terminal = FALSE
    /\ acknowledged = [c \in Callbacks |-> "nothing"]
    /\ received = {}
    /\ starved = "no"

-----------------------------------------------------------------------------
(* Callback processes.                                                     *)

Served(q, at, status) ==
    /\ handler' = [handler EXCEPT ![q] = at]
    /\ reply' = [reply EXCEPT ![q] = status]

Moves(c, at) == callback' = [callback EXCEPT ![c].at = at]

(* fzf starts the load of event e only after that event's callback exited  *)
(* and its action was a reload.                                            *)
ReloadOf(e) ==
    /\ callback[e].kind = "event" /\ callback[e].at \in {"exited", "gave up"}
    /\ e \in received /\ reply[<<e, First>>] = "reload"
    /\ \A c \in Callbacks : callback[c].of # e

(* dispatchEvent, dispatchLoad, dispatchPreview or dispatchDisplay sends   *)
(* its request; the connection is refused once the listener is closed.     *)
Send(c, kind, of) ==
    /\ callback[c].kind = "unused"
    /\ callback' = [callback EXCEPT ![c] = [kind |-> kind, of |-> of, applied |-> FALSE,
                                            at |-> IF listening THEN "request" ELSE "exited"]]
    /\ handler' = [handler EXCEPT ![<<c, First>>] = IF listening THEN "conn" ELSE "done"]
    /\ UNCHANGED <<reply, serverVars, backendVars, history>>

Run(c) ==
    \/ Send(c, "event", NoCallback)
    \/ \E kind \in {"preview", "display"} : Send(c, kind, NoCallback)
    \/ \E e \in Callbacks : ReloadOf(e) /\ Send(c, "load", e)

(* A mutation: a load that failed is not finalized. *)
MustFinalizeSuccess(c, answered) == answered \in {"ok", "reload"}

(* dispatchLoad's deferred finalization runs whatever the load came to;    *)
(* dispatchEvent's and the preview's only once there was an answer; a      *)
(* display has nothing to finalize.                                        *)
MustFinalize(c, answered) ==
    CASE callback[c].kind = "load" -> TRUE
      [] callback[c].kind = "display" -> FALSE
      [] OTHER -> answered \in {"ok", "reload"}

(* The second request, and the end of the process if there is none. *)
SendSecond(c, applied, answered) ==
    LET sends == MustFinalize(c, answered) /\ listening
    IN /\ callback' = [callback EXCEPT ![c].applied = applied,
                                       ![c].at = IF sends THEN "finalize" ELSE "exited"]
       /\ handler' = [handler EXCEPT ![<<c, Second>>] = IF sends THEN "conn" ELSE "done"]

(* A mutation: the answer arrives while its handler still holds the slot. *)
AnsweredEarly(c) ==
    /\ callback[c].at = "request"
    /\ handler[<<c, First>>] \in {"reply", "flush"}
    /\ reply[<<c, First>>] \in {"ok", "reload"}
    /\ Moves(c, "write")
    /\ UNCHANGED <<handler, reply, serverVars, backendVars, history>>

(* The answer to the first request arrives, complete only after its        *)
(* handler has returned.                                                   *)
Answered(c) ==
    /\ callback[c].at = "request"
    /\ handler[<<c, First>>] = "flush"
    /\ IF reply[<<c, First>>] \in {"ok", "reload"}
       THEN /\ Moves(c, "write")
            /\ handler' = [handler EXCEPT ![<<c, First>>] = "done"]
            /\ UNCHANGED reply
       ELSE LET h == [handler EXCEPT ![<<c, First>>] = "done"]
                sends == MustFinalize(c, reply[<<c, First>>]) /\ listening
            IN /\ callback' = [callback EXCEPT ![c].at = IF sends THEN "finalize"
                                                                  ELSE "exited"]
               /\ handler' = [h EXCEPT ![<<c, Second>>] = IF sends THEN "conn" ELSE "done"]
               /\ reply' = [reply EXCEPT ![<<c, First>>] = "none"]
    /\ UNCHANGED <<serverVars, backendVars, history>>

(* A request fails without an answer: a load or a preview timed out on the *)
(* client's side while the server may still be serving it, or the server   *)
(* dropped the connection.                                                 *)
Unanswered(c) ==
    /\ callback[c].at = "request"
    /\ \/ callback[c].kind # "event" /\ handler[<<c, First>>] # "done"
       \/ closer = "closed" /\ handler[<<c, First>>] = "done"
    /\ SendSecond(c, FALSE, "failed")
    /\ UNCHANGED <<reply, serverVars, backendVars, history>>

(* A mutation: applied is set before the output is written. *)
WriteOptimistic(c) ==
    /\ callback[c].at = "write"
    /\ SendSecond(c, TRUE, reply[<<c, First>>])
    /\ received' \in {received, received \cup {c}}
    /\ UNCHANGED <<reply, serverVars, backendVars, starved>>

(* RenderEffect and writeAll; applied only after both. *)
Write(c) ==
    /\ callback[c].at = "write"
    /\ \E ok \in BOOLEAN :
          /\ SendSecond(c, ok, reply[<<c, First>>])
          /\ received' = IF ok THEN received \cup {c} ELSE received
    /\ UNCHANGED <<reply, serverVars, backendVars, starved>>

(* The second request is answered or given up (250 ms). *)
Finalized(c) ==
    /\ callback[c].at = "finalize"
    /\ IF handler[<<c, Second>>] = "flush"
       THEN Served(<<c, Second>>, "done", "none") /\ Moves(c, "exited")
       ELSE UNCHANGED <<handler, reply>> /\ Moves(c, "gave up")
    /\ UNCHANGED <<serverVars, backendVars, history>>

(* fzf kills the process, as it does with previews and at its own end. *)
Kill(c) ==
    /\ callback[c].at \in {"request", "write", "finalize"}
    /\ Moves(c, "killed")
    /\ UNCHANGED <<handler, reply, serverVars, backendVars, history>>

-----------------------------------------------------------------------------
(* Requests in the server.                                                 *)

(* The client of a request is gone: its context gets cancelled and what is *)
(* written to it is lost.                                                  *)
ClientGone(q) ==
    \/ callback[q[1]].at \in {"killed", "exited", "gave up"}
    \/ q[2] = First /\ callback[q[1]].at = "finalize"
CtxDone(q) == baseDone \/ ClientGone(q)

(* A mutation: closing is not looked at under the gate. *)
AdmitUnguarded(q) ==
    /\ handler[q] = "conn"
    /\ Cardinality(Admitted) < MaxHandlers
    /\ Served(q, "backend", "none")
    /\ UNCHANGED <<callback, serverVars, backendVars, history>>

(* admit takes a slot and joins handlers under the gate that close takes   *)
(* to set closing; the body is read and decoded after that, which fails if *)
(* the client or the server goes away.                                     *)
Admit(q) ==
    /\ handler[q] = "conn"
    /\ ~closing
    /\ Cardinality(Admitted) < MaxHandlers
    /\ \/ Served(q, "backend", "none")
       \/ CtxDone(q) /\ Served(q, "reply", "bad request")
    /\ UNCHANGED <<callback, serverVars, backendVars, history>>

(* 503 while closing, 429 when every slot is taken. *)
Refuse(q) ==
    /\ handler[q] = "conn"
    /\ closing \/ Cardinality(Admitted) >= MaxHandlers
    /\ Served(q, "flush", IF closing THEN "closing" ELSE "busy")
    /\ starved' = IF ~closing /\ q[2] = Second /\ callback[q[1]].at = "finalize"
                  THEN IF <<q[1], First>> \in Admitted /\ callback[q[1]].kind = "event"
                       THEN "by itself" ELSE "by others"
                  ELSE starved
    /\ UNCHANGED <<callback, serverVars, backendVars, received>>

(* HandleEvent: wait for the gate, or give up with the context or because  *)
(* the session has ended.                                                  *)
ReserveEvent(c) ==
    /\ handler[<<c, First>>] = "backend" /\ callback[c].kind = "event"
    /\ ~(reservation.owner = c)
    /\ \/ /\ ~terminal
          /\ reservation = Free
          /\ reservation' = [owner |-> c, phase |-> "handling"]
          /\ UNCHANGED <<handler, reply>>
       \/ /\ terminal \/ CtxDone(<<c, First>>)
          /\ Served(<<c, First>>, "reply", "failed")
          /\ UNCHANGED reservation
    /\ UNCHANGED <<callback, serverVars, terminal, acknowledged, history>>

(* session.Handle comes to a result; a failed one gives the gate back. *)
ResolveEvent(c) ==
    /\ handler[<<c, First>>] = "backend" /\ callback[c].kind = "event"
    /\ reservation.owner = c
    /\ \/ /\ ~terminal
          /\ \/ /\ reservation' = [owner |-> c, phase |-> "pending"]
                /\ Served(<<c, First>>, "reply", "ok")
             \/ /\ reservation' = [owner |-> c, phase |-> "pending load"]
                /\ Served(<<c, First>>, "reply", "reload")
       \/ /\ reservation' = Free
          /\ Served(<<c, First>>, "reply", "failed")
    /\ UNCHANGED <<callback, serverVars, terminal, acknowledged, history>>

(* LoadGeneration: ValidateLoad waits until the event is acknowledged; the *)
(* reservation is then marked as loading.                                  *)
LoadGeneration(c) ==
    /\ handler[<<c, First>>] = "backend" /\ callback[c].kind = "load"
    /\ \/ /\ reservation = [owner |-> callback[c].of, phase |-> "applied"]
          /\ reservation' = [reservation EXCEPT !.phase = "loading"]
          /\ Served(<<c, First>>, "reply", "ok")
       \/ /\ \/ reservation.owner # callback[c].of
             \/ reservation.phase = "loading"
             \/ CtxDone(<<c, First>>)
          /\ Served(<<c, First>>, "reply", "failed")
          /\ UNCHANGED reservation
    /\ UNCHANGED <<callback, serverVars, terminal, acknowledged, history>>

(* ResolvePreview, RecordPreview and CurrentHeader wait for nothing that   *)
(* another request holds.                                                  *)
Preview(q) ==
    /\ handler[q] = "backend" /\ callback[q[1]].kind \in {"preview", "display"}
    /\ \E status \in {"ok", "not found"} : Served(q, "reply", status)
    /\ UNCHANGED <<callback, serverVars, backendVars, history>>

(* failCallbackApplication ends the session. *)
FailApplication ==
    /\ terminal' = TRUE
    /\ reservation' = IF reservation.phase = "handling" THEN reservation ELSE Free

(* What the backend does when it is told that the output of c's first      *)
(* request was applied or not.                                             *)
Finalize(c, applied) ==
    LET event == IF callback[c].kind = "load" THEN callback[c].of ELSE c
        expected == IF callback[c].kind = "load" THEN {"applied", "loading"}
                                                 ELSE {"pending", "pending load"}
    IN IF reservation.owner # event \/ reservation.phase \notin expected
       THEN UNCHANGED <<reservation, terminal>>
       ELSE IF ~applied
       THEN FailApplication
       ELSE /\ reservation' = CASE reservation.phase = "pending load" ->
                                        [reservation EXCEPT !.phase = "applied"]
                                [] reservation.phase = "applied" -> reservation
                                [] OTHER -> Free
            /\ UNCHANGED terminal

Acknowledge(q, applied) ==
    acknowledged' = [acknowledged EXCEPT ![q[1]] = IF applied THEN "applied" ELSE "not applied"]

(* handleEventFinalization and handleLoadFinalization run outside the      *)
(* request's context.                                                      *)
HandleFinalization(c) ==
    /\ handler[<<c, Second>>] = "backend" /\ callback[c].kind \in {"event", "load"}
    /\ Finalize(c, callback[c].applied)
    /\ Acknowledge(<<c, Second>>, callback[c].applied)
    /\ Served(<<c, Second>>, "reply", "ok")
    /\ UNCHANGED <<callback, serverVars, history>>

(* The answer is written and the handler returns its slot before the rest  *)
(* of the answer leaves the server.  A write to a client that is gone may  *)
(* fail; the server then takes the event back itself.                      *)
Reply(q) ==
    /\ handler[q] = "reply"
    /\ \/ handler' = [handler EXCEPT ![q] = "flush"]
       \/ /\ ClientGone(q) /\ q[2] = First
          /\ callback[q[1]].kind \in {"event", "load"} /\ reply[q] \in {"ok", "reload"}
          /\ handler' = [handler EXCEPT ![q] = "undo"]
    /\ UNCHANGED <<callback, reply, serverVars, backendVars, history>>

Undo(q) ==
    /\ handler[q] = "undo"
    /\ Finalize(q[1], FALSE)
    /\ Acknowledge(q, FALSE)
    /\ handler' = [handler EXCEPT ![q] = "flush"]
    /\ UNCHANGED <<callback, reply, serverVars, history>>

(* An answer nobody waits for, and a connection the closed server drops. *)
Dropped(q) ==
    /\ \/ handler[q] = "flush" /\ ClientGone(q)
       \/ handler[q] \in {"conn", "flush"} /\ closer = "closed"
    /\ Served(q, "done", "none")
    /\ UNCHANGED <<callback, serverVars, backendVars, history>>

-----------------------------------------------------------------------------
(* Server.Close.                                                           *)

(* closeOnce: the first caller runs close, every caller waits for it. *)
Close(k) ==
    /\ closeCaller[k] = "free"
    /\ closeCaller' = [closeCaller EXCEPT ![k] = "waiting"]
    /\ IF closer = "open"
       THEN closer' = "flagged" /\ closing' = TRUE
       ELSE UNCHANGED <<closer, closing>>
    /\ UNCHANGED <<callback, handler, reply, baseDone, listening, backendVars, history>>

(* baseCancel, the listener, and Shutdown, which returns or times out. *)
CloseCancels ==
    /\ closer = "flagged"
    /\ closer' = "joining"
    /\ baseDone' = TRUE
    /\ listening' = FALSE
    /\ UNCHANGED <<callback, handler, reply, closing, closeCaller, backendVars, history>>

(* The handlers are joined; httpServer.Close, the end of Serve, closeDone. *)
CloseJoins ==
    /\ closer = "joining"
    /\ Admitted = {}
    /\ closer' = "closed"
    /\ UNCHANGED <<callback, handler, reply, closing, baseDone, listening, closeCaller,
                   backendVars, history>>

CloseReturnsTo(k) ==
    /\ closeCaller[k] = "waiting"
    /\ closer = "closed"
    /\ closeCaller' = [closeCaller EXCEPT ![k] = "returned"]
    /\ UNCHANGED <<callback, handler, reply, closing, baseDone, listening, closer,
                   backendVars, history>>

-----------------------------------------------------------------------------
Client(c) == Answered(c) \/ Unanswered(c) \/ Write(c) \/ Finalized(c)
Serve(q) ==
    \/ Admit(q) \/ Refuse(q) \/ Preview(q) \/ Reply(q) \/ Undo(q) \/ Dropped(q)
Backend(c) ==
    \/ ReserveEvent(c) \/ ResolveEvent(c) \/ LoadGeneration(c) \/ HandleFinalization(c)
Shutdown == CloseCancels \/ CloseJoins
Progress ==
    \/ \E c \in Callbacks : Client(c) \/ Backend(c)
    \/ \E q \in Requests : Serve(q)
    \/ Shutdown
    \/ \E k \in Closers : CloseReturnsTo(k)
Next ==
    \/ Progress
    \/ \E c \in Callbacks : Run(c) \/ Kill(c)
    \/ \E k \in Closers : Close(k)

(* Every step of the server and of a live callback is one the scheduler,   *)
(* the kernel or a timeout brings about; the state graph has no cycles, so *)
(* fairness of their union is fairness of each.                            *)
Spec == Init /\ [][Next]_vars /\ WF_vars(Progress)

-----------------------------------------------------------------------------
(* Once Close has returned, no request is being handled, then or later:    *)
(* admission and the start of the join exclude each other (admit, close).  *)
NoWorkAfterClose ==
    (\E k \in Closers : closeCaller[k] = "returned") => Admitted = {}

(* The backend is told "applied" only for output that fzf has in full, and *)
(* "not applied" only for output that fzf does not have - by the callback, *)
(* or by the server on its behalf, also when a timeout raced the answer    *)
(* ("A callback sends event applied: true only after RenderEffect and      *)
(* writeAll succeed", docs/security.md).                                   *)
AcknowledgedTruthfully ==
    \A c \in Callbacks :
        /\ acknowledged[c] = "applied" => c \in received
        /\ acknowledged[c] = "not applied" => c \notin received

(* A finalization is refused for want of a slot only when other callbacks  *)
(* hold all of them: the callback's own answered request has given its     *)
(* slot back before the answer could arrive (release, ServeHTTP).          *)
RoomForOwnFinalization == starved # "by itself"

(* A callback or a load was killed, gave up waiting for its answer, was    *)
(* refused a slot or met a closing server, or fzf never asked for the load. *)
Lost ==
    \/ closing \/ starved # "no"
    \/ \E c \in Callbacks : callback[c].at \in {"killed", "gave up"}
    \/ \E e \in Callbacks : ReloadOf(e)

(* Nobody waits for ever: Close returns to every caller, whatever the      *)
(* handlers were waiting for (cancelling the base context wakes events     *)
(* queued for the gate); and without a loss the gate is given back.        *)
EverythingEnds ==
    <>[](/\ \A k \in Closers : closeCaller[k] # "waiting"
         /\ ~Lost => reservation = Free)
=============================================================================
