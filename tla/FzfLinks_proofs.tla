-------------------------- MODULE FzfLinks_proofs --------------------------
(***************************************************************************)
(* Proofs about the two links between the picker and fzf: the callbacks    *)
(* that fzf runs and the server that answers them (SessionIpc), and the    *)
(* sidecar that polls fzf and posts its label (FzfSidecar).                *)
(*                                                                         *)
(* SessionIpc, for any set of callbacks, any number of slots and any set   *)
(* of callers of Close: its three safety properties are not inductive.     *)
(* IpcInv adds how far Close has come when admission is off, and what the  *)
(* two sides of a callback know of each other: output reaches fzf only     *)
(* after the first request is done with, and the backend hears of a        *)
(* callback only when its output has reached fzf or never will.            *)
(*                                                                         *)
(* FzfSidecar, for any callers, windows, page sizes and lists: that no     *)
(* work follows a Wait rests on how Start, Stop and Wait leave their marks *)
(* under the mutex; that retries are bounded rests on the age of the       *)
(* window never falling behind the age of the POST in doubt.               *)
(***************************************************************************)
EXTENDS SessionIpc, FzfSidecar, TLAPS

(* A callback in one of these has written its output or never will. *)
Past == {"finalize", "exited", "gave up", "killed"}

(* Closing, the join and the return of Close follow each other. *)
CloseInv ==
    /\ closing <=> closer # "open"
    /\ closer = "closed" => Admitted = {}
    /\ \A k \in Closers : closeCaller[k] = "returned" => closer = "closed"

(* What callback c has done, and what became of its requests. *)
Sent(c) ==
    /\ callback[c].kind = "unused" =>
          /\ callback[c].at = "off"
          /\ handler[<<c, First>>] = "none" /\ handler[<<c, Second>>] = "none"
    /\ handler[<<c, Second>>] # "undo"
    /\ callback[c].applied <=> c \in received
    /\ c \in received => callback[c].at \in Past
    /\ c \in received \/ callback[c].at = "write" => handler[<<c, First>>] = "done"
    /\ callback[c].kind = "event" /\ callback[c].at = "finalize" =>
          handler[<<c, First>>] = "done"
CallbackInv == \A c \in Callbacks : Sent(c)

(* What the backend has heard or is about to hear of c is final. *)
Heard(c) ==
    \/ handler[<<c, Second>>] # "none"
    \/ handler[<<c, First>>] = "undo"
    \/ acknowledged[c] # "nothing"
    => callback[c].at \in Past
HeardInv == \A c \in Callbacks : Heard(c)

IpcInv ==
    /\ TypeOK
    /\ CloseInv
    /\ CallbackInv
    /\ HeardInv
    /\ AcknowledgedTruthfully
    /\ RoomForOwnFinalization

-----------------------------------------------------------------------------
(* The server and the callbacks start in a state that satisfies IpcInv.    *)
LEMMA InitIpcInv == Init => IpcInv
<1> SUFFICES ASSUME Init PROVE IpcInv
  OBVIOUS
<1> USE IpcAssumption DEF Init
<1>1. TypeOK
  BY DEF TypeOK, Free, CallbackStates, HandlerStates, Replies, Reservations
<1>2. CloseInv
  BY DEF CloseInv, Admitted
<1>3. CallbackInv
  BY DEF CallbackInv, Sent, Requests, Legs, First, Second, Past
<1>4. HeardInv
  BY DEF HeardInv, Heard, Requests, Legs, First, Second
<1>5. AcknowledgedTruthfully /\ RoomForOwnFinalization
  BY DEF AcknowledgedTruthfully, RoomForOwnFinalization
<1> QED
  BY <1>1, <1>2, <1>3, <1>4, <1>5 DEF IpcInv

(* Moving a request through the server keeps its state and reply typed.    *)
LEMMA ServedType ==
  ASSUME TypeOK, NEW q, NEW at \in HandlerStates, NEW status \in Replies,
         Served(q, at, status)
  PROVE  /\ handler' \in [Requests -> HandlerStates]
         /\ reply' \in [Requests -> Replies]
  BY DEF TypeOK, Served

(* A callback's record stays one when it moves on.                         *)
LEMMA CallbackRecord ==
  ASSUME NEW r \in CallbackStates, NEW applied \in BOOLEAN,
         NEW at \in {"request", "write", "finalize", "exited", "gave up", "killed"}
  PROVE  /\ [r EXCEPT !.at = at] \in CallbackStates
         /\ [r EXCEPT !.applied = applied, !.at = at] \in CallbackStates
         /\ r.applied \in BOOLEAN
  BY DEF CallbackStates

(* Moving a callback on keeps its state typed.                             *)
LEMMA MovesType ==
  ASSUME TypeOK, NEW c \in Callbacks,
         NEW at \in {"write", "finalize", "exited", "gave up", "killed"}, Moves(c, at)
  PROVE  callback' \in [Callbacks -> CallbackStates]
<1>1. /\ callback \in [Callbacks -> CallbackStates]
      /\ callback' = [callback EXCEPT ![c] = [@ EXCEPT !.at = at]]
  BY DEF TypeOK, Moves
<1>2. [callback[c] EXCEPT !.at = at] \in CallbackStates
  BY <1>1, CallbackRecord
<1> QED
  BY <1>1, <1>2

(* So does its second request.                                             *)
LEMMA SendSecondType ==
  ASSUME TypeOK, NEW c \in Callbacks, NEW applied \in BOOLEAN, NEW answered,
         SendSecond(c, applied, answered)
  PROVE  /\ callback' \in [Callbacks -> CallbackStates]
         /\ handler' \in [Requests -> HandlerStates]
<1>1. callback' \in [Callbacks -> CallbackStates]
  <2> DEFINE at == IF MustFinalize(c, answered) /\ listening THEN "finalize" ELSE "exited"
  <2>1. /\ callback \in [Callbacks -> CallbackStates]
        /\ callback' = [callback EXCEPT ![c] = [@ EXCEPT !.applied = applied, !.at = at]]
    BY DEF SendSecond, TypeOK
  <2>2. at \in {"finalize", "exited"}
    OBVIOUS
  <2> HIDE DEF at
  <2> QED
    BY <2>1, <2>2, CallbackRecord
<1>2. handler' \in [Requests -> HandlerStates]
  BY DEF TypeOK, SendSecond, HandlerStates
<1> QED
  BY <1>1, <1>2

(* What the backend does with a finalization keeps its state typed.        *)
LEMMA FinalizeType ==
  ASSUME TypeOK, NEW c \in Callbacks, NEW applied \in BOOLEAN, Finalize(c, applied)
  PROVE  reservation' \in Reservations /\ terminal' \in BOOLEAN
<1> USE DEF TypeOK, Reservations
<1>1. Free \in Reservations
  BY DEF Free
<1>2. [reservation EXCEPT !.phase = "applied"] \in Reservations
  OBVIOUS
<1>3. CASE UNCHANGED <<reservation, terminal>>
  BY <1>3
<1>4. CASE FailApplication
  BY <1>1, <1>4 DEF FailApplication
<1>5. CASE /\ reservation' \in {[reservation EXCEPT !.phase = "applied"], reservation, Free}
           /\ UNCHANGED terminal
  BY <1>1, <1>2, <1>5
<1> QED
  BY <1>3, <1>4, <1>5 DEF Finalize

LEMMA AcknowledgeType ==
  ASSUME TypeOK, NEW q \in Requests, NEW applied \in BOOLEAN, Acknowledge(q, applied)
  PROVE  acknowledged' \in [Callbacks -> {"nothing", "applied", "not applied"}]
  BY DEF TypeOK, Acknowledge

(* A request is a callback's first or second one.                          *)
LEMMA RequestParts ==
  ASSUME NEW q \in Requests
  PROVE  q[1] \in Callbacks /\ q[2] \in Legs /\ q = <<q[1], q[2]>>
  BY DEF Requests

LEMMA RequestsOf ==
  ASSUME NEW c \in Callbacks
  PROVE  /\ <<c, First>> \in Requests /\ <<c, Second>> \in Requests
         /\ <<c, First>> # <<c, Second>>
  BY DEF Requests, Legs, First, Second

(* Every step keeps the state well typed.                                  *)
LEMMA TypeStep == TypeOK /\ [Next]_vars => TypeOK'
<1> SUFFICES ASSUME TypeOK, [Next]_vars PROVE TypeOK'
  OBVIOUS
<1> USE DEF serverVars, backendVars, history
<1>1. ASSUME NEW c \in Callbacks, Answered(c) PROVE TypeOK'
  <2>1. callback' \in [Callbacks -> CallbackStates]
    <3>1. PICK at \in {"write", "finalize", "exited"} : Moves(c, at)
      BY <1>1 DEF Answered, Moves
    <3> QED
      BY <3>1, MovesType
  <2>2. handler' \in [Requests -> HandlerStates]
    <3>1. {"conn", "done"} \subseteq HandlerStates
      BY DEF HandlerStates
    <3>2. handler \in [Requests -> HandlerStates]
      BY DEF TypeOK
    <3>3. PICK s \in {"conn", "done"} :
             \/ handler' = [handler EXCEPT ![<<c, First>>] = "done"]
             \/ handler' = [[handler EXCEPT ![<<c, First>>] = "done"] EXCEPT ![<<c, Second>>] = s]
      BY <1>1 DEF Answered
    <3> QED
      BY <3>1, <3>2, <3>3
  <2>3. reply' \in [Requests -> Replies]
    BY <1>1 DEF Answered, TypeOK, Replies
  <2> QED
    BY <1>1, <2>1, <2>2, <2>3 DEF Answered, TypeOK
<1>2. ASSUME NEW c \in Callbacks, Unanswered(c) PROVE TypeOK'
  BY <1>2, SendSecondType DEF Unanswered, TypeOK
<1>3. ASSUME NEW c \in Callbacks, Write(c) PROVE TypeOK'
  <2>1. PICK ok \in BOOLEAN : /\ SendSecond(c, ok, reply[<<c, First>>])
                              /\ received' = IF ok THEN received \cup {c} ELSE received
    BY <1>3 DEF Write
  <2> QED
    BY <1>3, <2>1, SendSecondType DEF Write, TypeOK
<1>4. ASSUME NEW c \in Callbacks, Finalized(c) PROVE TypeOK'
  <2>1. callback' \in [Callbacks -> CallbackStates]
    BY <1>4, MovesType DEF Finalized
  <2>2. /\ handler' \in [Requests -> HandlerStates]
        /\ reply' \in [Requests -> Replies]
    <3>1. "done" \in HandlerStates /\ "none" \in Replies
      BY DEF HandlerStates, Replies
    <3> QED
      BY <1>4, <3>1, ServedType DEF Finalized, TypeOK
  <2> QED
    BY <1>4, <2>1, <2>2 DEF Finalized, TypeOK
<1>5. ASSUME NEW c \in Callbacks, ReserveEvent(c) PROVE TypeOK'
  <2>1. "reply" \in HandlerStates /\ "failed" \in Replies
    BY DEF HandlerStates, Replies
  <2>2. [owner |-> c, phase |-> "handling"] \in Reservations
    BY DEF Reservations
  <2> QED
    BY <1>5, <2>1, <2>2, ServedType DEF ReserveEvent, TypeOK
<1>6. ASSUME NEW c \in Callbacks, ResolveEvent(c) PROVE TypeOK'
  <2>1. "reply" \in HandlerStates /\ {"ok", "reload", "failed"} \subseteq Replies
    BY DEF HandlerStates, Replies
  <2>2. /\ [owner |-> c, phase |-> "pending"] \in Reservations
        /\ [owner |-> c, phase |-> "pending load"] \in Reservations
        /\ Free \in Reservations
    BY DEF Reservations, Free
  <2> QED
    BY <1>6, <2>1, <2>2, ServedType DEF ResolveEvent, TypeOK
<1>7. ASSUME NEW c \in Callbacks, LoadGeneration(c) PROVE TypeOK'
  <2>1. "reply" \in HandlerStates /\ {"ok", "failed"} \subseteq Replies
    BY DEF HandlerStates, Replies
  <2>2. [reservation EXCEPT !.phase = "loading"] \in Reservations
    BY DEF Reservations, TypeOK
  <2> QED
    BY <1>7, <2>1, <2>2, ServedType DEF LoadGeneration, TypeOK
<1>8. ASSUME NEW c \in Callbacks, HandleFinalization(c) PROVE TypeOK'
  <2>1. "reply" \in HandlerStates /\ "ok" \in Replies
    BY DEF HandlerStates, Replies
  <2>2. callback[c].applied \in BOOLEAN
    BY DEF TypeOK, CallbackStates
  <2>3. reservation' \in Reservations /\ terminal' \in BOOLEAN
    BY <1>8, <2>2, FinalizeType DEF HandleFinalization
  <2>4. acknowledged' \in [Callbacks -> {"nothing", "applied", "not applied"}]
    BY <1>8, <2>2, AcknowledgeType, RequestsOf DEF HandleFinalization
  <2> QED
    BY <1>8, <2>1, <2>3, <2>4, ServedType DEF HandleFinalization, TypeOK
<1>9. ASSUME NEW c \in Callbacks, Run(c) PROVE TypeOK'
  <2>1. PICK kind \in Kinds, of \in Callbacks \cup {NoCallback} : Send(c, kind, of)
    BY <1>9 DEF Run, Kinds
  <2>2. callback' \in [Callbacks -> CallbackStates]
    BY <2>1 DEF Send, TypeOK, CallbackStates
  <2>3. handler' \in [Requests -> HandlerStates]
    BY <2>1 DEF Send, TypeOK, HandlerStates
  <2> QED
    BY <2>1, <2>2, <2>3 DEF Send, TypeOK
<1>10. ASSUME NEW c \in Callbacks, Kill(c) PROVE TypeOK'
  BY <1>10, MovesType DEF Kill, TypeOK
<1>11. ASSUME NEW q \in Requests, Admit(q) PROVE TypeOK'
  <2>1. {"backend", "reply"} \subseteq HandlerStates /\ {"none", "bad request"} \subseteq Replies
    BY DEF HandlerStates, Replies
  <2> QED
    BY <1>11, <2>1, ServedType DEF Admit, TypeOK
<1>12. ASSUME NEW q \in Requests, Refuse(q) PROVE TypeOK'
  <2>1. "flush" \in HandlerStates /\ (IF closing THEN "closing" ELSE "busy") \in Replies
    BY DEF HandlerStates, Replies
  <2> QED
    BY <1>12, <2>1, ServedType DEF Refuse, TypeOK
<1>13. ASSUME NEW q \in Requests, Preview(q) PROVE TypeOK'
  <2>1. "reply" \in HandlerStates /\ {"ok", "not found"} \subseteq Replies
    BY DEF HandlerStates, Replies
  <2> QED
    BY <1>13, <2>1, ServedType DEF Preview, TypeOK
<1>14. ASSUME NEW q \in Requests, Reply(q) PROVE TypeOK'
  <2>1. handler' \in [Requests -> HandlerStates]
    BY <1>14, ZenonT(30) DEF Reply, TypeOK, HandlerStates
  <2> QED
    BY <1>14, <2>1 DEF Reply, TypeOK
<1>15. ASSUME NEW q \in Requests, Undo(q) PROVE TypeOK'
  <2>1. handler' \in [Requests -> HandlerStates]
    BY <1>15 DEF Undo, TypeOK, HandlerStates
  <2>2. reservation' \in Reservations /\ terminal' \in BOOLEAN
    BY <1>15, RequestParts, FinalizeType DEF Undo
  <2>3. acknowledged' \in [Callbacks -> {"nothing", "applied", "not applied"}]
    BY <1>15, AcknowledgeType DEF Undo
  <2> QED
    BY <1>15, <2>1, <2>2, <2>3 DEF Undo, TypeOK
<1>16. ASSUME NEW q \in Requests, Dropped(q) PROVE TypeOK'
  <2>1. "done" \in HandlerStates /\ "none" \in Replies
    BY DEF HandlerStates, Replies
  <2> QED
    BY <1>16, <2>1, ServedType DEF Dropped, TypeOK
<1>17. ASSUME NEW k \in Closers, CloseReturnsTo(k) PROVE TypeOK'
  BY <1>17 DEF CloseReturnsTo, TypeOK
<1>18. ASSUME NEW k \in Closers, Close(k) PROVE TypeOK'
  BY <1>18 DEF Close, TypeOK
<1>19. ASSUME CloseCancels PROVE TypeOK'
  BY <1>19 DEF CloseCancels, TypeOK
<1>20. ASSUME CloseJoins PROVE TypeOK'
  BY <1>20 DEF CloseJoins, TypeOK
<1>21. CASE UNCHANGED vars
  BY <1>21 DEF vars, TypeOK
<1> QED
  BY <1>1, <1>2, <1>3, <1>4, <1>5, <1>6, <1>7, <1>8, <1>9, <1>10, <1>11, <1>12, <1>13,
     <1>14, <1>15, <1>16, <1>17, <1>18, <1>19, <1>20, <1>21
  DEF Next, Progress, Client, Serve, Backend, Shutdown
-----------------------------------------------------------------------------
(* Closing, work and the end of Close.                                     *)

(* Once closing is set no step admits a request (admit looks at closing    *)
(* under the gate that close takes to set it).                             *)
LEMMA NoNewWork ==
  ASSUME TypeOK, [Next]_vars, closing PROVE Admitted' \subseteq Admitted
<1> USE DEF Admitted
<1>1. ASSUME NEW c \in Callbacks, Client(c) PROVE Admitted' \subseteq Admitted
  <2>1. \A q \in Requests : handler'[q] \in {handler[q], "conn", "done"}
    BY <1>1 DEF Client, Answered, Unanswered, Write, Finalized, SendSecond, Served, TypeOK
  <2> QED
    BY <2>1
<1>2. ASSUME NEW c \in Callbacks, Backend(c) PROVE Admitted' \subseteq Admitted
  <2>1. PICK q \in Requests : handler[q] = "backend" /\ handler' \in {handler, [handler EXCEPT ![q] = "reply"]}
    BY <1>2, RequestsOf DEF Backend, ReserveEvent, ResolveEvent, LoadGeneration, HandleFinalization, Served
  <2> QED
    BY <2>1 DEF TypeOK
<1>3. ASSUME NEW q \in Requests, Serve(q) PROVE Admitted' \subseteq Admitted
  <2>1. \A r \in Requests : \/ handler'[r] \in {handler[r], "flush", "done"}
                            \/ handler[r] \in {"backend", "reply"}
    BY <1>3 DEF Serve, Admit, Refuse, Preview, Reply, Undo, Dropped, Served, TypeOK
  <2> QED
    BY <2>1
<1>4. ASSUME NEW c \in Callbacks, Run(c) PROVE Admitted' \subseteq Admitted
  <2>1. \A q \in Requests : handler'[q] \in {handler[q], "conn", "done"}
    BY <1>4 DEF Run, Send, TypeOK
  <2> QED
    BY <2>1
<1>5. ASSUME NEW c \in Callbacks, Kill(c) PROVE Admitted' \subseteq Admitted
  BY <1>5 DEF Kill
<1>6. ASSUME NEW k \in Closers, CloseReturnsTo(k) \/ Close(k)
      PROVE Admitted' \subseteq Admitted
  BY <1>6 DEF CloseReturnsTo, Close
<1>7. CASE Shutdown
  BY <1>7 DEF Shutdown, CloseCancels, CloseJoins
<1>8. CASE UNCHANGED vars
  BY <1>8 DEF vars
<1> QED
  BY <1>1, <1>2, <1>3, <1>4, <1>5, <1>6, <1>7, <1>8 DEF Next, Progress

(* The stages of Close follow each other, with no work left at its end.    *)
LEMMA CloseStep == TypeOK /\ CloseInv /\ [Next]_vars => CloseInv'
<1> SUFFICES ASSUME TypeOK, CloseInv, [Next]_vars PROVE CloseInv'
  OBVIOUS
<1>1. CASE UNCHANGED <<closing, closer, closeCaller>>
  <2>1. closer = "closed" => Admitted' = {}
    BY NoNewWork DEF CloseInv
  <2> QED
    BY <1>1, <2>1 DEF CloseInv
<1>2. ASSUME NEW k \in Closers, CloseReturnsTo(k) PROVE CloseInv'
  <2>1. Admitted' = Admitted
    BY <1>2 DEF CloseReturnsTo, Admitted
  <2> QED
    BY <1>2, <2>1 DEF CloseInv, CloseReturnsTo, TypeOK
<1>3. ASSUME NEW k \in Closers, Close(k) PROVE CloseInv'
  <2>1. Admitted' = Admitted
    BY <1>3 DEF Close, Admitted
  <2> QED
    BY <1>3, <2>1 DEF CloseInv, Close, TypeOK
<1>4. CASE CloseCancels
  BY <1>4 DEF CloseInv, CloseCancels, Admitted
<1>5. CASE CloseJoins
  BY <1>5 DEF CloseInv, CloseJoins, Admitted
<1>6. ASSUME NEW c \in Callbacks, Client(c) \/ Run(c) \/ Kill(c)
      PROVE  UNCHANGED <<closing, closer, closeCaller>>
  BY <1>6 DEF Client, Answered, Unanswered, Write, Finalized, Run, Send, Kill, serverVars
<1>7. ASSUME NEW c \in Callbacks, Backend(c) PROVE UNCHANGED <<closing, closer, closeCaller>>
  BY <1>7 DEF Backend, ReserveEvent, ResolveEvent, LoadGeneration, HandleFinalization, serverVars
<1>8. ASSUME NEW q \in Requests, Serve(q) PROVE UNCHANGED <<closing, closer, closeCaller>>
  BY <1>8 DEF Serve, Admit, Refuse, Preview, Reply, Undo, Dropped, serverVars
<1>9. CASE UNCHANGED vars
  BY <1>1, <1>9 DEF vars, serverVars
<1> QED
  BY <1>1, <1>2, <1>3, <1>4, <1>5, <1>6, <1>7, <1>8, <1>9 DEF Next, Progress, Shutdown
-----------------------------------------------------------------------------
(* What callbacks, the server and the backend know of each other.          *)

(* A step of the server or the backend leaves the callbacks alone, does    *)
(* not touch a request that has not come or is done with, takes an event   *)
(* back only from a callback that is past writing, and hears of a callback *)
(* only from its second request or when it takes the event back.           *)
ServerStep ==
    /\ UNCHANGED <<callback, received>>
    /\ \A q \in Requests : handler[q] \in {"none", "done"} => handler'[q] = handler[q]
    /\ \A c \in Callbacks :
          /\ handler'[<<c, First>>] = "undo" =>
                handler[<<c, First>>] = "undo" \/ callback[c].at \in Past
          /\ handler'[<<c, Second>>] = "undo" => handler[<<c, Second>>] = "undo"
          /\ \/ acknowledged'[c] = acknowledged[c]
             \/ /\ handler[<<c, Second>>] = "backend"
                /\ acknowledged'[c] = IF callback[c].applied THEN "applied" ELSE "not applied"
             \/ /\ "undo" \in {handler[<<c, First>>], handler[<<c, Second>>]}
                /\ acknowledged'[c] = "not applied"

LEMMA BackendIsServerStep ==
  ASSUME TypeOK, NEW c \in Callbacks, Backend(c) PROVE ServerStep
<1> USE RequestsOf DEF ServerStep, TypeOK, history
<1>1. CASE ReserveEvent(c)
  BY <1>1 DEF ReserveEvent, Served
<1>2. CASE ResolveEvent(c)
  BY <1>2, ZenonT(30) DEF ResolveEvent, Served
<1>3. CASE LoadGeneration(c)
  BY <1>3 DEF LoadGeneration, Served
<1>4. CASE HandleFinalization(c)
  BY <1>4 DEF HandleFinalization, Served, Acknowledge
<1> QED
  BY <1>1, <1>2, <1>3, <1>4 DEF Backend

LEMMA ServeIsServerStep ==
  ASSUME TypeOK, NEW q \in Requests, Serve(q) PROVE ServerStep
<1> USE RequestsOf, RequestParts DEF ServerStep, TypeOK, history, backendVars
<1>1. CASE Admit(q)
  BY <1>1 DEF Admit, Served
<1>2. CASE Refuse(q)
  BY <1>2 DEF Refuse, Served
<1>3. CASE Preview(q)
  BY <1>3 DEF Preview, Served
<1>4. CASE Reply(q)
  <2>1. UNCHANGED <<callback, received, acknowledged>>
    BY <1>4 DEF Reply
  <2>2. \A r \in Requests : r # q => handler'[r] = handler[r]
    BY <1>4 DEF Reply
  <2>3. \/ handler'[q] = "flush"
        \/ handler'[q] = "undo" /\ q[2] = First /\ callback[q[1]].at \in Past
    BY <1>4 DEF Reply, ClientGone, Past
  <2>4. handler[q] = "reply"
    BY <1>4 DEF Reply
  <2>5. First # Second
    BY DEF First, Second
  <2>6. ASSUME NEW c \in Callbacks
        PROVE  /\ handler'[<<c, First>>] = "undo" =>
                     handler[<<c, First>>] = "undo" \/ callback[c].at \in Past
               /\ handler'[<<c, Second>>] = "undo" => handler[<<c, Second>>] = "undo"
    <3>1. CASE q = <<c, First>>
      BY <2>2, <2>3, <3>1
    <3>2. CASE q = <<c, Second>>
      BY <2>2, <2>3, <2>5, <3>2
    <3>3. CASE q # <<c, First>> /\ q # <<c, Second>>
      BY <2>2, <3>3
    <3> QED
      BY <3>1, <3>2, <3>3
  <2> QED
    BY <2>1, <2>2, <2>4, <2>6
<1>5. CASE Undo(q)
  BY <1>5 DEF Undo, Acknowledge, Legs
<1>6. CASE Dropped(q)
  BY <1>6 DEF Dropped, Served
<1> QED
  BY <1>1, <1>2, <1>3, <1>4, <1>5, <1>6 DEF Serve

(* A step of the server or the backend keeps what callbacks and backend    *)
(* know of each other.                                                     *)
LEMMA ServerStepKeeps ==
  ASSUME TypeOK, CallbackInv, HeardInv, AcknowledgedTruthfully, ServerStep
  PROVE  CallbackInv' /\ HeardInv' /\ AcknowledgedTruthfully'
<1> USE RequestsOf DEF ServerStep
<1>1. CallbackInv'
  BY ZenonT(30) DEF CallbackInv, Sent
<1>2. HeardInv'
  BY DEF HeardInv, Heard, CallbackInv, Sent
<1>3. AcknowledgedTruthfully'
  BY DEF AcknowledgedTruthfully, CallbackInv, Sent
<1> QED
  BY <1>1, <1>2, <1>3

(* What a callback does changes what is known of that callback only.       *)
LEMMA ClientFrame ==
  ASSUME TypeOK, NEW c \in Callbacks, Client(c) \/ Run(c) \/ Kill(c)
  PROVE  /\ UNCHANGED acknowledged
         /\ \A d \in Callbacks : d # c =>
               /\ callback'[d] = callback[d]
               /\ handler'[<<d, First>>] = handler[<<d, First>>]
               /\ handler'[<<d, Second>>] = handler[<<d, Second>>]
               /\ d \in received' <=> d \in received
<1> USE RequestsOf DEF TypeOK, backendVars, history
<1>1. CASE Answered(c)
  BY <1>1 DEF Answered, Moves
<1>2. CASE Unanswered(c)
  BY <1>2 DEF Unanswered, SendSecond
<1>3. CASE Write(c)
  BY <1>3 DEF Write, SendSecond
<1>4. CASE Finalized(c)
  BY <1>4 DEF Finalized, Served, Moves
<1>5. CASE Run(c)
  BY <1>5 DEF Run, Send
<1>6. CASE Kill(c)
  BY <1>6 DEF Kill, Moves
<1> QED
  BY <1>1, <1>2, <1>3, <1>4, <1>5, <1>6 DEF Client

LEMMA NewRecord ==
  ASSUME NEW r, NEW kind, NEW of, NEW at,
         r = [kind |-> kind, of |-> of, applied |-> FALSE, at |-> at]
  PROVE  r.kind = kind /\ r.at = at /\ r.applied = FALSE
  OBVIOUS

(* What callbacks, server and backend know of one callback. *)
Known(c) ==
    /\ Sent(c)
    /\ Heard(c)
    /\ acknowledged[c] = "applied" => c \in received
    /\ acknowledged[c] = "not applied" => c \notin received

(* A callback's own step keeps what is known of it: in particular, when it *)
(* writes, nothing has been said of it yet.                                *)
LEMMA ClientKeepsKnown ==
  ASSUME TypeOK, NEW c \in Callbacks, Client(c) \/ Run(c) \/ Kill(c), Known(c)
  PROVE  Known(c)'
<1> USE RequestsOf DEF Known, Sent, Heard, Past, TypeOK, backendVars, history
<1> acknowledged' = acknowledged
  BY ClientFrame
<1> callback[c] \in CallbackStates
  OBVIOUS
<1>1. CASE Answered(c)
  <2>1. c \notin received /\ c \notin received' /\ ~callback[c].applied
    BY <1>1 DEF Answered
  <2>2. CASE reply[<<c, First>>] \in {"ok", "reload"}
    <3>1. /\ callback'[c] = [callback[c] EXCEPT !.at = "write"]
          /\ handler'[<<c, First>>] = "done"
          /\ handler'[<<c, Second>>] = handler[<<c, Second>>]
      BY <1>1, <2>2 DEF Answered, Moves
    <3>2. callback[c].at = "request" /\ handler[<<c, First>>] = "flush"
      BY <1>1 DEF Answered
    <3> QED
      BY <2>1, <3>1, <3>2 DEF CallbackStates
  <2>3. CASE reply[<<c, First>>] \notin {"ok", "reload"}
    <3>1. PICK at \in {"finalize", "exited"}, second \in {"conn", "done"} :
            /\ callback'[c] = [callback[c] EXCEPT !.at = at]
            /\ handler'[<<c, First>>] = "done"
            /\ handler'[<<c, Second>>] = second
      BY <1>1, <2>3 DEF Answered
    <3> QED
      BY <1>1, <2>1, <3>1 DEF CallbackStates, Answered
  <2> QED
    BY <2>2, <2>3
<1>2. CASE Unanswered(c)
  <2>1. c \notin received /\ c \notin received' /\ ~callback[c].applied
    BY <1>2 DEF Unanswered
  <2>2. PICK at \in {"finalize", "exited"}, second \in {"conn", "done"} :
            /\ callback'[c] = [callback[c] EXCEPT !.at = at, !.applied = FALSE]
            /\ handler'[<<c, First>>] = handler[<<c, First>>]
            /\ handler'[<<c, Second>>] = second
            /\ callback[c].kind = "event" => at = "exited"
    BY <1>2 DEF Unanswered, SendSecond, MustFinalize
  <2> QED
    BY <1>2, <2>1, <2>2 DEF CallbackStates, Unanswered
<1>3. CASE Write(c)
  <2>1. c \notin received /\ acknowledged[c] = "nothing" /\ callback[c].kind # "unused"
    BY <1>3 DEF Write
  <2>2. PICK ok \in BOOLEAN :
            /\ SendSecond(c, ok, reply[<<c, First>>])
            /\ received' = IF ok THEN received \cup {c} ELSE received
    BY <1>3 DEF Write
  <2>3. PICK at \in {"finalize", "exited"}, second \in {"conn", "done"} :
            /\ callback'[c] = [callback[c] EXCEPT !.at = at, !.applied = ok]
            /\ handler'[<<c, First>>] = handler[<<c, First>>]
            /\ handler'[<<c, Second>>] = second
    BY <2>2 DEF SendSecond
  <2> QED
    BY <1>3, <2>1, <2>2, <2>3 DEF CallbackStates, Write
<1>4. CASE Finalized(c)
  <2>1. PICK at \in {"exited", "gave up"} :
            /\ callback'[c] = [callback[c] EXCEPT !.at = at]
            /\ handler'[<<c, First>>] = handler[<<c, First>>]
            /\ handler'[<<c, Second>>] \in {handler[<<c, Second>>], "done"}
    BY <1>4 DEF Finalized, Served, Moves
  <2> QED
    BY <1>4, <2>1 DEF CallbackStates, Finalized
<1>5. CASE Run(c)
  <2>1. PICK kind \in {"event", "load", "preview", "display"}, of \in Callbacks \cup {NoCallback} :
           Send(c, kind, of)
    BY <1>5 DEF Run
  <2>2. PICK at \in {"request", "exited"} :
            /\ callback'[c] = [kind |-> kind, of |-> of, applied |-> FALSE, at |-> at]
            /\ handler'[<<c, First>>] = IF at = "request" THEN "conn" ELSE "done"
            /\ handler'[<<c, Second>>] = handler[<<c, Second>>]
            /\ received' = received
            /\ callback[c].kind = "unused"
    BY <2>1 DEF Send
  <2>3. c \notin received /\ acknowledged[c] = "nothing" /\ handler[<<c, Second>>] = "none"
    BY <2>2
  <2>4. kind # "unused"
    BY <2>1
  <2>5. callback'[c].kind = kind /\ callback'[c].at = at /\ callback'[c].applied = FALSE
    <3>1. callback'[c] = [kind |-> kind, of |-> of, applied |-> FALSE, at |-> at]
      BY <2>2
    <3> QED
      BY ONLY <3>1, NewRecord
  <2> QED
    BY <2>2, <2>3, <2>4, <2>5
<1>6. CASE Kill(c)
  BY <1>6 DEF Kill, Moves, CallbackStates
<1> QED
  BY <1>1, <1>2, <1>3, <1>4, <1>5, <1>6 DEF Client

(* A callback's step keeps what is known of all of them.                   *)
LEMMA ClientKeeps ==
  ASSUME TypeOK, CallbackInv, HeardInv, AcknowledgedTruthfully,
         NEW c \in Callbacks, Client(c) \/ Run(c) \/ Kill(c)
  PROVE  CallbackInv' /\ HeardInv' /\ AcknowledgedTruthfully'
<1>1. \A d \in Callbacks : Known(d)
  BY DEF CallbackInv, HeardInv, AcknowledgedTruthfully, Known
<1>2. ASSUME NEW d \in Callbacks, d # c PROVE Known(d)'
  <2>1. /\ callback'[d] = callback[d]
        /\ handler'[<<d, First>>] = handler[<<d, First>>]
        /\ handler'[<<d, Second>>] = handler[<<d, Second>>]
        /\ d \in received' <=> d \in received
        /\ acknowledged' = acknowledged
    BY <1>2, ClientFrame
  <2> QED
    BY <1>1, <2>1 DEF Known, Sent, Heard
<1>3. Known(c)'
  BY <1>1, ClientKeepsKnown
<1>4. \A d \in Callbacks : Known(d)'
  BY <1>2, <1>3
<1> QED
  BY <1>4 DEF CallbackInv, HeardInv, AcknowledgedTruthfully, Known

(* A finalization never meets its own event still holding its slot.        *)
LEMMA RoomStep ==
  ASSUME TypeOK, CallbackInv, RoomForOwnFinalization, [Next]_vars
  PROVE  RoomForOwnFinalization'
<1>1. ASSUME NEW q \in Requests, Refuse(q) PROVE RoomForOwnFinalization'
  <2>1. callback[q[1]].kind = "event" /\ callback[q[1]].at = "finalize"
           => <<q[1], First>> \notin Admitted
    BY RequestParts DEF CallbackInv, Sent, Admitted
  <2> QED
    BY <1>1, <2>1 DEF Refuse, RoomForOwnFinalization
<1>2. ASSUME NEW q \in Requests, Serve(q), ~Refuse(q) PROVE UNCHANGED starved
  BY <1>2 DEF Serve, Admit, Preview, Reply, Undo, Dropped, history
<1>3. ASSUME NEW c \in Callbacks, Client(c) \/ Run(c) \/ Kill(c) PROVE UNCHANGED starved
  BY <1>3 DEF Client, Answered, Unanswered, Write, Finalized, Run, Send, Kill, history
<1>4. ASSUME NEW c \in Callbacks, Backend(c) PROVE UNCHANGED starved
  BY <1>4 DEF Backend, ReserveEvent, ResolveEvent, LoadGeneration, HandleFinalization, history
<1>5. ASSUME NEW k \in Closers, CloseReturnsTo(k) \/ Close(k) PROVE UNCHANGED starved
  BY <1>5 DEF CloseReturnsTo, Close, history
<1>6. CASE Shutdown
  BY <1>6 DEF Shutdown, CloseCancels, CloseJoins, history, RoomForOwnFinalization
<1>7. CASE UNCHANGED vars
  BY <1>7 DEF vars, history, RoomForOwnFinalization
<1> QED
  BY <1>1, <1>2, <1>3, <1>4, <1>5, <1>6, <1>7 DEF Next, Progress, RoomForOwnFinalization

(* Every step keeps what is known of the callbacks.                        *)
LEMMA KnownStep ==
  ASSUME TypeOK, CallbackInv, HeardInv, AcknowledgedTruthfully, [Next]_vars
  PROVE  CallbackInv' /\ HeardInv' /\ AcknowledgedTruthfully'
<1>1. ASSUME NEW c \in Callbacks, Backend(c)
      PROVE  CallbackInv' /\ HeardInv' /\ AcknowledgedTruthfully'
  BY <1>1, BackendIsServerStep, ServerStepKeeps
<1>2. ASSUME NEW q \in Requests, Serve(q)
      PROVE  CallbackInv' /\ HeardInv' /\ AcknowledgedTruthfully'
  BY <1>2, ServeIsServerStep, ServerStepKeeps
<1>3. CASE UNCHANGED <<callback, handler, received, acknowledged>>
  BY <1>3 DEF CallbackInv, Sent, HeardInv, Heard, AcknowledgedTruthfully
<1>4. ASSUME NEW k \in Closers, CloseReturnsTo(k) \/ Close(k)
      PROVE  UNCHANGED <<callback, handler, received, acknowledged>>
  BY <1>4 DEF CloseReturnsTo, Close, history, backendVars
<1>5. CASE Shutdown
  BY <1>3, <1>5 DEF Shutdown, CloseCancels, CloseJoins, history, backendVars
<1>6. CASE UNCHANGED vars
  BY <1>3, <1>6 DEF vars, history, backendVars
<1> QED
  BY <1>1, <1>2, <1>3, <1>4, <1>5, <1>6, ClientKeeps DEF Next, Progress

-----------------------------------------------------------------------------
(* IpcInv is an invariant of the callbacks and the server: it holds before *)
(* and after every step, also those of killed callbacks and of Close.      *)
THEOREM IpcInvariance == Spec => []IpcInv
<1>1. IpcInv /\ [Next]_vars => IpcInv'
  BY TypeStep, CloseStep, KnownStep, RoomStep DEF IpcInv
<1> QED
  BY InitIpcInv, <1>1, PTL DEF Spec

(* The state of the callbacks, the server and the backend keeps its types. *)
THEOREM IpcTypeCorrect == Spec => []TypeOK
<1>1. IpcInv => TypeOK
  BY DEF IpcInv
<1> QED
  BY IpcInvariance, <1>1, PTL

(* Once Close has returned to one caller no request is being handled: the  *)
(* join saw no handler, and admit admits none once closing is set.         *)
THEOREM CloseEndsWork == Spec => []NoWorkAfterClose
<1>1. IpcInv => NoWorkAfterClose
  BY DEF IpcInv, CloseInv, NoWorkAfterClose
<1> QED
  BY IpcInvariance, <1>1, PTL

(* The backend is told that output was applied exactly of output that fzf  *)
(* has: dispatchEvent and dispatchLoad say so after writeAll, and the      *)
(* server takes an event back only from a client that never got it.        *)
THEOREM AcknowledgementIsTruthful == Spec => []AcknowledgedTruthfully
<1>1. IpcInv => AcknowledgedTruthfully
  BY DEF IpcInv
<1> QED
  BY IpcInvariance, <1>1, PTL

(* A finalization is never refused because its own event still holds the   *)
(* slot: ServeHTTP releases it before the answer is complete.              *)
THEOREM OwnSlotIsFree == Spec => []RoomForOwnFinalization
<1>1. IpcInv => RoomForOwnFinalization
  BY DEF IpcInv
<1> QED
  BY IpcInvariance, <1>1, PTL

-----------------------------------------------------------------------------
(* The sidecar                                                             *)

(* Start is what makes a loop, and a Wait returns only when there is none  *)
(* and can be none.                                                        *)
WaitInv ==
    /\ started <=> loop # "off"
    /\ joined => loop = "over" \/ (loop = "off" /\ waited)

(* A POST in doubt has its window open for at least as long. *)
WindowInv == postPending => window.active /\ pendingAge <= window.age

(* The cycle that posts has seen all of fzf's list. *)
SnapshotInv == loop = "post" => snapshot.total \in Totals

SidecarInv == SidecarTypeOK /\ WaitInv /\ WindowInv /\ SnapshotInv

LEMMA Constants ==
  /\ MaxSelected \in Nat /\ MaxFaults \in Nat /\ MaxChanges \in Nat
  /\ PageSize \in Nat \ {0} /\ MaxPages \in Nat \ {0}
  /\ ReadinessTimeout \in Nat \ {0} /\ RetryWindow \in Nat \ {0}
  BY SidecarAssumption

(* The sidecar starts idle, in a state that satisfies the invariant.       *)
LEMMA InitSidecarInv == SidecarInit => SidecarInv
<1> SUFFICES ASSUME SidecarInit PROVE SidecarInv
  OBVIOUS
<1> USE Constants DEF SidecarInit
<1>1. fzf \in FzfStates
  BY DEF FzfStates
<1>2. snapshot \in Snapshots /\ window \in Windows
  BY DEF Snapshots, Windows, EmptySnapshot, NotActive
<1>3. /\ age \in 0..(ReadinessTimeout + 1) /\ pendingAge \in 0..RetryWindow
      /\ faults \in 0..MaxFaults /\ changes \in 0..MaxChanges
  OBVIOUS
<1>4. SidecarTypeOK
  BY <1>1, <1>2, <1>3 DEF SidecarTypeOK
<1> QED
  BY <1>4 DEF SidecarInv, WaitInv, WindowInv, SnapshotInv

-----------------------------------------------------------------------------
(* What the helpers of the polling goroutine do                            *)

StopCauses == {NoReason, "context", "requested"}

(* A failed request ends in the pause or in the end of the loop; the retry *)
(* window is as it was, or it is the same window, now open.                *)
Backoff ==
    /\ loop' \in {"pause", "closing"}
    /\ stopCause' \in StopCauses
    /\ reason' \in Reasons \cup {NoReason}

SameWindow == window' \in {window, [window EXCEPT !.active = TRUE]}

LEMMA FinishBacksOff ==
  ASSUME SidecarTypeOK, NEW fallback \in Reasons, Finish(fallback)
  PROVE  Backoff
  BY DEF SidecarTypeOK, Finish, Backoff, StopCauses, Recorded, Reasons

LEMMA EnterPauseBacksOff ==
  ASSUME SidecarTypeOK, EnterPause PROVE Backoff
<1>1. "readiness" \in Reasons
  BY DEF Reasons
<1>2. CASE Finish("readiness")
  BY <1>1, <1>2, FinishBacksOff
<1>3. CASE loop' = "pause" /\ UNCHANGED <<stopCause, reason>>
  BY <1>3 DEF Backoff, SidecarTypeOK, StopCauses
<1> QED
  BY <1>2, <1>3 DEF EnterPause

(* transientWindow.allow: the window is open afterwards, and the loop goes *)
(* on only while a window that was open has not expired.                   *)
LEMMA RetryBacksOff ==
  ASSUME SidecarTypeOK, RetryInWindow
  PROVE  /\ Backoff /\ window' = [window EXCEPT !.active = TRUE]
         /\ loop' = "pause" => WindowAllows
<1>1. "transient" \in Reasons
  BY DEF Reasons
<1>2. Backoff
  BY <1>1, EnterPauseBacksOff, FinishBacksOff DEF RetryInWindow
<1>3. loop' = "pause" => WindowAllows
  BY DEF RetryInWindow, Finish
<1> QED
  BY <1>2, <1>3 DEF RetryInWindow

LEMMA GetFailedBacksOff ==
  ASSUME SidecarTypeOK, NEW failure, GetFailed(failure)
  PROVE  Backoff /\ SameWindow /\ snapshot' = EmptySnapshot
<1>1. snapshot' = EmptySnapshot
  BY DEF GetFailed
<1>2. CASE Finish("context") /\ UNCHANGED window
  BY <1>1, <1>2, FinishBacksOff DEF SameWindow, Reasons
<1>3. CASE Finish("terminal") /\ UNCHANGED window
  BY <1>1, <1>3, FinishBacksOff DEF SameWindow, Reasons
<1>4. CASE EnterPause /\ UNCHANGED window
  BY <1>1, <1>4, EnterPauseBacksOff DEF SameWindow
<1>5. CASE RetryInWindow
  BY <1>1, <1>5, RetryBacksOff DEF SameWindow
<1> QED
  BY <1>2, <1>3, <1>4, <1>5 DEF GetFailed

(* The window of a retry is still a window.                                *)
LEMMA WindowType ==
  ASSUME window \in Windows
  PROVE  /\ [window EXCEPT !.active = TRUE] \in Windows
         /\ NotActive \in Windows
         /\ [window EXCEPT !.age = Older(@, RetryWindow)] \in Windows
<1>1. window.age \in 0..RetryWindow
  BY DEF Windows
<1>2. Older(window.age, RetryWindow) \in 0..RetryWindow
  BY <1>1, Constants DEF Older
<1>3. [window EXCEPT !.age = Older(@, RetryWindow)] \in Windows
  BY <1>2 DEF Windows
<1>4. [window EXCEPT !.active = TRUE] \in Windows
  BY DEF Windows
<1>5. NotActive \in Windows
  BY Constants DEF Windows, NotActive
<1> QED
  BY <1>3, <1>4, <1>5

LEMMA EmptyType == EmptySnapshot \in Snapshots
  BY Constants DEF EmptySnapshot, Snapshots

(* What the pages of a cycle add up to is what fzf had selected at most.   *)
LEMMA PageType ==
  ASSUME SidecarTypeOK
  PROVE  /\ PageLength \in Nat
         /\ snapshot.selected + PageLength \in 0..MaxSelected
<1>1. /\ fzf.selected \in 0..MaxSelected /\ snapshot.selected \in 0..MaxSelected
  BY DEF SidecarTypeOK, FzfStates, Snapshots
<1> QED
  BY <1>1, Constants DEF PageLength, Least

(* A label made of what fzf reported is a label.                           *)
LEMMA LabelType ==
  ASSUME NEW total \in Totals, NEW selected \in 0..MaxSelected
  PROVE  Label(total, selected) \in Labels
  BY Constants DEF Label, Labels

(* The part of the type invariant that the goroutine's steps change.       *)
LoopTypeOK ==
    /\ fzf \in FzfStates
    /\ ready \in BOOLEAN /\ postPending \in BOOLEAN /\ cancelled \in BOOLEAN
    /\ stopCause \in StopCauses
    /\ loop \in {"off", "get", "post", "pause", "closing", "over"}
    /\ lastLabel \in Labels \cup {NoLabel}
    /\ window \in Windows
    /\ snapshot \in Snapshots
    /\ age \in 0..(ReadinessTimeout + 1)
    /\ pendingAge \in 0..RetryWindow
    /\ reason \in Reasons \cup {NoReason}
    /\ faults \in 0..MaxFaults

LEMMA LoopTypeFromType == SidecarTypeOK => LoopTypeOK
  BY DEF SidecarTypeOK, LoopTypeOK, StopCauses

LEMMA BackoffType ==
  ASSUME Backoff
  PROVE  /\ loop' \in {"off", "get", "post", "pause", "closing", "over"}
         /\ stopCause' \in StopCauses
         /\ reason' \in Reasons \cup {NoReason}
  BY DEF Backoff

LEMMA FailsType ==
  ASSUME SidecarTypeOK, NEW failure, Fails(failure) PROVE faults' \in 0..MaxFaults
<1>1. faults \in 0..MaxFaults
  BY DEF SidecarTypeOK
<1>2. faults' = faults \/ (faults < MaxFaults /\ faults' = faults + 1)
  BY DEF Fails
<1> QED
  BY <1>1, <1>2, Constants

(* The polling goroutine keeps its own state typed, and posts only what    *)
(* fzf reported.                                                           *)
LEMMA LoopType ==
  ASSUME SidecarTypeOK, SnapshotInv, Loop
  PROVE  LoopTypeOK' /\ SnapshotInv'
<1> USE DEF session, context, locals, clocks, bounds
<1>0. LoopTypeOK
  BY LoopTypeFromType
<1>1. CASE PauseEnds
  <2>1. /\ stopCause' \in StopCauses /\ reason' \in Reasons \cup {NoReason}
        /\ loop' \in {"closing", "get"}
    <3>1. ASSUME NEW fallback \in Reasons, Finish(fallback)
          PROVE  /\ stopCause' \in StopCauses /\ reason' \in Reasons \cup {NoReason}
                 /\ loop' = "closing"
      BY <3>1, FinishBacksOff DEF Backoff, Finish
    <3>2. "terminal" \in Reasons /\ "readiness" \in Reasons
      BY DEF Reasons
    <3> QED
      BY <1>0, <1>1, <3>1, <3>2 DEF PauseEnds, LoopTypeOK
  <2> QED
    BY <1>0, <1>1, <2>1 DEF PauseEnds, LoopTypeOK, SnapshotInv
<1>2. CASE GetFails
  <2>1. Backoff /\ SameWindow /\ snapshot' = EmptySnapshot
    BY <1>2, GetFailedBacksOff DEF GetFails
  <2>2. faults' \in 0..MaxFaults
    BY <1>0, <1>2, FailsType DEF GetFails, LoopTypeOK
  <2>3. window' \in Windows /\ snapshot' \in Snapshots
    BY <1>0, <2>1, WindowType, EmptyType DEF SameWindow, LoopTypeOK
  <2>4. SnapshotInv'
    BY <2>1 DEF SnapshotInv, Backoff
  <2> QED
    BY <1>0, <1>2, <2>1, <2>2, <2>3, <2>4, BackoffType DEF GetFails, LoopTypeOK
<1>3. CASE GetPage
  <2> DEFINE selected == snapshot.selected + PageLength
  <2>1. selected \in 0..MaxSelected /\ fzf.total \in Totals
    BY PageType DEF SidecarTypeOK, FzfStates
  <2> HIDE DEF selected
  <2>2. UNCHANGED <<fzf, postPending, cancelled, lastLabel, faults, pendingAge>>
    BY <1>3 DEF GetPage
  <2>3. CASE \E failure \in {"torn", "invalid"} : GetFailed(failure) /\ UNCHANGED <<ready, age>>
    <3>1. Backoff /\ SameWindow /\ snapshot' = EmptySnapshot
      BY <2>3, GetFailedBacksOff
    <3>2. window' \in Windows /\ snapshot' \in Snapshots
      BY <1>0, <3>1, WindowType, EmptyType DEF SameWindow, LoopTypeOK
    <3>3. SnapshotInv'
      BY <3>1 DEF SnapshotInv, Backoff
    <3> QED
      BY <1>0, <2>2, <2>3, <3>1, <3>2, <3>3, BackoffType DEF LoopTypeOK
  <2>4. CASE /\ snapshot.pages + 1 < MaxPages
             /\ snapshot' = [total |-> fzf.total, selected |-> selected,
                             pages |-> snapshot.pages + 1]
             /\ UNCHANGED <<loop, stopCause, reason, ready, window, age>>
    <3>1. snapshot.pages \in Nat
      BY <1>0 DEF LoopTypeOK, Snapshots
    <3>2. snapshot.pages + 1 \in 0..MaxPages
      BY <2>4, <3>1, Constants
    <3>3. snapshot' \in Snapshots
      BY <2>1, <2>4, <3>2 DEF Snapshots
    <3>4. SnapshotInv'
      BY <1>3, <2>4 DEF SnapshotInv, GetPage
    <3> QED
      BY <1>0, <2>2, <2>4, <3>3, <3>4 DEF LoopTypeOK
  <2>5. CASE StateComplete(selected)
    <3>1. window' \in Windows
      BY <1>0, <2>5, WindowType DEF StateComplete, LoopTypeOK
    <3>2. [total |-> fzf.total, selected |-> selected, pages |-> 0] \in Snapshots
      BY <2>1, Constants DEF Snapshots
    <3>3. snapshot' \in Snapshots
      BY <2>5, <3>2, EmptyType DEF StateComplete
    <3>4. SnapshotInv'
      BY <2>1, <2>5 DEF StateComplete, SnapshotInv
    <3>5. 0 \in 0..(ReadinessTimeout + 1)
      BY Constants
    <3> QED
      BY <1>0, <2>2, <2>5, <3>1, <3>3, <3>4, <3>5 DEF StateComplete, LoopTypeOK
  <2>6. snapshot.pages \in Nat /\ MaxPages \in Nat
    BY <1>0, Constants DEF LoopTypeOK, Snapshots
  <2> QED
    BY <1>3, <2>3, <2>4, <2>5, <2>6 DEF GetPage, selected
<1>4. CASE PostSucceeds
  <2>1. Posted \in Labels
    BY <1>0, <1>4, LabelType DEF PostSucceeds, Posted, SnapshotInv, LoopTypeOK, Snapshots
  <2>2. fzf' \in FzfStates
    BY <1>0, <1>4, <2>1 DEF PostSucceeds, FzfStates, LoopTypeOK
  <2>3. 0 \in 0..RetryWindow
    BY Constants
  <2> QED
    BY <1>0, <1>4, <2>1, <2>2, <2>3, WindowType, EmptyType
    DEF PostSucceeds, LoopTypeOK, SnapshotInv
<1>5. CASE PostFails
  <2>1. Posted \in Labels
    BY <1>0, <1>5, LabelType DEF PostFails, Posted, SnapshotInv, LoopTypeOK, Snapshots
  <2>2. fzf' \in FzfStates
    BY <1>0, <1>5, <2>1 DEF PostFails, FzfStates, LoopTypeOK
  <2>3. "context" \in Reasons /\ "terminal" \in Reasons
    BY DEF Reasons
  <2>4. Backoff /\ SameWindow
    BY <1>5, <2>3, FinishBacksOff, RetryBacksOff DEF PostFails, SameWindow
  <2>5. faults' \in 0..MaxFaults
    BY <1>0, <1>5, FailsType DEF PostFails, LoopTypeOK
  <2>6. postPending' \in BOOLEAN
    BY <1>0, <1>5 DEF PostFails, LoopTypeOK
  <2>7. pendingAge' \in 0..RetryWindow
    BY <1>0, <1>5, Constants DEF PostFails, LoopTypeOK
  <2>8. window' \in Windows /\ snapshot' \in Snapshots
    BY <1>0, <1>5, <2>4, WindowType, EmptyType DEF PostFails, SameWindow, LoopTypeOK
  <2>9. SnapshotInv'
    BY <2>4 DEF SnapshotInv, Backoff
  <2> QED
    BY <1>0, <1>5, <2>2, <2>4, <2>5, <2>6, <2>7, <2>8, <2>9, BackoffType DEF PostFails, LoopTypeOK
<1>6. CASE LoopEnds
  <2>1. 0 \in 0..RetryWindow /\ 0 \in 0..(ReadinessTimeout + 1)
    BY Constants
  <2> QED
    BY <1>0, <1>6, <2>1, WindowType DEF LoopEnds, LoopTypeOK, SnapshotInv
<1> QED
  BY <1>1, <1>2, <1>3, <1>4, <1>5, <1>6 DEF Loop

(* The rest of the type invariant: flags, calls and the bound on changes.  *)
FlagsOK ==
    /\ started \in BOOLEAN /\ stopped \in BOOLEAN /\ waited \in BOOLEAN
    /\ parentDone \in BOOLEAN /\ joined \in BOOLEAN
CallsOK ==
    /\ caller \in [Callers -> {"free", "record requested", "record context",
                               "cancel", "join"}]
    /\ issued \in [Callers -> SUBSET Ops]
    /\ changes \in 0..MaxChanges

LEMMA TypeParts == SidecarTypeOK <=> LoopTypeOK /\ FlagsOK /\ CallsOK
  BY DEF SidecarTypeOK, LoopTypeOK, FlagsOK, CallsOK, StopCauses

LEMMA FlagsStep == FlagsOK /\ [SidecarNext]_sidecarVars => FlagsOK'
<1> SUFFICES ASSUME FlagsOK, [SidecarNext]_sidecarVars PROVE FlagsOK'
  OBVIOUS
<1> USE DEF session, context, locals, clocks, bounds
<1>1. CASE UNCHANGED <<started, stopped, waited, parentDone, joined>>
  BY <1>1 DEF FlagsOK
<1>2. CASE Loop
  BY <1>1, <1>2 DEF Loop, PauseEnds, GetFails, GetPage, PostSucceeds, PostFails, LoopEnds
<1>3. CASE Tick \/ FzfComesUp \/ FzfGoesAway \/ FzfChanges \/ UNCHANGED sidecarVars
  BY <1>1, <1>3 DEF Tick, FzfComesUp, FzfGoesAway, FzfChanges, sidecarVars
<1>4. CASE ParentIsDone
  BY <1>4 DEF ParentIsDone, FlagsOK
<1>5. ASSUME NEW c \in Callers, StopRecord(c) \/ StopCancel(c) PROVE FlagsOK'
  BY <1>1, <1>5 DEF StopRecord, StopCancel
<1>6. ASSUME NEW c \in Callers, Start(c) PROVE FlagsOK'
  BY <1>6 DEF Start, FlagsOK
<1>7. ASSUME NEW c \in Callers, StopBegin(c) PROVE FlagsOK'
  BY <1>7 DEF StopBegin, FlagsOK
<1>8. ASSUME NEW c \in Callers, WaitBegin(c) PROVE FlagsOK'
  BY <1>8 DEF WaitBegin, FlagsOK
<1>9. ASSUME NEW c \in Callers, WaitReturns(c) PROVE FlagsOK'
  BY <1>9 DEF WaitReturns, FlagsOK
<1> QED
  BY <1>2, <1>3, <1>4, <1>5, <1>6, <1>7, <1>8, <1>9 DEF SidecarNext, World, Calls

LEMMA CallsStep == CallsOK /\ [SidecarNext]_sidecarVars => CallsOK'
<1> SUFFICES ASSUME CallsOK, [SidecarNext]_sidecarVars PROVE CallsOK'
  OBVIOUS
<1> USE DEF session, context, locals, clocks, bounds
<1>1. CASE UNCHANGED <<caller, issued, changes>>
  BY <1>1 DEF CallsOK
<1>2. CASE Loop
  BY <1>1, <1>2 DEF Loop, PauseEnds, GetFails, GetPage, PostSucceeds, PostFails, LoopEnds
<1>3. CASE Tick \/ FzfComesUp \/ FzfGoesAway \/ ParentIsDone \/ UNCHANGED sidecarVars
  BY <1>1, <1>3 DEF Tick, FzfComesUp, FzfGoesAway, ParentIsDone, sidecarVars
<1>4. CASE FzfChanges
  <2>1. changes \in 0..MaxChanges /\ changes < MaxChanges /\ changes' = changes + 1
    BY <1>4 DEF FzfChanges, CallsOK
  <2>2. changes' \in 0..MaxChanges
    BY <2>1, Constants
  <2> QED
    BY <1>4, <2>2 DEF FzfChanges, CallsOK
<1>5. ASSUME NEW c \in Callers, Calls(c) PROVE CallsOK'
  <2>1. issued' \in [Callers -> SUBSET Ops]
    <3>1. ASSUME NEW op \in Ops, Call(c, op) PROVE issued' \in [Callers -> SUBSET Ops]
      BY <3>1 DEF Call, CallsOK
    <3>2. "start" \in Ops /\ "stop" \in Ops /\ "wait" \in Ops
      BY DEF Ops
    <3> QED
      BY <1>5, <3>1, <3>2 DEF Calls, Start, StopBegin, StopRecord, StopCancel, WaitBegin,
                              WaitReturns, CallsOK
  <2> QED
    BY <1>5, <2>1 DEF Calls, Start, StopBegin, StopRecord, StopCancel, WaitBegin,
                      WaitReturns, CallsOK
<1> QED
  BY <1>2, <1>3, <1>4, <1>5 DEF SidecarNext, World

LEMMA LoopTypeStep ==
  ASSUME SidecarTypeOK, SnapshotInv, [SidecarNext]_sidecarVars PROVE LoopTypeOK'
<1> USE DEF session, context, locals, clocks, bounds
<1>0. LoopTypeOK
  BY LoopTypeFromType
<1>1. CASE Loop
  BY <1>1, LoopType
<1>2. CASE Tick
  <2>1. window' \in Windows
    BY <1>0, <1>2, WindowType DEF Tick, LoopTypeOK
  <2>2. age \in 0..(ReadinessTimeout + 1) /\ pendingAge \in 0..RetryWindow
    BY <1>0 DEF LoopTypeOK
  <2>3. /\ age' \in {0, Older(age, ReadinessTimeout + 1)}
        /\ pendingAge' \in {0, Older(pendingAge, RetryWindow)}
    BY <1>2 DEF Tick
  <2>4. age' \in 0..(ReadinessTimeout + 1) /\ pendingAge' \in 0..RetryWindow
    BY <2>2, <2>3, Constants DEF Older
  <2> QED
    BY <1>0, <1>2, <2>1, <2>4 DEF Tick, LoopTypeOK
<1>3. CASE FzfComesUp \/ FzfGoesAway \/ FzfChanges
  <2>1. fzf' \in FzfStates
    BY <1>0, <1>3 DEF FzfComesUp, FzfGoesAway, FzfChanges, LoopTypeOK, FzfStates
  <2> QED
    BY <1>0, <1>3, <2>1 DEF FzfComesUp, FzfGoesAway, FzfChanges, LoopTypeOK
<1>4. CASE ParentIsDone \/ UNCHANGED sidecarVars
  BY <1>0, <1>4 DEF ParentIsDone, sidecarVars, LoopTypeOK
<1>5. ASSUME NEW c \in Callers, StopBegin(c) \/ WaitBegin(c) \/ WaitReturns(c)
      PROVE  LoopTypeOK'
  BY <1>0, <1>5 DEF StopBegin, WaitBegin, WaitReturns, LoopTypeOK
<1>6. ASSUME NEW c \in Callers, Start(c) PROVE LoopTypeOK'
  BY <1>0, <1>6 DEF Start, LoopTypeOK
<1>7. ASSUME NEW c \in Callers, StopRecord(c) PROVE LoopTypeOK'
  BY <1>0, <1>7 DEF StopRecord, Recorded, LoopTypeOK, StopCauses
<1>8. ASSUME NEW c \in Callers, StopCancel(c) PROVE LoopTypeOK'
  BY <1>0, <1>8 DEF StopCancel, LoopTypeOK
<1> QED
  BY <1>1, <1>2, <1>3, <1>4, <1>5, <1>6, <1>7, <1>8 DEF SidecarNext, World, Calls

(* Every step keeps the state well typed.                                  *)
LEMMA SidecarTypeStep ==
  ASSUME SidecarTypeOK, SnapshotInv, [SidecarNext]_sidecarVars PROVE SidecarTypeOK'
<1>1. FlagsOK' /\ CallsOK' /\ LoopTypeOK'
  BY TypeParts, FlagsStep, CallsStep, LoopTypeStep
<1> QED
  BY <1>1, TypeParts, PTL

(* What is posted comes from fzf.                                          *)
LEMMA SnapshotStep ==
  ASSUME SidecarTypeOK, SnapshotInv, [SidecarNext]_sidecarVars PROVE SnapshotInv'
<1> USE DEF session, context, locals, clocks, bounds
<1>1. CASE loop' # "post" \/ UNCHANGED <<loop, snapshot>>
  BY <1>1 DEF SnapshotInv
<1>2. CASE Tick \/ World \/ UNCHANGED sidecarVars
  BY <1>1, <1>2 DEF Tick, World, FzfComesUp, FzfGoesAway, FzfChanges, ParentIsDone, sidecarVars
<1>3. ASSUME NEW c \in Callers, Calls(c) PROVE SnapshotInv'
  BY <1>1, <1>3 DEF Calls, Start, StopBegin, StopRecord, StopCancel, WaitBegin, WaitReturns
<1> QED
  BY <1>2, <1>3, LoopType DEF SidecarNext

-----------------------------------------------------------------------------
(* Start, Stop and Wait                                                    *)

(* The goroutine only moves while there is one, and is over for good.      *)
LEMMA LoopMoves ==
  ASSUME SidecarTypeOK, Loop PROVE loop \notin {"off", "over"} /\ loop' # "off"
<1> USE DEF session, context, locals, clocks, bounds
<1>1. loop \notin {"off", "over"}
  BY DEF Loop, PauseEnds, GetFails, GetPage, PostSucceeds, PostFails, LoopEnds
<1>2. loop' # "off"
  <2>1. LoopTypeOK
    BY LoopTypeFromType
  <2>2. CASE PauseEnds
    BY <2>2 DEF PauseEnds, Finish
  <2>3. CASE GetFails
    BY <2>3, GetFailedBacksOff DEF GetFails, Backoff
  <2>4. CASE GetPage
    <3>1. ASSUME NEW failure, GetFailed(failure) PROVE loop' # "off"
      BY <3>1, GetFailedBacksOff DEF Backoff
    <3>2. ASSUME NEW selected, StateComplete(selected) PROVE loop' # "off"
      BY <3>2 DEF StateComplete
    <3>3. CASE UNCHANGED loop
      BY <1>1, <3>3
    <3> QED
      BY <2>4, <3>1, <3>2, <3>3 DEF GetPage
  <2>5. CASE PostSucceeds \/ LoopEnds
    BY <2>5 DEF PostSucceeds, LoopEnds
  <2>6. CASE PostFails
    BY <2>6, RetryBacksOff DEF PostFails, Finish, Backoff
  <2> QED
    BY <2>2, <2>3, <2>4, <2>5, <2>6 DEF Loop
<1> QED
  BY <1>1, <1>2

LEMMA WaitStep == SidecarTypeOK /\ WaitInv /\ [SidecarNext]_sidecarVars => WaitInv'
<1> SUFFICES ASSUME SidecarTypeOK, WaitInv, [SidecarNext]_sidecarVars PROVE WaitInv'
  OBVIOUS
<1> USE DEF session, context, locals, clocks, bounds
<1>1. CASE Loop
  <2>1. UNCHANGED <<started, waited, joined>>
    BY <1>1 DEF Loop, PauseEnds, GetFails, GetPage, PostSucceeds, PostFails, LoopEnds
  <2> QED
    BY <1>1, <2>1, LoopMoves DEF WaitInv
<1>2. CASE UNCHANGED <<started, waited, joined, loop>>
  BY <1>2 DEF WaitInv
<1>3. CASE Tick \/ World \/ UNCHANGED sidecarVars
  BY <1>2, <1>3 DEF Tick, World, FzfComesUp, FzfGoesAway, FzfChanges, ParentIsDone, sidecarVars
<1>4. ASSUME NEW c \in Callers, Calls(c) PROVE WaitInv'
  <2>1. CASE Start(c)
    BY <2>1 DEF Start, WaitInv
  <2>2. CASE StopBegin(c) \/ StopRecord(c) \/ StopCancel(c)
    BY <1>2, <2>2 DEF StopBegin, StopRecord, StopCancel
  <2>3. CASE WaitBegin(c)
    BY <2>3 DEF WaitBegin, WaitInv
  <2>4. CASE WaitReturns(c)
    BY <2>4 DEF WaitReturns, WaitInv
  <2> QED
    BY <1>4, <2>1, <2>2, <2>3, <2>4 DEF Calls
<1> QED
  BY <1>1, <1>3, <1>4 DEF SidecarNext

-----------------------------------------------------------------------------
(* The retry window                                                        *)

(* A window that is kept, or opened, covers the POST it covered.           *)
LEMMA WindowKept ==
  ASSUME SidecarTypeOK, WindowInv, SameWindow, UNCHANGED <<postPending, pendingAge>>
  PROVE  WindowInv'
<1>1. window \in Windows
  BY DEF SidecarTypeOK
<1>2. CASE window' = window
  BY <1>2 DEF WindowInv
<1>3. CASE window' = [window EXCEPT !.active = TRUE]
  <2>1. window'.active = TRUE /\ window'.age = window.age
    BY <1>1, <1>3 DEF Windows
  <2> QED
    BY <2>1 DEF WindowInv
<1> QED
  BY <1>2, <1>3 DEF SameWindow

LEMMA WindowStep == SidecarTypeOK /\ WindowInv /\ [SidecarNext]_sidecarVars => WindowInv'
<1> SUFFICES ASSUME SidecarTypeOK, WindowInv, [SidecarNext]_sidecarVars PROVE WindowInv'
  OBVIOUS
<1> USE DEF session, context, locals, clocks, bounds
<1>0. /\ window \in Windows /\ window.age \in 0..RetryWindow /\ pendingAge \in 0..RetryWindow
  BY DEF SidecarTypeOK, Windows
<1>1. CASE UNCHANGED <<postPending, pendingAge>> /\ SameWindow
  BY <1>1, WindowKept
<1>2. CASE GetFails
  BY <1>1, <1>2, GetFailedBacksOff DEF GetFails
<1>3. CASE GetPage
  <2>1. UNCHANGED <<postPending, pendingAge>>
    BY <1>3 DEF GetPage
  <2>2. ASSUME NEW failure, GetFailed(failure) PROVE WindowInv'
    BY <1>1, <2>1, <2>2, GetFailedBacksOff
  <2>3. ASSUME NEW selected, StateComplete(selected) PROVE WindowInv'
    BY <2>1, <2>3 DEF StateComplete, WindowInv
  <2>4. CASE UNCHANGED window
    BY <1>1, <2>1, <2>4 DEF SameWindow
  <2> QED
    BY <1>3, <2>2, <2>3, <2>4 DEF GetPage
<1>4. CASE PostSucceeds \/ LoopEnds
  BY <1>4 DEF PostSucceeds, LoopEnds, WindowInv
<1>5. CASE PostFails
  <2>1. CASE UNCHANGED <<window, postPending, pendingAge>>
    BY <1>1, <2>1 DEF SameWindow
  <2>2. CASE RetryInWindow /\ pendingAge' = IF postPending THEN pendingAge ELSE 0
    <3>1. window' = [window EXCEPT !.active = TRUE]
      BY <2>2, RetryBacksOff
    <3>2. window'.active = TRUE /\ window'.age = window.age
      BY <1>0, <3>1 DEF Windows
    <3>3. pendingAge' <= window.age
      BY <1>0, <2>2, Constants DEF WindowInv
    <3> QED
      BY <3>2, <3>3 DEF WindowInv
  <2> QED
    BY <1>5, <2>1, <2>2 DEF PostFails
<1>6. CASE Tick
  <2>1. CASE postPending /\ window.active
    <3>1. /\ window' = [window EXCEPT !.age = Older(window.age, RetryWindow)]
          /\ pendingAge' = Older(pendingAge, RetryWindow) /\ postPending' = postPending
      BY <1>6, <2>1 DEF Tick
    <3>2. window'.active = window.active /\ window'.age = Older(window.age, RetryWindow)
      BY <1>0, <3>1 DEF Windows
    <3>3. pendingAge <= window.age
      BY <2>1 DEF WindowInv
    <3>4. Older(pendingAge, RetryWindow) <= Older(window.age, RetryWindow)
      BY <1>0, <3>3, Constants DEF Older
    <3> QED
      BY <2>1, <3>1, <3>2, <3>4 DEF WindowInv
  <2>2. CASE ~postPending
    BY <1>6, <2>2 DEF Tick, WindowInv
  <2> QED
    BY <2>1, <2>2 DEF WindowInv
<1>7. CASE PauseEnds \/ World \/ UNCHANGED sidecarVars
  BY <1>1, <1>7 DEF PauseEnds, World, FzfComesUp, FzfGoesAway, FzfChanges, ParentIsDone, sidecarVars,
                    SameWindow
<1>8. ASSUME NEW c \in Callers, Calls(c) PROVE WindowInv'
  BY <1>1, <1>8 DEF Calls, Start, StopBegin, StopRecord, StopCancel, WaitBegin, WaitReturns,
                    SameWindow
<1> QED
  BY <1>2, <1>3, <1>4, <1>5, <1>6, <1>7, <1>8 DEF SidecarNext, Loop

-----------------------------------------------------------------------------
(* SidecarInv is an invariant of the sidecar, its callers and fzf.         *)
THEOREM SidecarInvariance == SidecarSpec => []SidecarInv
<1>1. SidecarInv /\ [SidecarNext]_sidecarVars => SidecarInv'
  BY SidecarTypeStep, SnapshotStep, WaitStep, WindowStep DEF SidecarInv
<1> QED
  BY InitSidecarInv, <1>1, PTL DEF SidecarSpec

(* The state of the sidecar, its callers and fzf keeps its types; what is  *)
(* posted is made of counts that fzf reported.                             *)
THEOREM SidecarTypeCorrect == SidecarSpec => []SidecarTypeOK
<1>1. SidecarInv => SidecarTypeOK
  BY DEF SidecarInv
<1> QED
  BY SidecarInvariance, <1>1, PTL

(* Session.Wait: once it has returned to anyone no polling goroutine       *)
(* exists, whoever calls Start, Stop and Wait in whatever order.           *)
THEOREM WaitEndsWork == SidecarSpec => []NoWorkAfterWait
<1>1. SidecarInv => NoWorkAfterWait
  BY DEF SidecarInv, WaitInv, NoWorkAfterWait, Polling
<1> QED
  BY SidecarInvariance, <1>1, PTL

(* run: a POST in doubt is retried only within the window that its first   *)
(* failure opened, however many GETs succeed in between.                   *)
THEOREM PostRetriesAreBounded == SidecarSpec => RetriesAreBounded
<1>1. SidecarInv /\ [SidecarNext]_sidecarVars =>
        [loop = "post" /\ loop' = "pause" /\ postPending' => pendingAge' < RetryWindow]_sidecarVars
  <2> SUFFICES ASSUME SidecarInv, [SidecarNext]_sidecarVars,
                      loop = "post", loop' = "pause", postPending'
               PROVE  pendingAge' < RetryWindow
    OBVIOUS
  <2> USE DEF session, context, locals, clocks, bounds
  <2>0. SidecarTypeOK /\ WindowInv
    BY DEF SidecarInv
  <2>1. PostSucceeds \/ PostFails
    <3>1. CASE Loop
      BY <3>1 DEF Loop, PauseEnds, GetFails, GetPage, LoopEnds
    <3>2. CASE Tick \/ World \/ UNCHANGED sidecarVars
      BY <3>2 DEF Tick, World, FzfComesUp, FzfGoesAway, FzfChanges, ParentIsDone, sidecarVars
    <3>3. ASSUME NEW c \in Callers, Calls(c) PROVE FALSE
      BY <3>3 DEF Calls, Start, StopBegin, StopRecord, StopCancel, WaitBegin, WaitReturns
    <3> QED
      BY <3>1, <3>2, <3>3 DEF SidecarNext
  <2>2. CASE PostSucceeds
    BY <2>2 DEF PostSucceeds
  <2>3. CASE PostFails
    <3>1. RetryInWindow /\ pendingAge' = IF postPending THEN pendingAge ELSE 0
      BY <2>3 DEF PostFails, Finish
    <3>2. window.active => window.age < RetryWindow
      BY <2>0, <3>1, RetryBacksOff DEF WindowAllows
    <3>3. window.age \in 0..RetryWindow /\ pendingAge \in 0..RetryWindow
      BY <2>0 DEF SidecarTypeOK, Windows
    <3>4. CASE postPending
      <4>1. pendingAge <= window.age /\ window.active /\ pendingAge' = pendingAge
        BY <2>0, <3>1, <3>4 DEF WindowInv
      <4> QED
        BY <3>2, <3>3, <4>1, Constants
    <3>5. CASE ~postPending
      BY <3>1, <3>5, Constants
    <3> QED
      BY <3>4, <3>5
  <2> QED
    BY <2>1, <2>2, <2>3
<1> QED
  BY <1>1, SidecarInvariance, PTL DEF SidecarSpec, RetriesAreBounded
=============================================================================
