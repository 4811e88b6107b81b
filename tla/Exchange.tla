------------------------------ MODULE Exchange ------------------------------
(***************************************************************************)
(* What the connector promises on the wire, frame by frame: every id       *)
(* carries one answer, in order.  A request gets a head, any number of     *)
(* body frames and one end, or is aborted; a WebSocket gets data until it  *)
(* is closed.  The constants of the protocol are in                        *)
(* crates/neko/src/tunnel.rs:19-34.                                        *)
(***************************************************************************)
EXTENDS Naturals

CONSTANT Id

VARIABLE answer  \* the last frame the connector wrote for each id

\* The frames that may be written after the last one.
Follows ==
  [unused    |-> {},
   request   |-> {"RES_HEAD", "ABORT"},
   RES_HEAD  |-> {"RES_BODY", "RES_END", "ABORT"},
   RES_BODY  |-> {"RES_BODY", "RES_END", "ABORT"},
   RES_END   |-> {},
   ABORT     |-> {},
   upgrade   |-> {"WS_DATA", "WS_CLOSE"},
   WS_DATA   |-> {"WS_DATA", "WS_CLOSE"},
   WS_CLOSE  |-> {"WS_CLOSE"}]

Init == answer = [i \in Id |-> "unused"]

\* The edge opens an id, for a request or for a visitor WebSocket.
Open(i) == \E kind \in {"request", "upgrade"} : answer' = [answer EXCEPT ![i] = kind]

Reply(i) == \E t \in Follows[answer[i]] : answer' = [answer EXCEPT ![i] = t]

Next == \E i \in Id : Open(i) \/ Reply(i)

Spec == Init /\ [][Next]_answer
=============================================================================
