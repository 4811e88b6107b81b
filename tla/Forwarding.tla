----------------------------- MODULE Forwarding -----------------------------
(***************************************************************************)
(* What the edge promises on the wire, step by step: each frame it sends   *)
(* is about one request or visitor WebSocket, under an id that nothing     *)
(* else alive has.  A request is opened once; its upload is chunks and one *)
(* end, or is cut short; it is aborted only while it waits for its answer  *)
(* or uploads.  A visitor WebSocket is data until one close.  Exchange     *)
(* says the same of the frames that come back.                             *)
(***************************************************************************)
EXTENDS Naturals

CONSTANTS
  Req,     \* requests
  Ws,      \* visitor WebSockets
  Restarts \* an id may be used again once nothing alive has it

VARIABLES
  id,        \* the id of each request and socket, 0 until it has one
  uploading, \* the requests whose body is being read
  open,      \* the requests whose answer is awaited or under way
  bridged,   \* the visitor WebSockets that are not closed on both sides
  frames     \* what the last step sent

Visit == Req \cup Ws

\* Who must not share an id with a newcomer.
Holders == IF Restarts THEN uploading \cup open \cup bridged ELSE Visit

Take(x) ==
  /\ id[x] = 0
  /\ id'[x] \in Nat \ {0} /\ \A y \in Holders : id[y] # id'[x]
  /\ id' = [id EXCEPT ![x] = id'[x]]

\* A frame, under the id that x has or has just taken.
Frame(x, type) == [t |-> type, id |-> id'[x]]

Init ==
  /\ id = [x \in Visit |-> 0]
  /\ uploading = {} /\ open = {} /\ bridged = {}
  /\ frames = <<>>

\* A request, with a body that follows or without one.  A step may also find no
\* connector, and say nothing of what it opened, here and below.
Begin(r) ==
  /\ Take(r)
  /\ \/ frames' = <<Frame(r, "REQ_HEAD")>> /\ uploading' = uploading \cup {r} /\ open' = open \cup {r}
     \/ frames' = <<Frame(r, "REQ_HEAD"), Frame(r, "REQ_END")>>
        /\ open' = open \cup {r} /\ UNCHANGED uploading
     \/ frames' = <<>> /\ UNCHANGED <<uploading, open>>
  /\ UNCHANGED bridged

Upgrade(w) ==
  /\ Take(w)
  /\ frames' = <<Frame(w, "WS_OPEN")>> \/ frames' = <<>>
  /\ bridged' = bridged \cup {w}
  /\ UNCHANGED <<uploading, open>>

Upload(r) ==
  /\ r \in uploading
  /\ \/ frames' = <<Frame(r, "REQ_BODY")>> /\ UNCHANGED <<uploading, open>>
     \/ frames' = <<Frame(r, "REQ_END")>> /\ uploading' = uploading \ {r} /\ UNCHANGED open
     \/ frames' = <<Frame(r, "ABORT")>> /\ uploading' = uploading \ {r} /\ open' = open \ {r}
  /\ UNCHANGED <<id, bridged>>

\* An abort from outside of the upload, which may go on for a while.
GiveUp(r) ==
  /\ r \in open
  /\ frames' = <<Frame(r, "ABORT")>> /\ open' = open \ {r}
  /\ UNCHANGED <<id, uploading, bridged>>

Relay(w) ==
  /\ w \in bridged
  /\ \/ frames' = <<Frame(w, "WS_DATA")>> /\ UNCHANGED bridged
     \/ frames' = <<Frame(w, "WS_CLOSE")>> /\ bridged' = bridged \ {w}
  /\ UNCHANGED <<id, uploading, open>>

\* Answers end, visitors go away, the connector is lost: nothing is sent.
Silence ==
  /\ frames' = <<>>
  /\ uploading' \subseteq uploading /\ open' \subseteq open /\ bridged' \subseteq bridged
  /\ UNCHANGED id

Next ==
  \/ \E r \in Req : Begin(r) \/ Upload(r) \/ GiveUp(r)
  \/ \E w \in Ws : Upgrade(w) \/ Relay(w)
  \/ Silence

Spec == Init /\ [][Next]_<<id, uploading, open, bridged, frames>>
=============================================================================
