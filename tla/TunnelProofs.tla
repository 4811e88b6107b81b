---------------------------- MODULE TunnelProofs ----------------------------
(***************************************************************************)
(* Theorems about Tunnel, for every set of connectors, requests, visitor   *)
(* sockets and accounts, and every value of the limits.                    *)
(***************************************************************************)
EXTENDS Tunnel, FiniteSetTheorems, TLAPS

-----------------------------------------------------------------------------
(* Lemmas about the helpers.                                               *)

Frames == Seq([t : FrameType, id : Nat])

\* One or two frames make a sequence of frames.
LEMMA FewFrames ==
  ASSUME NEW type \in FrameType, NEW other \in FrameType, NEW i \in Nat
  PROVE  /\ <<[t |-> type, id |-> i]>> \in Frames
         /\ <<[t |-> type, id |-> i], [t |-> other, id |-> i]>> \in Frames
         /\ <<>> \in Frames
<1> DEFINE T == [t : FrameType, id : Nat]
<1>1. /\ [t |-> type, id |-> i] \in T
      /\ [t |-> other, id |-> i] \in T
  OBVIOUS
<1>2. \A a, b \in T : <<a>> \in Seq(T) /\ <<a, b>> \in Seq(T) /\ <<>> \in Seq(T)
  OBVIOUS
<1> QED BY <1>1, <1>2 DEF Frames

\* What a turn sends are frames.
LEMMA EmitType ==
  ASSUME TypeOK, NEW type \in FrameType, NEW i \in Nat, Emit(type, i)
  PROVE  sent' \in Frames
BY FewFrames DEF Emit

\* A turn that sends nothing sends frames.
LEMMA QuietType == Quiet => sent' \in Frames
BY DEF Quiet, Frames

\* Resuming the waiting calls keeps phases well typed.
LEMMA ResumedType ==
  ASSUME NEW ph \in [Visit -> Phases],
         NEW h \in [Req -> {"unset", "null", "rejected"} \cup Heads]
  PROVE  Resumed(ph, h) \in [Visit -> Phases]
BY DEF Resumed, Phases, Suspended, Answer, Heads

\* failStream() keeps heads and streams well typed.
LEMMA FailedType ==
  ASSUME TypeOK, NEW S
  PROVE  /\ FailedHeads(S) \in [Req -> {"unset", "null", "rejected"} \cup Heads]
         /\ FailedStreams(S) \in [Req -> {"none", "open", "closed", "errored", "cancelled"}]
BY DEF TypeOK, FailedHeads, FailedStreams

\* Failing and deleting entries keeps them well typed.
LEMMA FailAndCleanupType ==
  ASSUME TypeOK, NEW S, FailAndCleanup(S)
  PROVE  /\ pending' \subseteq Req /\ idle' \subseteq Req /\ life' \subseteq Req
         /\ head' \in [Req -> {"unset", "null", "rejected"} \cup Heads]
         /\ stream' \in [Req -> {"none", "open", "closed", "errored", "cancelled"}]
         /\ phase' \in [Visit -> Phases]
<1>1. phase \in [Visit -> Phases]
  BY DEF TypeOK
<1>2. head' \in [Req -> {"unset", "null", "rejected"} \cup Heads]
  BY FailedType DEF FailAndCleanup
<1>3. phase' \in [Visit -> Phases]
  BY <1>1, <1>2, ResumedType DEF FailAndCleanup
<1> QED BY <1>2, <1>3, FailedType DEF FailAndCleanup, Cleanup, TypeOK

\* close() on any sockets keeps the socket states well typed.
LEMMA ClosedType ==
  ASSUME TypeOK, NEW S
  PROVE  Closed(S) \in [Socket -> {"new", "gone"} \cup Listed]
BY DEF TypeOK, Closed, Listed

-----------------------------------------------------------------------------
(* Type correctness.                                                       *)

USE NamesAssumption, UsersAssumption, ModesAssumption, LimitsAssumption

\* Connects, kills, losses, releases and wake-ups keep the types.
LEMMA ConnectorTypes ==
  ASSUME TypeOK, ConnectorEvent \/ Settles
  PROVE  TypeOK'
<1> USE DEF TypeOK, connVars, idVars, entryVars, Socket, Listed
<1>1. ASSUME NEW c \in Conn, ConnectAsk(c) PROVE TypeOK'
  BY <1>1, QuietType DEF ConnectAsk, liveUser, Frames
<1>2. ASSUME NEW c \in Conn, c \in asked, Denied(c) PROVE TypeOK'
  BY <1>2, QuietType DEF Denied, Frames
<1>3. ASSUME NEW c \in Conn, c \in asked, Accepted(c) PROVE TypeOK'
  BY <1>3, QuietType, ClosedType DEF Accepted, Frames
<1>4. ASSUME NEW c \in Conn, Kill(c) PROVE TypeOK'
  <2>1. sock' \in [Conn \cup Ws -> {"new", "gone"} \cup {"open", "lost", "closing"}]
    BY <1>4, ClosedType DEF Kill
  <2>2. releasing' \subseteq Conn \X {"kill", "event"}
    BY <1>4 DEF Kill, Release
  <2> QED BY <1>4, <2>1, <2>2, QuietType DEF Kill, Frames
<1>5. ASSUME NEW s \in Socket, PeerLoses(s) PROVE TypeOK'
  BY <1>5, QuietType DEF PeerLoses, Frames
<1>6. ASSUME NEW c \in Conn, ConnectorEnds(c) PROVE TypeOK'
  BY <1>6, QuietType DEF ConnectorEnds, Release, Frames
<1>7. ASSUME NEW c \in Conn, NEW caller \in {"kill", "event"}, ReleaseEnd(c, caller)
      PROVE  TypeOK'
  <2>1. /\ pending' \subseteq Req /\ idle' \subseteq Req /\ life' \subseteq Req
        /\ head' \in [Req -> {"unset", "null", "rejected"} \cup Heads]
        /\ stream' \in [Req -> {"none", "open", "closed", "errored", "cancelled"}]
        /\ phase' \in [Visit -> Phases]
    BY <1>7, FailAndCleanupType DEF ReleaseEnd, DropConnector
  <2>2. sock' \in [Conn \cup Ws -> {"new", "gone"} \cup {"open", "lost", "closing"}]
    <3>1. Closed(Socket) \in [Conn \cup Ws -> {"new", "gone"} \cup {"open", "lost", "closing"}]
      BY ClosedType
    <3>2. sock' = [Closed(Socket) EXCEPT ![c] = IF caller = "event" THEN "gone" ELSE @]
      BY <1>7 DEF ReleaseEnd
    <3> QED BY <3>1, <3>2
  <2>3. /\ releasing' \subseteq Conn \X {"kill", "event"} /\ slots' \subseteq Conn
        /\ connector' \in Conn \cup {None} /\ nextId' \in Nat /\ rid' \in [Visit -> Nat]
    BY <1>7 DEF ReleaseEnd, DropConnector
  <2>4. UNCHANGED <<mode, asked, seen, total>> /\ sent' \in Frames
    BY <1>7, QuietType DEF ReleaseEnd
  <2> QED BY <2>1, <2>2, <2>3, <2>4 DEF Frames
<1>8. ASSUME NEW c \in Conn, NEW caller \in {"kill", "event"}, ReleaseFails(c, caller)
      PROVE  TypeOK'
  BY <1>8, QuietType DEF ReleaseFails, Frames
<1>9. CASE Reawaken
  BY <1>9, QuietType DEF Reawaken, Frames
<1> HIDE DEF TypeOK
<1> QED BY <1>1, <1>2, <1>3, <1>4, <1>5, <1>6, <1>7, <1>8, <1>9
        DEF ConnectorEvent, Settles, ConnectVerdict

\* Every step of an upload ends with a phase of the call and its count.
LEMMA UploadLeftType ==
  ASSUME TypeOK, NEW r \in Req, NEW next \in Phases, UploadLeft(r, next)
  PROVE  phase' \in [Visit -> Phases] /\ total' \in [Req -> 0..BodyCap]
<1>1. [phase EXCEPT ![r] = next] \in [Visit -> Phases]
  BY DEF TypeOK
<1>2. phase' \in [Visit -> Phases]
  BY <1>1, ResumedType DEF TypeOK, UploadLeft
<1>3. total' \in [Req -> 0..BodyCap]
  BY DEF TypeOK, UploadLeft
<1> QED BY <1>2, <1>3

\* So does abort().
LEMMA AbortType ==
  ASSUME TypeOK, NEW r \in Req, Abort(r)
  PROVE  TypeOK'
<1>1. sent' \in Frames
  <2>1. rid[r] \in Nat
    BY DEF TypeOK, Visit
  <2> QED BY <2>1, EmitType DEF Abort, FrameType
<1>2. /\ pending' \subseteq Req /\ idle' \subseteq Req /\ life' \subseteq Req
      /\ head' \in [Req -> {"unset", "null", "rejected"} \cup Heads]
      /\ stream' \in [Req -> {"none", "open", "closed", "errored", "cancelled"}]
      /\ phase' \in [Visit -> Phases]
  BY FailAndCleanupType DEF Abort
<1> QED BY <1>1, <1>2 DEF Abort, TypeOK, connVars, idVars, Frames

\* So does serve(), up to the frame that opens a request or a socket.
LEMMA ServeType ==
  ASSUME TypeOK, NEW x \in Visit, Serve(x)
  PROVE  TypeOK'
<1> USE DEF TypeOK, connVars, idVars, entryVars, Visit
<1>1. CASE Turned(x, "refused")
  BY <1>1, QuietType DEF Turned, Frames, Phases
<1>2. ASSUME x \in Req, NEW hasBody \in BOOLEAN, TakeId(x), OpenEntry(x, hasBody)
      PROVE  TypeOK'
  <2>1. sent' \in Frames
    <3>1. {"REQ_HEAD", "REQ_END"} \subseteq FrameType
      BY DEF FrameType
    <3> QED BY <1>2, <3>1, FewFrames DEF OpenEntry
  <2> QED BY <1>2, <2>1 DEF TakeId, OpenEntry, Frames, Phases, Suspended
<1>3. ASSUME x \in Req, TakeId(x), NoConnector(x) PROVE TypeOK'
  BY <1>3, QuietType DEF TakeId, NoConnector, Frames, Phases
<1>4. ASSUME x \in Ws, ~Turned(x, "refused"), OpenWebSocket(x) PROVE TypeOK'
  <2>1. sent' \in Frames
    <3>1. "WS_OPEN" \in FrameType
      BY DEF FrameType
    <3>2. nextId \in Nat
      OBVIOUS
    <3>3. <<[t |-> "WS_OPEN", id |-> nextId]>> \in Frames /\ <<>> \in Frames
      BY <3>1, <3>2, FewFrames
    <3>4. TakeId(x) /\ sent' = (IF CanSend THEN <<[t |-> "WS_OPEN", id |-> nextId]>> ELSE <<>>)
      BY <1>4 DEF OpenWebSocket
    <3> QED BY <3>3, <3>4
  <2>2. TakeId(x)
    BY <1>4 DEF OpenWebSocket
  <2>3. sock' \in [Socket -> {"new", "gone"} \cup Listed]
    BY <1>4 DEF OpenWebSocket, Socket, Listed
  <2>4. phase' \in [Visit -> Phases]
    BY <1>4 DEF OpenWebSocket, Phases
  <2>5. nextId' \in Nat /\ rid' \in [Visit -> Nat]
    BY <2>2 DEF TakeId
  <2>6. UNCHANGED <<connector, mode, asked, seen, releasing, slots, total, entryVars>>
    BY <1>4 DEF OpenWebSocket
  <2> QED BY <2>1, <2>3, <2>4, <2>5, <2>6 DEF Frames
<1> HIDE DEF TypeOK
<1> QED BY <1>1, <1>2, <1>3, <1>4 DEF Serve, Relay

\* Uploads, timers and cancellations keep the types.
LEMMA RequestTypes ==
  ASSUME TypeOK, NEW r \in Req,
         \/ UploadChunk(r) \/ UploadEnd(r) \/ UploadBreaks(r)
         \/ HeadTimeout(r) \/ IdleFires(r) \/ LifetimeFires(r) \/ VisitorCancels(r)
  PROVE  TypeOK'
<1> USE DEF connVars, idVars, entryVars, Frames
<1>1. rid[r] \in Nat /\ Phases # {} /\ {"502", "413", "await"} \subseteq Phases
  BY DEF TypeOK, Visit, Phases, Suspended
<1>2. Quiet \/ Emit("ABORT", rid[r]) \/ Emit("REQ_BODY", rid[r]) \/ Emit("REQ_END", rid[r])
        => sent' \in Frames
  BY <1>1, EmitType, QuietType DEF FrameType
<1>9. ASSUME NEW next \in {"502", "413", "await"}, UploadLeft(r, next)
      PROVE  phase' \in [Visit -> Phases] /\ total' \in [Req -> 0..BodyCap]
  <2>1. next \in Phases
    BY <1>1
  <2> QED BY <1>9, <2>1, UploadLeftType
<1>3. ASSUME UploadChunk(r) PROVE TypeOK'
  <2>1. sent' \in Frames
    BY <1>2, <1>3 DEF UploadChunk
  <2>2. CASE Cleanup({r}) /\ (UploadLeft(r, "502") \/ UploadLeft(r, "413"))
    <3>1. phase' \in [Visit -> Phases] /\ total' \in [Req -> 0..BodyCap]
      BY <1>9, <2>2
    <3> QED BY <2>1, <2>2, <3>1 DEF TypeOK, UploadLeft, Cleanup
  <2>3. CASE /\ total[r] < BodyCap
             /\ total' = [total EXCEPT ![r] = @ + 1]
             /\ UNCHANGED <<connVars, idVars, phase, entryVars>>
    <3>1. total' \in [Req -> 0..BodyCap]
      BY <2>3 DEF TypeOK
    <3> QED BY <2>1, <2>3, <3>1 DEF TypeOK
  <2> QED BY <1>3, <2>2, <2>3 DEF UploadChunk
<1>4. ASSUME UploadEnd(r) PROVE TypeOK'
  BY <1>2, <1>4, <1>9 DEF TypeOK, UploadEnd, UploadLeft, Cleanup
<1>5. ASSUME UploadBreaks(r) PROVE TypeOK'
  BY <1>2, <1>5, <1>9 DEF TypeOK, UploadBreaks, UploadLeft, Cleanup
<1>6. ASSUME HeadTimeout(r) PROVE TypeOK'
  BY <1>2, <1>6, FailedType DEF TypeOK, HeadTimeout, Cleanup, Phases
<1>7. ASSUME IdleFires(r) \/ LifetimeFires(r) PROVE TypeOK'
  BY <1>7, AbortType DEF IdleFires, LifetimeFires
<1>8. ASSUME VisitorCancels(r) PROVE TypeOK'
  BY <1>2, <1>8 DEF TypeOK, VisitorCancels, Cleanup
<1> QED BY <1>3, <1>4, <1>5, <1>6, <1>7, <1>8

\* Frames of the connector keep the types.
LEMMA FrameTypes ==
  ASSUME TypeOK, FrameEvent
  PROVE  TypeOK'
<1> USE DEF connVars, idVars, entryVars, Frames
<1> PICK r \in Req :
    \/ \E kind \in Heads : ResHead(r, kind)
    \/ ResHeadGarbled(r) \/ ResHeadNull(r)
    \/ ResBody(r) \/ ResBodyOverflows(r) \/ ResEnd(r) \/ AbortFrame(r)
  BY DEF FrameEvent
<1>1. Quiet \/ Emit("ABORT", rid[r]) => sent' \in Frames
  BY EmitType, QuietType DEF TypeOK, FrameType, Visit
<1>2. ASSUME NEW kind \in Heads, ResHead(r, kind) PROVE TypeOK'
  <2>1. head' \in [Req -> {"unset", "null", "rejected"} \cup Heads]
    BY <1>2 DEF TypeOK, ResHead
  <2>2. phase' \in [Visit -> Phases]
    BY <1>2, <2>1, ResumedType DEF TypeOK, ResHead
  <2> QED BY <1>1, <1>2, <2>1, <2>2 DEF TypeOK, ResHead, Touch
<1>3. CASE ResHeadNull(r)
  BY <1>1, <1>3 DEF TypeOK, ResHeadNull, Cleanup
<1>4. CASE ResBody(r)
  BY <1>1, <1>4 DEF TypeOK, ResBody, Cleanup, Touch
<1>5. CASE ResEnd(r)
  BY <1>1, <1>5 DEF TypeOK, ResEnd, Cleanup
<1>6. CASE AbortFrame(r)
  BY <1>1, <1>6, FailAndCleanupType DEF TypeOK, AbortFrame
<1>7. CASE ResHeadGarbled(r) \/ ResBodyOverflows(r)
  BY <1>7, AbortType DEF ResHeadGarbled, ResBodyOverflows
<1> QED BY <1>2, <1>3, <1>4, <1>5, <1>6, <1>7

\* Messages and closes of visitor sockets keep the types.
LEMMA SocketTypes ==
  ASSUME TypeOK, NEW w \in Ws, WsMessage(w) \/ WsCloseFrame(w) \/ WsEnds(w)
  PROVE  TypeOK'
<1> USE DEF connVars, idVars, entryVars, Frames
<1>1. Quiet \/ Emit("WS_DATA", rid[w]) \/ Emit("WS_CLOSE", rid[w]) => sent' \in Frames
  BY EmitType, QuietType DEF TypeOK, FrameType, Visit
<1>2. CASE WsMessage(w)
  BY <1>1, <1>2 DEF TypeOK, WsMessage
<1>3. CASE WsCloseFrame(w)
  BY <1>1, <1>3, ClosedType DEF TypeOK, WsCloseFrame
<1>4. CASE WsEnds(w)
  BY <1>1, <1>4 DEF TypeOK, WsEnds, Socket
<1> QED BY <1>2, <1>3, <1>4

\* Arrivals and admissions keep the types.
LEMMA ArriveTypes ==
  ASSUME TypeOK, NEW x \in Visit, Arrive(x) \/ Admit(x)
  PROVE  TypeOK'
<1>1. ASSUME NEW answer \in Phases, Turned(x, answer) PROVE TypeOK'
  BY <1>1, QuietType DEF TypeOK, Turned, connVars, idVars, entryVars, Frames
<1>2. {"502", "refused", "admit"} \subseteq Phases
  BY DEF Phases, Suspended
<1>3. \/ Serve(x)
      \/ Turned(x, "502") \/ Turned(x, "refused") \/ Turned(x, "admit")
  BY DEF Arrive, Admit, TypeOK
<1> QED BY <1>1, <1>2, <1>3, ServeType

\* The state variables keep their types in every behavior.
THEOREM TypeCorrect == Spec => []TypeOK
<1>1. Init => TypeOK
  BY DEF Init, TypeOK, Phases, Suspended, Listed
<1>2. TypeOK /\ [Next]_vars => TypeOK'
  <2> SUFFICES ASSUME TypeOK, [Next]_vars PROVE TypeOK'
    OBVIOUS
  <2>1. CASE UNCHANGED vars
    BY <2>1 DEF TypeOK, vars, connVars, idVars, entryVars
  <2>2. CASE ConnectorEvent \/ Settles
    BY <2>2, ConnectorTypes
  <2>3. CASE RequestEvent
    BY <2>3, RequestTypes, ArriveTypes DEF RequestEvent, Visit
  <2>4. CASE FrameEvent
    BY <2>4, FrameTypes
  <2>5. CASE SocketEvent
    BY <2>5, SocketTypes, ArriveTypes DEF SocketEvent, Visit
  <2> QED BY <2>1, <2>2, <2>3, <2>4, <2>5 DEF Next
<1> QED BY <1>1, <1>2, PTL DEF Spec

-----------------------------------------------------------------------------
(* Requests: timers, ids, entries and streams.                             *)

\* What serve() answers to each head.
LEMMA AnswerFacts ==
  /\ DOMAIN Answer = {"body", "nobody", "invalid", "rejected"}
  /\ Answer["body"] = "stream" /\ Answer["nobody"] = "bodiless"
  /\ Answer["invalid"] = "500" /\ Answer["rejected"] = "502"
BY DEF Answer

\* Failing and deleting entries keeps the request invariant, whatever else
\* the step does to the connector.
LEMMA FailAndCleanupInv ==
  ASSUME TypeOK, RequestInv, NEW S \in SUBSET pending, FailAndCleanup(S),
         UNCHANGED idVars, NoOrphanWait'
  PROVE  RequestInv'
<1>1. TimersMatchPending'
  BY DEF RequestInv, TimersMatchPending, FailAndCleanup, Cleanup
<1>2. PendingKeysUnique'
  BY DEF RequestInv, PendingKeysUnique, FailAndCleanup, Cleanup, idVars
<1>3. ASSUME NEW r \in Req PROVE EntryInv(r)'
  <2>1. EntryInv(r)
    BY DEF RequestInv
  <2>2. head'[r] = IF r \in S \ settled THEN "rejected" ELSE head[r]
    BY DEF FailAndCleanup, FailedHeads
  <2>3. stream'[r] = IF r \in S \cap settled /\ stream[r] = "open" THEN "errored" ELSE stream[r]
    BY DEF FailAndCleanup, FailedStreams
  <2>4. phase'[r] = IF phase[r] = "await" /\ head'[r] \in DOMAIN Answer
                    THEN Answer[head'[r]] ELSE phase[r]
    BY DEF FailAndCleanup, Resumed, Visit
  <2>5. pending' = pending \ S /\ UNCHANGED <<rid, nextId>>
    BY DEF FailAndCleanup, Cleanup, idVars
  <2>6. CASE r \in S
    BY <2>1, <2>2, <2>3, <2>4, <2>5, <2>6, AnswerFacts DEF EntryInv, settled, Heads
  <2>7. CASE r \notin S
    BY <2>1, <2>2, <2>3, <2>4, <2>5, <2>7, AnswerFacts DEF EntryInv, Heads
  <2> QED BY <2>6, <2>7
<1> QED BY <1>1, <1>2, <1>3 DEF RequestInv

\* So does a step that touches neither the requests nor their ids, unless it
\* detaches the connector.
LEMMA RequestsUnchanged ==
  ASSUME RequestInv, NoOrphanWait', UNCHANGED <<idVars, entryVars>>,
         \A r \in Req : \/ phase'[r] = phase[r]
                        \/ /\ phase[r] \in {"idle", "admit"}
                           /\ phase'[r] \in {"refused", "502", "admit"}
  PROVE  RequestInv'
BY DEF RequestInv, TimersMatchPending, PendingKeysUnique, EntryInv, idVars, entryVars

\* Connects, kills, losses, releases and wake-ups keep the request invariant.
LEMMA ConnectorInv ==
  ASSUME TypeOK, RequestInv, ConnectorEvent \/ Settles
  PROVE  RequestInv'
<1> USE DEF connVars, idVars, entryVars, RequestInv
<1>1. ASSUME NEW c \in Conn, ConnectAsk(c) \/ Denied(c) \/ Accepted(c) \/ Kill(c) \/ ConnectorEnds(c)
      PROVE  RequestInv'
  <2>1. NoOrphanWait' /\ UNCHANGED <<idVars, entryVars, phase>>
    BY <1>1 DEF ConnectAsk, Denied, Accepted, Kill, ConnectorEnds, NoOrphanWait
  <2> QED BY <2>1, RequestsUnchanged
<1>2. ASSUME NEW s \in Socket, PeerLoses(s) PROVE RequestInv'
  BY <1>2, RequestsUnchanged DEF PeerLoses, NoOrphanWait
<1>3. ASSUME NEW c \in Conn, NEW caller \in {"kill", "event"}, ReleaseFails(c, caller)
      PROVE  RequestInv'
  BY <1>3, RequestsUnchanged DEF ReleaseFails, NoOrphanWait
<1>4. ASSUME NEW c \in Conn, NEW caller \in {"kill", "event"}, ReleaseEnd(c, caller)
      PROVE  RequestInv'
  <2>1. FailAndCleanup(pending) /\ UNCHANGED idVars
    BY <1>4 DEF ReleaseEnd, DropConnector
  <2>2. NoOrphanWait'
    BY <2>1 DEF NoOrphanWait, FailAndCleanup, Cleanup
  <2> QED BY <2>1, <2>2, FailAndCleanupInv
<1>5. CASE Reawaken
  <2>1. /\ pending = {} /\ pending' = {} /\ idle' = {} /\ life' = {}
        /\ UNCHANGED <<rid, phase, head, stream>>
    BY <1>5 DEF Reawaken, Dormant, TimersMatchPending
  <2> QED BY <2>1 DEF TimersMatchPending, PendingKeysUnique, NoOrphanWait, EntryInv
<1> HIDE DEF RequestInv
<1> QED BY <1>1, <1>2, <1>3, <1>4, <1>5 DEF ConnectorEvent, Settles, ConnectVerdict

\* So does abort().
LEMMA AbortInv ==
  ASSUME TypeOK, RequestInv, NEW r \in Req, Abort(r)
  PROVE  RequestInv'
<1>1. FailAndCleanup({r}) /\ UNCHANGED <<connVars, idVars>>
  BY DEF Abort
<1>2. NoOrphanWait'
  BY <1>1 DEF RequestInv, NoOrphanWait, FailAndCleanup, Cleanup, connVars
<1>3. {r} \in SUBSET pending
  BY DEF Abort
<1> QED BY <1>1, <1>2, <1>3, FailAndCleanupInv

\* A call that opens an entry takes an id below the next one: no pending
\* entry has it.
LEMMA ServeInv ==
  ASSUME TypeOK, RequestInv, NEW x \in Visit, phase[x] \in {"idle", "admit"},
         \/ Serve(x)
         \/ Turned(x, "502") \/ Turned(x, "refused") \/ Turned(x, "admit")
  PROVE  RequestInv'
<1>1. ASSUME NEW answer \in {"502", "refused", "admit"}, Turned(x, answer)
      PROVE  RequestInv'
  <2>1. NoOrphanWait'
    BY <1>1 DEF Turned, connVars, entryVars, RequestInv, NoOrphanWait
  <2>2. \A r \in Req : phase'[r] = IF r = x THEN answer ELSE phase[r]
    BY <1>1 DEF Turned, TypeOK, Visit
  <2> QED BY <1>1, <2>1, <2>2, RequestsUnchanged DEF Turned
<1>2. \A y \in Visit : TakeId(x) => rid'[y] = IF y = x THEN nextId ELSE rid[y]
  BY DEF TakeId, TypeOK
<1>3. ASSUME x \in Req, NEW hasBody \in BOOLEAN, CanSend, TakeId(x), OpenEntry(x, hasBody)
      PROVE  RequestInv'
  <2>1. TimersMatchPending' /\ NoOrphanWait'
    BY <1>3 DEF RequestInv, TimersMatchPending, NoOrphanWait, OpenEntry, connVars, CanSend
  <2>2. \A r \in Req : r \in pending => rid[r] < nextId
    BY DEF RequestInv, EntryInv
  <2>3. PendingKeysUnique'
    <3> SUFFICES ASSUME NEW r \in pending', NEW q \in pending', rid'[r] = rid'[q]
                 PROVE  r = q
      BY DEF PendingKeysUnique
    <3>1. /\ r \in Visit /\ q \in Visit
          /\ r \in pending \cup {x} /\ q \in pending \cup {x}
      BY <1>3 DEF OpenEntry, TypeOK, Visit
    <3>2. rid[r] \in Nat /\ rid[q] \in Nat /\ nextId \in Nat
      BY <3>1 DEF TypeOK
    <3> QED BY <1>2, <1>3, <2>2, <3>1, <3>2 DEF RequestInv, PendingKeysUnique, TypeOK
  <2>4. ASSUME NEW r \in Req PROVE EntryInv(r)'
    <3>1. EntryInv(r) /\ r \in Visit
      BY DEF RequestInv, Visit
    <3>2. nextId \in Nat /\ nextId' = nextId + 1 /\ rid[r] \in Nat
      BY <1>3, <3>1 DEF TakeId, TypeOK
    <3>3. /\ stream'[r] = IF r = x THEN "open" ELSE stream[r]
          /\ pending' = pending \cup {x}
          /\ head' = head
      BY <1>3 DEF OpenEntry, TypeOK
    <3>4. phase'[r] = IF r = x THEN IF hasBody THEN "upload" ELSE "await" ELSE phase[r]
      BY <1>3, <3>1 DEF OpenEntry, TypeOK
    <3>5. CASE r = x
      BY <1>2, <1>3, <3>1, <3>2, <3>3, <3>4, <3>5 DEF EntryInv
    <3>6. CASE r # x
      BY <1>2, <1>3, <3>1, <3>2, <3>3, <3>4, <3>6 DEF EntryInv
    <3> QED BY <3>5, <3>6
  <2> QED BY <2>1, <2>3, <2>4 DEF RequestInv
\* A call that takes an id and opens no entry.
<1>4. ASSUME TakeId(x), UNCHANGED <<connector, entryVars>>,
             \A r \in Req : phase'[r] = IF r = x THEN "502" ELSE phase[r]
      PROVE  RequestInv'
  <2>1. TimersMatchPending' /\ NoOrphanWait'
    BY <1>4 DEF RequestInv, TimersMatchPending, NoOrphanWait, entryVars
  <2>2. x \in Req => x \notin pending
    BY DEF RequestInv, EntryInv
  <2>3. \A r \in pending : rid'[r] = rid[r] /\ rid[r] \in Nat
    <3> TAKE r \in pending
    <3>1. r \in Req /\ r \in Visit
      BY DEF TypeOK, Visit
    <3>2. r # x
      BY <2>2, <3>1
    <3> QED BY <1>2, <1>4, <3>1, <3>2 DEF TypeOK
  <2>4. PendingKeysUnique'
    BY <1>4, <2>3 DEF RequestInv, PendingKeysUnique, entryVars
  <2>5. ASSUME NEW r \in Req PROVE EntryInv(r)'
    <3>1. EntryInv(r) /\ nextId \in Nat /\ nextId' = nextId + 1
      BY <1>4 DEF RequestInv, TakeId, TypeOK
    <3>2. UNCHANGED <<pending, head, stream>>
      BY <1>4 DEF entryVars
    <3> QED BY <1>4, <2>2, <2>3, <3>1, <3>2 DEF EntryInv
  <2> QED BY <2>1, <2>4, <2>5 DEF RequestInv
<1>5. ASSUME x \in Req, TakeId(x), NoConnector(x) PROVE RequestInv'
  <2>1. \A r \in Req : phase'[r] = IF r = x THEN "502" ELSE phase[r]
    BY <1>5 DEF NoConnector, TypeOK, Visit
  <2> QED BY <1>4, <1>5, <2>1 DEF NoConnector, connVars
<1>6. ASSUME x \in Ws, ~Turned(x, "refused"), OpenWebSocket(x) PROVE RequestInv'
  <2>1. TakeId(x) /\ UNCHANGED <<connector, entryVars>>
    BY <1>6 DEF OpenWebSocket
  <2>2. \A r \in Req : r # x
    BY <1>6, NamesAssumption
  <2>3. \A r \in Req : phase'[r] = IF r = x THEN "502" ELSE phase[r]
    BY <1>6, <2>2 DEF OpenWebSocket, TypeOK, Visit
  <2> QED BY <1>4, <2>1, <2>3
<1> QED BY <1>1, <1>3, <1>5, <1>6 DEF Serve, Relay

\* Uploads, timers and cancellations keep the request invariant.
LEMMA RequestSteps ==
  ASSUME TypeOK, RequestInv, NEW r \in Req,
         \/ UploadChunk(r) \/ UploadEnd(r) \/ UploadBreaks(r)
         \/ HeadTimeout(r) \/ IdleFires(r) \/ LifetimeFires(r) \/ VisitorCancels(r)
  PROVE  RequestInv'
<1> USE DEF connVars, idVars, entryVars
<1>1. UNCHANGED connector /\ pending' \subseteq pending => NoOrphanWait'
  BY DEF RequestInv, NoOrphanWait
\* An upload that ends, with or without its entry.
<1>2. ASSUME NEW next \in {"502", "413", "await"}, phase[r] = "upload", UploadLeft(r, next),
             \/ next # "await" /\ Cleanup({r})
             \/ next = "await" /\ UNCHANGED <<pending, idle, life>>
      PROVE  RequestInv'
  <2>1. TimersMatchPending' /\ PendingKeysUnique' /\ NoOrphanWait'
    BY <1>1, <1>2 DEF RequestInv, TimersMatchPending, PendingKeysUnique, UploadLeft, Cleanup
  <2>2. ASSUME NEW q \in Req PROVE EntryInv(q)'
    <3>1. EntryInv(q)
      BY DEF RequestInv
    <3>2. /\ UNCHANGED <<rid, nextId, head, stream>>
          /\ pending' = IF next = "await" THEN pending ELSE pending \ {r}
      BY <1>2 DEF UploadLeft, Cleanup
    <3> DEFINE ph == IF q = r THEN next ELSE phase[q]
    <3>3. phase'[q] = IF ph = "await" /\ head[q] \in DOMAIN Answer THEN Answer[head[q]] ELSE ph
      BY <1>2 DEF UploadLeft, Resumed, TypeOK, Visit
    <3>4. CASE q = r
      <4>1. phase[q] = "upload" /\ ph = next
        BY <1>2, <3>4
      <4>2. CASE next = "await"
        <5>1. phase'[q] = IF head[q] \in DOMAIN Answer THEN Answer[head[q]] ELSE "await"
          BY <3>3, <4>1, <4>2
        <5>2. pending' = pending
          BY <3>2, <4>2
        <5>3. \/ head[q] \in Heads /\ phase'[q] = Answer[head[q]]
              \/ head[q] = "rejected" /\ phase'[q] = "502"
              \/ head[q] \notin Heads \cup {"rejected"} /\ phase'[q] = "await"
          BY <5>1, AnswerFacts DEF Heads
        <5>4. CASE head[q] \in Heads
          <6>1. phase'[q] = Answer[head[q]]
            BY <5>3, <5>4 DEF Heads
          <6>2. phase'[q] \in {"stream", "bodiless", "500"}
            BY <5>4, <6>1, AnswerFacts DEF Heads
          <6> QED BY <3>1, <3>2, <4>1, <5>2, <5>4, <6>1, <6>2 DEF EntryInv
        <5>5. CASE head[q] \notin Heads
          BY <3>1, <3>2, <4>1, <5>2, <5>3, <5>5 DEF EntryInv, Heads
        <5> QED BY <5>4, <5>5
      <4>3. CASE next # "await"
        <5>1. phase'[q] = next /\ q \notin pending'
          BY <3>2, <3>3, <3>4, <4>1, <4>3
        <5> QED BY <1>2, <3>1, <3>2, <4>3, <5>1 DEF EntryInv
      <4> QED BY <4>2, <4>3
    <3>5. CASE q # r
      BY <3>1, <3>2, <3>3, <3>5, AnswerFacts DEF EntryInv, Heads
    <3> QED BY <3>4, <3>5
  <2> QED BY <2>1, <2>2 DEF RequestInv
<1>3. CASE UploadChunk(r)
  <2>1. CASE Cleanup({r}) /\ (UploadLeft(r, "502") \/ UploadLeft(r, "413"))
    BY <1>2, <1>3, <2>1 DEF UploadChunk
  <2>2. CASE UNCHANGED <<connVars, idVars, phase, entryVars>>
    BY <1>1, <2>2, RequestsUnchanged
  <2> QED BY <1>3, <2>1, <2>2 DEF UploadChunk
<1>4. CASE UploadEnd(r)
  BY <1>2, <1>4 DEF UploadEnd
<1>5. CASE UploadBreaks(r)
  BY <1>2, <1>5 DEF UploadBreaks
<1>6. CASE HeadTimeout(r)
  <2>1. TimersMatchPending' /\ PendingKeysUnique' /\ NoOrphanWait'
    BY <1>1, <1>6 DEF RequestInv, TimersMatchPending, PendingKeysUnique, HeadTimeout, Cleanup
  <2>2. ASSUME NEW q \in Req PROVE EntryInv(q)'
    <3>1. EntryInv(q)
      BY DEF RequestInv
    <3>2. phase'[q] = IF q = r THEN "504" ELSE phase[q]
      BY <1>6 DEF HeadTimeout, TypeOK, Visit
    <3>3. pending' = pending \ {r} /\ UNCHANGED <<rid, nextId>>
      BY <1>6 DEF HeadTimeout, Cleanup
    <3>4. q # r => head'[q] = head[q] /\ stream'[q] = stream[q]
      BY <1>6 DEF HeadTimeout, FailedHeads, FailedStreams
    <3> QED BY <3>1, <3>2, <3>3, <3>4 DEF EntryInv
  <2> QED BY <2>1, <2>2 DEF RequestInv
<1>7. CASE IdleFires(r) \/ LifetimeFires(r)
  BY <1>7, AbortInv DEF IdleFires, LifetimeFires
<1>8. CASE VisitorCancels(r)
  <2>1. TimersMatchPending' /\ PendingKeysUnique' /\ NoOrphanWait'
    BY <1>1, <1>8 DEF RequestInv, TimersMatchPending, PendingKeysUnique, VisitorCancels, Cleanup
  <2>2. ASSUME NEW q \in Req PROVE EntryInv(q)'
    <3>1. EntryInv(q)
      BY DEF RequestInv
    <3>2. stream'[q] = IF q = r THEN "cancelled" ELSE stream[q]
      BY <1>8 DEF VisitorCancels, TypeOK
    <3> QED BY <1>8, <3>1, <3>2 DEF VisitorCancels, Cleanup, EntryInv
  <2> QED BY <2>1, <2>2 DEF RequestInv
<1> QED BY <1>3, <1>4, <1>5, <1>6, <1>7, <1>8

\* Frames of the connector keep it, in whatever order they come.
LEMMA FrameSteps ==
  ASSUME TypeOK, RequestInv, FrameEvent
  PROVE  RequestInv'
<1> USE DEF connVars, idVars, entryVars
<1> PICK r \in Req :
    \/ \E kind \in Heads : ResHead(r, kind)
    \/ ResHeadGarbled(r) \/ ResHeadNull(r)
    \/ ResBody(r) \/ ResBodyOverflows(r) \/ ResEnd(r) \/ AbortFrame(r)
  BY DEF FrameEvent
<1>1. UNCHANGED connector /\ pending' \subseteq pending => NoOrphanWait'
  BY DEF RequestInv, NoOrphanWait
<1>2. ASSUME NEW kind \in Heads, ResHead(r, kind) PROVE RequestInv'
  <2>1. TimersMatchPending' /\ PendingKeysUnique' /\ NoOrphanWait'
    BY <1>1, <1>2
    DEF RequestInv, TimersMatchPending, PendingKeysUnique, ResHead, FrameFor, Touch
  <2>2. ASSUME NEW q \in Req PROVE EntryInv(q)'
    <3>1. EntryInv(q)
      BY DEF RequestInv
    <3>2. head'[q] = IF q = r /\ head[r] = "unset" THEN kind ELSE head[q]
      BY <1>2 DEF ResHead, TypeOK
    <3>3. phase'[q] = IF phase[q] = "await" /\ head'[q] \in DOMAIN Answer
                      THEN Answer[head'[q]] ELSE phase[q]
      BY <1>2 DEF ResHead, Resumed, Visit
    <3>4. UNCHANGED <<pending, stream, rid, nextId>> /\ r \in pending
      BY <1>2 DEF ResHead, FrameFor
    <3>5. CASE phase'[q] = phase[q] /\ head'[q] = head[q]
      BY <3>1, <3>4, <3>5 DEF EntryInv
    <3>6. CASE phase[q] = "await" /\ head'[q] \in DOMAIN Answer
      <4>1. phase'[q] = Answer[head'[q]]
        BY <3>3, <3>6
      <4>2. CASE head'[q] = "rejected"
        BY <3>1, <3>2, <3>4, <3>6, <4>1, <4>2, AnswerFacts DEF EntryInv, Heads
      <4>3. CASE head'[q] \in Heads
        <5>1. phase'[q] \in {"stream", "bodiless", "500"}
          BY <4>1, <4>3, AnswerFacts DEF Heads
        <5> QED BY <3>1, <3>2, <3>4, <3>6, <4>1, <4>3, <5>1 DEF EntryInv
      <4> QED BY <3>6, <4>2, <4>3, AnswerFacts DEF Heads
    <3>7. CASE q = r /\ head[q] = "unset" /\ phase'[q] = phase[q] /\ phase[q] # "await"
      BY <3>1, <3>2, <3>4, <3>7 DEF EntryInv, Heads
    <3> QED BY <3>2, <3>3, <3>5, <3>6, <3>7, AnswerFacts DEF Heads
  <2> QED BY <2>1, <2>2 DEF RequestInv
\* The entry goes, its stream with it, and nothing else changes.
<1>3. ASSUME Cleanup({r}), UNCHANGED <<connVars, idVars, phase>>, r \in pending,
             \A q \in Req : /\ q # r => head'[q] = head[q] /\ stream'[q] = stream[q]
                            /\ q = r => stream'[q] # "open" /\ head'[q] \in {head[q], "null"}
                            /\ head[q] # "unset" => head'[q] = head[q]
      PROVE  RequestInv'
  <2>1. TimersMatchPending' /\ PendingKeysUnique' /\ NoOrphanWait'
    BY <1>1, <1>3 DEF RequestInv, TimersMatchPending, PendingKeysUnique, Cleanup
  <2>2. ASSUME NEW q \in Req PROVE EntryInv(q)'
    <3>1. EntryInv(q)
      BY DEF RequestInv
    <3> QED BY <1>3, <3>1 DEF EntryInv, Cleanup, Heads
  <2> QED BY <2>1, <2>2 DEF RequestInv
<1>4. CASE ResHeadNull(r)
  <2>1. \A q \in Req : stream'[q] = IF q = r /\ stream[q] = "open" THEN "errored" ELSE stream[q]
    BY <1>4 DEF ResHeadNull, TypeOK
  <2>2. \A q \in Req : head'[q] = IF q = r /\ head[q] = "unset" THEN "null" ELSE head[q]
    BY <1>4 DEF ResHeadNull, TypeOK
  <2> QED BY <1>3, <1>4, <2>1, <2>2 DEF ResHeadNull, FrameFor
<1>5. CASE ResBody(r)
  <2>1. stream[r] = "open"
    BY <1>5 DEF ResBody, FrameFor, RequestInv, EntryInv
  <2>2. UNCHANGED <<connVars, idVars, phase, entryVars>>
    BY <1>5, <2>1 DEF ResBody, Touch, FrameFor, RequestInv, TimersMatchPending
  <2> QED BY <1>1, <2>2, RequestsUnchanged
<1>6. CASE ResEnd(r)
  <2>1. \A q \in Req : stream'[q] = IF q = r /\ stream[q] = "open" THEN "closed" ELSE stream[q]
    BY <1>6 DEF ResEnd, TypeOK
  <2> QED BY <1>3, <1>6, <2>1 DEF ResEnd, FrameFor
<1>7. CASE AbortFrame(r)
  <2>1. NoOrphanWait'
    BY <1>1, <1>7 DEF AbortFrame, FailAndCleanup, Cleanup
  <2>2. {r} \in SUBSET pending
    BY <1>7 DEF AbortFrame, FrameFor
  <2> QED BY <1>7, <2>1, <2>2, FailAndCleanupInv DEF AbortFrame
<1>8. CASE ResHeadGarbled(r) \/ ResBodyOverflows(r)
  BY <1>8, AbortInv DEF ResHeadGarbled, ResBodyOverflows
<1> QED BY <1>2, <1>4, <1>5, <1>6, <1>7, <1>8

\* Arrivals and admissions keep it.
LEMMA ArriveInv ==
  ASSUME TypeOK, RequestInv, NEW x \in Visit, Arrive(x) \/ Admit(x)
  PROVE  RequestInv'
<1>1. /\ phase[x] \in {"idle", "admit"}
      /\ \/ Serve(x)
         \/ Turned(x, "502") \/ Turned(x, "refused") \/ Turned(x, "admit")
  BY DEF Arrive, Admit
<1> QED BY <1>1, ServeInv

\* The request invariant holds in every behavior.
THEOREM RequestsInvariant == Spec => []RequestInv
<1>1. Init => RequestInv
  BY DEF Init, RequestInv, TimersMatchPending, PendingKeysUnique, NoOrphanWait, EntryInv, Visit
<1>2. TypeOK /\ RequestInv /\ [Next]_vars => RequestInv'
  <2> SUFFICES ASSUME TypeOK, RequestInv, [Next]_vars PROVE RequestInv'
    OBVIOUS
  <2>1. CASE UNCHANGED vars
    BY <2>1, RequestsUnchanged DEF vars, connVars, RequestInv, NoOrphanWait, entryVars
  <2>2. CASE ConnectorEvent \/ Settles
    BY <2>2, ConnectorInv
  <2>3. CASE RequestEvent
    BY <2>3, RequestSteps, ArriveInv DEF RequestEvent, Visit
  <2>4. CASE FrameEvent
    BY <2>4, FrameSteps
  <2>5. CASE SocketEvent
    <3>1. ASSUME NEW w \in Ws, WsMessage(w) \/ WsCloseFrame(w) \/ WsEnds(w)
          PROVE  RequestInv'
      BY <3>1, RequestsUnchanged
      DEF WsMessage, WsCloseFrame, WsEnds, connVars, entryVars, RequestInv, NoOrphanWait
    <3> QED BY <2>5, <3>1, ArriveInv DEF SocketEvent, Visit
  <2> QED BY <2>1, <2>2, <2>3, <2>4, <2>5 DEF Next
<1> QED BY <1>1, <1>2, TypeCorrect, PTL DEF Spec

\* No visitor is left reading a response body that nothing will end.
THEOREM NoHungStreams == Spec => []NoHungStream
<1>1. RequestInv => NoHungStream
  <2> SUFFICES ASSUME RequestInv, NEW r \in Req, phase[r] = "stream", r \notin pending
               PROVE  stream[r] # "open"
    BY DEF NoHungStream, HungFree
  <2>1. head[r] = "body"
    BY DEF RequestInv, EntryInv, Heads, Answer
  <2> QED BY <2>1 DEF RequestInv, EntryInv
<1> QED BY <1>1, RequestsInvariant, PTL

\* An entry belongs to a call still under way or to the answer made from its
\* head: no other answer of the tunnel leaves one.
THEOREM NoStaleEntries == Spec => []NoStaleEntry
<1>1. TypeOK /\ RequestInv => NoStaleEntry
  <2> SUFFICES ASSUME TypeOK, RequestInv, NEW r \in pending
               PROVE  \/ phase[r] \in {"upload", "await"}
                      \/ head[r] \in Heads /\ phase[r] = Answer[head[r]]
    BY DEF NoStaleEntry
  <2>1. r \in Req /\ EntryInv(r) /\ phase[r] \in Phases
    BY DEF TypeOK, RequestInv, Visit
  <2>2. phase[r] \in {"upload", "await", "stream", "bodiless", "500"}
    BY <2>1 DEF EntryInv, Phases, Suspended
  <2> QED BY <2>1, <2>2 DEF EntryInv
<1> QED BY <1>1, RequestsInvariant, TypeCorrect, PTL

\* Every pending entry has both timers, and no timer outlives its entry.
THEOREM TimersFollowEntries == Spec => []TimersMatchPending
<1>1. RequestInv => TimersMatchPending
  BY DEF RequestInv
<1> QED BY <1>1, RequestsInvariant, PTL

\* Ids of pending requests are unique, across hibernation too.
THEOREM IdsUnique == Spec => []PendingKeysUnique
<1>1. RequestInv => PendingKeysUnique
  BY DEF RequestInv
<1> QED BY <1>1, RequestsInvariant, PTL

\* Nothing is pending on a tunnel without a connector.
THEOREM NoOrphans == Spec => []NoOrphanWait
<1>1. RequestInv => NoOrphanWait
  BY DEF RequestInv
<1> QED BY <1>1, RequestsInvariant, PTL

-----------------------------------------------------------------------------
(* The connector, under a policy that answers at once, as long as the      *)
(* object is not evicted.                                                  *)

OwnerInv == SlotReleasedOnce /\ OneSuspended

\* Steps that leave the connector alone keep the owner invariant.
LEMMA OwnerUnchanged ==
  ASSUME OwnerInv, UNCHANGED <<connector, asked, seen, releasing, slots>>
  PROVE  OwnerInv'
BY DEF OwnerInv, SlotReleasedOnce, OneSuspended, liveUser

\* A step of a request, a frame or a visitor socket leaves it alone.
LEMMA RestUnchanged ==
  ASSUME RequestEvent \/ FrameEvent \/ SocketEvent
  PROVE  UNCHANGED <<connector, asked, seen, releasing, slots>>
<1> USE DEF connVars
<1>1. ASSUME NEW x, Arrive(x) \/ Admit(x)
      PROVE  UNCHANGED <<connector, asked, seen, releasing, slots>>
  <2>1. ASSUME NEW answer, Turned(x, answer)
        PROVE  UNCHANGED <<connector, asked, seen, releasing, slots>>
    BY <2>1 DEF Turned
  <2>2. ASSUME Relay(x) PROVE UNCHANGED <<connector, asked, seen, releasing, slots>>
    BY <2>1, <2>2 DEF Relay, OpenEntry, NoConnector
  <2>3. ASSUME OpenWebSocket(x) PROVE UNCHANGED <<connector, asked, seen, releasing, slots>>
    BY <2>1, <2>3 DEF OpenWebSocket
  <2> QED BY <1>1, <2>1, <2>2, <2>3 DEF Arrive, Admit, Serve
<1>2. ASSUME NEW r, Abort(r) PROVE UNCHANGED <<connector, asked, seen, releasing, slots>>
  BY <1>2 DEF Abort
<1>3. CASE RequestEvent
  <2>1. ASSUME NEW r \in Req, UploadChunk(r) \/ UploadEnd(r) \/ UploadBreaks(r)
        PROVE  UNCHANGED <<connector, asked, seen, releasing, slots>>
    BY <2>1 DEF UploadChunk, UploadEnd, UploadBreaks, UploadLeft
  <2>2. ASSUME NEW r \in Req,
               HeadTimeout(r) \/ IdleFires(r) \/ LifetimeFires(r) \/ VisitorCancels(r)
        PROVE  UNCHANGED <<connector, asked, seen, releasing, slots>>
    BY <1>2, <2>2 DEF HeadTimeout, IdleFires, LifetimeFires, VisitorCancels
  <2> QED BY <1>1, <1>3, <2>1, <2>2 DEF RequestEvent
<1>4. CASE FrameEvent
  BY <1>2, <1>4 DEF FrameEvent, ResHead, ResHeadGarbled, ResHeadNull, ResBody,
                    ResBodyOverflows, ResEnd, AbortFrame
<1>5. CASE SocketEvent
  BY <1>1, <1>5 DEF SocketEvent, WsMessage, WsCloseFrame, WsEnds
<1> QED BY <1>3, <1>4, <1>5

\* What one step of the connector does to the owner.
LEMMA OwnerStep ==
  ASSUME ~PolicyYields, ~Hibernates, TypeOK, OwnerInv, [Next]_vars
  PROVE  /\ OwnerInv'
         /\ Exclusive /\ connector # None /\ connector' # None
              => UserOf[connector] = UserOf[connector']
<1>1. CASE UNCHANGED <<connector, asked, seen, releasing, slots>>
  BY <1>1, OwnerUnchanged
<1>2. ASSUME NEW c \in Conn, asked = {}, releasing = {}, ConnectAsk(c)
      PROVE  UNCHANGED connector /\ OwnerInv'
  BY <1>2 DEF ConnectAsk, OwnerInv, SlotReleasedOnce, OneSuspended, liveUser, TypeOK
<1>3. ASSUME NEW c \in Conn, asked = {}, releasing = {}, Kill(c) \/ ConnectorEnds(c)
      PROVE  UNCHANGED connector /\ OwnerInv'
  BY <1>3, NamesAssumption
  DEF Kill, ConnectorEnds, Release, OwnerInv, SlotReleasedOnce, OneSuspended
<1>4. ASSUME NEW c \in Conn, c \in asked, Denied(c) PROVE UNCHANGED connector /\ OwnerInv'
  BY <1>4 DEF Denied, OwnerInv, SlotReleasedOnce, OneSuspended
<1>5. ASSUME NEW c \in Conn, c \in asked, Accepted(c)
      PROVE  /\ connector' # None /\ OwnerInv'
             /\ Exclusive /\ connector # None => UserOf[connector] = UserOf[connector']
  <2>1. asked = {c} /\ releasing = {} /\ seen[c] = liveUser
    BY <1>5 DEF OwnerInv, OneSuspended
  <2>2. Exclusive /\ connector # None => UserOf[connector] = UserOf[c]
    BY <1>5, <2>1 DEF Accepted, MayConnect, liveUser, TypeOK
  <2>3. connector' = c /\ c # None /\ c \in slots' /\ asked' = {} /\ releasing' = {}
    BY <1>5, <2>1, NamesAssumption DEF Accepted
  <2> QED BY <2>2, <2>3 DEF OwnerInv, SlotReleasedOnce, OneSuspended
<1>6. ASSUME NEW c \in Conn, NEW caller \in {"kill", "event"}, ReleaseEnd(c, caller)
      PROVE  connector' = None /\ OwnerInv'
  <2>1. asked = {} /\ releasing = {<<connector, caller>>} /\ c = connector /\ connector # None
    BY <1>6 DEF ReleaseEnd, OwnerInv, OneSuspended
  <2>2. releasing' = {} /\ asked' = {} /\ connector' = None
    BY <1>6, <2>1 DEF ReleaseEnd, DropConnector
  <2> QED BY <2>2 DEF OwnerInv, SlotReleasedOnce, OneSuspended
<1>7. ASSUME NEW c \in Conn, NEW caller \in {"kill", "event"}, ReleaseFails(c, caller)
      PROVE  UNCHANGED connector /\ OwnerInv'
  BY <1>7 DEF ReleaseFails, OwnerInv, SlotReleasedOnce, OneSuspended
<1>8. CASE Settles
  BY <1>4, <1>5, <1>6, <1>7, <1>8 DEF Settles, ConnectVerdict
<1>9. CASE asked = {} /\ releasing = {} /\ ConnectorEvent
  <2>1. ASSUME NEW s \in Socket, PeerLoses(s)
        PROVE  UNCHANGED <<connector, asked, seen, releasing, slots>>
    BY <2>1 DEF PeerLoses
  <2>2. ~Reawaken
    BY DEF Reawaken
  <2> QED BY <1>1, <1>2, <1>3, <1>9, <2>1, <2>2 DEF ConnectorEvent
<1>10. CASE UNCHANGED vars
  BY <1>1, <1>10 DEF vars, connVars
<1> QED BY <1>1, <1>8, <1>9, <1>10, RestUnchanged DEF Next

\* The attached connector is counted, and at most one call is under way.
LEMMA OwnerHolds ==
  ASSUME ~PolicyYields, ~Hibernates
  PROVE  Spec => []OwnerInv
<1>1. Init => OwnerInv
  BY DEF Init, OwnerInv, SlotReleasedOnce, OneSuspended
<1>2. TypeOK /\ OwnerInv /\ [Next]_vars => OwnerInv'
  BY OwnerStep
<1> QED BY <1>1, <1>2, TypeCorrect, PTL DEF Spec

\* A live tunnel stays with its account, if the policy answers at once and
\* refuses a connect over another account's tunnel.
THEOREM OneOwner ==
  ASSUME ~PolicyYields, Exclusive, ~Hibernates
  PROVE  Spec => NoTakeover
<1>1. TypeOK /\ OwnerInv /\ [Next]_vars =>
        [connector # None /\ connector' # None => UserOf[connector] = UserOf[connector']]_vars
  BY OwnerStep
<1> QED BY <1>1, OwnerHolds, TypeCorrect, PTL DEF Spec, NoTakeover

\* The policy is told once of a connect that is over and never of one that
\* holds the tunnel, if it answers at once, whatever it decides and even if
\* policy.closed rejects.
THEOREM SlotsReleasedOnce ==
  ASSUME ~PolicyYields, ~Hibernates
  PROVE  Spec => []SlotReleasedOnce
<1>1. OwnerInv => SlotReleasedOnce
  BY DEF OwnerInv
<1> QED BY <1>1, OwnerHolds, PTL

-----------------------------------------------------------------------------
(* The caps, under every switch.                                           *)

\* A step adds at most one entry, and only below the cap.
LEMMA PendingStep ==
  ASSUME TypeOK, [Next]_vars
  PROVE  \/ pending' \subseteq pending
         \/ ~(Cardinality(pending) >= MaxConcurrent) /\ \E r \in Req : pending' = pending \cup {r}
<1> USE DEF connVars, idVars, entryVars, Cleanup
<1>1. ASSUME NEW x \in Visit, Arrive(x) \/ Admit(x)
      PROVE  \/ pending' \subseteq pending
             \/ ~(Cardinality(pending) >= MaxConcurrent) /\ \E r \in Req : pending' = pending \cup {r}
  <2>1. ASSUME NEW answer, Turned(x, answer) PROVE UNCHANGED pending
    BY <2>1 DEF Turned
  <2>2. CASE x \in Req /\ Relay(x)
    BY <2>1, <2>2 DEF Relay, OpenEntry, NoConnector
  <2>3. CASE OpenWebSocket(x)
    BY <2>1, <2>3 DEF OpenWebSocket
  <2> QED BY <1>1, <2>1, <2>2, <2>3 DEF Arrive, Admit, Serve
<1>2. ASSUME NEW r, Abort(r) PROVE pending' \subseteq pending
  BY <1>2 DEF Abort, FailAndCleanup
<1>3. CASE ConnectorEvent \/ Settles
  <2>1. ASSUME NEW c, ConnectAsk(c) \/ Denied(c) \/ Accepted(c) \/ Kill(c) \/ ConnectorEnds(c)
                      \/ PeerLoses(c)
        PROVE  UNCHANGED pending
    BY <2>1 DEF ConnectAsk, Denied, Accepted, Kill, ConnectorEnds, PeerLoses
  <2>2. ASSUME NEW c, NEW caller, ReleaseEnd(c, caller) \/ ReleaseFails(c, caller)
        PROVE  pending' \subseteq pending
    BY <2>2 DEF ReleaseEnd, ReleaseFails, DropConnector, FailAndCleanup
  <2> QED BY <1>3, <2>1, <2>2 DEF ConnectorEvent, Settles, ConnectVerdict, Reawaken
<1>4. CASE RequestEvent
  <2>1. ASSUME NEW r \in Req, UploadChunk(r) \/ UploadEnd(r) \/ UploadBreaks(r)
        PROVE  pending' \subseteq pending
    BY <2>1 DEF UploadChunk, UploadEnd, UploadBreaks
  <2>2. ASSUME NEW r \in Req,
               HeadTimeout(r) \/ IdleFires(r) \/ LifetimeFires(r) \/ VisitorCancels(r)
        PROVE  pending' \subseteq pending
    BY <1>2, <2>2 DEF HeadTimeout, IdleFires, LifetimeFires, VisitorCancels
  <2> QED BY <1>1, <1>4, <2>1, <2>2 DEF RequestEvent, Visit
<1>5. CASE FrameEvent
  BY <1>2, <1>5 DEF FrameEvent, ResHead, ResHeadGarbled, ResHeadNull, ResBody,
                    ResBodyOverflows, ResEnd, AbortFrame, FailAndCleanup
<1>6. CASE SocketEvent
  BY <1>1, <1>6 DEF SocketEvent, Visit, WsMessage, WsCloseFrame, WsEnds
<1> QED BY <1>3, <1>4, <1>5, <1>6 DEF Next, vars

\* Never more entries than the cap, whatever is awaited before an entry.
THEOREM ConcurrencyCap == Spec => []ConcurrencyCapHolds
<1> DEFINE Capped == IsFiniteSet(pending) /\ ConcurrencyCapHolds
<1>1. Init => Capped
  BY FS_EmptySet DEF Init, ConcurrencyCapHolds
<1>2. TypeOK /\ Capped /\ [Next]_vars => Capped'
  <2> SUFFICES ASSUME TypeOK, Capped, [Next]_vars PROVE Capped'
    OBVIOUS
  <2>1. Cardinality(pending) \in Nat
    BY FS_CardinalityType
  <2>2. CASE pending' \subseteq pending
    <3>1. IsFiniteSet(pending') /\ Cardinality(pending') <= Cardinality(pending)
      BY <2>2, FS_Subset
    <3>2. Cardinality(pending') \in Nat
      BY <3>1, FS_CardinalityType
    <3> QED BY <2>1, <3>1, <3>2 DEF ConcurrencyCapHolds
  <2>3. ASSUME ~(Cardinality(pending) >= MaxConcurrent), NEW r \in Req, pending' = pending \cup {r}
        PROVE  Capped'
    <3>1. IsFiniteSet(pending') /\ Cardinality(pending') \in {Cardinality(pending), Cardinality(pending) + 1}
      BY <2>3, FS_AddElement
    <3> QED BY <2>1, <2>3, <3>1 DEF ConcurrencyCapHolds
  <2> QED BY <2>2, <2>3, PendingStep
<1>3. Capped => ConcurrencyCapHolds
  OBVIOUS
<1> HIDE DEF Capped
<1> QED BY <1>1, <1>2, <1>3, TypeCorrect, PTL DEF Spec

\* What opens a visitor socket: there is room for it, and a WS_OPEN that throws
\* closes it again.
Opens(w) ==
  /\ ~(Cardinality(ListedSockets) >= MaxWs + 1)
  /\ sock' = [sock EXCEPT ![w] = IF CanSend THEN "open" ELSE "closing"]

\* A request, a frame or a visitor socket opens one socket at most, and closes
\* only those of visitors.
LEMMA VisitorSockets ==
  ASSUME TypeOK, RequestEvent \/ FrameEvent \/ SocketEvent
  PROVE  \/ UNCHANGED sock
         \/ \E w \in Ws : Opens(w)
         \/ \E w \in Ws, k \in {"closing", "gone"} :
              sock[w] \in Listed /\ sock' = [sock EXCEPT ![w] = k]
<1> USE DEF connVars
<1>1. ASSUME NEW x \in Visit, Arrive(x) \/ Admit(x)
      PROVE  UNCHANGED sock \/ (x \in Ws /\ Opens(x))
  <2>1. ASSUME NEW answer, Turned(x, answer) PROVE UNCHANGED sock
    BY <2>1 DEF Turned
  <2>2. ASSUME Relay(x) PROVE UNCHANGED sock
    BY <2>1, <2>2 DEF Relay, OpenEntry, NoConnector
  <2>3. ASSUME OpenWebSocket(x) PROVE UNCHANGED sock \/ Opens(x)
    BY <2>1, <2>3 DEF OpenWebSocket, Opens
  <2> QED BY <1>1, <2>1, <2>2, <2>3 DEF Arrive, Admit, Serve
<1>2. ASSUME NEW r, Abort(r) PROVE UNCHANGED sock
  BY <1>2 DEF Abort
<1>3. CASE RequestEvent
  <2>1. ASSUME NEW r \in Req, UploadChunk(r) \/ UploadEnd(r) \/ UploadBreaks(r)
        PROVE  UNCHANGED sock
    BY <2>1 DEF UploadChunk, UploadEnd, UploadBreaks, UploadLeft
  <2>2. ASSUME NEW r \in Req,
               HeadTimeout(r) \/ IdleFires(r) \/ LifetimeFires(r) \/ VisitorCancels(r)
        PROVE  UNCHANGED sock
    BY <1>2, <2>2 DEF HeadTimeout, IdleFires, LifetimeFires, VisitorCancels
  <2>3. ASSUME NEW r \in Req, Arrive(r) \/ Admit(r)
        PROVE  UNCHANGED sock \/ \E w \in Ws : Opens(w)
    BY <1>1, <2>3 DEF Visit
  <2> QED BY <1>3, <2>1, <2>2, <2>3 DEF RequestEvent
<1>4. CASE FrameEvent
  BY <1>2, <1>4 DEF FrameEvent, ResHead, ResHeadGarbled, ResHeadNull, ResBody,
                    ResBodyOverflows, ResEnd, AbortFrame
<1>5. CASE SocketEvent
  <2>1. ASSUME NEW w \in Ws, WsCloseFrame(w)
        PROVE  sock[w] \in Listed /\ sock' = [sock EXCEPT ![w] = "closing"]
    BY <2>1 DEF WsCloseFrame, Tagged, Closed, TypeOK
  <2>2. ASSUME NEW w \in Ws, WsEnds(w)
        PROVE  sock[w] \in Listed /\ sock' = [sock EXCEPT ![w] = "gone"]
    BY <2>2 DEF WsEnds, Listed
  <2>3. ASSUME NEW w \in Ws, WsMessage(w) PROVE UNCHANGED sock
    BY <2>3 DEF WsMessage
  <2>4. ASSUME NEW w \in Ws, Arrive(w) \/ Admit(w) PROVE UNCHANGED sock \/ Opens(w)
    BY <1>1, <2>4 DEF Visit
  <2> QED BY <1>5, <2>1, <2>2, <2>3, <2>4 DEF SocketEvent
<1> QED BY <1>3, <1>4, <1>5

\* The listed and the open sockets grow by one at a time.
LEMMA SocketSteps ==
  ASSUME TypeOK, [Next]_vars
  PROVE  \/ \E w \in Ws : Opens(w)
         \/ /\ \E c \in Conn : ListedSockets' \subseteq ListedSockets \cup {c}
            /\ \A w \in Ws : sock'[w] = "open" => sock[w] = "open"
         \/ /\ ListedSockets' \subseteq ListedSockets
            /\ \A w \in Ws : sock'[w] = "open" => sock[w] = "open"
<1> DEFINE Fades == \A s \in Socket : /\ sock'[s] \in Listed => sock[s] \in Listed
                                      /\ sock'[s] = "open" => sock[s] = "open"
<1>1. Fades => /\ ListedSockets' \subseteq ListedSockets
               /\ \A w \in Ws : sock'[w] = "open" => sock[w] = "open"
  BY DEF ListedSockets, Socket
<1>2. UNCHANGED sock => Fades
  OBVIOUS
<1>3. \A S : sock' = Closed(S) => Fades
  BY DEF Closed, Listed, TypeOK
<1>4. ASSUME NEW c \in Conn, Accepted(c)
      PROVE  /\ ListedSockets' \subseteq ListedSockets \cup {c}
             /\ \A w \in Ws : sock'[w] = "open" => sock[w] = "open"
  <2>1. \A s \in Socket \ {c} : sock'[s] \in {sock[s]} \/ (sock[s] \in Listed /\ sock'[s] = "closing")
    BY <1>4 DEF Accepted, Closed, TypeOK
  <2>2. \A w \in Ws : w \in Socket \ {c}
    BY DEF Socket
  <2> QED BY <2>1, <2>2 DEF ListedSockets
<1>5. ASSUME NEW c \in Conn, ConnectAsk(c) \/ Kill(c) PROVE Fades
  BY <1>2, <1>3, <1>5 DEF ConnectAsk, Kill
<1>6. ASSUME NEW c \in Conn, Denied(c) \/ ConnectorEnds(c) PROVE Fades
  BY <1>6 DEF Denied, ConnectorEnds, Listed, Socket, TypeOK
<1>7. ASSUME NEW c \in Conn, NEW caller \in {"kill", "event"},
             ReleaseEnd(c, caller) \/ ReleaseFails(c, caller)
      PROVE  Fades
  BY <1>7 DEF ReleaseEnd, ReleaseFails, Closed, Listed, Socket, TypeOK
<1>8. ASSUME NEW s \in Socket, PeerLoses(s) PROVE Fades
  BY <1>8 DEF PeerLoses, Listed, TypeOK
<1>9. CASE Reawaken
  BY <1>1, <1>2, <1>9 DEF Reawaken
<1>10. CASE Settles \/ ConnectorEvent
  <2> HIDE DEF Fades
  <2> QED BY <1>1, <1>4, <1>5, <1>6, <1>7, <1>8, <1>9, <1>10
          DEF Settles, ConnectorEvent, ConnectVerdict
<1>11. ASSUME NEW w \in Ws, NEW k \in {"closing", "gone"},
              sock[w] \in Listed, sock' = [sock EXCEPT ![w] = k]
       PROVE  Fades
  BY <1>11 DEF Listed, Socket, TypeOK
<1>12. CASE RequestEvent \/ FrameEvent \/ SocketEvent
  <2> HIDE DEF Fades
  <2> QED BY <1>1, <1>2, <1>11, <1>12, VisitorSockets
<1>13. CASE UNCHANGED vars
  BY <1>1, <1>2, <1>13 DEF vars, connVars
<1> QED BY <1>10, <1>12, <1>13 DEF Next

\* Never more open visitor sockets than the cap: when one is opened the connector
\* is listed too, so that the one socket the cap leaves out is really there.
THEOREM WebSocketCap == Spec => []WebSocketCapHolds
<1> DEFINE OpenWs == {w \in Ws : sock[w] = "open"}
           Capped == IsFiniteSet(ListedSockets) /\ WebSocketCapHolds
<1>1. Init => Capped
  <2> SUFFICES ASSUME Init PROVE Capped
    OBVIOUS
  <2>1. ListedSockets = {} /\ OpenWs = {}
    BY DEF Init, ListedSockets, Listed, Socket
  <2> QED BY <2>1, FS_EmptySet DEF WebSocketCapHolds
<1>2. TypeOK /\ Capped /\ [Next]_vars => Capped'
  <2> SUFFICES ASSUME TypeOK, Capped, [Next]_vars PROVE Capped'
    OBVIOUS
  <2>1. OpenWs \subseteq ListedSockets /\ IsFiniteSet(OpenWs) /\ Cardinality(OpenWs) \in Nat
    <3>1. OpenWs \in SUBSET ListedSockets
      BY DEF ListedSockets, Listed, Socket
    <3> QED BY <3>1, FS_Subset, FS_CardinalityType
  <2>2. ASSUME OpenWs' \subseteq OpenWs PROVE WebSocketCapHolds'
    <3>1. IsFiniteSet(OpenWs') /\ Cardinality(OpenWs') <= Cardinality(OpenWs)
      BY <2>1, <2>2, FS_Subset
    <3>2. Cardinality(OpenWs') \in Nat
      BY <3>1, FS_CardinalityType
    <3> QED BY <2>1, <3>1, <3>2 DEF WebSocketCapHolds
  <2>3. ASSUME \A w \in Ws : sock'[w] = "open" => sock[w] = "open" PROVE WebSocketCapHolds'
    BY <2>2, <2>3
  <2>4. ASSUME NEW w \in Ws, Opens(w) PROVE Capped'
    <3>1. \A s \in Socket \ {w} : sock'[s] = sock[s]
      BY <2>4 DEF Opens, TypeOK
    <3>2. IsFiniteSet(ListedSockets')
      <4>1. ListedSockets' \in SUBSET (ListedSockets \cup {w})
        BY <3>1 DEF ListedSockets
      <4>2. IsFiniteSet(ListedSockets \cup {w})
        BY FS_AddElement
      <4> QED BY <4>1, <4>2, FS_Subset
    <3>3. CASE ~CanSend
      <4>1. sock'[w] # "open"
        BY <2>4, <3>3 DEF Opens, TypeOK, Socket
      <4>2. \A v \in Ws : sock'[v] = "open" => sock[v] = "open"
        BY <3>1, <4>1 DEF Socket
      <4> QED BY <2>3, <3>2, <4>2
    <3>4. CASE CanSend
      <4>1. connector \in Conn /\ connector \in ListedSockets /\ connector \notin OpenWs
        BY <3>4 DEF CanSend, TypeOK, ListedSockets, Listed, Socket
      <4>2. OpenWs \cup {connector} \in SUBSET ListedSockets
        BY <2>1, <4>1
      <4>3. Cardinality(OpenWs \cup {connector}) = Cardinality(OpenWs) + 1
        BY <2>1, <4>1, FS_AddElement
      <4>4. Cardinality(OpenWs) + 1 <= Cardinality(ListedSockets) /\ Cardinality(ListedSockets) \in Nat
        BY <4>2, <4>3, FS_Subset, FS_CardinalityType
      <4>5. Cardinality(OpenWs) + 1 <= MaxWs
        BY <2>1, <2>4, <4>4 DEF Opens
      <4>6. OpenWs' \in SUBSET (OpenWs \cup {w})
        BY <3>1 DEF Socket
      <4>7. /\ IsFiniteSet(OpenWs \cup {w})
            /\ Cardinality(OpenWs \cup {w}) \in {Cardinality(OpenWs), Cardinality(OpenWs) + 1}
        BY <2>1, FS_AddElement
      <4>8. IsFiniteSet(OpenWs') /\ Cardinality(OpenWs') <= Cardinality(OpenWs \cup {w})
        BY <4>6, <4>7, FS_Subset
      <4>9. Cardinality(OpenWs') \in Nat
        BY <4>8, FS_CardinalityType
      <4> QED BY <2>1, <3>2, <4>5, <4>7, <4>8, <4>9 DEF WebSocketCapHolds
    <3> QED BY <3>3, <3>4
  <2>5. ASSUME NEW c \in Conn, ListedSockets' \subseteq ListedSockets \cup {c},
               \A w \in Ws : sock'[w] = "open" => sock[w] = "open"
        PROVE  Capped'
    <3>1. IsFiniteSet(ListedSockets \cup {c})
      BY FS_AddElement
    <3> QED BY <2>3, <2>5, <3>1, FS_Subset
  <2>6. ASSUME ListedSockets' \subseteq ListedSockets,
               \A w \in Ws : sock'[w] = "open" => sock[w] = "open"
        PROVE  Capped'
    BY <2>3, <2>6, FS_Subset
  <2> HIDE DEF Capped
  <2> QED BY <2>4, <2>5, <2>6, SocketSteps
<1>3. Capped => WebSocketCapHolds
  OBVIOUS
<1> HIDE DEF Capped
<1> QED BY <1>1, <1>2, <1>3, TypeCorrect, PTL DEF Spec

-----------------------------------------------------------------------------
(* The connector and its visitors, where policy.closed succeeds.           *)

\* The two properties, and that a connect under way has no socket yet while a
\* release under way has one.
LinkInv ==
  /\ ConnectorListed
  /\ VisitorsFollowConnector
  /\ \A c \in asked : sock[c] = "new"
  /\ \A c \in Conn, caller \in {"kill", "event"} : <<c, caller>> \in releasing => sock[c] # "new"

\* A step keeps it.  The constructor finds the connector because it is listed.
LEMMA LinkStep ==
  ASSUME ~ClosedFails, TypeOK, LinkInv, [Next]_vars
  PROVE  LinkInv'
<1> USE DEF connVars
<1>1. ASSUME UNCHANGED <<connector, asked, releasing, sock>> PROVE LinkInv'
  BY <1>1 DEF LinkInv, ConnectorListed, VisitorsFollowConnector
<1>2. CASE RequestEvent \/ FrameEvent \/ SocketEvent
  <2>1. UNCHANGED <<connector, asked, releasing>>
    BY <1>2, RestUnchanged
  <2>2. ASSUME NEW w \in Ws, NEW k \in {"open", "closing", "gone"},
               sock' = [sock EXCEPT ![w] = k], k = "open" => connector # None
        PROVE  LinkInv'
    <3>1. \A s \in Socket \ {w} : sock'[s] = sock[s]
      BY <2>2 DEF TypeOK
    <3>2. sock'[w] = k
      BY <2>2 DEF TypeOK, Socket
    <3>3. \A c \in Conn : c \in Socket \ {w}
      BY DEF Socket
    <3> QED BY <2>1, <2>2, <3>1, <3>2, <3>3
            DEF LinkInv, ConnectorListed, VisitorsFollowConnector, TypeOK, Socket
  <2>3. ASSUME NEW w \in Ws, Opens(w) PROVE LinkInv'
    BY <2>2, <2>3 DEF Opens, CanSend
  <2>4. ASSUME NEW w \in Ws, NEW k \in {"closing", "gone"}, sock' = [sock EXCEPT ![w] = k]
        PROVE  LinkInv'
    BY <2>2, <2>4
  <2> QED BY <1>1, <1>2, <2>1, <2>3, <2>4, VisitorSockets
<1>3. ASSUME NEW c \in Conn, ConnectAsk(c) PROVE LinkInv'
  BY <1>3 DEF ConnectAsk, LinkInv, ConnectorListed, VisitorsFollowConnector
<1>4. ASSUME NEW c \in Conn, c \in asked, Denied(c) PROVE LinkInv'
  <2>1. \A s \in Socket : sock'[s] = IF s = c THEN "gone" ELSE sock[s]
    BY <1>4 DEF Denied, TypeOK
  <2>2. connector # None => connector # c
    BY <1>4 DEF LinkInv, ConnectorListed, Listed
  <2>3. asked' = asked \ {c} /\ UNCHANGED <<connector, releasing>>
    BY <1>4 DEF Denied
  <2> QED BY <2>1, <2>2, <2>3
          DEF LinkInv, ConnectorListed, VisitorsFollowConnector, TypeOK, Socket
<1>5. ASSUME NEW c \in Conn, c \in asked, Accepted(c) PROVE LinkInv'
  <2>1. sock'[c] = "open" /\ connector' = c /\ c # None
    BY <1>5 DEF Accepted, Closed, TypeOK, Socket
  <2>2. \A s \in Socket \ {c} : sock[s] = "new" <=> sock'[s] = "new"
    BY <1>5 DEF Accepted, Closed, TypeOK, Listed
  <2>3. asked' = asked \ {c} /\ UNCHANGED releasing
    BY <1>5 DEF Accepted
  <2> QED BY <2>1, <2>2, <2>3
          DEF LinkInv, ConnectorListed, VisitorsFollowConnector, Listed, TypeOK, Socket
<1>6. ASSUME NEW c \in Conn, Kill(c) PROVE LinkInv'
  <2>1. \A s \in Socket : sock'[s] = IF s = c /\ sock[s] \in Listed THEN "closing" ELSE sock[s]
    BY <1>6 DEF Kill, Closed
  <2>2. /\ c = connector /\ UNCHANGED <<connector, asked>>
        /\ releasing' = releasing \cup {<<c, "kill">>}
    BY <1>6 DEF Kill, Release
  <2> QED BY <2>1, <2>2
          DEF LinkInv, ConnectorListed, VisitorsFollowConnector, Listed, TypeOK, Socket
<1>7. ASSUME NEW c \in Conn, ConnectorEnds(c) PROVE LinkInv'
  <2>1. \A s \in Socket : sock'[s] =
          IF s = c THEN (IF c = connector THEN "closing" ELSE "gone") ELSE sock[s]
    BY <1>7 DEF ConnectorEnds, TypeOK
  <2>2. /\ sock[c] # "new" /\ UNCHANGED <<connector, asked>>
        /\ releasing' \subseteq releasing \cup {<<c, "event">>}
    BY <1>7 DEF ConnectorEnds, Release
  <2> QED BY <2>1, <2>2
          DEF LinkInv, ConnectorListed, VisitorsFollowConnector, Listed, TypeOK, Socket
<1>8. ASSUME NEW s \in Socket, PeerLoses(s) PROVE LinkInv'
  <2>1. \A q \in Socket : sock'[q] = IF q = s THEN "lost" ELSE sock[q]
    BY <1>8 DEF PeerLoses, TypeOK
  <2>2. sock[s] = "open" /\ UNCHANGED <<connector, asked, releasing>>
    BY <1>8 DEF PeerLoses
  <2>3. asked \subseteq Socket /\ connector \in Socket \cup {None}
    BY DEF TypeOK, Socket
  <2>4. ConnectorListed'
    BY <2>1, <2>2, <2>3 DEF LinkInv, ConnectorListed, Listed
  <2>5. VisitorsFollowConnector'
    BY <2>1, <2>2 DEF LinkInv, VisitorsFollowConnector, Socket
  <2> QED BY <2>1, <2>2, <2>3, <2>4, <2>5 DEF LinkInv, Socket
<1>9. ASSUME NEW c \in Conn, NEW caller \in {"kill", "event"}, ReleaseEnd(c, caller)
      PROVE  LinkInv'
  <2>1. connector' = None /\ UNCHANGED asked /\ releasing' \subseteq releasing /\ sock[c] # "new"
    BY <1>9 DEF ReleaseEnd, DropConnector, LinkInv
  <2>2. \A w \in Ws : sock'[w] # "open"
    BY <1>9, NamesAssumption DEF ReleaseEnd, Closed, Listed, TypeOK, Socket
  <2>3. \A s \in Socket : sock[s] = "new" <=> sock'[s] = "new"
    BY <1>9, <2>1 DEF ReleaseEnd, Closed, Listed, TypeOK, Socket
  <2> QED BY <2>1, <2>2, <2>3
          DEF LinkInv, ConnectorListed, VisitorsFollowConnector, TypeOK, Socket
<1>10. CASE Reawaken
  <2>1. UNCHANGED <<asked, releasing, sock>>
    BY <1>10 DEF Reawaken
  <2>2. connector' = None => connector = None
    BY <1>10 DEF Reawaken, LinkInv, ConnectorListed, TypeOK
  <2>3. connector' # None => sock[connector'] \in Listed
    BY <1>10 DEF Reawaken
  <2> QED BY <2>1, <2>2, <2>3 DEF LinkInv, ConnectorListed, VisitorsFollowConnector
<1>11. CASE ConnectorEvent \/ Settles
  <2>1. \A c, caller : ~ReleaseFails(c, caller)
    BY DEF ReleaseFails
  <2> QED BY <1>3, <1>4, <1>5, <1>6, <1>7, <1>8, <1>9, <1>10, <1>11, <2>1
          DEF ConnectorEvent, Settles, ConnectVerdict
<1>12. CASE UNCHANGED vars
  BY <1>1, <1>12 DEF vars
<1> QED BY <1>2, <1>11, <1>12 DEF Next

\* Both hold where no release fails, for any policy and across hibernation.
LEMMA LinkHolds ==
  ASSUME ~ClosedFails
  PROVE  Spec => []LinkInv
<1>1. Init => LinkInv
  BY DEF Init, LinkInv, ConnectorListed, VisitorsFollowConnector, Socket
<1>2. TypeOK /\ LinkInv /\ [Next]_vars => LinkInv'
  BY LinkStep
<1> QED BY <1>1, <1>2, TypeCorrect, PTL DEF Spec

\* The close event of the attached connector is still to come.
THEOREM ConnectorStaysListed ==
  ASSUME ~ClosedFails
  PROVE  Spec => []ConnectorListed
<1>1. LinkInv => ConnectorListed
  BY DEF LinkInv
<1> QED BY <1>1, LinkHolds, PTL

\* No visitor socket stays open on a tunnel without a connector.
THEOREM VisitorsFollow ==
  ASSUME ~ClosedFails
  PROVE  Spec => []VisitorsFollowConnector
<1>1. LinkInv => VisitorsFollowConnector
  BY DEF LinkInv
<1> QED BY <1>1, LinkHolds, PTL

-----------------------------------------------------------------------------
(* Who drops the tunnel, where the policy answers at once.                 *)

\* A connector goes by its own release, or by the constructor.
LEMMA DropStep ==
  ASSUME ~PolicyYields, TypeOK, OneSuspended, [Next]_vars
  PROVE  /\ OneSuspended'
         /\ connector # None /\ connector' = None =>
              \/ \E caller \in {"kill", "event"} : <<connector, caller>> \in releasing \ releasing'
              \/ Reawaken
<1>1. ASSUME UNCHANGED <<connector, asked, seen, releasing>> PROVE UNCHANGED connector /\ OneSuspended'
  BY <1>1 DEF OneSuspended, liveUser
<1>2. ASSUME NEW c \in Conn, asked = {}, releasing = {}, ConnectAsk(c) \/ Kill(c) \/ ConnectorEnds(c)
      PROVE  UNCHANGED connector /\ OneSuspended'
  <2>1. CASE ConnectAsk(c)
    BY <1>2, <2>1 DEF ConnectAsk, OneSuspended, liveUser, TypeOK
  <2>2. CASE Kill(c) \/ ConnectorEnds(c)
    BY <1>2, <2>2, NamesAssumption DEF Kill, ConnectorEnds, Release, OneSuspended
  <2> QED BY <1>2, <2>1, <2>2
<1>3. ASSUME NEW c \in Conn, c \in asked, Denied(c) \/ Accepted(c)
      PROVE  (connector' = connector \/ connector' # None) /\ OneSuspended'
  BY <1>3, NamesAssumption DEF Denied, Accepted, OneSuspended
<1>4. ASSUME NEW c \in Conn, NEW caller \in {"kill", "event"}, ReleaseEnd(c, caller)
      PROVE  <<connector, caller>> \in releasing \ releasing' /\ OneSuspended'
  BY <1>4 DEF ReleaseEnd, DropConnector, OneSuspended
<1>5. ASSUME NEW c \in Conn, NEW caller \in {"kill", "event"}, ReleaseFails(c, caller)
      PROVE  UNCHANGED connector /\ OneSuspended'
  BY <1>5 DEF ReleaseFails, OneSuspended
<1>6. ASSUME Reawaken PROVE OneSuspended'
  BY <1>6 DEF Reawaken, Dormant, OneSuspended
<1>7. CASE Settles
  BY <1>3, <1>4, <1>5, <1>7 DEF Settles, ConnectVerdict
<1>8. CASE asked = {} /\ releasing = {} /\ ConnectorEvent
  <2>1. ASSUME NEW s \in Socket, PeerLoses(s) PROVE UNCHANGED <<connector, asked, seen, releasing>>
    BY <2>1 DEF PeerLoses
  <2> QED BY <1>1, <1>2, <1>6, <1>8, <2>1 DEF ConnectorEvent
<1>9. CASE UNCHANGED vars
  BY <1>1, <1>9 DEF vars, connVars
<1> QED BY <1>1, <1>7, <1>8, <1>9, RestUnchanged DEF Next

\* Nobody but the socket that holds the tunnel drops it, whoever connects over
\* whom, if the policy answers at once, and unless it fails and the object is
\* evicted as well.
THEOREM OwnRelease ==
  ASSUME ~PolicyYields, ~Hibernates \/ ~ClosedFails
  PROVE  Spec => DroppedByItsOwnRelease
<1> DEFINE Found == Hibernates => LinkInv
<1>1. Init => OneSuspended
  BY DEF Init, OneSuspended
<1>2. TypeOK /\ OneSuspended /\ [Next]_vars => OneSuspended'
  BY DropStep
<1>3. Spec => []Found
  <2>1. CASE ~Hibernates
    <3>1. Found
      BY <2>1
    <3> QED BY <3>1, PTL
  <2>2. CASE ~ClosedFails
    <3>1. LinkInv => Found
      OBVIOUS
    <3> QED BY <2>2, <3>1, LinkHolds, PTL
  <2> QED BY <2>1, <2>2
<1>4. TypeOK /\ Found /\ Reawaken /\ connector # None => connector' # None
  BY DEF Reawaken, LinkInv, ConnectorListed, TypeOK
<1>5. TypeOK /\ OneSuspended /\ Found /\ [Next]_vars =>
        [connector # None /\ connector' = None =>
           \E caller \in {"kill", "event"} : <<connector, caller>> \in releasing \ releasing']_vars
  BY <1>4, DropStep
<1> QED BY <1>1, <1>2, <1>3, <1>5, TypeCorrect, PTL DEF Spec, DroppedByItsOwnRelease

=============================================================================
