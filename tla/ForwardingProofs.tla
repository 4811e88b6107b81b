-------------------------- MODULE ForwardingProofs --------------------------
(***************************************************************************)
(* Proof that the tunnel object implements Forwarding, for every set of    *)
(* connectors, requests and visitor sockets, every limit and every policy, *)
(* where the ids never restart or no visitor WebSocket outlives them.      *)
(***************************************************************************)
EXTENDS TunnelProofs

Uploads == {r \in Req : phase[r] = "upload"}
Bridged == {w \in Ws : sock[w] \in Listed}
Unserved == {x \in Visit : phase[x] \in {"idle", "admit"}}

\* A step that serves nobody anew.
Still ==
  /\ UNCHANGED idVars
  /\ Uploads' \subseteq Uploads /\ Unserved' \subseteq Unserved
  /\ pending' \subseteq pending /\ Bridged' \subseteq Bridged

-----------------------------------------------------------------------------
(* Ids, and how steps of Forwarding are recognised.                        *)

\* Such a step keeps the ids behind the counter.
LEMMA StillIds ==
  ASSUME IdInv, Still
  PROVE  IdInv'
<1>1. \A x \in Visit : phase'[x] \in {"idle", "admit"} => phase[x] \in {"idle", "admit"}
  BY DEF Still, Unserved
<1>2. \A r \in Req : phase'[r] = "upload" => phase[r] = "upload"
  BY DEF Still, Uploads
<1> QED BY <1>1, <1>2 DEF IdInv, Still, idVars

\* The calls that a settled head resumes were neither uploading nor unserved.
LEMMA ResumedKeeps ==
  ASSUME NEW ph \in [Visit -> Phases], NEW h, NEW x \in Visit
  PROVE  /\ Resumed(ph, h)[x] = "upload" <=> ph[x] = "upload"
         /\ Resumed(ph, h)[x] \in {"idle", "admit"} <=> ph[x] \in {"idle", "admit"}
<1>1. Resumed(ph, h)[x] = ph[x] \/ (ph[x] = "await" /\ h[x] \in DOMAIN Answer
                                        /\ Resumed(ph, h)[x] = Answer[h[x]])
  BY DEF Resumed
<1> QED BY <1>1, AnswerFacts

\* close() takes no socket off the list and puts none on it.
LEMMA ClosedKeeps ==
  ASSUME NEW S, NEW s \in Socket
  PROVE  Closed(S)[s] \in Listed <=> sock[s] \in Listed
BY DEF Closed, Listed

\* A step that sends nothing.
LEMMA SilentStep ==
  ASSUME Still, sent' = <<>>
  PROVE  Forwarded!Next
BY DEF Still, Uploads, Bridged, idVars, Forwarded!Next, Forwarded!Silence

\* An abort of a pending request that leaves uploads and sockets alone.
LEMMA AbortStep ==
  ASSUME Still, NEW r \in Req, r \in pending, Emit("ABORT", rid[r]),
         pending' = pending \ {r}, Uploads' = Uploads, Bridged' = Bridged
  PROVE  Forwarded!Next
<1>1. CASE sent' = <<>>
  BY <1>1, SilentStep
<1>2. CASE sent' = <<[t |-> "ABORT", id |-> rid[r]]>>
  <2>1. Forwarded!GiveUp(r)
    BY <1>2 DEF Still, idVars, Uploads, Bridged, Forwarded!GiveUp, Forwarded!Frame
  <2> QED BY <2>1 DEF Forwarded!Next
<1> QED BY <1>1, <1>2 DEF Emit

\* The next id is nobody's who could be mistaken for its new holder.
LEMMA FreshId ==
  ASSUME TypeOK, RequestInv, IdInv, ~Hibernates \/ Ws = {}
  PROVE  nextId \in Nat \ {0} /\ \A y \in Forwarded!Holders : rid[y] # nextId
<1>1. nextId \in Nat \ {0} /\ rid \in [Visit -> Nat]
  BY DEF TypeOK, IdInv
<1>2. CASE ~Hibernates
  BY <1>1, <1>2 DEF IdInv, Forwarded!Holders, Forwarded!Visit, Visit, TypeOK
<1>3. CASE Hibernates /\ Ws = {}
  <2>1. \A r \in pending : rid[r] < nextId /\ r \in Visit
    BY DEF TypeOK, Visit, RequestInv, EntryInv
  <2>2. \A r \in Uploads : rid[r] < nextId /\ r \in Visit
    BY DEF Uploads, IdInv, Visit
  <2>3. Forwarded!Holders = Uploads \cup pending \cup Bridged /\ Bridged = {}
    BY <1>3, SwitchesAssumption DEF Forwarded!Holders, Uploads, Bridged
  <2> QED BY <1>1, <2>1, <2>2, <2>3
<1> QED BY <1>2, <1>3

-----------------------------------------------------------------------------
(* A request or an upgrade is served.                                      *)

\* Taking an id keeps the ids behind the counter.
LEMMA TakeIdIds ==
  ASSUME TypeOK, IdInv, NEW x \in Visit, phase[x] \in {"idle", "admit"}, TakeId(x),
         NEW next \in Phases \ {"idle", "admit"}, phase' = [phase EXCEPT ![x] = next]
  PROVE  IdInv'
<1>1. /\ nextId \in Nat /\ nextId' = nextId + 1
      /\ \A y \in Visit : rid'[y] = IF y = x THEN nextId ELSE rid[y]
      /\ \A y \in Visit : phase'[y] = IF y = x THEN next ELSE phase[y]
      /\ \A y \in Visit : rid[y] \in Nat
  BY DEF TypeOK, TakeId
<1> QED BY <1>1 DEF IdInv, Visit

\* It is taking an id in Forwarding.
LEMMA TakeIdTakes ==
  ASSUME TypeOK, RequestInv, IdInv, ~Hibernates \/ Ws = {},
         NEW x \in Visit, phase[x] \in {"idle", "admit"}, TakeId(x)
  PROVE  Forwarded!Take(x) /\ rid'[x] = nextId
<1>1. rid' = [rid EXCEPT ![x] = nextId] /\ rid \in [Visit -> Nat] /\ rid[x] = 0
  BY DEF TypeOK, TakeId, IdInv
<1>2. rid'[x] = nextId
  BY <1>1
<1> QED BY <1>1, <1>2, FreshId DEF Forwarded!Take

\* What serve() answers at once, or opens.
LEMMA ServeForwards ==
  ASSUME TypeOK, RequestInv, IdInv, ~Hibernates \/ Ws = {},
         NEW x \in Visit, Arrive(x) \/ Admit(x)
  PROVE  IdInv' /\ Forwarded!Next
<1>0. /\ phase[x] \in {"idle", "admit"} /\ phase \in [Visit -> Phases]
      /\ sock \in [Socket -> {"new", "gone"} \cup Listed] /\ pending \subseteq Req
  BY DEF Arrive, Admit, TypeOK
<1>1. ASSUME NEW answer \in {"502", "refused", "admit"}, Turned(x, answer)
      PROVE  IdInv' /\ Forwarded!Next
  <2>1. /\ UNCHANGED <<idVars, pending, sock>> /\ sent' = <<>>
        /\ \A y \in Visit : phase'[y] = IF y = x THEN answer ELSE phase[y]
    BY <1>0, <1>1 DEF Turned, connVars, entryVars, Quiet
  <2>2. Still
    BY <1>0, <2>1 DEF Still, Uploads, Unserved, Bridged, Visit
  <2> QED BY <2>1, <2>2, StillIds, SilentStep
<1>2. ASSUME x \in Req, NEW hasBody \in BOOLEAN, TakeId(x), OpenEntry(x, hasBody)
      PROVE  IdInv' /\ Forwarded!Next
  <2> DEFINE next == IF hasBody THEN "upload" ELSE "await"
  <2>1. /\ next \in Phases \ {"idle", "admit"} /\ phase' = [phase EXCEPT ![x] = next]
        /\ pending' = pending \cup {x} /\ UNCHANGED sock
    BY <1>2 DEF OpenEntry, Phases, Suspended, connVars
  <2>2. Uploads' = IF hasBody THEN Uploads \cup {x} ELSE Uploads
    BY <1>0, <1>2, <2>1 DEF Uploads, Visit
  <2>3. Forwarded!Take(x) /\ rid'[x] = nextId
    BY <1>0, <1>2, TakeIdTakes
  <2>4. \/ /\ sent' = <<Forwarded!Frame(x, "REQ_HEAD")>> /\ Uploads' = Uploads \cup {x}
           /\ pending' = pending \cup {x}
        \/ /\ sent' = <<Forwarded!Frame(x, "REQ_HEAD"), Forwarded!Frame(x, "REQ_END")>>
           /\ pending' = pending \cup {x} /\ Uploads' = Uploads
    BY <1>2, <2>1, <2>2, <2>3 DEF OpenEntry, Forwarded!Frame
  <2>5. Forwarded!Begin(x)
    BY <2>1, <2>3, <2>4 DEF Forwarded!Begin, Uploads
  <2>6. IdInv'
    BY <1>0, <1>2, <2>1, TakeIdIds
  <2> QED BY <1>2, <2>5, <2>6 DEF Forwarded!Next
<1>3. ASSUME x \in Req, TakeId(x), NoConnector(x) PROVE IdInv' /\ Forwarded!Next
  <2>1. /\ phase' = [phase EXCEPT ![x] = "502"] /\ "502" \in Phases /\ sent' = <<>>
        /\ UNCHANGED <<sock, pending>>
    BY <1>3 DEF NoConnector, Phases, connVars, entryVars, Quiet
  <2>2. Uploads' = Uploads
    BY <1>0, <2>1 DEF Uploads, Visit
  <2>3. Forwarded!Begin(x)
    BY <1>0, <1>3, <2>1, <2>2, TakeIdTakes DEF Forwarded!Begin, Uploads
  <2>4. IdInv'
    BY <1>0, <1>3, <2>1, TakeIdIds
  <2> QED BY <1>3, <2>3, <2>4 DEF Forwarded!Next
<1>4. ASSUME x \in Ws, OpenWebSocket(x), ~Turned(x, "refused") PROVE IdInv' /\ Forwarded!Next
  <2>1. /\ TakeId(x) /\ UNCHANGED <<total, pending>>
        /\ sock' = [sock EXCEPT ![x] = IF CanSend THEN "open" ELSE "closing"]
        /\ phase' = [phase EXCEPT ![x] = IF CanSend THEN "101" ELSE "502"]
        /\ sent' = IF CanSend THEN <<[t |-> "WS_OPEN", id |-> nextId]>> ELSE <<>>
    BY <1>4 DEF OpenWebSocket, entryVars
  <2>2. Uploads' = Uploads
    BY <1>0, <1>4, <2>1, NamesAssumption DEF Uploads, Visit
  <2>3. Bridged' = Bridged \cup {x}
    BY <1>0, <1>4, <2>1 DEF Bridged, Socket, Listed
  <2>4. Forwarded!Take(x) /\ rid'[x] = nextId
    BY <1>0, <2>1, TakeIdTakes
  <2>5. Forwarded!Upgrade(x)
    BY <2>1, <2>2, <2>3, <2>4 DEF Forwarded!Upgrade, Forwarded!Frame, Uploads, Bridged
  <2>6. IdInv'
    <3> DEFINE next == IF CanSend THEN "101" ELSE "502"
    <3>1. next \in Phases \ {"idle", "admit"}
      BY DEF Phases
    <3> QED BY <1>0, <2>1, <3>1, TakeIdIds
  <2> QED BY <1>4, <2>5, <2>6 DEF Forwarded!Next
<1>5. \/ \E answer \in {"502", "refused", "admit"} : Turned(x, answer)
      \/ x \in Req /\ TakeId(x) /\ (NoConnector(x) \/ \E hasBody \in BOOLEAN : OpenEntry(x, hasBody))
      \/ x \in Ws /\ OpenWebSocket(x) /\ ~Turned(x, "refused")
  BY DEF Arrive, Admit, Serve, Relay
<1> QED BY <1>1, <1>2, <1>3, <1>4, <1>5

-----------------------------------------------------------------------------
(* Every other turn of the object.                                         *)

\* Failing and deleting entries serves nobody anew and ends no upload.
LEMMA FailKeeps ==
  ASSUME TypeOK, NEW S, FailAndCleanup(S)
  PROVE  Uploads' = Uploads /\ Unserved' = Unserved /\ pending' = pending \ S
<1>1. phase \in [Visit -> Phases] /\ phase' = Resumed(phase, head') /\ pending' = pending \ S
  BY DEF TypeOK, FailAndCleanup, Cleanup
<1> QED BY <1>1, ResumedKeeps DEF Uploads, Unserved, Visit

\* Connects, kills, losses and releases send nothing.
LEMMA ConnectorForwards ==
  ASSUME TypeOK, RequestInv, IdInv, ConnectorEvent \/ Settles
  PROVE  IdInv' /\ Forwarded!Next
<1>0. sock \in [Socket -> {"new", "gone"} \cup Listed] /\ Conn \cap Ws = {} /\ Ws \subseteq Socket
  BY NamesAssumption DEF TypeOK, Socket
<1>1. ASSUME UNCHANGED <<idVars, phase, entryVars>>, Quiet,
             \A w \in Ws : sock'[w] \in Listed => sock[w] \in Listed
      PROVE  IdInv' /\ Forwarded!Next
  <2>1. Still /\ sent' = <<>>
    BY <1>1 DEF Still, Uploads, Unserved, Bridged, entryVars, Quiet
  <2> QED BY <2>1, StillIds, SilentStep
<1>2. ASSUME NEW c \in Conn, \/ ConnectAsk(c) \/ (c \in asked /\ (Denied(c) \/ Accepted(c)))
                             \/ Kill(c) \/ ConnectorEnds(c)
      PROVE  IdInv' /\ Forwarded!Next
  <2>1. UNCHANGED <<idVars, phase, entryVars>> /\ Quiet
    BY <1>2 DEF ConnectAsk, Denied, Accepted, Kill, ConnectorEnds
  <2>2. \A w \in Ws : sock'[w] = sock[w] \/ \E S : sock'[w] = Closed(S)[w]
    BY <1>0, <1>2 DEF ConnectAsk, Denied, Accepted, Kill, ConnectorEnds, Closed
  <2> QED BY <1>0, <1>1, <2>1, <2>2, ClosedKeeps
<1>3. ASSUME NEW s \in Socket, PeerLoses(s) PROVE IdInv' /\ Forwarded!Next
  BY <1>0, <1>1, <1>3 DEF PeerLoses, Listed
<1>4. ASSUME NEW c \in Conn, NEW caller \in {"kill", "event"}, ReleaseEnd(c, caller)
      PROVE  IdInv' /\ Forwarded!Next
  <2>1. FailAndCleanup(pending) /\ UNCHANGED idVars /\ sent' = <<>>
    BY <1>4 DEF ReleaseEnd, DropConnector, Quiet
  <2>2. \A w \in Ws : sock'[w] = Closed(Socket)[w]
    BY <1>0, <1>4 DEF ReleaseEnd, Closed
  <2>3. Still
    BY <1>0, <2>1, <2>2, FailKeeps, ClosedKeeps DEF Still, Bridged
  <2> QED BY <2>1, <2>3, StillIds, SilentStep
<1>5. ASSUME NEW c \in Conn, NEW caller \in {"kill", "event"}, ReleaseFails(c, caller)
      PROVE  IdInv' /\ Forwarded!Next
  <2>1. \A w \in Ws : sock'[w] = sock[w]
    BY <1>0, <1>5 DEF ReleaseFails
  <2> QED BY <1>1, <1>5, <2>1 DEF ReleaseFails
<1>6. CASE Reawaken
  <2>1. /\ Hibernates /\ nextId' = 1 /\ UNCHANGED <<rid, phase, sock>> /\ pending' = {} /\ sent' = <<>>
        /\ \A x \in Visit : phase[x] # "upload"
    BY <1>6 DEF Reawaken, Dormant, Quiet, Suspended
  <2>2. IdInv'
    BY <2>1 DEF IdInv, Visit
  <2>3. Forwarded!Silence
    BY <2>1 DEF Forwarded!Silence
  <2> QED BY <2>2, <2>3 DEF Forwarded!Next
<1> QED BY <1>2, <1>3, <1>4, <1>5, <1>6 DEF ConnectorEvent, Settles, ConnectVerdict

\* abort() aborts.
LEMMA AbortForwards ==
  ASSUME TypeOK, IdInv, NEW r \in Req, Abort(r)
  PROVE  IdInv' /\ Forwarded!Next
<1>1. /\ r \in pending /\ Emit("ABORT", rid[r]) /\ UNCHANGED <<idVars, sock>>
      /\ Uploads' = Uploads /\ Unserved' = Unserved /\ pending' = pending \ {r}
  BY FailKeeps DEF Abort, connVars
<1>2. Still /\ Bridged' = Bridged
  BY <1>1 DEF Still, Bridged
<1> QED BY <1>1, <1>2, StillIds, AbortStep

\* An upload goes on, ends or is cut short.
LEMMA UploadForwards ==
  ASSUME TypeOK, IdInv, NEW r \in Req, UploadChunk(r) \/ UploadEnd(r) \/ UploadBreaks(r)
  PROVE  IdInv' /\ Forwarded!Next
<1>0. r \in Uploads /\ phase \in [Visit -> Phases] /\ r \in Visit /\ pending \subseteq Req
  BY DEF UploadChunk, UploadEnd, UploadBreaks, Uploads, TypeOK, Visit
<1>1. ASSUME NEW next \in {"502", "413", "await"}, UploadLeft(r, next),
             Cleanup({r}) \/ UNCHANGED <<pending, idle, life>>
      PROVE  /\ Still /\ UNCHANGED <<idVars, sock>> /\ Uploads' = Uploads \ {r} /\ Bridged' = Bridged
  <2> DEFINE ph == [phase EXCEPT ![r] = next]
  <2>1. ph \in [Visit -> Phases] /\ \A x \in Visit : ph[x] = IF x = r THEN next ELSE phase[x]
    BY <1>0, <1>1 DEF Phases, Suspended
  <2>2. phase' = Resumed(ph, head) /\ UNCHANGED <<idVars, sock>>
    BY <1>1 DEF UploadLeft, connVars
  <2>3. \A x \in Visit : /\ phase'[x] = "upload" <=> ph[x] = "upload"
                         /\ phase'[x] \in {"idle", "admit"} <=> ph[x] \in {"idle", "admit"}
    <3> HIDE DEF ph
    <3> QED BY <2>1, <2>2, ResumedKeeps
  <2>4. Uploads' = Uploads \ {r} /\ Unserved' \subseteq Unserved
    BY <2>1, <2>3 DEF Uploads, Unserved, Visit
  <2>5. pending' \subseteq pending
    BY <1>1 DEF Cleanup
  <2> QED BY <2>2, <2>4, <2>5 DEF Still, Bridged
<1>2. ASSUME sent' = <<>>, UploadLeft(r, "502"), Cleanup({r}) PROVE IdInv' /\ Forwarded!Next
  BY <1>1, <1>2, StillIds, SilentStep
<1>3. ASSUME CanSend, Emit("ABORT", rid[r]), UploadLeft(r, "413"), Cleanup({r})
      PROVE  IdInv' /\ Forwarded!Next
  <2>1. /\ Still /\ UNCHANGED <<idVars, sock>> /\ Uploads' = Uploads \ {r} /\ Bridged' = Bridged
        /\ sent' = <<[t |-> "ABORT", id |-> rid[r]]>> /\ pending' = pending \ {r}
    BY <1>1, <1>3 DEF Emit, Cleanup
  <2>2. Forwarded!Upload(r)
    BY <1>0, <2>1 DEF Forwarded!Upload, Forwarded!Frame, Uploads, Bridged, idVars
  <2> QED BY <2>1, <2>2, StillIds DEF Forwarded!Next
<1>4. ASSUME CanSend, Emit("REQ_BODY", rid[r]), UNCHANGED <<connVars, idVars, phase, entryVars>>
      PROVE  IdInv' /\ Forwarded!Next
  <2>1. /\ Still /\ UNCHANGED idVars /\ Uploads' = Uploads /\ Bridged' = Bridged
        /\ sent' = <<[t |-> "REQ_BODY", id |-> rid[r]]>> /\ pending' = pending
    BY <1>4 DEF Emit, Still, Uploads, Unserved, Bridged, connVars, entryVars
  <2>2. Forwarded!Upload(r)
    BY <1>0, <2>1 DEF Forwarded!Upload, Forwarded!Frame, Uploads, Bridged, idVars
  <2> QED BY <2>1, <2>2, StillIds DEF Forwarded!Next
<1>5. ASSUME CanSend, Emit("REQ_END", rid[r]), UploadLeft(r, "await"), UNCHANGED <<pending, idle, life>>
      PROVE  IdInv' /\ Forwarded!Next
  <2>1. /\ Still /\ UNCHANGED <<idVars, sock>> /\ Uploads' = Uploads \ {r} /\ Bridged' = Bridged
        /\ sent' = <<[t |-> "REQ_END", id |-> rid[r]]>> /\ pending' = pending
    BY <1>1, <1>5 DEF Emit
  <2>2. Forwarded!Upload(r)
    BY <1>0, <2>1 DEF Forwarded!Upload, Forwarded!Frame, Uploads, Bridged, idVars
  <2> QED BY <2>1, <2>2, StillIds DEF Forwarded!Next
<1> QED BY <1>2, <1>3, <1>4, <1>5 DEF UploadChunk, UploadEnd, UploadBreaks, Quiet, Emit

\* The head timeout and the visitor abort what is still pending.
LEMMA AnswerForwards ==
  ASSUME TypeOK, IdInv, NEW r \in Req, HeadTimeout(r) \/ VisitorCancels(r)
  PROVE  IdInv' /\ Forwarded!Next
<1>1. /\ UNCHANGED <<idVars, sock>> /\ pending' = pending \ {r}
      /\ IF r \in pending THEN Emit("ABORT", rid[r]) ELSE sent' = <<>>
  BY DEF HeadTimeout, VisitorCancels, Cleanup, Quiet, connVars
<1>2. \/ phase' = phase
      \/ phase[r] = "await" /\ phase' = [phase EXCEPT ![r] = "504"]
  BY DEF HeadTimeout, VisitorCancels
<1>3. Uploads' = Uploads /\ Unserved' \subseteq Unserved /\ Bridged' = Bridged
  BY <1>1, <1>2 DEF TypeOK, Uploads, Unserved, Bridged, Visit
<1>4. Still
  BY <1>1, <1>3 DEF Still
<1> QED BY <1>1, <1>3, <1>4, StillIds, SilentStep, AbortStep

\* Frames of the connector are answered with an abort or not at all.
LEMMA FrameForwards ==
  ASSUME TypeOK, RequestInv, IdInv, FrameEvent
  PROVE  IdInv' /\ Forwarded!Next
<1> PICK r \in Req :
    \/ \E kind \in Heads : ResHead(r, kind)
    \/ ResHeadGarbled(r) \/ ResHeadNull(r)
    \/ ResBody(r) \/ ResBodyOverflows(r) \/ ResEnd(r) \/ AbortFrame(r)
  BY DEF FrameEvent
<1>1. ASSUME UNCHANGED <<idVars, sock>>, Uploads' = Uploads, Unserved' = Unserved,
             pending' \subseteq pending, Quiet
      PROVE  IdInv' /\ Forwarded!Next
  <2>1. Still /\ sent' = <<>>
    BY <1>1 DEF Still, Bridged, Quiet
  <2> QED BY <2>1, StillIds, SilentStep
<1>2. ASSUME NEW kind \in Heads, ResHead(r, kind) PROVE IdInv' /\ Forwarded!Next
  <2>1. UNCHANGED <<idVars, sock, pending>> /\ phase' = Resumed(phase, head') /\ Quiet
    BY <1>2 DEF ResHead, connVars
  <2>2. phase \in [Visit -> Phases]
    BY DEF TypeOK
  <2>3. Uploads' = Uploads /\ Unserved' = Unserved
    BY <2>1, <2>2, ResumedKeeps DEF Uploads, Unserved, Visit
  <2> QED BY <1>1, <2>1, <2>3
<1>3. CASE ResHeadNull(r)
  <2>1. /\ UNCHANGED <<idVars, sock, phase>> /\ r \in pending /\ pending' = pending \ {r}
        /\ Emit("ABORT", rid[r])
    BY <1>3 DEF ResHeadNull, FrameFor, Cleanup, connVars
  <2>2. Still /\ Uploads' = Uploads /\ Bridged' = Bridged
    BY <2>1 DEF Still, Uploads, Unserved, Bridged
  <2> QED BY <2>1, <2>2, StillIds, AbortStep
<1>4. CASE ResBody(r) \/ ResEnd(r)
  <2>1. UNCHANGED <<idVars, sock, phase>> /\ pending' \subseteq pending /\ Quiet
    BY <1>4 DEF ResBody, ResEnd, Cleanup, connVars
  <2> QED BY <1>1, <2>1 DEF Uploads, Unserved
<1>5. CASE AbortFrame(r)
  BY <1>1, <1>5, FailKeeps DEF AbortFrame, connVars
<1>6. CASE ResHeadGarbled(r) \/ ResBodyOverflows(r)
  BY <1>6, AbortForwards DEF ResHeadGarbled, ResBodyOverflows
<1> QED BY <1>2, <1>3, <1>4, <1>5, <1>6

\* A visitor WebSocket says what it gets, until its close.
LEMMA SocketForwards ==
  ASSUME TypeOK, IdInv, NEW w \in Ws, WsMessage(w) \/ WsCloseFrame(w) \/ WsEnds(w)
  PROVE  IdInv' /\ Forwarded!Next
<1>0. sock \in [Socket -> {"new", "gone"} \cup Listed] /\ Ws \subseteq Socket /\ "gone" \notin Listed
  BY DEF TypeOK, Socket, Listed
<1>1. UNCHANGED <<idVars, phase, pending>>
  BY DEF WsMessage, WsCloseFrame, WsEnds, entryVars
<1>2. Bridged' \subseteq Bridged
  BY <1>0, ClosedKeeps DEF WsMessage, WsCloseFrame, WsEnds, connVars, Bridged
<1>3. Still
  BY <1>1, <1>2 DEF Still, Uploads, Unserved
<1>4. CASE sent' = <<>>
  BY <1>3, <1>4, StillIds, SilentStep
<1>5. CASE sent' # <<>>
  <2>1. \/ WsMessage(w) /\ sent' = <<[t |-> "WS_DATA", id |-> rid[w]]>> /\ Bridged' = Bridged
        \/ WsEnds(w) /\ sent' = <<[t |-> "WS_CLOSE", id |-> rid[w]]>> /\ Bridged' = Bridged \ {w}
    BY <1>0, <1>5 DEF WsMessage, WsCloseFrame, WsEnds, Emit, Quiet, connVars, Bridged
  <2>2. w \in Bridged
    BY <2>1 DEF WsMessage, WsEnds, Bridged, Listed
  <2>3. Forwarded!Relay(w)
    BY <1>1, <2>1, <2>2 DEF Forwarded!Relay, Forwarded!Frame, Uploads, Bridged, idVars
  <2> QED BY <1>3, <2>3, StillIds DEF Forwarded!Next
<1> QED BY <1>4, <1>5

-----------------------------------------------------------------------------
(* The refinement.                                                         *)

\* Every turn is a step of Forwarding, or one that changes nothing of it.
LEMMA ForwardStep ==
  ASSUME ~Hibernates \/ Ws = {}, TypeOK, RequestInv, IdInv, [Next]_vars
  PROVE  /\ IdInv'
         /\ Forwarded!Next \/ UNCHANGED <<rid, Uploads, pending, Bridged, sent>>
<1>1. CASE UNCHANGED vars
  <2>1. UNCHANGED <<idVars, phase, sock, pending, sent>>
    BY <1>1 DEF vars, connVars, entryVars
  <2>2. Still
    BY <2>1 DEF Still, Uploads, Unserved, Bridged
  <2> QED BY <2>1, <2>2, StillIds DEF Uploads, Bridged, idVars
<1>2. CASE ConnectorEvent \/ Settles
  BY <1>2, ConnectorForwards
<1>3. CASE RequestEvent
  BY <1>3, ServeForwards, UploadForwards, AnswerForwards, AbortForwards
  DEF RequestEvent, IdleFires, LifetimeFires, Visit
<1>4. CASE FrameEvent
  BY <1>4, FrameForwards
<1>5. CASE SocketEvent
  BY <1>5, ServeForwards, SocketForwards DEF SocketEvent, Visit
<1> QED BY <1>1, <1>2, <1>3, <1>4, <1>5 DEF Next

\* Every id in use is behind the counter.
LEMMA IdsHold ==
  ASSUME ~Hibernates \/ Ws = {}
  PROVE  Spec => []IdInv
<1>1. Init => IdInv
  BY DEF Init, IdInv, Visit
<1>2. TypeOK /\ RequestInv /\ IdInv /\ [Next]_vars => IdInv'
  BY ForwardStep
<1> QED BY <1>1, <1>2, TypeCorrect, RequestsInvariant, PTL DEF Spec

\* Whatever connects, is lost, times out or is read: the connector is sent one
\* upload, abort or socket after another under ids that nothing else alive has.
\* The ids may restart as long as no visitor WebSocket survives a hibernation.
THEOREM TunnelForwards ==
  ASSUME ~Hibernates \/ Ws = {}
  PROVE  Spec => FramesForwarded
<1>1. Init => Forwarded!Init
  BY DEF Init, Forwarded!Init, Visit, Forwarded!Visit, Socket, Listed
<1>2. TypeOK /\ RequestInv /\ IdInv /\ [Next]_vars
        => [Forwarded!Next]_<<rid, {r \in Req : phase[r] = "upload"}, pending,
                              {w \in Ws : sock[w] \in Listed}, sent>>
  BY ForwardStep DEF Uploads, Bridged
<1> QED BY <1>1, <1>2, TypeCorrect, RequestsInvariant, IdsHold, PTL
        DEF Spec, FramesForwarded, Forwarded!Spec

=============================================================================
