------------------------------- MODULE Tunnel -------------------------------
(***************************************************************************)
(* The Tunnel Durable Object of the edge (edge/src/tunnel.ts): one object  *)
(* per subdomain.  A host connector holds one WebSocket to it; visitor     *)
(* requests and visitor WebSockets are multiplexed over that socket by id. *)
(*                                                                         *)
(* The object is single threaded: a step of this specification is one turn *)
(* of the event loop, from the event that starts it to the point where     *)
(* every continuation it woke has run to its next await.  Turns interleave *)
(* at the awaits: the deployment policy's connect and closed, the visitor  *)
(* check of a private tunnel, each read of an upload, and the race between *)
(* the response head and the head timeout.                                 *)
(***************************************************************************)
EXTENDS Naturals, Sequences, FiniteSets

CONSTANTS
  Conn,          \* connector sockets that may ever be opened
  Req,           \* visitor requests, each served at most once
  Ws,            \* visitor WebSockets, each opened at most once
  User,          \* accounts
  UserOf,        \* the account each connector authenticated as
  None,          \* null
  Modes,         \* what an accepting policy may grant: "open" "gate" "private"
  MaxConcurrent, \* limits.maxConcurrent
  MaxWs,         \* limits.maxWs
  BodyCap,       \* limits.requestBodyCap, in chunks
  PolicyYields,  \* the policy does I/O, so that turns run while it decides
  Exclusive,     \* the policy denies a connect over another account's connector
  ClosedFails,   \* policy.closed may reject
  Hibernates     \* the runtime evicts the object when nothing keeps it awake

ASSUME NamesAssumption ==
  /\ Conn \cap Ws = {} /\ Req \cap Ws = {}
  /\ None \notin Conn /\ None \notin User
ASSUME UsersAssumption == UserOf \in [Conn -> User]
ASSUME ModesAssumption == Modes \subseteq {"open", "gate", "private"}
ASSUME LimitsAssumption == MaxConcurrent \in Nat /\ MaxWs \in Nat /\ BodyCap \in Nat
ASSUME SwitchesAssumption == {PolicyYields, Exclusive, ClosedFails, Hibernates} \subseteq BOOLEAN

VARIABLES
  connector, \* this.connector: a socket or None
  sock,      \* the state of every connector and visitor socket, see Listed
  mode,      \* the attachment of each connector: gate, access, or neither
  asked,     \* connects suspended on policy.connect
  seen,      \* the liveUser each of them read before it was suspended
  releasing, \* releases suspended on policy.closed: <<socket, caller>>
  slots,     \* external: the connects a policy has counted and not been told to release
  nextId,    \* this.nextId
  phase,     \* where the serve() call of each request or upgrade stands
  rid,       \* the id serve() took for it (the v:id tag of a visitor socket)
  total,     \* the chunks counted so far by each running upload
  pending,   \* this.pending, by the request each entry belongs to
  idle,      \* the requests with an idle timer armed
  life,      \* the requests with a lifetime timer armed
  head,      \* the head promise of each request
  stream,    \* the response stream of each request
  sent       \* the frames this turn put on the connector socket

connVars == <<connector, sock, mode, asked, seen, releasing, slots>>
idVars == <<nextId, rid>>
entryVars == <<pending, idle, life, head, stream>>
vars == <<connVars, idVars, phase, total, entryVars, sent>>

Visit == Req \cup Ws
Socket == Conn \cup Ws
FrameType == {"REQ_HEAD", "REQ_BODY", "REQ_END", "ABORT", "WS_OPEN", "WS_DATA", "WS_CLOSE"}
Suspended == {"admit", "upload", "await"}
Phases == {"idle", "refused", "101", "stream", "bodiless", "413", "500", "502", "504"}
          \cup Suspended

\* "lost": the peer is gone and the close event not yet delivered, so that
\* sends are swallowed.  "closing": close() was called or the close event is
\* being handled, so that sends throw.  getWebSockets still lists both.
Listed == {"open", "lost", "closing"}

\* A response head: with a body, of a status that forbids one, or one the
\* Response constructor throws on.
Heads == {"body", "nobody", "invalid"}

TypeOK ==
  /\ connector \in Conn \cup {None}
  /\ sock \in [Socket -> {"new", "gone"} \cup Listed]
  /\ mode \in [Conn -> {"open", "gate", "private"}]
  /\ asked \subseteq Conn
  /\ seen \in [Conn -> User \cup {None}]
  /\ releasing \subseteq Conn \X {"kill", "event"}
  /\ slots \subseteq Conn
  /\ nextId \in Nat
  /\ phase \in [Visit -> Phases]
  /\ rid \in [Visit -> Nat]
  /\ total \in [Req -> 0..BodyCap]
  /\ pending \subseteq Req
  /\ idle \subseteq Req
  /\ life \subseteq Req
  /\ head \in [Req -> {"unset", "null", "rejected"} \cup Heads]
  /\ stream \in [Req -> {"none", "open", "closed", "errored", "cancelled"}]
  /\ sent \in Seq([t : FrameType, id : Nat])

Init ==
  /\ connector = None
  /\ sock = [s \in Socket |-> "new"]
  /\ mode = [c \in Conn |-> "open"]
  /\ asked = {}
  /\ seen = [c \in Conn |-> None]
  /\ releasing = {}
  /\ slots = {}
  /\ nextId = 1
  /\ phase = [x \in Visit |-> "idle"]
  /\ rid = [x \in Visit |-> 0]
  /\ total = [r \in Req |-> 0]
  /\ pending = {}
  /\ idle = {}
  /\ life = {}
  /\ head = [r \in Req |-> "unset"]
  /\ stream = [r \in Req |-> "none"]
  /\ sent = <<>>

-----------------------------------------------------------------------------
(* Helpers: sockets and frames.                                            *)

CanSend == connector # None /\ sock[connector] \in {"open", "lost"}

\* A send on an absent or closing connector throws, and every caller of Emit
\* swallows that.
Emit(type, i) == sent' = IF CanSend THEN <<[t |-> type, id |-> i]>> ELSE <<>>

Quiet == sent' = <<>>

\* close() on every socket of S that is still listed.
Closed(S) == [s \in Socket |-> IF s \in S /\ sock[s] \in Listed THEN "closing" ELSE sock[s]]

\* Mutant: a connector that is not open does not count as live.
liveUserIfOpen ==
  IF connector = None THEN None ELSE IF sock[connector] = "open" THEN UserOf[connector] ELSE None

liveUser == IF connector = None THEN None ELSE UserOf[connector]

(* Helpers: the pending entries.                                           *)

\* What serve() answers once the head promise of a request is settled.
Answer == [body |-> "stream", nobody |-> "bodiless", invalid |-> "500", rejected |-> "502"]

\* The serve() calls that wait in the race run on in the turn that settles
\* their head.
Resumed(ph, h) ==
  [x \in Visit |-> IF x \in Req /\ ph[x] = "await" /\ h[x] \in DOMAIN Answer THEN Answer[h[x]] ELSE ph[x]]

\* headSettled: set by every RES_HEAD that parses, "null" included, which
\* never resolves the promise.
settled == {r \in Req : head[r] \in Heads \cup {"null"}}

\* failStream() on every request of S: error the stream of a settled head,
\* reject the head otherwise.
FailedHeads(S) == [r \in Req |-> IF r \in S \ settled THEN "rejected" ELSE head[r]]
FailedStreams(S) ==
  [r \in Req |-> IF r \in S \cap settled /\ stream[r] = "open" THEN "errored" ELSE stream[r]]

\* Mutant: the lifetime timer is not cleared.
CleanupKeepsLifetime(S) == pending' = pending \ S /\ idle' = idle \ S /\ UNCHANGED life

\* cleanup() on every request of S: both timers cleared, the entry deleted.
Cleanup(S) ==
  /\ pending' = pending \ S
  /\ idle' = idle \ S
  /\ life' = life \ S

\* failStream() and cleanup() on every request of S, and the turn's end.
FailAndCleanup(S) ==
  /\ head' = FailedHeads(S)
  /\ stream' = FailedStreams(S)
  /\ Cleanup(S)
  /\ phase' = Resumed(phase, head')

\* abort(id) of a pending request.
Abort(r) ==
  /\ r \in pending
  /\ Emit("ABORT", rid[r])
  /\ FailAndCleanup({r})
  /\ UNCHANGED <<connVars, idVars, total>>

\* touch(): the idle timer is armed anew.
Touch(r) == idle' = idle \cup {r}

-----------------------------------------------------------------------------
(* The connector: registration, kill, loss and release.                    *)

\* /__neko/connect: liveUser is read, then the policy is awaited.
ConnectAsk(c) ==
  /\ sock[c] = "new" /\ c \notin asked
  /\ asked' = asked \cup {c}
  /\ seen' = [seen EXCEPT ![c] = liveUser]
  /\ Quiet
  /\ UNCHANGED <<connector, sock, mode, releasing, slots, idVars, phase, total, entryVars>>

MayConnect(c) == Exclusive => seen[c] \in {None, UserOf[c]}

\* The policy refuses: the socket is never accepted.
Denied(c) ==
  /\ asked' = asked \ {c} /\ seen' = [seen EXCEPT ![c] = None]
  /\ sock' = [sock EXCEPT ![c] = "gone"]
  /\ Quiet
  /\ UNCHANGED <<connector, mode, releasing, slots, idVars, phase, total, entryVars>>

\* The policy allows: the socket is accepted and the previous one closed.
Accepted(c) ==
  /\ MayConnect(c)
  /\ asked' = asked \ {c} /\ seen' = [seen EXCEPT ![c] = None]
  /\ \E m \in Modes : mode' = [mode EXCEPT ![c] = m]
  /\ sock' = [Closed({connector}) EXCEPT ![c] = "open"]
  /\ connector' = c
  /\ slots' = slots \cup {c}
  /\ Quiet
  /\ UNCHANGED <<releasing, idVars, phase, total, entryVars>>

ConnectVerdict(c) == c \in asked /\ (Denied(c) \/ Accepted(c))

\* Mutant: dropConnector() forgets the pending requests.
DropConnectorKeepsPending ==
  connector' = None /\ UNCHANGED <<pending, idle, life, head, stream, phase>>

\* dropConnector(): every pending request fails, every socket is closed.
DropConnector ==
  /\ connector' = None
  /\ FailAndCleanup(pending)

\* Mutant: release() does not compare the socket with the current one.
ReleaseAny(c, caller) == releasing' = releasing \cup {<<c, caller>>}

\* release() of a connector socket: ignored unless it is the current one,
\* then suspended on policy.closed.
Release(c, caller) == releasing' = IF c = connector THEN releasing \cup {<<c, caller>>} ELSE releasing

\* /__neko/kill closes the connector and releases it.  Bound: one kill of a
\* connector is under way at a time.
Kill(c) ==
  /\ c = connector /\ <<c, "kill">> \notin releasing
  /\ sock' = Closed({c})
  /\ Release(c, "kill")
  /\ Quiet
  /\ UNCHANGED <<connector, mode, asked, seen, slots, idVars, phase, total, entryVars>>

\* External: the peer of a socket closes it, or its host or network dies.
PeerLoses(s) ==
  /\ sock[s] = "open"
  /\ sock' = [sock EXCEPT ![s] = "lost"]
  /\ Quiet
  /\ UNCHANGED <<connector, mode, asked, seen, releasing, slots, idVars, phase, total, entryVars>>

\* webSocketClose() or webSocketError() of a connector socket.
ConnectorEnds(c) ==
  /\ sock[c] \in {"lost", "closing"} /\ <<c, "event">> \notin releasing
  /\ sock' = [sock EXCEPT ![c] = IF c = connector THEN "closing" ELSE "gone"]
  /\ Release(c, "event")
  /\ Quiet
  /\ UNCHANGED <<connector, mode, asked, seen, slots, idVars, phase, total, entryVars>>

\* Mutant: the visitor sockets are not closed.
ReleaseEndKeepsVisitors(c, caller) ==
  /\ <<c, caller>> \in releasing
  /\ releasing' = releasing \ {<<c, caller>>}
  /\ slots' = slots \ {c}
  /\ DropConnector
  /\ sock' = [Closed(Conn) EXCEPT ![c] = IF caller = "event" THEN "gone" ELSE @]
  /\ Quiet
  /\ UNCHANGED <<mode, asked, seen, idVars, total>>

\* Mutant: the drop is skipped once the socket is off the list.
ReleaseEndOffList(c, caller) ==
  /\ <<c, caller>> \in releasing
  /\ releasing' = releasing \ {<<c, caller>>}
  /\ slots' = slots \ {c}
  /\ sock' = [sock EXCEPT ![c] = IF caller = "event" THEN "gone" ELSE @]
  /\ Quiet
  /\ UNCHANGED <<connector, mode, asked, seen, idVars, phase, total, entryVars>>

\* policy.closed returns and release() drops the connector.  A close event
\* is over, and its socket off the list, when its handler is.
ReleaseEnd(c, caller) ==
  /\ <<c, caller>> \in releasing
  /\ releasing' = releasing \ {<<c, caller>>}
  /\ slots' = slots \ {c}
  /\ DropConnector
  /\ sock' = [Closed(Socket) EXCEPT ![c] = IF caller = "event" THEN "gone" ELSE @]
  /\ Quiet
  /\ UNCHANGED <<mode, asked, seen, idVars, total>>

\* policy.closed rejects: release() ends there, contained by its caller.
ReleaseFails(c, caller) ==
  /\ ClosedFails /\ <<c, caller>> \in releasing
  /\ releasing' = releasing \ {<<c, caller>>}
  /\ sock' = [sock EXCEPT ![c] = IF caller = "event" THEN "gone" ELSE @]
  /\ Quiet
  /\ UNCHANGED <<connector, mode, asked, seen, slots, idVars, phase, total, entryVars>>

-----------------------------------------------------------------------------
(* serve(): a visitor request or upgrade, up to the frame that opens it.   *)

\* An answer given before the request took an id.
Turned(x, answer) ==
  /\ phase' = [phase EXCEPT ![x] = answer]
  /\ Quiet
  /\ UNCHANGED <<connVars, idVars, total, entryVars>>

\* Mutant: the counter is not advanced.
TakeIdInPlace(x) ==
  /\ rid' = [rid EXCEPT ![x] = nextId]
  /\ UNCHANGED nextId

TakeId(x) ==
  /\ nextId' = nextId + 1
  /\ rid' = [rid EXCEPT ![x] = nextId]

\* A new entry with both timers armed, its stream and its head promise; the
\* request head goes out, and the end of an absent body with it.
OpenEntry(r, hasBody) ==
  LET f(t) == [t |-> t, id |-> nextId] IN
  /\ pending' = pending \cup {r}
  /\ idle' = idle \cup {r}
  /\ life' = life \cup {r}
  /\ stream' = [stream EXCEPT ![r] = "open"]
  /\ phase' = [phase EXCEPT ![r] = IF hasBody THEN "upload" ELSE "await"]
  /\ sent' = IF hasBody THEN <<f("REQ_HEAD")>> ELSE <<f("REQ_HEAD"), f("REQ_END")>>
  /\ UNCHANGED <<connVars, total, head>>

\* The send of the request head throws: the entry is gone with the turn.
NoConnector(r) ==
  /\ phase' = [phase EXCEPT ![r] = "502"]
  /\ Quiet
  /\ UNCHANGED <<connVars, total, entryVars>>

\* Mutant: the cap is off by one.
RelayOverCap(r) ==
  IF Cardinality(pending) > MaxConcurrent
  THEN Turned(r, "refused")
  ELSE /\ TakeId(r)
       /\ IF CanSend THEN \E hasBody \in BOOLEAN : OpenEntry(r, hasBody) ELSE NoConnector(r)

Relay(r) ==
  IF Cardinality(pending) >= MaxConcurrent
  THEN Turned(r, "refused")
  ELSE /\ TakeId(r)
       /\ IF CanSend THEN \E hasBody \in BOOLEAN : OpenEntry(r, hasBody) ELSE NoConnector(r)

\* openWebSocket(): the cap counts every listed socket but one, taken to be
\* the connector; the visitor's socket is accepted and tagged before WS_OPEN
\* is sent, and closed if that send throws.
ListedSockets == {s \in Socket : sock[s] \in Listed}

\* Mutant: the cap is off by one.
OpenWebSocketOverCap(w) ==
  IF Cardinality(ListedSockets) > MaxWs + 1
  THEN Turned(w, "refused")
  ELSE /\ TakeId(w)
       /\ sock' = [sock EXCEPT ![w] = IF CanSend THEN "open" ELSE "closing"]
       /\ phase' = [phase EXCEPT ![w] = IF CanSend THEN "101" ELSE "502"]
       /\ sent' = IF CanSend THEN <<[t |-> "WS_OPEN", id |-> nextId]>> ELSE <<>>
       /\ UNCHANGED <<connector, mode, asked, seen, releasing, slots, total, entryVars>>

OpenWebSocket(w) ==
  IF Cardinality(ListedSockets) >= MaxWs + 1
  THEN Turned(w, "refused")
  ELSE /\ TakeId(w)
       /\ sock' = [sock EXCEPT ![w] = IF CanSend THEN "open" ELSE "closing"]
       /\ phase' = [phase EXCEPT ![w] = IF CanSend THEN "101" ELSE "502"]
       /\ sent' = IF CanSend THEN <<[t |-> "WS_OPEN", id |-> nextId]>> ELSE <<>>
       /\ UNCHANGED <<connector, mode, asked, seen, releasing, slots, total, entryVars>>

\* The token bucket may refuse; then the request is relayed.
Serve(x) ==
  \/ Turned(x, "refused")
  \/ x \in Req /\ Relay(x)
  \/ x \in Ws /\ OpenWebSocket(x)

\* A request comes in.
Arrive(x) ==
  /\ phase[x] = "idle"
  /\ \/ connector = None /\ Turned(x, "502")
     \/ connector # None /\ mode[connector] = "gate" /\ Turned(x, "refused")
     \/ connector # None /\ mode[connector] = "private" /\ Turned(x, "admit")
     \/ connector # None /\ mode[connector] = "open" /\ Serve(x)

\* admitVisitor() returns: a wall, or the request goes on.
Admit(x) ==
  /\ phase[x] = "admit"
  /\ Turned(x, "refused") \/ Serve(x)

-----------------------------------------------------------------------------
(* serve(): the upload, the race for the head, and the visitor's side.     *)

\* The body is at its end, or the tunnel or the visitor failed: the request
\* is answered, or waits for its head.
UploadLeft(r, next) ==
  /\ phase' = Resumed([phase EXCEPT ![r] = next], head)
  /\ total' = [total EXCEPT ![r] = 0]
  /\ UNCHANGED <<connVars, idVars, head, stream>>

\* Mutant: the running count may pass the cap.
UploadChunkOverCap(r) ==
  /\ phase[r] = "upload"
  /\ total' = [total EXCEPT ![r] = @ + 1]
  /\ Emit("REQ_BODY", rid[r])
  /\ UNCHANGED <<connVars, idVars, phase, entryVars>>

\* reader.read() returns a chunk.  The running count is checked before the
\* chunk is sent; a send that throws ends the request.
UploadChunk(r) ==
  /\ phase[r] = "upload"
  /\ \/ ~CanSend /\ Quiet /\ Cleanup({r}) /\ UploadLeft(r, "502")
     \/ /\ CanSend /\ total[r] >= BodyCap
        /\ Emit("ABORT", rid[r]) /\ Cleanup({r}) /\ UploadLeft(r, "413")
     \/ /\ CanSend /\ total[r] < BodyCap
        /\ total' = [total EXCEPT ![r] = @ + 1]
        /\ Emit("REQ_BODY", rid[r])
        /\ UNCHANGED <<connVars, idVars, phase, entryVars>>

\* reader.read() returns the end.
UploadEnd(r) ==
  /\ phase[r] = "upload"
  /\ Emit("REQ_END", rid[r])
  /\ IF CanSend
     THEN UploadLeft(r, "await") /\ UNCHANGED <<pending, idle, life>>
     ELSE UploadLeft(r, "502") /\ Cleanup({r})

\* reader.read() rejects: the visitor went away in the middle of its upload.
UploadBreaks(r) ==
  /\ phase[r] = "upload"
  /\ UploadLeft(r, "502") /\ Cleanup({r})
  /\ Quiet

\* Mutant: the timeout answers and leaves the entry to its timers.
HeadTimeoutKeepsEntry(r) ==
  /\ phase[r] = "await" /\ head[r] \in {"unset", "null"}
  /\ phase' = [phase EXCEPT ![r] = "504"]
  /\ Quiet
  /\ UNCHANGED <<connVars, idVars, total, entryVars>>

\* Mutant: the timeout is part of the entry, and goes with it.
HeadTimeoutOfEntry(r) ==
  /\ phase[r] = "await" /\ head[r] \in {"unset", "null"} /\ r \in pending
  /\ Emit("ABORT", rid[r])
  /\ head' = FailedHeads({r}) /\ stream' = FailedStreams({r}) /\ Cleanup({r})
  /\ phase' = [phase EXCEPT ![r] = "504"]
  /\ UNCHANGED <<connVars, idVars, total>>

\* Mutant: the abort is sent whether or not the entry is there.
HeadTimeoutAborts(r) ==
  /\ phase[r] = "await" /\ head[r] \in {"unset", "null"}
  /\ Emit("ABORT", rid[r])
  /\ LET S == {r} \cap pending IN
     head' = FailedHeads(S) /\ stream' = FailedStreams(S) /\ Cleanup(S)
  /\ phase' = [phase EXCEPT ![r] = "504"]
  /\ UNCHANGED <<connVars, idVars, total>>

\* The head timeout wins the race; the entry may be gone already.
HeadTimeout(r) ==
  /\ phase[r] = "await" /\ head[r] \in {"unset", "null"}
  /\ IF r \in pending THEN Emit("ABORT", rid[r]) ELSE Quiet
  /\ LET S == {r} \cap pending IN
     head' = FailedHeads(S) /\ stream' = FailedStreams(S) /\ Cleanup(S)
  /\ phase' = [phase EXCEPT ![r] = "504"]
  /\ UNCHANGED <<connVars, idVars, total>>

IdleFires(r) == r \in idle /\ Abort(r)

\* Mutant: the lifetime timer ends only requests without a head.
LifetimeBeforeHead(r) == r \in life /\ r \notin settled /\ Abort(r)

LifetimeFires(r) == r \in life /\ Abort(r)

\* The visitor drops a response body: the stream is cancelled, then aborted.
VisitorCancels(r) ==
  /\ phase[r] = "stream" /\ stream[r] = "open"
  /\ stream' = [stream EXCEPT ![r] = "cancelled"]
  /\ IF r \in pending THEN Emit("ABORT", rid[r]) ELSE Quiet
  /\ Cleanup({r})
  /\ UNCHANGED <<connVars, idVars, phase, total, head>>

-----------------------------------------------------------------------------
(* onControl(): a frame for a pending id, from any listed connector socket. *)
(* Frames with an unknown id, short frames and text are dropped: no step.  *)

FrameFor(r) == r \in pending /\ \E c \in Conn : sock[c] \in Listed

\* RES_HEAD whose JSON parses; of several heads only the first settles.
ResHead(r, kind) ==
  /\ FrameFor(r)
  /\ head' = [head EXCEPT ![r] = IF @ = "unset" THEN kind ELSE @]
  /\ phase' = Resumed(phase, head')
  /\ Touch(r)
  /\ Quiet
  /\ UNCHANGED <<connVars, idVars, total, pending, life, stream>>

\* RES_HEAD whose JSON does not parse.
ResHeadGarbled(r) == FrameFor(r) /\ Abort(r)

\* RES_HEAD whose JSON is null: headSettled is set before the field access
\* throws, so that the abort errors the stream and leaves the head unsettled.
ResHeadNull(r) ==
  /\ FrameFor(r)
  /\ head' = [head EXCEPT ![r] = IF @ = "unset" THEN "null" ELSE @]
  /\ stream' = [stream EXCEPT ![r] = IF @ = "open" THEN "errored" ELSE @]
  /\ Cleanup({r})
  /\ Emit("ABORT", rid[r])
  /\ UNCHANGED <<connVars, idVars, phase, total>>

\* RES_BODY: buffered; a stream that is no longer open ends the entry.
ResBody(r) ==
  /\ FrameFor(r)
  /\ IF stream[r] = "open" THEN Touch(r) /\ UNCHANGED <<pending, life>> ELSE Cleanup({r})
  /\ Quiet
  /\ UNCHANGED <<connVars, idVars, phase, total, head, stream>>

\* RES_BODY over responseOverflow.
ResBodyOverflows(r) == FrameFor(r) /\ stream[r] = "open" /\ Abort(r)

\* Mutant: the entry is deleted and the stream left open.
ResEndKeepsStream(r) ==
  /\ FrameFor(r)
  /\ Cleanup({r})
  /\ Quiet
  /\ UNCHANGED <<connVars, idVars, phase, total, head, stream>>

ResEnd(r) ==
  /\ FrameFor(r)
  /\ stream' = [stream EXCEPT ![r] = IF @ = "open" THEN "closed" ELSE @]
  /\ Cleanup({r})
  /\ Quiet
  /\ UNCHANGED <<connVars, idVars, phase, total, head>>

\* ABORT: the connector gave the request up; nothing is sent back.
AbortFrame(r) ==
  /\ FrameFor(r)
  /\ FailAndCleanup({r})
  /\ Quiet
  /\ UNCHANGED <<connVars, idVars, total>>

-----------------------------------------------------------------------------
(* Visitor WebSockets.                                                     *)

\* A visitor's message becomes WS_DATA.
WsMessage(w) ==
  /\ sock[w] \in Listed /\ connector # None
  /\ Emit("WS_DATA", rid[w])
  /\ UNCHANGED <<connVars, idVars, phase, total, entryVars>>

\* WS_CLOSE closes the first socket listed under the tag of id i.
Tagged(i) == {w \in Ws : sock[w] \in Listed /\ rid[w] = i}

WsCloseFrame(w) ==
  /\ w \in Tagged(rid[w]) /\ \E c \in Conn : sock[c] \in Listed
  /\ sock' = Closed({w})
  /\ Quiet
  /\ UNCHANGED <<connector, mode, asked, seen, releasing, slots, idVars, phase, total, entryVars>>

\* webSocketClose() or webSocketError() of a visitor socket.
WsEnds(w) ==
  /\ sock[w] \in {"lost", "closing"}
  /\ sock' = [sock EXCEPT ![w] = "gone"]
  /\ Emit("WS_CLOSE", rid[w])
  /\ UNCHANGED <<connector, mode, asked, seen, releasing, slots, idVars, phase, total, entryVars>>

-----------------------------------------------------------------------------
(* Hibernation: an object with no timer, no suspended call and no response *)
(* under way is evicted, and its sockets survive it.  The next event runs  *)
(* the constructor.                                                        *)

Dormant ==
  /\ idle = {} /\ life = {} /\ asked = {} /\ releasing = {}
  /\ \A x \in Visit : phase[x] \notin Suspended
  /\ \A r \in Req : ~(phase[r] = "stream" /\ stream[r] = "open")

\* The constructor: the first connector socket still listed, if any.  The
\* order of the list is the runtime's.
Reawaken ==
  /\ Hibernates /\ Dormant
  /\ nextId' = 1
  /\ pending' = {}
  /\ LET C == {c \in Conn : sock[c] \in Listed} IN
     IF C = {} THEN connector' = None ELSE connector' \in C
  /\ Quiet
  /\ UNCHANGED <<sock, mode, asked, seen, releasing, slots, rid, phase, total,
                 idle, life, head, stream>>

-----------------------------------------------------------------------------
\* With a policy that answers at once, a suspended call runs on before any
\* other event.
Settles ==
  \/ \E c \in Conn : ConnectVerdict(c)
  \/ \E c \in Conn, caller \in {"kill", "event"} : ReleaseEnd(c, caller) \/ ReleaseFails(c, caller)

ConnectorEvent ==
  \/ \E c \in Conn : ConnectAsk(c) \/ Kill(c) \/ ConnectorEnds(c)
  \/ \E s \in Socket : PeerLoses(s)
  \/ Reawaken

RequestEvent ==
  \E r \in Req :
    \/ Arrive(r) \/ Admit(r)
    \/ UploadChunk(r) \/ UploadEnd(r) \/ UploadBreaks(r)
    \/ HeadTimeout(r) \/ IdleFires(r) \/ LifetimeFires(r) \/ VisitorCancels(r)

FrameEvent ==
  \E r \in Req :
    \/ \E kind \in Heads : ResHead(r, kind)
    \/ ResHeadGarbled(r) \/ ResHeadNull(r)
    \/ ResBody(r) \/ ResBodyOverflows(r) \/ ResEnd(r) \/ AbortFrame(r)

SocketEvent ==
  \E w \in Ws :
    Arrive(w) \/ Admit(w) \/ WsMessage(w) \/ WsCloseFrame(w) \/ WsEnds(w)

Next ==
  \/ Settles
  \/ /\ PolicyYields \/ (asked = {} /\ releasing = {})
     /\ ConnectorEvent \/ RequestEvent \/ FrameEvent \/ SocketEvent

Spec == Init /\ [][Next]_vars

\* The runtime fires armed timers and delivers close events; local awaits
\* return.  FairPolicy is what a deployment must provide.
Fairness ==
  /\ \A r \in Req : WF_vars(Admit(r)) /\ WF_vars(HeadTimeout(r)) /\ WF_vars(LifetimeFires(r))
  /\ \A c \in Conn : WF_vars(ConnectorEnds(c))
FairPolicy ==
  /\ \A c \in Conn : WF_vars(ConnectVerdict(c))
  /\ \A c \in Conn, caller \in {"kill", "event"} : WF_vars(ReleaseEnd(c, caller))
LiveSpec == Spec /\ Fairness /\ FairPolicy

-----------------------------------------------------------------------------
(* Properties of requests.                                                 *)

\* Every entry of the pending map has both of its timers armed, and no timer
\* outlives its entry: each path that deletes or refreshes an entry clears or
\* re-arms exactly its own.  A stray timer would later abort whatever request
\* holds the id, and would keep the object from hibernating.
TimersMatchPending == idle = pending /\ life = pending

\* Two pending requests never share an id, so that a frame of the connector
\* and an abort reach the request they were meant for.
PendingKeysUnique == \A r, q \in pending : rid[r] = rid[q] => r = q

\* A visitor that holds a response body is never left reading it forever: a
\* body still open belongs to an entry whose timers will end it.  Every path
\* that deletes an entry after its head was settled ends the stream first.
HungFree(r) == phase[r] = "stream" /\ stream[r] = "open" => r \in pending
NoHungStream == \A r \in Req : HungFree(r)

\* An entry belongs to a call that uploads or waits for its head, or to the
\* answer made from that very head: what the tunnel answers by itself (refusals,
\* failed uploads, head timeouts, rejected heads) leaves none, whatever the race
\* of head, timeout, abort and loss.  The one error with an entry is the 500 for a
\* head that Response throws on; that entry is left to RES_END and its timers.
NoStaleEntry ==
  \A r \in pending :
    \/ phase[r] \in {"upload", "await"}
    \/ head[r] \in Heads /\ phase[r] = Answer[head[r]]

\* With no connector attached nothing is pending: no request waits on a tunnel
\* that is down, whatever order its close, a kill and its requests came in.
NoOrphanWait == connector = None => pending = {}

\* What makes the five invariants above inductive.  Of a request r: while it
\* is pending its stream is open, its head unset or resolved and its id below
\* nextId; a resolved head that serve() has yet to hand over is as good as
\* handed over; a call that has not taken an id has no entry and no head.
EntryInv(r) ==
  /\ r \in pending => stream[r] = "open" /\ head[r] \in {"unset"} \cup Heads /\ rid[r] < nextId
  /\ head[r] = "body" /\ phase[r] \in {"upload", "await", "stream"} /\ r \notin pending
       => stream[r] # "open"
  /\ phase[r] \in {"stream", "bodiless", "500"} => head[r] \in Heads /\ phase[r] = Answer[head[r]]
  /\ phase[r] \in {"idle", "admit"} => r \notin pending /\ head[r] = "unset"
  /\ phase[r] \in {"refused", "101", "502", "504", "413"} => r \notin pending

RequestInv ==
  /\ TimersMatchPending
  /\ PendingKeysUnique
  /\ NoOrphanWait
  /\ \A r \in Req : EntryInv(r)

\* The cap on concurrent streams holds although a private tunnel awaits the
\* visitor check between a request's arrival and its entry: the cap is read in
\* the turn that adds the entry.
ConcurrencyCapHolds == Cardinality(pending) <= MaxConcurrent

\* A request that waits for its head is answered, whatever the connector does
\* or fails to do: it answers, goes silent, is killed, or ends the response
\* before its head.
WaitEnds == \A r \in Req : (phase[r] = "await") ~> (phase[r] # "await")

\* Every entry leaves the pending map: the lifetime timer ends a response that
\* the connector keeps alive frame by frame.
PendingDrains == \A r \in Req : (r \in pending) ~> (r \notin pending)

\* What the connector is sent is one request or socket after another under ids
\* of their own: nothing of an upload after its end, no abort of what is over,
\* and after a restart of the ids nothing that could be taken for the new holder
\* of an old one, in whatever order timers, reads, frames and losses come.
Forwarded == INSTANCE Forwarding
  WITH Restarts <- Hibernates, id <- rid, frames <- sent, open <- pending,
       uploading <- {r \in Req : phase[r] = "upload"}, bridged <- {w \in Ws : sock[w] \in Listed}
FramesForwarded == Forwarded!Spec

\* What makes it inductive: a call has no id until it takes one, and every id
\* that is in use, or with no restart was ever used, is behind the counter.
IdInv ==
  /\ \A x \in Visit : phase[x] \in {"idle", "admit"} => rid[x] = 0
  /\ \A r \in Req : phase[r] = "upload" => rid[r] < nextId
  /\ ~Hibernates => \A x \in Visit : rid[x] < nextId
  /\ nextId # 0

(* Properties of the connector and the visitor sockets.                    *)

\* No visitor WebSocket stays open on a tunnel without a connector.
VisitorsFollowConnector == connector = None => \A w \in Ws : sock[w] # "open"

\* The cap on visitor WebSockets holds although it is computed from a list
\* that also has replaced connectors and closing sockets in it, and from which
\* the connector may be missing.
WebSocketCapHolds == Cardinality({w \in Ws : sock[w] = "open"}) <= MaxWs

\* The attached connector is a socket the runtime still lists, so that its
\* close event is still to come and will release the tunnel.
ConnectorListed == connector # None => sock[connector] \in Listed

\* A policy is told once of a connect that is over, and never of one that still
\* holds the tunnel: kill, the close event it causes, late close events of
\* others and releases that fail, in whatever order, do not give one slot back
\* twice.  That every slot is given back is not said, since it is not so: the
\* close event of a connector that was replaced is ignored.
SlotReleasedOnce ==
  /\ connector # None => connector \in slots
  /\ \A x, y \in releasing : x[1] \in slots /\ (x[1] = y[1] => x = y)

\* What makes it inductive where the policy answers at once: at most one call
\* is suspended, and it still sees the connector it started with.
OneSuspended ==
  /\ asked # {} => releasing = {} /\ \E c \in Conn : asked = {c} /\ seen[c] = liveUser
  /\ releasing # {} => /\ asked = {} /\ connector # None
                       /\ \E caller \in {"kill", "event"} : releasing = {<<connector, caller>>}

\* A live tunnel never passes from one account to another.
NoTakeover ==
  [][connector # None /\ connector' # None => UserOf[connector] = UserOf[connector']]_vars

\* The tunnel is dropped only by a release of the socket that holds it: a
\* replaced connector that closes late leaves its successor alone.
DroppedByItsOwnRelease ==
  [][connector # None /\ connector' = None =>
       \E caller \in {"kill", "event"} : <<connector, caller>> \in releasing \ releasing']_vars

\* A connector whose peer is gone does not hold the tunnel forever.
LostConnectorReleased ==
  \A c \in Conn : (connector = c /\ sock[c] = "lost") ~> (connector # c)

=============================================================================
