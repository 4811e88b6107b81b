----------------------------- MODULE Connector -----------------------------
(***************************************************************************)
(* The host connector (crates/neko/src/tunnel.rs): run() holds the         *)
(* WebSocket to the edge and reads its frames; a writer task owns the      *)
(* sending half and is fed by an unbounded channel; every request and      *)
(* every visitor WebSocket has a task of its own that talks to the guest.  *)
(* The tasks run on several threads.  They share the channel and three     *)
(* maps by id: upload bodies, abort handles and guest sockets.             *)
(*                                                                         *)
(* A step is one frame read, one frame written, or the piece of a task     *)
(* from one await to the next; where another thread can get between two    *)
(* effects of such a piece, it is two steps.                               *)
(***************************************************************************)
EXTENDS Integers, Sequences, FiniteSets

CONSTANTS
  Call,      \* visitor requests
  Sock,      \* visitor WebSockets
  MaxId,     \* ids the edge may use
  None,
  Terminal,  \* the tunnel carries a web terminal: Some(TermBridge)
  IdsReused, \* the edge may start again from id 1 (it hibernated)
  QueueBound \* bound: data waits while a channel, unbounded in the code, holds this much

ASSUME JobsAssumption == Call \cap Sock = {} /\ None \notin Call \cup Sock \cup Nat
ASSUME BoundsAssumption == MaxId \in Nat /\ QueueBound \in Nat
ASSUME SwitchesAssumption == {Terminal, IdsReused} \subseteq BOOLEAN

VARIABLES
  reader,   \* run(): "reading", "draining" in writer.await, "returned"
  writer,   \* the writer task: "on" or "off"
  queue,    \* the channel to the writer
  bodies,   \* whose upload sender run() holds under each id
  aborts,   \* whose Notify is in the map under each id
  sockets,  \* whose guest sender is in the map under each id
  notified, \* the calls whose notified() future was woken
  task,     \* where the task of each call stands
  bridge,   \* where the task of each visitor WebSocket stands
  shell,    \* the visitor WebSockets that are web terminals
  inbox,    \* messages of the visitor that a bridge has yet to forward
  id,       \* the id the edge gave to each call and socket
  holder,   \* the latest call or socket the edge gave each id to
  upload,   \* external: how far the edge is with the upload of each call
  aborted,  \* the calls whose ABORT was read
  closed,   \* the sockets whose WS_CLOSE was read
  dropped,  \* the calls that lost a chunk of an upload still wanted
  wire      \* the last frame written for each id, "request" or "upgrade" before

tables == <<bodies, aborts, sockets>>
edge == <<id, holder, upload, aborted, closed>>
callVars == <<task, notified, dropped>>
sockVars == <<bridge, shell, inbox>>
vars == <<reader, writer, queue, tables, edge, callVars, sockVars, wire>>

Id == 1..MaxId
Job == Call \cup Sock
FrameType == {"RES_HEAD", "RES_BODY", "RES_END", "ABORT", "WS_DATA", "WS_CLOSE"}
TaskState == {"none", "dial", "request", "headed", "stream", "leaving", "done"}
BridgeState == {"none", "dial", "bridge", "write", "close", "leaving", "done"}

TypeOK ==
  /\ reader \in {"reading", "draining", "returned"}
  /\ writer \in {"on", "off"}
  /\ queue \in Seq([t : FrameType, id : Id])
  /\ bodies \in [Id -> Call \cup {None}]
  /\ aborts \in [Id -> Call \cup {None}]
  /\ sockets \in [Id -> Sock \cup {None}]
  /\ notified \subseteq Call
  /\ task \in [Call -> TaskState]
  /\ bridge \in [Sock -> BridgeState]
  /\ shell \subseteq Sock
  /\ inbox \in [Sock -> 0..QueueBound]
  /\ id \in [Job -> Id \cup {None}]
  /\ holder \in [Id -> Job \cup {None}]
  /\ upload \in [Call -> {"none", "running", "ended", "broken"}]
  /\ aborted \subseteq Call
  /\ closed \subseteq Sock
  /\ dropped \subseteq Call
  /\ wire \in [Id -> FrameType \cup {"unused", "request", "upgrade"}]

Init ==
  /\ reader = "reading"
  /\ writer = "on"
  /\ queue = <<>>
  /\ bodies = [i \in Id |-> None]
  /\ aborts = [i \in Id |-> None]
  /\ sockets = [i \in Id |-> None]
  /\ notified = {}
  /\ task = [c \in Call |-> "none"]
  /\ bridge = [w \in Sock |-> "none"]
  /\ shell = {}
  /\ inbox = [w \in Sock |-> 0]
  /\ id = [j \in Job |-> None]
  /\ holder = [i \in Id |-> None]
  /\ upload = [c \in Call |-> "none"]
  /\ aborted = {}
  /\ closed = {}
  /\ dropped = {}
  /\ wire = [i \in Id |-> "unused"]

-----------------------------------------------------------------------------
(* Helpers.                                                                *)

Running(c) == task[c] \notin {"none", "done"}
Bridging(w) == bridge[w] \notin {"none", "done"}

\* Where the task of a job stands.  When run() has returned, the process is on
\* its way out and what its tasks still do is left out.
CallAt(c, states) == reader # "returned" /\ task[c] \in states
SockAt(w, states) == reader # "returned" /\ bridge[w] \in states

\* One frame of each type for the id i, in that order.
Frames(i, types) == [n \in 1..Len(types) |-> [t |-> types[n], id |-> i]]

\* tx.send on the channel; without the writer it fails and nothing is queued.
Send(i, types) == queue' = IF writer = "on" THEN queue \o Frames(i, types) ELSE queue

\* Room for one more body or data frame (a bound of the model alone).
Room == Len(queue) < QueueBound

\* The edge waits no longer for the answer of a call.
Settled(c) ==
  /\ upload[c] \in {"ended", "broken"}
  /\ c \in aborted \/ upload[c] = "broken" \/ wire[id[c]] \in {"RES_END", "ABORT"}

\* The edge counts its ids up from 1, and starts again after it hibernated,
\* which it does only while no request is pending; visitor sockets survive.
MayTake(i) ==
  /\ \A k \in 1..(i - 1) : holder[k] # None
  /\ holder[i] = None \/ (IdsReused /\ \A c \in Call : upload[c] = "none" \/ Settled(c))

\* The edge opens an id for a job.
Opens(j, i, kind) ==
  /\ reader = "reading" /\ id[j] = None /\ MayTake(i)
  /\ id' = [id EXCEPT ![j] = i]
  /\ holder' = [holder EXCEPT ![i] = j]
  /\ wire' = [wire EXCEPT ![i] = kind]

-----------------------------------------------------------------------------
(* run(): the frames of a request.                                         *)

\* REQ_HEAD: the upload sender and the abort handle are registered and the
\* task is spawned.
ReqHead(c, i) ==
  /\ Opens(c, i, "request")
  /\ bodies' = [bodies EXCEPT ![i] = c]
  /\ aborts' = [aborts EXCEPT ![i] = c]
  /\ task' = [task EXCEPT ![c] = "dial"]
  /\ upload' = [upload EXCEPT ![c] = "running"]
  /\ UNCHANGED <<reader, writer, queue, sockets, aborted, closed, notified, dropped, sockVars>>

\* REQ_HEAD for the terminal's own pages, or for any other when the terminal
\* is all there is: run() answers by itself (serve_term_asset, serve_redirect).
Page(c, i) ==
  /\ Terminal
  /\ Opens(c, i, "request")
  /\ task' = [task EXCEPT ![c] = "done"]
  /\ upload' = [upload EXCEPT ![c] = "running"]
  /\ \E types \in {<<"RES_HEAD", "RES_BODY", "RES_END">>, <<"RES_HEAD", "RES_END">>} :
       Send(i, types)
  /\ UNCHANGED <<reader, writer, tables, aborted, closed, notified, dropped, sockVars>>

\* REQ_BODY: the chunk goes to the guest if the sender is still there.  A chunk
\* of a request that is over or aborted is of no use to anyone.
ReqBody(c) ==
  /\ reader = "reading" /\ upload[c] = "running"
  /\ dropped' = IF bodies[id[c]] # c /\ Running(c) /\ c \notin aborted
                THEN dropped \cup {c} ELSE dropped
  /\ UNCHANGED <<reader, writer, queue, tables, edge, task, notified, sockVars, wire>>

\* REQ_END: dropping the sender ends the body the guest reads.
ReqEnd(c) ==
  /\ reader = "reading" /\ upload[c] = "running"
  /\ upload' = [upload EXCEPT ![c] = "ended"]
  /\ bodies' = [bodies EXCEPT ![id[c]] = None]
  /\ UNCHANGED <<reader, writer, queue, aborts, sockets, id, holder, aborted, closed,
                 callVars, sockVars, wire>>

\* External: the visitor goes away during its upload; the edge drops the
\* request and sends neither REQ_END nor ABORT (edge/src/tunnel.ts:287-290).
UploadBreaks(c) ==
  /\ upload[c] = "running" /\ reader # "returned"
  /\ upload' = [upload EXCEPT ![c] = "broken"]
  /\ UNCHANGED <<reader, writer, queue, tables, id, holder, aborted, closed,
                 callVars, sockVars, wire>>

\* Mutant: the handle is removed and nobody is told.
AbortUnheard(c) ==
  /\ reader = "reading" /\ upload[c] \in {"running", "ended"} /\ c \notin aborted
  /\ holder[id[c]] = c
  /\ aborted' = aborted \cup {c}
  /\ bodies' = [bodies EXCEPT ![id[c]] = None]
  /\ aborts' = [aborts EXCEPT ![id[c]] = None]
  /\ UNCHANGED <<reader, writer, queue, sockets, id, holder, upload, closed,
                 callVars, sockVars, wire>>

\* ABORT: both handles are removed.  notify_waiters wakes the notified()
\* future if the task has made one; there is no permit left for one made later.
AbortFrame(c) ==
  /\ reader = "reading" /\ upload[c] \in {"running", "ended"} /\ c \notin aborted
  /\ holder[id[c]] = c
  /\ aborted' = aborted \cup {c}
  /\ bodies' = [bodies EXCEPT ![id[c]] = None]
  /\ aborts' = [aborts EXCEPT ![id[c]] = None]
  /\ notified' = notified \cup {x \in Call : aborts[id[c]] = x /\ task[x] = "stream"}
  /\ UNCHANGED <<reader, writer, queue, sockets, id, holder, upload, closed,
                 task, dropped, sockVars, wire>>

-----------------------------------------------------------------------------
(* handle(): the task of a request.                                        *)

callTask == <<reader, writer, tables, edge, notified, dropped, sockVars, wire>>

\* The guest accepts the connection and the request is sent, its body streaming.
Dialed(c) ==
  /\ CallAt(c, {"dial"})
  /\ task' = [task EXCEPT ![c] = "request"]
  /\ UNCHANGED <<callTask, queue>>

\* Mutant: the error is only logged.
FailsSilently(c) ==
  /\ CallAt(c, {"dial", "request", "stream"})
  /\ task' = [task EXCEPT ![c] = "leaving"]
  /\ UNCHANGED <<callTask, queue>>

\* Nothing listens, the request is refused, no response comes, or its body
\* breaks off: the error goes to the edge.
Fails(c) ==
  /\ CallAt(c, {"dial", "request", "stream"})
  /\ Send(id[c], <<"ABORT">>)
  /\ task' = [task EXCEPT ![c] = "leaving"]
  /\ UNCHANGED callTask

\* Mutant: the upload sender is dropped when the head arrives.
RespondsAndDrops(c) ==
  /\ CallAt(c, {"request"})
  /\ Send(id[c], <<"RES_HEAD">>)
  /\ task' = [task EXCEPT ![c] = IF writer = "on" THEN "headed" ELSE "leaving"]
  /\ bodies' = [bodies EXCEPT ![id[c]] = None]
  /\ UNCHANGED <<reader, writer, aborts, sockets, edge, notified, dropped, sockVars, wire>>

\* The guest may answer before it has read the whole upload.
Responds(c) ==
  /\ CallAt(c, {"request"})
  /\ Send(id[c], <<"RES_HEAD">>)
  /\ task' = [task EXCEPT ![c] = IF writer = "on" THEN "headed" ELSE "leaving"]
  /\ UNCHANGED callTask

\* abort.notified(): from here on an ABORT is heard.
Listens(c) ==
  /\ CallAt(c, {"headed"})
  /\ task' = [task EXCEPT ![c] = "stream"]
  /\ UNCHANGED <<callTask, queue>>

Chunk(c) ==
  /\ CallAt(c, {"stream"}) /\ Room
  /\ Send(id[c], <<"RES_BODY">>)
  /\ task' = [task EXCEPT ![c] = IF writer = "on" THEN "stream" ELSE "leaving"]
  /\ UNCHANGED callTask

\* Mutant: no break after RES_END.
ResponseEndsOn(c) ==
  /\ CallAt(c, {"stream"})
  /\ Send(id[c], <<"RES_END">>)
  /\ UNCHANGED <<callTask, task>>

ResponseEnds(c) ==
  /\ CallAt(c, {"stream"})
  /\ Send(id[c], <<"RES_END">>)
  /\ task' = [task EXCEPT ![c] = "leaving"]
  /\ UNCHANGED callTask

\* The aborted branch of the select, which may lose against a ready chunk.
Stops(c) ==
  /\ CallAt(c, {"stream"}) /\ c \in notified
  /\ task' = [task EXCEPT ![c] = "leaving"]
  /\ UNCHANGED <<callTask, queue>>

\* Mutant: the abort handle stays in the map.
LeavesEntry(c) ==
  /\ CallAt(c, {"leaving"})
  /\ task' = [task EXCEPT ![c] = "done"]
  /\ UNCHANGED <<callTask, queue>>

\* The spawned block after handle(): the abort handle of the id is removed.
Leaves(c) ==
  /\ CallAt(c, {"leaving"})
  /\ task' = [task EXCEPT ![c] = "done"]
  /\ aborts' = [aborts EXCEPT ![id[c]] = None]
  /\ UNCHANGED <<reader, writer, queue, bodies, sockets, edge, notified, dropped, sockVars, wire>>

-----------------------------------------------------------------------------
(* run(): the frames of a visitor WebSocket.                               *)

WsOpen(w, i) ==
  /\ Opens(w, i, "upgrade")
  /\ sockets' = [sockets EXCEPT ![i] = w]
  /\ bridge' = [bridge EXCEPT ![w] = "dial"]
  /\ \/ shell' = shell
     \/ Terminal /\ shell' = shell \cup {w}
  /\ UNCHANGED <<reader, writer, queue, bodies, aborts, upload, aborted, closed, callVars, inbox>>

\* WS_DATA: queued for whoever is in the map.
WsData(w) ==
  /\ reader = "reading" /\ id[w] # None /\ w \notin closed
  /\ LET to == sockets[id[w]]
     IN  IF to = None THEN UNCHANGED inbox
         ELSE inbox[to] < QueueBound /\ inbox' = [inbox EXCEPT ![to] = @ + 1]
  /\ UNCHANGED <<reader, writer, queue, tables, edge, callVars, bridge, shell, wire>>

\* Mutant: the guest sender stays in the map.
WsCloseKept(w) ==
  /\ reader = "reading" /\ id[w] # None /\ w \notin closed
  /\ closed' = closed \cup {w}
  /\ UNCHANGED <<reader, writer, queue, tables, id, holder, upload, aborted,
                 callVars, sockVars, wire>>

\* WS_CLOSE: dropping the sender is how the task learns of it.
WsCloseFrame(w) ==
  /\ reader = "reading" /\ id[w] # None /\ w \notin closed
  /\ closed' = closed \cup {w}
  /\ sockets' = [sockets EXCEPT ![id[w]] = None]
  /\ UNCHANGED <<reader, writer, queue, bodies, aborts, id, holder, upload, aborted,
                 callVars, sockVars, wire>>

-----------------------------------------------------------------------------
(* ws_handle() and term_ws(): the task of a visitor WebSocket.             *)

bridgeTask == <<reader, writer, tables, edge, callVars, shell, wire>>

WsDialed(w) ==
  /\ SockAt(w, {"dial"})
  /\ bridge' = [bridge EXCEPT ![w] = "bridge"]
  /\ UNCHANGED <<bridgeTask, queue, inbox>>

\* The dial, the handshake, the shell or a write to the guest fails: the
\* caller tells the edge.
WsFails(w) ==
  /\ SockAt(w, {"dial", "write"})
  /\ Send(id[w], <<"WS_CLOSE">>)
  /\ bridge' = [bridge EXCEPT ![w] = "leaving"]
  /\ UNCHANGED <<bridgeTask, inbox>>

\* Mutant: a message is taken that is not there.
ForwardsEmpty(w) ==
  /\ SockAt(w, {"bridge"})
  /\ inbox' = [inbox EXCEPT ![w] = @ - 1]
  /\ bridge' = [bridge EXCEPT ![w] = "write"]
  /\ UNCHANGED <<bridgeTask, queue>>

\* from_edge.recv(): a message of the visitor is taken and written to the
\* guest.  The write is awaited, without a timeout and outside the select.
Forwards(w) ==
  /\ SockAt(w, {"bridge"}) /\ inbox[w] > 0
  /\ inbox' = [inbox EXCEPT ![w] = @ - 1]
  /\ bridge' = [bridge EXCEPT ![w] = "write"]
  /\ UNCHANGED <<bridgeTask, queue>>

\* from_edge.recv() is None: nothing is queued and no sender is left.  A shell's
\* writer is dropped; a guest WebSocket is written a Close, which is awaited too.
VisitorClosed(w) ==
  /\ SockAt(w, {"bridge"}) /\ inbox[w] = 0 /\ sockets[id[w]] # w
  /\ bridge' = [bridge EXCEPT ![w] = IF w \in shell THEN "leaving" ELSE "close"]
  /\ UNCHANGED <<bridgeTask, queue, inbox>>

\* The guest has room for what is written.  An error of the Close is ignored.
Written(w) ==
  /\ SockAt(w, {"write", "close"})
  /\ bridge' = [bridge EXCEPT ![w] = IF @ = "write" THEN "bridge" ELSE "leaving"]
  /\ UNCHANGED <<bridgeTask, queue, inbox>>

GuestData(w) ==
  /\ SockAt(w, {"bridge"}) /\ Room
  /\ Send(id[w], <<"WS_DATA">>)
  /\ bridge' = [bridge EXCEPT ![w] = IF writer = "on" THEN "bridge" ELSE "leaving"]
  /\ UNCHANGED <<bridgeTask, inbox>>

\* The guest closes; a shell says how it exited first.  A guest socket that
\* breaks is reported by ws_handle and once more by its caller.
GuestEnds(w) ==
  /\ SockAt(w, {"bridge"})
  /\ \/ Send(id[w], <<"WS_CLOSE">>)
     \/ w \in shell /\ Send(id[w], <<"WS_DATA", "WS_CLOSE">>)
     \/ w \notin shell /\ Send(id[w], <<"WS_CLOSE", "WS_CLOSE">>)
  /\ bridge' = [bridge EXCEPT ![w] = "leaving"]
  /\ UNCHANGED <<bridgeTask, inbox>>

\* The spawned block after the bridge: the guest sender of the id is removed.
WsLeaves(w) ==
  /\ SockAt(w, {"leaving"})
  /\ bridge' = [bridge EXCEPT ![w] = "done"]
  /\ sockets' = [sockets EXCEPT ![id[w]] = None]
  /\ UNCHANGED <<reader, writer, queue, bodies, aborts, edge, callVars, shell, inbox, wire>>

-----------------------------------------------------------------------------
(* The socket to the edge.                                                 *)

\* The writer task puts a frame on the wire, while the socket is up.
Write ==
  /\ writer = "on" /\ reader = "reading" /\ queue # <<>>
  /\ wire' = [wire EXCEPT ![Head(queue).id] = Head(queue).t]
  /\ queue' = Tail(queue)
  /\ UNCHANGED <<reader, writer, tables, edge, callVars, sockVars>>

\* A write fails when the socket breaks, and always after a Close: the writer
\* ends and with it the receiving half of the channel.
WriteFails ==
  /\ writer = "on" /\ queue # <<>> /\ reader # "returned"
  /\ writer' = "off"
  /\ queue' = <<>>
  /\ UNCHANGED <<reader, tables, edge, callVars, sockVars, wire>>

\* Mutant: run() keeps its tx while it waits.
WriterHeld ==
  /\ writer = "on" /\ queue = <<>> /\ reader = "returned"
  /\ writer' = "off"
  /\ UNCHANGED <<reader, queue, tables, edge, callVars, sockVars, wire>>

\* rx.recv() is None: run() and every task dropped their tx.
WriterEnds ==
  /\ writer = "on" /\ queue = <<>> /\ reader = "draining"
  /\ ~\E c \in Call : Running(c)
  /\ ~\E w \in Sock : Bridging(w)
  /\ writer' = "off"
  /\ UNCHANGED <<reader, queue, tables, edge, callVars, sockVars, wire>>

\* A Close frame or the end of the stream: run() drops its tx, then waits.
ReaderEnds ==
  /\ reader = "reading"
  /\ reader' = "draining"
  /\ UNCHANGED <<writer, queue, tables, edge, callVars, sockVars, wire>>

\* The locals of run() go, bodies with them; the tasks share the other maps.
Return ==
  /\ reader' = "returned"
  /\ bodies' = [i \in Id |-> None]
  /\ UNCHANGED <<writer, queue, aborts, sockets, edge, callVars, sockVars, wire>>

\* A read error ends run() at once (msg?), the end of the writer ends the wait.
ReaderFails == reader = "reading" /\ Return

WriterAwaited == reader = "draining" /\ writer = "off" /\ Return

-----------------------------------------------------------------------------
CallStep(c) ==
  \/ \E i \in Id : ReqHead(c, i) \/ Page(c, i)
  \/ ReqBody(c) \/ ReqEnd(c) \/ UploadBreaks(c) \/ AbortFrame(c)
  \/ Dialed(c) \/ Fails(c) \/ Responds(c) \/ Listens(c)
  \/ Chunk(c) \/ ResponseEnds(c) \/ Stops(c) \/ Leaves(c)

SockStep(w) ==
  \/ \E i \in Id : WsOpen(w, i)
  \/ WsData(w) \/ WsCloseFrame(w)
  \/ WsDialed(w) \/ WsFails(w) \/ Forwards(w) \/ VisitorClosed(w) \/ Written(w)
  \/ GuestData(w) \/ GuestEnds(w) \/ WsLeaves(w)

LinkStep == Write \/ WriteFails \/ WriterEnds \/ ReaderEnds \/ ReaderFails \/ WriterAwaited

Next ==
  \/ \E c \in Call : CallStep(c)
  \/ \E w \in Sock : SockStep(w)
  \/ LinkStep

Spec == Init /\ [][Next]_vars

\* What tokio gives: a task that can go on does, and select! takes a branch
\* that stays ready.  The writer comes to the frames queued.
Scheduled ==
  /\ \A c \in Call : WF_vars(Listens(c)) /\ WF_vars(Stops(c)) /\ WF_vars(Leaves(c))
  /\ \A w \in Sock : WF_vars(Forwards(w)) /\ WF_vars(VisitorClosed(w)) /\ WF_vars(WsLeaves(w))
  /\ WF_vars(Write \/ WriteFails)
  /\ WF_vars(WriterEnds) /\ WF_vars(WriterAwaited)

\* What a guest must give, since nothing here has a timeout: a dial comes to an
\* end, a request whose body ended is answered, a response goes on or ends, and
\* a WebSocket reads what it is written or breaks.  It may stay silent for good.
FairGuest ==
  /\ \A c \in Call : WF_vars(Dialed(c) \/ (CallAt(c, {"dial"}) /\ Fails(c)))
                     /\ WF_vars(CallAt(c, {"request"}) /\ bodies[id[c]] # c
                                /\ (Responds(c) \/ Fails(c)))
                     /\ WF_vars(Chunk(c) \/ ResponseEnds(c))
  /\ \A w \in Sock : /\ WF_vars(WsDialed(w) \/ (SockAt(w, {"dial"}) /\ WsFails(w)))
                     /\ WF_vars(Written(w) \/ (SockAt(w, {"write"}) /\ WsFails(w)))

FairSpec == Spec /\ Scheduled /\ FairGuest

-----------------------------------------------------------------------------
(* Properties.                                                             *)

\* On the wire every id carries one answer, in order: no frame of a request
\* after its end, nothing before its head, no data on a closed WebSocket.
OnWire == INSTANCE Exchange WITH answer <- wire
AnswersInOrder == OnWire!Spec

\* The frames for an id that are queued or were written last.
Told(i) == {wire[i]} \cup {queue[n].t : n \in {m \in 1..Len(queue) : queue[m].id = i}}

\* A task never ends in silence: the edge has the end of the answer or an
\* ABORT, unless it aborted the request itself or cannot be reached.
EveryCallAnswered ==
  \A c \in Call : (task[c] = "done" /\ writer = "on" /\ c \notin aborted)
                    => Told(id[c]) \cap {"RES_END", "ABORT"} # {}

\* The edge can reach what runs: the handles of a request that it has not
\* aborted and of a WebSocket that it has not closed are those of its task.  A
\* task that ended leaves no abort handle and no guest sender behind.  An upload
\* sender goes with REQ_END or ABORT and not with its task: one that neither
\* comes for, a broken upload's, stays.
HandlesFollowTasks ==
  /\ \A c \in Call : (Running(c) /\ c \notin aborted) => aborts[id[c]] = c
  /\ \A w \in Sock : (Bridging(w) /\ w \notin closed) => sockets[id[w]] = w
  /\ \A i \in Id : /\ \A c \in Call : aborts[i] = c => Running(c)
                   /\ \A w \in Sock : sockets[i] = w => Bridging(w)
                   /\ \A c \in Call : bodies[i] = c => upload[c] # "ended" /\ c \notin aborted

\* While run() lives, a guest sees the end of an upload only if the edge ended
\* or aborted it, and no chunk of it is missing until then.
UploadIntact ==
  /\ dropped = {}
  /\ \A c \in Call : (Running(c) /\ c \notin aborted /\ upload[c] # "ended" /\ reader # "returned")
                       => bodies[id[c]] = c

\* A response that the edge aborts while its task listens comes to its end,
\* although the select may prefer chunk after chunk.
AbortHeeded ==
  \A c \in Call :
    [](task[c] = "stream" /\ c \notin aborted =>
         [](c \in aborted => <>(task[c] = "done" \/ reader = "returned")))

\* What the edge aborts ends.
AbortEnds == \A c \in Call : (c \in aborted) ~> (task[c] = "done" \/ reader = "returned")

\* A visitor that closes its WebSocket ends the guest's, after what it sent
\* before is forwarded, and even if the guest never sends: the task finds the
\* queue drained and closed.  It needs a guest that reads.
ClosedSocketEnds == \A w \in Sock : (w \in closed) ~> (~Bridging(w) \/ reader = "returned")

\* Once the edge closes the socket, run() comes to its end where no upload is
\* left open and no WebSocket is left: the writer waits for every task.
DrainReturns ==
  (reader = "draining" /\ (\A i \in Id : bodies[i] = None) /\ ~\E w \in Sock : Bridging(w))
     ~> (reader = "returned")
=============================================================================
