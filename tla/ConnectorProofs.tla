-------------------------- MODULE ConnectorProofs --------------------------
(***************************************************************************)
(* Proofs about Connector: type correctness; that handles follow tasks and *)
(* uploads stay whole; that every call is answered; and that the wire      *)
(* implements Exchange.  All but the first hold while the edge does not    *)
(* use an id again.                                                        *)
(***************************************************************************)
EXTENDS Connector, SequenceTheorems, TLAPS

(* Types.                                                                  *)

Frame == [t : FrameType, id : Id]

\* A job has an id from the moment the edge opened it.
Numbered ==
  /\ \A c \in Call : /\ task[c] = "none" <=> id[c] = None
                     /\ upload[c] = "none" <=> id[c] = None
  /\ \A w \in Sock : bridge[w] = "none" <=> id[w] = None
  /\ \A c \in aborted : id[c] # None
  /\ \A w \in closed : id[w] # None

\* Sending keeps the channel a sequence of frames.
LEMMA SendType ==
  ASSUME NEW i \in Id, NEW types \in Seq(FrameType), queue \in Seq(Frame), Send(i, types)
  PROVE  queue' \in Seq(Frame)
<1>1. Len(types) \in Nat /\ \A n \in 1..Len(types) : types[n] \in FrameType
  BY LenProperties, ElementOfSeq
<1>2. Frames(i, types) \in Seq(Frame)
  BY <1>1 DEF Frames, Frame
<1>3. queue \o Frames(i, types) \in Seq(Frame)
  BY <1>2, ConcatProperties
<1> QED BY <1>3 DEF Send

\* The frames of a step are frames.
LEMMA FrameLists ==
  /\ \A t \in FrameType : <<t>> \in Seq(FrameType)
  /\ \A t, u \in FrameType : <<t, u>> \in Seq(FrameType)
  /\ \A t, u, v \in FrameType : <<t, u, v>> \in Seq(FrameType)
  /\ {"RES_HEAD", "RES_BODY", "RES_END", "ABORT", "WS_DATA", "WS_CLOSE"} \subseteq FrameType
BY DEF FrameType

\* What opening an id does to the ids.
LEMMA OpensTypes ==
  ASSUME TypeOK, NEW j \in Job, NEW i \in Id, NEW kind \in {"request", "upgrade"}, Opens(j, i, kind)
  PROVE  /\ id' \in [Job -> Id \cup {None}]
         /\ holder' \in [Id -> Job \cup {None}]
         /\ wire' \in [Id -> FrameType \cup {"unused", "request", "upgrade"}]
         /\ id[j] = None /\ id'[j] = i /\ i # None
         /\ \A k \in Job : k # j => id'[k] = id[k]
<1>1. i # None
  BY JobsAssumption, BoundsAssumption DEF Id
<1> QED BY <1>1 DEF TypeOK, Opens

\* The steps of run() for a call keep the types.
LEMMA CallFrameTypes ==
  ASSUME TypeOK, Numbered, NEW c \in Call,
         \/ \E i \in Id : ReqHead(c, i) \/ Page(c, i)
         \/ ReqBody(c) \/ ReqEnd(c) \/ UploadBreaks(c) \/ AbortFrame(c)
  PROVE  TypeOK' /\ Numbered'
<1>a. c \in Job /\ Call \cap Sock = {}
  BY JobsAssumption DEF Job
<1>1. ASSUME NEW i \in Id, ReqHead(c, i) PROVE TypeOK' /\ Numbered'
  <2>1. Opens(c, i, "request")
    BY <1>1 DEF ReqHead
  <2> HIDE DEF Opens
  <2>2. TypeOK'
    BY <1>1, <1>a, <2>1, OpensTypes DEF TypeOK, ReqHead, TaskState, sockVars
  <2>n. id[c] = None /\ id'[c] # None /\ \A k \in Job : k # c => id'[k] = id[k]
    BY <1>a, <2>1, OpensTypes
  <2>c. \A x \in Call : /\ task'[x] = "none" <=> id'[x] = None
                        /\ upload'[x] = "none" <=> id'[x] = None
    BY <1>1, <2>n DEF TypeOK, Numbered, ReqHead, Job
  <2>w. \A w \in Sock : bridge'[w] = "none" <=> id'[w] = None
    BY <1>1, <1>a, <2>n DEF TypeOK, Numbered, ReqHead, sockVars, Job
  <2>u. /\ \A x \in aborted' : x \in Job /\ id[x] # None
        /\ \A x \in closed' : x \in Job /\ id[x] # None
    BY <1>1 DEF TypeOK, Numbered, ReqHead, Job
  <2>3. Numbered'
    BY <2>n, <2>c, <2>w, <2>u DEF Numbered
  <2> QED BY <2>2, <2>3
<1>2. ASSUME NEW i \in Id, Page(c, i) PROVE TypeOK' /\ Numbered'
  <2>1. Opens(c, i, "request")
    BY <1>2 DEF Page
  <2>2. queue' \in Seq(Frame)
    BY <1>2, SendType, FrameLists DEF Page, TypeOK, Frame
  <2> HIDE DEF Opens
  <2>3. TypeOK'
    BY <1>2, <1>a, <2>1, <2>2, OpensTypes DEF TypeOK, Page, TaskState, sockVars, tables, Frame
  <2>n. id[c] = None /\ id'[c] # None /\ \A k \in Job : k # c => id'[k] = id[k]
    BY <1>a, <2>1, OpensTypes
  <2>c. \A x \in Call : /\ task'[x] = "none" <=> id'[x] = None
                        /\ upload'[x] = "none" <=> id'[x] = None
    BY <1>2, <2>n DEF TypeOK, Numbered, Page, Job
  <2>w. \A w \in Sock : bridge'[w] = "none" <=> id'[w] = None
    BY <1>2, <1>a, <2>n DEF TypeOK, Numbered, Page, sockVars, Job
  <2>u. /\ \A x \in aborted' : x \in Job /\ id[x] # None
        /\ \A x \in closed' : x \in Job /\ id[x] # None
    BY <1>2 DEF TypeOK, Numbered, Page, Job
  <2>4. Numbered'
    BY <2>n, <2>c, <2>w, <2>u DEF Numbered
  <2> QED BY <2>3, <2>4
<1>3. CASE ReqBody(c)
  BY <1>3 DEF TypeOK, Numbered, ReqBody, tables, edge, sockVars
<1>4. CASE ReqEnd(c)
  BY <1>4, <1>a DEF TypeOK, Numbered, ReqEnd, callVars, sockVars
<1>5. CASE UploadBreaks(c)
  BY <1>5, <1>a DEF TypeOK, Numbered, UploadBreaks, tables, callVars, sockVars
<1>6. CASE AbortFrame(c)
  BY <1>6, <1>a DEF TypeOK, Numbered, AbortFrame, sockVars
<1> QED BY <1>1, <1>2, <1>3, <1>4, <1>5, <1>6

\* The steps of the task of a call keep the types.
LEMMA CallTaskTypes ==
  ASSUME TypeOK, Numbered, NEW c \in Call,
         \/ Dialed(c) \/ Fails(c) \/ Responds(c) \/ Listens(c)
         \/ Chunk(c) \/ ResponseEnds(c) \/ Stops(c) \/ Leaves(c)
  PROVE  TypeOK' /\ Numbered'
<1>a. task[c] # "none" /\ id[c] \in Id
  BY DEF TypeOK, Numbered, Job, CallAt, Dialed, Fails, Responds, Listens, Chunk, ResponseEnds, Stops, Leaves
<1>b. queue' \in Seq(Frame)
  BY <1>a, SendType, FrameLists DEF TypeOK, Frame, Dialed, Fails, Responds, Listens, Chunk, ResponseEnds, Stops, Leaves
<1>c. /\ task' \in [Call -> TaskState]
      /\ \A x \in Call : task'[x] = "none" <=> task[x] = "none"
  BY <1>a DEF TypeOK, TaskState, CallAt, Dialed, Fails, Responds, Listens, Chunk, ResponseEnds, Stops, Leaves
<1>d. UNCHANGED <<reader, writer, bodies, sockets, edge, notified, dropped, sockVars, wire>>
  BY DEF callTask, tables, Dialed, Fails, Responds, Listens, Chunk, ResponseEnds, Stops, Leaves
<1>e. aborts' \in [Id -> Call \cup {None}]
  BY DEF TypeOK, callTask, tables, Dialed, Fails, Responds, Listens, Chunk, ResponseEnds, Stops, Leaves
<1>1. TypeOK'
  BY <1>b, <1>c, <1>d, <1>e DEF TypeOK, Frame, edge, sockVars
<1>2. Numbered'
  BY <1>c, <1>d DEF Numbered, edge, sockVars
<1> QED BY <1>1, <1>2

\* The steps of run() for a WebSocket keep the types.
LEMMA SockFrameTypes ==
  ASSUME TypeOK, Numbered, NEW w \in Sock,
         (\E i \in Id : WsOpen(w, i)) \/ WsData(w) \/ WsCloseFrame(w)
  PROVE  TypeOK' /\ Numbered'
<1>a. w \in Job /\ Call \cap Sock = {}
  BY JobsAssumption DEF Job
<1>1. ASSUME NEW i \in Id, WsOpen(w, i) PROVE TypeOK' /\ Numbered'
  <2>1. Opens(w, i, "upgrade")
    BY <1>1 DEF WsOpen
  <2> HIDE DEF Opens
  <2>2. TypeOK'
    BY <1>1, <1>a, <2>1, OpensTypes DEF TypeOK, WsOpen, BridgeState, callVars
  <2>n. id[w] = None /\ id'[w] # None /\ \A k \in Job : k # w => id'[k] = id[k]
    BY <1>a, <2>1, OpensTypes
  <2>c. \A c \in Call : /\ task'[c] = "none" <=> id'[c] = None
                        /\ upload'[c] = "none" <=> id'[c] = None
    BY <1>1, <1>a, <2>n DEF TypeOK, Numbered, WsOpen, callVars, Job
  <2>w. \A x \in Sock : bridge'[x] = "none" <=> id'[x] = None
    BY <1>1, <2>n DEF TypeOK, Numbered, WsOpen, Job
  <2>u. /\ \A x \in aborted' : x \in Job /\ id[x] # None
        /\ \A x \in closed' : x \in Job /\ id[x] # None
    BY <1>1 DEF TypeOK, Numbered, WsOpen, Job
  <2>3. Numbered'
    BY <2>n, <2>c, <2>w, <2>u DEF Numbered
  <2> QED BY <2>2, <2>3
<1>2. CASE WsData(w)
  <2>1. inbox' \in [Sock -> 0..QueueBound]
    BY <1>2, BoundsAssumption DEF WsData, TypeOK
  <2> QED BY <1>2, <2>1 DEF TypeOK, Numbered, WsData, tables, edge, callVars
<1>3. CASE WsCloseFrame(w)
  BY <1>3, <1>a DEF TypeOK, Numbered, WsCloseFrame, callVars, sockVars
<1> QED BY <1>1, <1>2, <1>3

\* The steps of the task of a WebSocket keep the types.
LEMMA BridgeTypes ==
  ASSUME TypeOK, Numbered, NEW w \in Sock,
         \/ WsDialed(w) \/ WsFails(w) \/ Forwards(w) \/ VisitorClosed(w) \/ Written(w)
         \/ GuestData(w) \/ GuestEnds(w) \/ WsLeaves(w)
  PROVE  TypeOK' /\ Numbered'
<1>a. bridge[w] # "none" /\ id[w] \in Id
  BY DEF TypeOK, Numbered, Job, SockAt, WsDialed, WsFails, Forwards, VisitorClosed, Written, GuestData, GuestEnds, WsLeaves
<1>b. queue' \in Seq(Frame)
  BY <1>a, SendType, FrameLists DEF TypeOK, Frame, WsDialed, WsFails, Forwards, VisitorClosed, Written, GuestData, GuestEnds, WsLeaves
<1>c. /\ bridge' \in [Sock -> BridgeState]
      /\ \A x \in Sock : bridge'[x] = "none" <=> bridge[x] = "none"
  BY <1>a DEF TypeOK, BridgeState, SockAt, WsDialed, WsFails, Forwards, VisitorClosed, Written, GuestData, GuestEnds, WsLeaves
<1>d. UNCHANGED <<reader, writer, bodies, aborts, edge, callVars, shell, wire>>
  BY DEF bridgeTask, tables, WsDialed, WsFails, Forwards, VisitorClosed, Written, GuestData, GuestEnds, WsLeaves
<1>e. sockets' \in [Id -> Sock \cup {None}]
  BY DEF TypeOK, bridgeTask, tables, WsDialed, WsFails, Forwards, VisitorClosed, Written, GuestData, GuestEnds, WsLeaves
<1>f. inbox' \in [Sock -> 0..QueueBound]
  <2>1. CASE Forwards(w)
    <3>1. inbox[w] - 1 \in 0..QueueBound
      BY <2>1, BoundsAssumption DEF TypeOK, Forwards
    <3> QED BY <2>1, <3>1 DEF TypeOK, Forwards
  <2>2. CASE ~Forwards(w)
    BY <2>2 DEF TypeOK, WsDialed, WsFails, VisitorClosed, Written, GuestData, GuestEnds, WsLeaves
  <2> QED BY <2>1, <2>2
<1>1. TypeOK'
  BY <1>b, <1>c, <1>d, <1>e, <1>f DEF TypeOK, Frame, edge, callVars
<1>2. Numbered'
  BY <1>c, <1>d DEF Numbered, edge, callVars
<1> QED BY <1>1, <1>2

\* The steps of the socket to the edge keep the types.
LEMMA LinkTypes ==
  ASSUME TypeOK, Numbered, LinkStep
  PROVE  TypeOK' /\ Numbered'
<1>1. CASE Write
  <2>1. Head(queue) \in Frame /\ Tail(queue) \in Seq(Frame)
    BY <1>1, HeadTailProperties DEF Write, TypeOK, Frame
  <2> QED BY <1>1, <2>1 DEF TypeOK, Numbered, Write, Frame, tables, edge, callVars, sockVars
<1>2. CASE WriteFails
  BY <1>2 DEF TypeOK, Numbered, WriteFails, tables, edge, callVars, sockVars
<1>3. CASE WriterEnds
  BY <1>3 DEF TypeOK, Numbered, WriterEnds, tables, edge, callVars, sockVars
<1>4. CASE ReaderEnds
  BY <1>4 DEF TypeOK, Numbered, ReaderEnds, tables, edge, callVars, sockVars
<1>5. CASE ReaderFails \/ WriterAwaited
  BY <1>5 DEF TypeOK, Numbered, ReaderFails, WriterAwaited, Return, edge, callVars, sockVars
<1> QED BY <1>1, <1>2, <1>3, <1>4, <1>5 DEF LinkStep

\* Every step keeps the types.
LEMMA TypeStep ==
  ASSUME TypeOK, Numbered, [Next]_vars
  PROVE  TypeOK' /\ Numbered'
<1>1. CASE UNCHANGED vars
  BY <1>1 DEF TypeOK, Numbered, vars, tables, edge, callVars, sockVars
<1>2. ASSUME NEW c \in Call, CallStep(c) PROVE TypeOK' /\ Numbered'
  BY <1>2, CallFrameTypes, CallTaskTypes DEF CallStep
<1>3. ASSUME NEW w \in Sock, SockStep(w) PROVE TypeOK' /\ Numbered'
  BY <1>3, SockFrameTypes, BridgeTypes DEF SockStep
<1> QED BY <1>1, <1>2, <1>3, LinkTypes DEF Next

\* The state variables keep their types, and jobs their ids, in every behavior.
THEOREM TypeCorrect == Spec => [](TypeOK /\ Numbered)
<1>1. Init => TypeOK /\ Numbered
  <2>1. SUFFICES ASSUME Init PROVE TypeOK /\ Numbered
    OBVIOUS
  <2>2. queue \in Seq(Frame)
    BY <2>1, EmptySeq DEF Init
  <2>3. inbox \in [Sock -> 0..QueueBound]
    BY <2>1, BoundsAssumption DEF Init
  <2> QED BY <2>1, <2>2, <2>3 DEF Init, TypeOK, Numbered, TaskState, BridgeState, Frame, Job
<1>2. TypeOK /\ Numbered /\ [Next]_vars => TypeOK' /\ Numbered'
  BY TypeStep
<1> QED BY <1>1, <1>2, PTL DEF Spec

-----------------------------------------------------------------------------
(* Handles and uploads, while ids are not used again.                      *)

UniqueIds == \A j \in Job : id[j] # None => holder[id[j]] = j

HandleInv ==
  /\ UniqueIds
  /\ \A i \in Id, c \in Call : aborts[i] = c => id[c] = i
  /\ \A i \in Id, w \in Sock : sockets[i] = w => id[w] = i
  /\ \A i \in Id, c \in Call : bodies[i] = c => id[c] = i
  /\ notified \subseteq aborted
  /\ HandlesFollowTasks
  /\ UploadIntact

\* An id that the edge opens belongs to no job yet.
LEMMA OpensFresh ==
  ASSUME ~IdsReused, TypeOK, UniqueIds, NEW j \in Job, NEW i \in Id,
         NEW kind \in {"request", "upgrade"}, Opens(j, i, kind)
  PROVE  /\ holder[i] = None
         /\ \A k \in Job : id[k] # i
         /\ UniqueIds'
<1>1. holder[i] = None
  BY DEF Opens, MayTake
<1>2. \A k \in Job : id[k] # i
  BY <1>1, JobsAssumption, BoundsAssumption DEF UniqueIds, Job, Id, TypeOK
<1>3. UniqueIds'
  BY <1>1, <1>2, OpensTypes DEF UniqueIds, Opens, TypeOK
<1> QED BY <1>1, <1>2, <1>3

\* run() keeps the handles when it reads a frame of a request.
LEMMA CallFrameHandles ==
  ASSUME ~IdsReused, TypeOK, Numbered, HandleInv, NEW c \in Call,
         \/ \E i \in Id : ReqHead(c, i) \/ Page(c, i)
         \/ ReqBody(c) \/ ReqEnd(c) \/ UploadBreaks(c) \/ AbortFrame(c)
  PROVE  HandleInv'
<1>a. c \in Job /\ Call \cap Sock = {} /\ None \notin Call \cup Sock \cup Id
  BY JobsAssumption, BoundsAssumption DEF Job, Id
<1>1. ASSUME NEW i \in Id, ReqHead(c, i) PROVE HandleInv'
  <2>1. Opens(c, i, "request")
    BY <1>1 DEF ReqHead
  <2>2. /\ \A k \in Job : id[k] # i
        /\ id'[c] = i /\ \A k \in Job : k # c => id'[k] = id[k]
        /\ id[c] = None /\ UniqueIds'
    BY <1>a, <2>1, OpensFresh, OpensTypes DEF HandleInv
  <2>3. /\ task' = [task EXCEPT ![c] = "dial"]
        /\ aborts' = [aborts EXCEPT ![i] = c]
        /\ bodies' = [bodies EXCEPT ![i] = c]
        /\ upload' = [upload EXCEPT ![c] = "running"]
        /\ UNCHANGED <<reader, sockets, aborted, closed, notified, dropped, bridge>>
    BY <1>1 DEF ReqHead, sockVars
  <2>w. \A w \in Sock : id'[w] = id[w]
    BY <1>a, <2>2 DEF Job
  <2>4. \A k \in Id, x \in Call : aborts'[k] = x => id'[x] = k
    BY <1>a, <2>2, <2>3 DEF HandleInv, TypeOK, Job
  <2>5. \A k \in Id, w \in Sock : sockets'[k] = w => id'[w] = k
    BY <2>3, <2>w DEF HandleInv
  <2>6. HandlesFollowTasks'
    <3>1. \A x \in Call : (Running(x) /\ x \notin aborted)' => (aborts[id[x]] = x)'
      BY <1>a, <2>2, <2>3 DEF HandleInv, HandlesFollowTasks, Running, TypeOK, Job, Numbered
    <3>2. \A w \in Sock : (Bridging(w) /\ w \notin closed)' => (sockets[id[w]] = w)'
      BY <2>3, <2>w DEF HandleInv, HandlesFollowTasks, Bridging
    <3>3. \A k \in Id, x \in Call : (aborts[k] = x)' => Running(x)'
      BY <1>a, <2>3 DEF HandleInv, HandlesFollowTasks, Running, TypeOK
    <3>4. \A k \in Id, w \in Sock : (sockets[k] = w)' => Bridging(w)'
      BY <2>3 DEF HandleInv, HandlesFollowTasks, Bridging
    <3>5. \A k \in Id, x \in Call : (bodies[k] = x)' => (upload[x] # "ended" /\ x \notin aborted)'
      BY <1>a, <2>2, <2>3 DEF HandleInv, HandlesFollowTasks, TypeOK, Numbered
    <3> QED BY <3>1, <3>2, <3>3, <3>4, <3>5 DEF HandlesFollowTasks
  <2>7. UploadIntact'
    BY <1>a, <2>2, <2>3 DEF HandleInv, UploadIntact, Running, TypeOK, Job, Numbered
  <2>8. \A k \in Id, x \in Call : bodies'[k] = x => id'[x] = k
    BY <1>a, <2>2, <2>3 DEF HandleInv, TypeOK, Job
  <2> QED BY <2>2, <2>3, <2>4, <2>5, <2>6, <2>7, <2>8 DEF HandleInv
<1>2. ASSUME NEW i \in Id, Page(c, i) PROVE HandleInv'
  <2>1. Opens(c, i, "request")
    BY <1>2 DEF Page
  <2>2. /\ id'[c] = i /\ \A k \in Job : k # c => id'[k] = id[k]
        /\ id[c] = None /\ UniqueIds'
    BY <1>a, <2>1, OpensFresh, OpensTypes DEF HandleInv
  <2>3. /\ task' = [task EXCEPT ![c] = "done"]
        /\ upload' = [upload EXCEPT ![c] = "running"]
        /\ UNCHANGED <<reader, tables, aborted, closed, notified, dropped, bridge>>
    BY <1>2 DEF Page, sockVars
  <2>4. task[c] = "none" /\ \A k \in Id : aborts[k] # c
    BY <2>2 DEF Numbered, HandleInv, HandlesFollowTasks, Running
  <2>w. \A w \in Sock : id'[w] = id[w]
    BY <1>a, <2>2 DEF Job
  <2>5. /\ \A k \in Id, x \in Call : aborts'[k] = x => id'[x] = k
        /\ \A k \in Id, w \in Sock : sockets'[k] = w => id'[w] = k
        /\ \A k \in Id, x \in Call : bodies'[k] = x => id'[x] = k
    <3>1. \A k \in Id : bodies[k] # c
      BY <1>a, <2>2 DEF HandleInv
    <3> QED BY <2>2, <2>3, <2>4, <2>w, <3>1 DEF HandleInv, Job, tables
  <2>6. HandlesFollowTasks'
    <3>1. \A x \in Call : Running(x)' => Running(x) /\ x # c
      BY <2>3, <2>4 DEF Running, TypeOK
    <3>2. \A x \in Call : Running(x) => Running(x)'
      BY <2>3, <2>4 DEF Running, TypeOK
    <3>3. \A w \in Sock : Bridging(w)' <=> Bridging(w)
      BY <2>3 DEF Bridging
    <3>4. \A x \in Call : (upload[x] # "ended") => (upload'[x] # "ended")
      BY <2>3 DEF TypeOK
    <3> QED BY <2>2, <2>3, <2>w, <3>1, <3>2, <3>3, <3>4 DEF HandleInv, HandlesFollowTasks, Job, tables
  <2>7. UploadIntact'
    BY <1>a, <2>2, <2>3 DEF HandleInv, UploadIntact, Running, TypeOK, Job, tables
  <2> QED BY <2>2, <2>3, <2>5, <2>6, <2>7 DEF HandleInv
<1>3. CASE ReqBody(c)
  <2>1. dropped' = {}
    BY <1>3 DEF ReqBody, HandleInv, UploadIntact
  <2> QED BY <1>3, <2>1 DEF ReqBody, HandleInv, HandlesFollowTasks, UploadIntact, UniqueIds, Running, Bridging, tables, edge, sockVars
<1>4. CASE ReqEnd(c)
  <2>1. id[c] \in Id /\ \A x \in Call : x # c /\ id[x] # None => id[x] # id[c]
    BY <1>4, <1>a DEF ReqEnd, HandleInv, UniqueIds, Numbered, TypeOK, Job
  <2>2. UploadIntact'
    BY <1>4, <2>1 DEF ReqEnd, HandleInv, UploadIntact, Running, TypeOK, Numbered, callVars
  <2>3. \A k \in Id, x \in Call : bodies'[k] = x => bodies[k] = x /\ x # c
    BY <1>4, <1>a, <2>1 DEF ReqEnd, HandleInv, TypeOK
  <2>4. \A x \in Call : x # c => upload'[x] = upload[x]
    BY <1>4 DEF ReqEnd, TypeOK
  <2>5. HandlesFollowTasks'
    BY <1>4, <2>3, <2>4 DEF ReqEnd, HandleInv, HandlesFollowTasks, Running, Bridging, callVars, sockVars
  <2> QED BY <1>4, <2>2, <2>3, <2>5 DEF ReqEnd, HandleInv, UniqueIds, callVars, sockVars
<1>5. CASE UploadBreaks(c)
  BY <1>5 DEF UploadBreaks, HandleInv, HandlesFollowTasks, UploadIntact, UniqueIds, Running, Bridging, TypeOK, tables, callVars, sockVars
<1>6. CASE AbortFrame(c)
  <2>1. id[c] \in Id /\ \A x \in Call : x # c /\ id[x] # None => id[x] # id[c]
    BY <1>6, <1>a DEF AbortFrame, HandleInv, UniqueIds, Numbered, TypeOK, Job
  <2>2. notified' \subseteq aborted'
    <3>1. \A x \in Call : aborts[id[c]] = x => x = c
      BY <1>a, <2>1 DEF HandleInv
    <3> QED BY <1>6, <3>1 DEF AbortFrame, HandleInv
  <2>3. UploadIntact'
    BY <1>6, <2>1 DEF AbortFrame, HandleInv, UploadIntact, Running, TypeOK, Numbered
  <2>6. \A k \in Id, x \in Call : bodies'[k] = x => bodies[k] = x /\ x # c
    BY <1>6, <1>a, <2>1 DEF AbortFrame, HandleInv, TypeOK
  <2>4. HandlesFollowTasks'
    <3>1. \A k \in Id, x \in Call : (bodies[k] = x)' => (upload[x] # "ended" /\ x \notin aborted)'
      BY <1>6, <2>6 DEF AbortFrame, HandleInv, HandlesFollowTasks
    <3> QED BY <1>6, <1>a, <2>1, <3>1 DEF AbortFrame, HandleInv, HandlesFollowTasks, Running, Bridging, TypeOK, Numbered, sockVars
  <2>5. \A k \in Id, x \in Call : aborts'[k] = x => id'[x] = k
    BY <1>6, <1>a DEF AbortFrame, HandleInv, TypeOK
  <2> QED BY <1>6, <2>2, <2>3, <2>4, <2>5, <2>6 DEF AbortFrame, HandleInv, UniqueIds, sockVars
<1> QED BY <1>1, <1>2, <1>3, <1>4, <1>5, <1>6

\* The task of a request keeps the handles.
LEMMA CallTaskHandles ==
  ASSUME TypeOK, Numbered, HandleInv, NEW c \in Call,
         \/ Dialed(c) \/ Fails(c) \/ Responds(c) \/ Listens(c)
         \/ Chunk(c) \/ ResponseEnds(c) \/ Stops(c) \/ Leaves(c)
  PROVE  HandleInv'
<1>a. c \in Job /\ Call \cap Sock = {} /\ None \notin Call \cup Sock \cup Id
  BY JobsAssumption, BoundsAssumption DEF Job, Id
<1>1. CASE Leaves(c)
  <2>1. /\ task[c] = "leaving" /\ task' = [task EXCEPT ![c] = "done"]
        /\ aborts' = [aborts EXCEPT ![id[c]] = None]
        /\ UNCHANGED <<reader, bodies, sockets, edge, notified, dropped, bridge>>
    BY <1>1 DEF Leaves, CallAt, sockVars
  <2>2. id[c] \in Id /\ \A x \in Call : x # c /\ id[x] # None => id[x] # id[c]
    BY <2>1, <1>a DEF HandleInv, UniqueIds, Numbered, TypeOK, Job
  <2>3. HandlesFollowTasks'
    BY <1>a, <2>1, <2>2 DEF HandleInv, HandlesFollowTasks, Running, Bridging, TypeOK, Numbered, edge
  <2>4. \A k \in Id, x \in Call : aborts'[k] = x => id'[x] = k
    BY <1>a, <2>1, <2>2 DEF HandleInv, TypeOK, edge
  <2>5. UploadIntact'
    BY <2>1 DEF HandleInv, UploadIntact, Running, TypeOK, edge
  <2> QED BY <2>1, <2>3, <2>4, <2>5 DEF HandleInv, UniqueIds, edge
<1>2. CASE ~Leaves(c)
  <2>1. UNCHANGED <<reader, tables, edge, notified, dropped, bridge>>
    BY <1>2 DEF callTask, sockVars, Dialed, Fails, Responds, Listens, Chunk, ResponseEnds, Stops
  <2>2. \A x \in Call : Running(x)' <=> Running(x)
    BY <1>2 DEF TypeOK, Running, CallAt, Dialed, Fails, Responds, Listens, Chunk, ResponseEnds, Stops
  <2> QED BY <2>1, <2>2 DEF HandleInv, HandlesFollowTasks, UploadIntact, UniqueIds, Bridging, tables, edge
<1> QED BY <1>1, <1>2

\* run() keeps the handles when it reads a frame of a WebSocket.
LEMMA SockFrameHandles ==
  ASSUME ~IdsReused, TypeOK, Numbered, HandleInv, NEW w \in Sock,
         (\E i \in Id : WsOpen(w, i)) \/ WsData(w) \/ WsCloseFrame(w)
  PROVE  HandleInv'
<1>a. w \in Job /\ Call \cap Sock = {} /\ None \notin Call \cup Sock \cup Id
  BY JobsAssumption, BoundsAssumption DEF Job, Id
<1>1. ASSUME NEW i \in Id, WsOpen(w, i) PROVE HandleInv'
  <2>1. Opens(w, i, "upgrade")
    BY <1>1 DEF WsOpen
  <2>2. /\ \A k \in Job : id[k] # i
        /\ id'[w] = i /\ \A k \in Job : k # w => id'[k] = id[k]
        /\ id[w] = None /\ UniqueIds'
    BY <1>a, <2>1, OpensFresh, OpensTypes DEF HandleInv
  <2>3. /\ bridge' = [bridge EXCEPT ![w] = "dial"]
        /\ sockets' = [sockets EXCEPT ![i] = w]
        /\ UNCHANGED <<reader, bodies, aborts, upload, aborted, closed, notified, dropped, task>>
    BY <1>1 DEF WsOpen, callVars
  <2>c. \A c \in Call : id'[c] = id[c]
    BY <1>a, <2>2 DEF Job
  <2>4. /\ \A k \in Id, c \in Call : aborts'[k] = c => id'[c] = k
        /\ \A c \in Call : Running(c)' <=> Running(c)
    BY <2>3, <2>c DEF HandleInv, Running
  <2>5. \A k \in Id, x \in Sock : sockets'[k] = x => id'[x] = k
    BY <1>a, <2>2, <2>3 DEF HandleInv, TypeOK, Job
  <2>6. HandlesFollowTasks'
    <3>1. \A x \in Sock : (Bridging(x) /\ x \notin closed)' => (sockets[id[x]] = x)'
      BY <1>a, <2>2, <2>3 DEF HandleInv, HandlesFollowTasks, Bridging, TypeOK, Job, Numbered
    <3>2. \A k \in Id, x \in Sock : (sockets[k] = x)' => Bridging(x)'
      BY <1>a, <2>3 DEF HandleInv, HandlesFollowTasks, Bridging, TypeOK
    <3> QED BY <2>3, <2>4, <2>c, <3>1, <3>2 DEF HandleInv, HandlesFollowTasks
  <2>7. UploadIntact'
    BY <2>3, <2>4, <2>c DEF HandleInv, UploadIntact
  <2> QED BY <2>2, <2>3, <2>4, <2>5, <2>6, <2>7, <2>c DEF HandleInv
<1>2. CASE WsData(w)
  <2>1. UNCHANGED <<reader, tables, edge, callVars, bridge>>
    BY <1>2 DEF WsData
  <2> QED BY <2>1 DEF HandleInv, HandlesFollowTasks, UploadIntact, UniqueIds, Running, Bridging, tables, edge, callVars
<1>3. CASE WsCloseFrame(w)
  <2>1. /\ closed' = closed \cup {w}
        /\ sockets' = [sockets EXCEPT ![id[w]] = None]
        /\ UNCHANGED <<reader, bodies, aborts, id, holder, upload, aborted, callVars, bridge>>
    BY <1>3 DEF WsCloseFrame, sockVars
  <2>2. id[w] \in Id /\ \A x \in Sock : x # w /\ id[x] # None => id[x] # id[w]
    BY <1>3, <1>a DEF WsCloseFrame, HandleInv, UniqueIds, TypeOK, Job
  <2>3. HandlesFollowTasks'
    BY <1>a, <2>1, <2>2 DEF HandleInv, HandlesFollowTasks, Running, Bridging, TypeOK, Numbered, callVars
  <2>4. \A k \in Id, x \in Sock : sockets'[k] = x => id'[x] = k
    BY <1>a, <2>1, <2>2 DEF HandleInv, TypeOK
  <2> QED BY <2>1, <2>3, <2>4 DEF HandleInv, UniqueIds, UploadIntact, Running, callVars
<1> QED BY <1>1, <1>2, <1>3

\* The task of a WebSocket keeps the handles.
LEMMA BridgeHandles ==
  ASSUME TypeOK, Numbered, HandleInv, NEW w \in Sock,
         \/ WsDialed(w) \/ WsFails(w) \/ Forwards(w) \/ VisitorClosed(w) \/ Written(w)
         \/ GuestData(w) \/ GuestEnds(w) \/ WsLeaves(w)
  PROVE  HandleInv'
<1>a. w \in Job /\ Call \cap Sock = {} /\ None \notin Call \cup Sock \cup Id
  BY JobsAssumption, BoundsAssumption DEF Job, Id
<1>1. CASE WsLeaves(w)
  <2>1. /\ bridge[w] = "leaving" /\ bridge' = [bridge EXCEPT ![w] = "done"]
        /\ sockets' = [sockets EXCEPT ![id[w]] = None]
        /\ UNCHANGED <<reader, bodies, aborts, edge, callVars>>
    BY <1>1 DEF WsLeaves, SockAt
  <2>2. id[w] \in Id /\ \A x \in Sock : x # w /\ id[x] # None => id[x] # id[w]
    BY <2>1, <1>a DEF HandleInv, UniqueIds, Numbered, TypeOK, Job
  <2>3. HandlesFollowTasks'
    BY <1>a, <2>1, <2>2 DEF HandleInv, HandlesFollowTasks, Running, Bridging, TypeOK, Numbered, edge, callVars
  <2>4. \A k \in Id, x \in Sock : sockets'[k] = x => id'[x] = k
    BY <1>a, <2>1, <2>2 DEF HandleInv, TypeOK, edge
  <2> QED BY <2>1, <2>3, <2>4 DEF HandleInv, UniqueIds, UploadIntact, Running, edge, callVars
<1>2. CASE ~WsLeaves(w)
  <2>1. UNCHANGED <<reader, tables, edge, callVars>>
    BY <1>2 DEF bridgeTask, WsDialed, WsFails, Forwards, VisitorClosed, Written, GuestData, GuestEnds
  <2>2. \A x \in Sock : Bridging(x)' <=> Bridging(x)
    BY <1>2 DEF TypeOK, Bridging, SockAt, WsDialed, WsFails, Forwards, VisitorClosed, Written, GuestData, GuestEnds
  <2> QED BY <2>1, <2>2 DEF HandleInv, HandlesFollowTasks, UploadIntact, UniqueIds, Running, tables, edge, callVars
<1> QED BY <1>1, <1>2

\* The socket to the edge keeps the handles.
LEMMA LinkHandles ==
  ASSUME HandleInv, LinkStep
  PROVE  HandleInv'
<1>1. UNCHANGED <<aborts, sockets, edge, callVars, sockVars>>
  BY DEF LinkStep, Write, WriteFails, WriterEnds, ReaderEnds, ReaderFails, WriterAwaited, Return, tables
<1>2. reader' = "returned" \/ (bodies' = bodies /\ reader # "returned")
      \/ (bodies' = bodies /\ reader' = reader)
  BY DEF LinkStep, Write, WriteFails, WriterEnds, ReaderEnds, ReaderFails, WriterAwaited, Return, tables
<1>3. UploadIntact'
  BY <1>1, <1>2 DEF HandleInv, UploadIntact, Running, edge, callVars
<1>4. \A i \in Id, c \in Call : bodies'[i] = c => bodies[i] = c
  BY JobsAssumption DEF LinkStep, Write, WriteFails, WriterEnds, ReaderEnds, ReaderFails,
                        WriterAwaited, Return, tables
<1> QED BY <1>1, <1>3, <1>4 DEF HandleInv, HandlesFollowTasks, UniqueIds, Running, Bridging, edge, callVars, sockVars

\* Every step keeps the handles.
LEMMA HandleStep ==
  ASSUME ~IdsReused, TypeOK, Numbered, HandleInv, [Next]_vars
  PROVE  HandleInv'
<1>1. CASE UNCHANGED vars
  BY <1>1 DEF HandleInv, HandlesFollowTasks, UploadIntact, UniqueIds, Running, Bridging,
              vars, tables, edge, callVars, sockVars
<1>2. ASSUME NEW c \in Call, CallStep(c) PROVE HandleInv'
  BY <1>2, CallFrameHandles, CallTaskHandles DEF CallStep
<1>3. ASSUME NEW w \in Sock, SockStep(w) PROVE HandleInv'
  BY <1>3, SockFrameHandles, BridgeHandles DEF SockStep
<1> QED BY <1>1, <1>2, <1>3, LinkHandles DEF Next

\* The edge can reach every task that runs, no task that ended leaves an abort
\* handle or a guest sender, no upload sender outlives its REQ_END or ABORT, and
\* no upload is cut short, while the edge does not use an id again.
THEOREM HandlesHold ==
  ASSUME ~IdsReused
  PROVE  Spec => []HandleInv
<1>1. Init => HandleInv
  <2>1. None \notin Call \cup Sock
    BY JobsAssumption
  <2> QED BY <2>1 DEF Init, HandleInv, HandlesFollowTasks, UploadIntact, UniqueIds, Running, Bridging, Job
<1>2. TypeOK /\ Numbered /\ HandleInv /\ [Next]_vars => HandleInv'
  BY HandleStep
<1> QED BY <1>1, <1>2, TypeCorrect, PTL DEF Spec

\* The handles of a running request or WebSocket are its own; abort handles and
\* guest senders go with their task, upload senders with REQ_END or ABORT.
THEOREM HandlesFollow ==
  ASSUME ~IdsReused
  PROVE  Spec => []HandlesFollowTasks
<1>1. HandleInv => HandlesFollowTasks
  BY DEF HandleInv
<1> QED BY <1>1, HandlesHold, PTL

\* No chunk of a wanted upload is lost, and it ends for the guest only when
\* the edge ended or aborted it.
THEOREM UploadsIntact ==
  ASSUME ~IdsReused
  PROVE  Spec => []UploadIntact
<1>1. HandleInv => UploadIntact
  BY DEF HandleInv
<1> QED BY <1>1, HandlesHold, PTL

-----------------------------------------------------------------------------
(* The order of frames, while ids are not used again.                      *)

FrameOf(i, type) == [t |-> type, id |-> i]

\* Written one after another from w on, the frames of q keep the protocol.
Chain(q, w) ==
  /\ \A n \in 1..Len(q) : (\A m \in 1..(n - 1) : q[m].id # q[n].id)
                             => q[n].t \in OnWire!Follows[w[q[n].id]]
  /\ \A m, n \in 1..Len(q) :
       (m < n /\ q[m].id = q[n].id /\ \A k \in (m + 1)..(n - 1) : q[k].id # q[n].id)
         => q[n].t \in OnWire!Follows[q[m].t]

\* The last frame of id i once all of q is written is t.
LastIs(q, w, i, t) ==
  \/ (\A n \in 1..Len(q) : q[n].id # i) /\ t = w[i]
  \/ \E n \in 1..Len(q) : /\ q[n].id = i /\ q[n].t = t
                          /\ \A k \in (n + 1)..Len(q) : q[k].id # i

\* There is one last frame.
LEMMA LastUnique ==
  ASSUME NEW q \in Seq(Frame), NEW w, NEW i, NEW t, NEW u, LastIs(q, w, i, t), LastIs(q, w, i, u)
  PROVE  t = u
<1>1. Len(q) \in Nat
  BY LenProperties
<1>2. ASSUME NEW m \in 1..Len(q), NEW n \in 1..Len(q), q[m].id = i, q[n].id = i,
             \A k \in (m + 1)..Len(q) : q[k].id # i, \A k \in (n + 1)..Len(q) : q[k].id # i
      PROVE  m = n
  <2>1. CASE m < n
    BY <1>1, <1>2, <2>1
  <2>2. CASE n < m
    BY <1>1, <1>2, <2>2
  <2> QED BY <1>1, <2>1, <2>2
<1> QED BY <1>2 DEF LastIs

\* A frame that may follow the last one of its id extends the chain.
LEMMA ChainAppend ==
  ASSUME NEW q \in Seq(Frame), NEW f \in Frame, NEW w, Chain(q, w),
         NEW t, LastIs(q, w, f.id, t), f.t \in OnWire!Follows[t]
  PROVE  /\ Append(q, f) \in Seq(Frame)
         /\ Chain(Append(q, f), w)
         /\ LastIs(Append(q, f), w, f.id, f.t)
         /\ \A i, u : i # f.id /\ LastIs(q, w, i, u) => LastIs(Append(q, f), w, i, u)
<1> DEFINE r == Append(q, f)
<1>1. /\ Len(q) \in Nat /\ r \in Seq(Frame) /\ Len(r) = Len(q) + 1
      /\ \A n \in 1..Len(q) : r[n] = q[n]
      /\ r[Len(q) + 1] = f
  BY LenProperties, AppendProperties
<1> HIDE DEF r
<1>2. ASSUME NEW n \in 1..Len(r), \A m \in 1..(n - 1) : r[m].id # r[n].id
      PROVE  r[n].t \in OnWire!Follows[w[r[n].id]]
  <2>1. CASE n = Len(q) + 1
    <3>1. \A m \in 1..Len(q) : q[m].id # f.id
      BY <1>1, <1>2, <2>1
    <3>2. t = w[f.id]
      BY <3>1 DEF LastIs
    <3> QED BY <1>1, <2>1, <3>2
  <2>2. CASE n \in 1..Len(q)
    <3>1. \A m \in 1..(n - 1) : q[m].id # q[n].id
      BY <1>1, <1>2, <2>2
    <3> QED BY <1>1, <2>2, <3>1 DEF Chain
  <2> QED BY <1>1, <2>1, <2>2
<1>3. ASSUME NEW m \in 1..Len(r), NEW n \in 1..Len(r), m < n, r[m].id = r[n].id,
             \A k \in (m + 1)..(n - 1) : r[k].id # r[n].id
      PROVE  r[n].t \in OnWire!Follows[r[m].t]
  <2>1. CASE n = Len(q) + 1
    <3>1. /\ m \in 1..Len(q) /\ q[m].id = f.id
          /\ \A k \in (m + 1)..Len(q) : q[k].id # f.id
      BY <1>1, <1>3, <2>1
    <3>2. LastIs(q, w, f.id, q[m].t)
      BY <3>1 DEF LastIs
    <3>3. t = q[m].t
      BY <3>2, LastUnique
    <3> QED BY <1>1, <2>1, <3>1, <3>3
  <2>2. CASE n \in 1..Len(q)
    <3>1. /\ m \in 1..Len(q) /\ q[m].id = q[n].id
          /\ \A k \in (m + 1)..(n - 1) : q[k].id # q[n].id
      BY <1>1, <1>3, <2>2
    <3> QED BY <1>1, <1>3, <2>2, <3>1 DEF Chain
  <2> QED BY <1>1, <2>1, <2>2
<1>4. Chain(r, w)
  BY <1>2, <1>3 DEF Chain
<1>5. LastIs(r, w, f.id, f.t)
  BY <1>1 DEF LastIs
<1>6. ASSUME NEW i, NEW u, i # f.id, LastIs(q, w, i, u)
      PROVE  LastIs(r, w, i, u)
  <2>1. CASE \A n \in 1..Len(q) : q[n].id # i
    <3>1. u = w[i]
      BY <1>6, <2>1 DEF LastIs
    <3>2. \A n \in 1..Len(r) : r[n].id # i
      BY <1>1, <1>6, <2>1
    <3> QED BY <3>1, <3>2 DEF LastIs
  <2>2. CASE ~\A n \in 1..Len(q) : q[n].id # i
    <3>1. PICK n \in 1..Len(q) : /\ q[n].id = i /\ q[n].t = u
                                 /\ \A k \in (n + 1)..Len(q) : q[k].id # i
      BY <1>6, <2>2 DEF LastIs
    <3>2. \A k \in (n + 1)..Len(r) : r[k].id # i
      BY <1>1, <1>6, <3>1
    <3> QED BY <1>1, <3>1, <3>2 DEF LastIs
  <2> QED BY <2>1, <2>2
<1> QED BY <1>1, <1>4, <1>5, <1>6 DEF r

\* Writing the first frame of a chain keeps the protocol and leaves a chain
\* with the same last frames.
LEMMA ChainTail ==
  ASSUME NEW q \in Seq(Frame), q # <<>>, NEW w, Chain(q, w), DOMAIN w = Id,
         NEW v, v = [w EXCEPT ![Head(q).id] = Head(q).t]
  PROVE  /\ Head(q).t \in OnWire!Follows[w[Head(q).id]]
         /\ Chain(Tail(q), v)
         /\ \A i \in Id : \A u : LastIs(q, w, i, u) => LastIs(Tail(q), v, i, u)
<1> DEFINE r == Tail(q)
<1>l. Len(q) \in Nat \ {0}
  BY LenProperties, EmptySeq
<1>t. /\ r \in Seq(Frame) /\ Len(r) = Len(q) - 1
      /\ \A n \in 1..Len(r) : r[n] = q[n + 1]
      /\ Head(q) \in Frame
  BY HeadTailProperties
<1>h. Head(q) = q[1]
  OBVIOUS
<1>1. /\ Len(q) \in Nat \ {0} /\ r \in Seq(Frame) /\ Len(r) = Len(q) - 1
      /\ \A n \in 1..Len(r) : r[n] = q[n + 1]
      /\ Head(q) = q[1] /\ q[1].id \in Id
  BY <1>l, <1>t, <1>h DEF Frame
<1> HIDE DEF r
<1>2. Head(q).t \in OnWire!Follows[w[Head(q).id]]
  <2>1. 1 \in 1..Len(q) /\ \A m \in 1..(1 - 1) : q[m].id # q[1].id
    BY <1>1
  <2> QED BY <1>1, <2>1 DEF Chain
<1>v. /\ v[q[1].id] = q[1].t
      /\ \A i \in Id : i # q[1].id => v[i] = w[i]
  BY <1>1
<1>id. ASSUME NEW n \in 1..Len(q) PROVE q[n].id \in Id
  <2>1. q[n] \in Frame
    BY ElementOfSeq
  <2> QED BY <2>1 DEF Frame
<1>3. ASSUME NEW n \in 1..Len(r), \A m \in 1..(n - 1) : r[m].id # r[n].id
      PROVE  r[n].t \in OnWire!Follows[v[r[n].id]]
  <2>1. n + 1 \in 1..Len(q) /\ r[n] = q[n + 1] /\ 1 \in 1..Len(q) /\ 1 < n + 1
    BY <1>1
  <2>2. \A k \in 2..n : q[k].id # q[n + 1].id
    <3> SUFFICES ASSUME NEW k \in 2..n PROVE q[k].id # q[n + 1].id
      OBVIOUS
    <3>1. k - 1 \in 1..(n - 1) /\ k - 1 \in 1..Len(r) /\ q[(k - 1) + 1] = q[k]
      BY <1>1
    <3> QED BY <1>1, <1>3, <2>1, <3>1
  <2>3. CASE q[n + 1].id = q[1].id
    <3>1. \A k \in (1 + 1)..((n + 1) - 1) : q[k].id # q[n + 1].id
      BY <1>1, <2>2
    <3>2. q[n + 1].t \in OnWire!Follows[q[1].t]
      BY <2>1, <2>3, <3>1 DEF Chain
    <3> QED BY <1>v, <2>1, <2>3, <3>2
  <2>4. CASE q[n + 1].id # q[1].id
    <3>1. \A m \in 1..((n + 1) - 1) : q[m].id # q[n + 1].id
      BY <1>1, <2>2, <2>4
    <3>2. q[n + 1].t \in OnWire!Follows[w[q[n + 1].id]]
      BY <2>1, <3>1 DEF Chain
    <3> QED BY <1>v, <1>id, <2>1, <2>4, <3>2
  <2> QED BY <2>3, <2>4
<1>4. ASSUME NEW m \in 1..Len(r), NEW n \in 1..Len(r), m < n, r[m].id = r[n].id,
             \A k \in (m + 1)..(n - 1) : r[k].id # r[n].id
      PROVE  r[n].t \in OnWire!Follows[r[m].t]
  <2>1. /\ n + 1 \in 1..Len(q) /\ m + 1 \in 1..Len(q) /\ m + 1 < n + 1
        /\ r[n] = q[n + 1] /\ r[m] = q[m + 1]
    BY <1>1, <1>4
  <2>2. \A k \in ((m + 1) + 1)..((n + 1) - 1) : q[k].id # q[n + 1].id
    <3> SUFFICES ASSUME NEW k \in ((m + 1) + 1)..((n + 1) - 1) PROVE q[k].id # q[n + 1].id
      OBVIOUS
    <3>1. k - 1 \in (m + 1)..(n - 1) /\ k - 1 \in 1..Len(r) /\ q[(k - 1) + 1] = q[k]
      BY <1>1
    <3> QED BY <1>1, <1>4, <2>1, <3>1
  <2> QED BY <1>4, <2>1, <2>2 DEF Chain
<1>5. Chain(r, v)
  BY <1>3, <1>4 DEF Chain
<1>6. ASSUME NEW i \in Id, NEW u, LastIs(q, w, i, u)
      PROVE  LastIs(r, v, i, u)
  <2>1. CASE \A n \in 1..Len(q) : q[n].id # i
    <3>1. u = w[i] /\ v[i] = w[i]
      BY <1>1, <1>v, <1>6, <2>1 DEF LastIs
    <3>2. \A n \in 1..Len(r) : r[n].id # i
      BY <1>1, <2>1
    <3> QED BY <3>1, <3>2 DEF LastIs
  <2>2. CASE ~\A n \in 1..Len(q) : q[n].id # i
    <3>1. PICK n \in 1..Len(q) : /\ q[n].id = i /\ q[n].t = u
                                 /\ \A k \in (n + 1)..Len(q) : q[k].id # i
      BY <1>6, <2>2 DEF LastIs
    <3>2. CASE n = 1
      <4>1. \A k \in 1..Len(r) : r[k].id # i
        BY <1>1, <3>1, <3>2
      <4> QED BY <1>v, <3>1, <3>2, <4>1 DEF LastIs
    <3>3. CASE n # 1
      <4>1. n - 1 \in 1..Len(r) /\ r[n - 1] = q[n]
        BY <1>1, <3>3
      <4>2. \A k \in ((n - 1) + 1)..Len(r) : r[k].id # i
        BY <1>1, <3>1, <3>3
      <4> QED BY <3>1, <4>1, <4>2 DEF LastIs
    <3> QED BY <3>2, <3>3
  <2> QED BY <2>1, <2>2
<1> QED BY <1>2, <1>5, <1>6 DEF r

\* r is q with more frames of the id i, the last of them u.
Grown(q, r, w, i, u) ==
  /\ r \in Seq(Frame)
  /\ Chain(r, w)
  /\ LastIs(r, w, i, u)
  /\ \A k, x : k # i /\ LastIs(q, w, k, x) => LastIs(r, w, k, x)
  /\ \A n \in 1..Len(r) : r[n].id = i \/ \E m \in 1..Len(q) : q[m].id = r[n].id

\* One more frame of the same id.
LEMMA GrowsBy ==
  ASSUME NEW q, NEW r, NEW w, NEW i \in Id, NEW u, Grown(q, r, w, i, u),
         NEW v \in FrameType, v \in OnWire!Follows[u]
  PROVE  Grown(q, Append(r, FrameOf(i, v)), w, i, v)
<1> DEFINE f == FrameOf(i, v)
<1>1. f \in Frame /\ f.id = i /\ f.t = v
  BY DEF FrameOf, Frame
<1>2. r \in Seq(Frame) /\ Chain(r, w) /\ LastIs(r, w, i, u)
  BY DEF Grown
<1> HIDE DEF f
<1>3. /\ Append(r, f) \in Seq(Frame)
      /\ Chain(Append(r, f), w)
      /\ LastIs(Append(r, f), w, i, v)
      /\ \A k, x : k # i /\ LastIs(r, w, k, x) => LastIs(Append(r, f), w, k, x)
  BY <1>1, <1>2, ChainAppend
<1>4. /\ Len(r) \in Nat /\ Len(Append(r, f)) = Len(r) + 1
      /\ \A n \in 1..Len(r) : Append(r, f)[n] = r[n]
      /\ Append(r, f)[Len(r) + 1] = f
  BY <1>1, <1>2, LenProperties, AppendProperties
<1>5. ASSUME NEW n \in 1..Len(Append(r, f))
      PROVE  Append(r, f)[n].id = i \/ \E m \in 1..Len(q) : q[m].id = Append(r, f)[n].id
  <2>1. CASE n \in 1..Len(r)
    BY <1>4, <2>1 DEF Grown
  <2>2. CASE n = Len(r) + 1
    BY <1>1, <1>4, <2>2
  <2> QED BY <1>4, <2>1, <2>2
<1>6. \A k, x : k # i /\ LastIs(q, w, k, x) => LastIs(Append(r, f), w, k, x)
  BY <1>3 DEF Grown
<1> QED BY <1>3, <1>5, <1>6 DEF Grown, f

\* The lists of frames that a step sends, one frame at a time.
LEMMA FramesAppend ==
  ASSUME NEW q \in Seq(Frame), NEW i \in Id
  PROVE  /\ \A a \in FrameType : q \o Frames(i, <<a>>) = Append(q, FrameOf(i, a))
         /\ \A a, b \in FrameType :
              q \o Frames(i, <<a, b>>) = Append(Append(q, FrameOf(i, a)), FrameOf(i, b))
         /\ \A a, b, c \in FrameType :
              q \o Frames(i, <<a, b, c>>)
                = Append(Append(Append(q, FrameOf(i, a)), FrameOf(i, b)), FrameOf(i, c))
<1>f. \A a \in FrameType : FrameOf(i, a) \in Frame
  BY DEF FrameOf, Frame
<1>1. ASSUME NEW x \in Frame PROVE q \o <<x>> = Append(q, x)
  BY AppendIsConcat
<1>2. ASSUME NEW x \in Frame, NEW y \in Frame PROVE q \o <<x, y>> = Append(Append(q, x), y)
  OBVIOUS
<1>3. ASSUME NEW x \in Frame, NEW y \in Frame, NEW z \in Frame
      PROVE  q \o <<x, y, z>> = Append(Append(Append(q, x), y), z)
  OBVIOUS
<1>4. \A a \in FrameType : Frames(i, <<a>>) = <<FrameOf(i, a)>>
  BY DEF Frames, FrameOf
<1>5. \A a, b \in FrameType : Frames(i, <<a, b>>) = <<FrameOf(i, a), FrameOf(i, b)>>
  BY DEF Frames, FrameOf
<1>6. ASSUME NEW a \in FrameType, NEW b \in FrameType, NEW c \in FrameType
      PROVE  Frames(i, <<a, b, c>>) = <<FrameOf(i, a), FrameOf(i, b), FrameOf(i, c)>>
  <2> DEFINE s == <<a, b, c>>
  <2> DEFINE fs == <<FrameOf(i, a), FrameOf(i, b), FrameOf(i, c)>>
  <2>1. Len(s) = 3 /\ s[1] = a /\ s[2] = b /\ s[3] = c
    OBVIOUS
  <2>2. fs \in Seq(Frame) /\ Len(fs) = 3
    BY <1>f
  <2>3. fs[1] = FrameOf(i, a) /\ fs[2] = FrameOf(i, b) /\ fs[3] = FrameOf(i, c)
    OBVIOUS
  <2> HIDE DEF s, fs
  <2>4. Frames(i, s) \in Seq(Frame) /\ Len(Frames(i, s)) = 3
    BY <1>f, <2>1 DEF Frames, FrameOf, Frame
  <2>5. \A n \in 1..3 : Frames(i, s)[n] = fs[n]
    BY <2>1, <2>3 DEF Frames, FrameOf
  <2>6. Frames(i, s) = fs
    BY <2>2, <2>4, <2>5, SeqEqual
  <2> QED BY <2>6 DEF s, fs
<1>7. \A a \in FrameType : q \o Frames(i, <<a>>) = Append(q, FrameOf(i, a))
  BY <1>f, <1>1, <1>4
<1>8. \A a, b \in FrameType :
        q \o Frames(i, <<a, b>>) = Append(Append(q, FrameOf(i, a)), FrameOf(i, b))
  BY <1>f, <1>2, <1>5
<1>9. ASSUME NEW a \in FrameType, NEW b \in FrameType, NEW c \in FrameType
      PROVE  q \o Frames(i, <<a, b, c>>)
               = Append(Append(Append(q, FrameOf(i, a)), FrameOf(i, b)), FrameOf(i, c))
  <2>1. Frames(i, <<a, b, c>>) = <<FrameOf(i, a), FrameOf(i, b), FrameOf(i, c)>>
    BY <1>6
  <2>2. q \o <<FrameOf(i, a), FrameOf(i, b), FrameOf(i, c)>>
          = Append(Append(Append(q, FrameOf(i, a)), FrameOf(i, b)), FrameOf(i, c))
    BY <1>f, <1>3
  <2> QED BY <2>1, <2>2
<1> QED BY <1>7, <1>8, <1>9

-----------------------------------------------------------------------------
(* The order invariant: the queue is a chain from what is on the wire, and *)
(* the last frame of an id is where the task of its job stands.            *)

Mark == FrameType \cup {"request", "upgrade"}

\* The last frame that the task of a job can have sent, or what opened its id.
Expects(j) ==
  {t \in Mark :
     \/ j \in Call /\ \/ task[j] \in {"dial", "request"} /\ t = "request"
                      \/ task[j] = "headed" /\ t = "RES_HEAD"
                      \/ task[j] = "stream" /\ t \in {"RES_HEAD", "RES_BODY"}
                      \/ task[j] \in {"leaving", "done"} /\ t \in {"RES_END", "ABORT"}
                      \/ /\ task[j] \in {"leaving", "done"} /\ j \in aborted
                         /\ t \in {"RES_HEAD", "RES_BODY"}
     \/ j \in Sock /\ \/ bridge[j] = "dial" /\ t = "upgrade"
                      \/ bridge[j] \in {"bridge", "write", "close"} /\ t \in {"upgrade", "WS_DATA"}
                      \/ /\ bridge[j] \in {"leaving", "done"}
                         /\ t \in {"upgrade", "WS_DATA", "WS_CLOSE"}}

Stands(j) == id[j] # None => \E t \in Expects(j) : LastIs(queue, wire, id[j], t)

OrderInv ==
  /\ writer = "off" => queue = <<>>
  /\ \A n \in 1..Len(queue) : holder[queue[n].id] # None
  /\ Chain(queue, wire)
  /\ writer = "on" => \A j \in Job : Stands(j)

\* A step that touches neither the queue nor the wire.
LEMMA OrderIdle ==
  ASSUME OrderInv, UNCHANGED <<writer, queue, wire, id, holder>>,
         \A j \in Job : id[j] # None => Expects(j) \subseteq Expects(j)'
  PROVE  OrderInv'
<1>1. Chain(queue, wire)'
  BY DEF OrderInv, Chain
<1>2. ASSUME writer = "on", NEW j \in Job PROVE Stands(j)'
  BY <1>2 DEF OrderInv, Stands, LastIs
<1> QED BY <1>1, <1>2 DEF OrderInv

\* A step of the task of a job j, which may send frames for its own id.
LEMMA OrderOwn ==
  ASSUME TypeOK, UniqueIds, OrderInv, NEW j \in Job, id[j] # None,
         UNCHANGED <<writer, wire, id, holder>>,
         \A k \in Job : k # j /\ id[k] # None => Expects(k) \subseteq Expects(k)',
         NEW u \in Expects(j)',
         writer = "on" => Grown(queue, queue', wire, id[j], u),
         writer = "off" => queue' = queue
  PROVE  OrderInv'
<1>i. id[j] \in Id /\ holder[id[j]] # None
  BY JobsAssumption DEF TypeOK, UniqueIds, Job
<1>1. CASE writer = "off"
  <2>1. queue' = <<>> /\ queue = <<>>
    BY <1>1 DEF OrderInv
  <2>2. Chain(queue, wire)'
    BY <2>1 DEF OrderInv, Chain
  <2> QED BY <1>1, <2>1, <2>2 DEF OrderInv
<1>2. CASE writer = "on"
  <2>1. Chain(queue', wire) /\ LastIs(queue', wire, id[j], u)
    BY <1>2 DEF Grown
  <2>2. Chain(queue, wire)'
    BY <2>1 DEF Chain
  <2>3. \A n \in 1..Len(queue') : holder[queue'[n].id] # None
    BY <1>2, <1>i DEF Grown, OrderInv
  <2>4. ASSUME NEW k \in Job, k # j, id[k] # None PROVE Stands(k)'
    <3>1. id[k] # id[j]
      BY <2>4 DEF UniqueIds
    <3>2. PICK t \in Expects(k) : LastIs(queue, wire, id[k], t)
      BY <1>2, <2>4 DEF OrderInv, Stands
    <3>3. LastIs(queue', wire, id[k], t)
      BY <1>2, <3>1, <3>2 DEF Grown
    <3>4. t \in Expects(k)'
      BY <2>4, <3>2
    <3> QED BY <3>3, <3>4 DEF Stands, LastIs
  <2>5. Stands(j)'
    BY <2>1 DEF Stands, LastIs
  <2>6. \A k \in Job : Stands(k)'
    <3> TAKE k \in Job
    <3>1. CASE k = j
      BY <2>5, <3>1
    <3>2. CASE id[k] = None
      BY <3>2 DEF Stands
    <3> QED BY <2>4, <3>1, <3>2
  <2> QED BY <1>2, <2>2, <2>3, <2>6 DEF OrderInv
<1> QED BY <1>1, <1>2 DEF TypeOK

\* The edge opens an id of which no frame is queued.
LEMMA OpenGrows ==
  ASSUME ~IdsReused, TypeOK, UniqueIds, OrderInv, NEW j \in Job, NEW i \in Id,
         NEW kind \in {"request", "upgrade"}, Opens(j, i, kind)
  PROVE  /\ Grown(queue, queue, wire', i, kind)
         /\ \A n \in 1..Len(queue) : holder'[queue[n].id] # None /\ queue[n].id # i
         /\ \A k \in Id : k # i => wire'[k] = wire[k]
<1>q. queue \in Seq(Frame)
  BY DEF TypeOK, Frame
<1>1. ASSUME NEW n \in 1..Len(queue) PROVE queue[n].id \in Id /\ queue[n].id # i
  <2>1. queue[n] \in Frame
    BY <1>q, ElementOfSeq
  <2>2. holder[i] = None /\ holder[queue[n].id] # None
    BY OpensFresh DEF OrderInv
  <2> QED BY <2>1, <2>2 DEF Frame
<1>2. wire'[i] = kind /\ \A k \in Id : k # i => wire'[k] = wire[k]
  BY DEF Opens, TypeOK
<1>3. \A n \in 1..Len(queue) : holder'[queue[n].id] # None
  BY <1>1 DEF Opens, TypeOK, OrderInv
<1>4. Chain(queue, wire')
  BY <1>1, <1>2 DEF OrderInv, Chain
<1>5. LastIs(queue, wire', i, kind)
  BY <1>1, <1>2 DEF LastIs
<1>6. Grown(queue, queue, wire', i, kind)
  BY <1>q, <1>4, <1>5 DEF Grown
<1> QED BY <1>1, <1>2, <1>3, <1>6

\* The step that opens an id, and answers by itself if it sends.
LEMMA OrderOpen ==
  ASSUME ~IdsReused, TypeOK, UniqueIds, OrderInv, NEW j \in Job, NEW i \in Id,
         NEW kind \in {"request", "upgrade"}, Opens(j, i, kind), writer' = writer,
         \A k \in Job : k # j /\ id[k] # None => Expects(k) \subseteq Expects(k)',
         NEW u \in Expects(j)',
         writer = "on" => Grown(queue, queue', wire', i, u),
         writer = "off" => queue' = queue
  PROVE  OrderInv'
<1>o. /\ \A n \in 1..Len(queue) : holder'[queue[n].id] # None /\ queue[n].id # i
      /\ \A k \in Id : k # i => wire'[k] = wire[k]
  BY OpenGrows
<1>h. holder'[i] = j /\ j # None
  BY JobsAssumption DEF Opens, TypeOK, Job
<1>n. id'[j] = i /\ \A k \in Job : k # j => id'[k] = id[k]
  BY OpensTypes
<1>f. \A k \in Job : id[k] # i
  BY OpensFresh
<1>i. /\ id'[j] = i /\ holder'[i] # None
      /\ \A k \in Job : k # j => id'[k] = id[k] /\ id[k] # i
  BY <1>h, <1>n, <1>f
<1>1. CASE writer = "off"
  <2>1. queue' = <<>> /\ queue = <<>>
    BY <1>1 DEF OrderInv
  <2>2. Chain(queue, wire)'
    BY <2>1 DEF OrderInv, Chain
  <2> QED BY <1>1, <2>1, <2>2 DEF OrderInv
<1>2. CASE writer = "on"
  <2>1. Chain(queue', wire') /\ LastIs(queue', wire', i, u)
    BY <1>2 DEF Grown
  <2>2. Chain(queue, wire)'
    BY <2>1 DEF Chain
  <2>3. \A n \in 1..Len(queue') : holder'[queue'[n].id] # None
    BY <1>2, <1>i, <1>o DEF Grown
  <2>4. ASSUME NEW k \in Job, k # j, id[k] # None PROVE Stands(k)'
    <3>1. id[k] \in Id /\ id[k] # i /\ id'[k] = id[k]
      BY <1>i, <2>4 DEF TypeOK
    <3>2. PICK t \in Expects(k) : LastIs(queue, wire, id[k], t)
      BY <1>2, <2>4 DEF OrderInv, Stands
    <3>3. LastIs(queue, wire', id[k], t)
      BY <1>o, <3>1, <3>2 DEF LastIs
    <3>4. LastIs(queue', wire', id[k], t)
      <4>1. \A x, y : x # i /\ LastIs(queue, wire', x, y) => LastIs(queue', wire', x, y)
        BY <1>2 DEF Grown
      <4> QED BY <3>1, <3>3, <4>1
    <3>5. t \in Expects(k)'
      BY <2>4, <3>2
    <3> QED BY <3>1, <3>4, <3>5 DEF Stands, LastIs
  <2>5. Stands(j)'
    BY <1>i, <2>1 DEF Stands, LastIs
  <2>6. \A k \in Job : Stands(k)'
    <3> TAKE k \in Job
    <3>1. CASE k = j
      BY <2>5, <3>1
    <3>2. CASE k # j /\ id[k] = None
      BY <1>i, <3>2 DEF Stands
    <3> QED BY <2>4, <3>1, <3>2
  <2> QED BY <1>2, <2>2, <2>3, <2>6 DEF OrderInv
<1> QED BY <1>1, <1>2 DEF TypeOK

\* The frames that a step sends after the last of its id.
LEMMA SendGrows ==
  ASSUME NEW q \in Seq(Frame), NEW w, Chain(q, w), NEW i \in Id, NEW t, LastIs(q, w, i, t),
         NEW a \in FrameType, a \in OnWire!Follows[t]
  PROVE  /\ Grown(q, q, w, i, t)
         /\ Grown(q, q \o Frames(i, <<a>>), w, i, a)
         /\ \A b \in FrameType : b \in OnWire!Follows[a] => Grown(q, q \o Frames(i, <<a, b>>), w, i, b)
         /\ \A b, c \in FrameType : b \in OnWire!Follows[a] /\ c \in OnWire!Follows[b]
                                      => Grown(q, q \o Frames(i, <<a, b, c>>), w, i, c)
<1> DEFINE q1 == Append(q, FrameOf(i, a))
<1>0. Grown(q, q, w, i, t)
  BY DEF Grown
<1>1. Grown(q, q1, w, i, a)
  BY <1>0, GrowsBy
<1> HIDE DEF q1
<1>2. ASSUME NEW b \in FrameType, b \in OnWire!Follows[a]
      PROVE  Grown(q, Append(q1, FrameOf(i, b)), w, i, b)
  BY <1>1, <1>2, GrowsBy
<1>3. ASSUME NEW b \in FrameType, NEW c \in FrameType,
             b \in OnWire!Follows[a], c \in OnWire!Follows[b]
      PROVE  Grown(q, Append(Append(q1, FrameOf(i, b)), FrameOf(i, c)), w, i, c)
  <2>1. Grown(q, Append(q1, FrameOf(i, b)), w, i, b)
    BY <1>2, <1>3
  <2> QED BY <1>3, <2>1, GrowsBy
<1>4. q \o Frames(i, <<a>>) = q1
  BY FramesAppend DEF q1
<1>5. \A b \in FrameType : q \o Frames(i, <<a, b>>) = Append(q1, FrameOf(i, b))
  BY FramesAppend DEF q1
<1>6. \A b, c \in FrameType : q \o Frames(i, <<a, b, c>>)
                                = Append(Append(q1, FrameOf(i, b)), FrameOf(i, c))
  BY FramesAppend DEF q1
<1> QED BY <1>0, <1>1, <1>2, <1>3, <1>4, <1>5, <1>6

\* run() keeps the order when it reads a frame of a request.
LEMMA CallFrameOrder ==
  ASSUME ~IdsReused, TypeOK, Numbered, HandleInv, OrderInv, NEW c \in Call,
         \/ \E i \in Id : ReqHead(c, i) \/ Page(c, i)
         \/ ReqBody(c) \/ ReqEnd(c) \/ UploadBreaks(c) \/ AbortFrame(c)
  PROVE  OrderInv'
<1>a. c \in Job /\ Call \cap Sock = {} /\ UniqueIds
  BY JobsAssumption DEF Job, HandleInv
<1>1. ASSUME NEW i \in Id, ReqHead(c, i) PROVE OrderInv'
  <2>1. Opens(c, i, "request") /\ writer' = writer /\ queue' = queue
    BY <1>1 DEF ReqHead
  <2>2. \A k \in Job : k # c => Expects(k) \subseteq Expects(k)'
    BY <1>1, <1>a DEF ReqHead, Expects, sockVars, TypeOK
  <2>3. "request" \in Expects(c)'
    BY <1>1 DEF ReqHead, Expects, Mark, TypeOK
  <2>4. Grown(queue, queue, wire', i, "request")
    BY <1>a, <2>1, OpenGrows
  <2> QED BY <1>a, <2>1, <2>2, <2>3, <2>4, OrderOpen
<1>2. ASSUME NEW i \in Id, Page(c, i) PROVE OrderInv'
  <2>1. Opens(c, i, "request") /\ writer' = writer
    BY <1>2 DEF Page
  <2>2. \A k \in Job : k # c => Expects(k) \subseteq Expects(k)'
    BY <1>2, <1>a DEF Page, Expects, sockVars, TypeOK
  <2>3. "RES_END" \in Expects(c)'
    BY <1>2 DEF Page, Expects, Mark, FrameType, TypeOK
  <2>4. Grown(queue, queue, wire', i, "request")
    BY <1>a, <2>1, OpenGrows
  <2>5. queue \in Seq(Frame) /\ Chain(queue, wire') /\ LastIs(queue, wire', i, "request")
    BY <2>4 DEF Grown
  <2>6. /\ "RES_HEAD" \in OnWire!Follows["request"] /\ "RES_BODY" \in OnWire!Follows["RES_HEAD"]
        /\ "RES_END" \in OnWire!Follows["RES_HEAD"] /\ "RES_END" \in OnWire!Follows["RES_BODY"]
    BY DEF OnWire!Follows
  <2>7. /\ Grown(queue, queue \o Frames(i, <<"RES_HEAD", "RES_END">>), wire', i, "RES_END")
        /\ Grown(queue, queue \o Frames(i, <<"RES_HEAD", "RES_BODY", "RES_END">>), wire', i, "RES_END")
    BY <2>5, <2>6, SendGrows, FrameLists
  <2>8. /\ writer = "on" => Grown(queue, queue', wire', i, "RES_END")
        /\ writer = "off" => queue' = queue
    BY <1>2, <2>7 DEF Page, Send
  <2> QED BY <1>a, <2>1, <2>2, <2>3, <2>8, OrderOpen
<1>3. CASE ReqBody(c) \/ ReqEnd(c) \/ UploadBreaks(c) \/ AbortFrame(c)
  <2>1. UNCHANGED <<writer, queue, wire, id, holder, task, bridge>> /\ aborted \subseteq aborted'
    BY <1>3 DEF ReqBody, ReqEnd, UploadBreaks, AbortFrame, edge, callVars, sockVars
  <2>2. \A k \in Job : Expects(k) \subseteq Expects(k)'
    BY <2>1 DEF Expects
  <2> QED BY <2>1, <2>2, OrderIdle
<1> QED BY <1>1, <1>2, <1>3

\* The task of a call sends what may follow.
LEMMA CallTaskOrder ==
  ASSUME TypeOK, Numbered, HandleInv, OrderInv, NEW c \in Call,
         \/ Dialed(c) \/ Fails(c) \/ Responds(c) \/ Listens(c)
         \/ Chunk(c) \/ ResponseEnds(c) \/ Stops(c) \/ Leaves(c)
  PROVE  OrderInv'
<1>a. c \in Job /\ Call \cap Sock = {} /\ UniqueIds
  BY JobsAssumption DEF Job, HandleInv
<1>b. task[c] # "none" /\ id[c] \in Id /\ id[c] # None
  BY <1>a DEF TypeOK, Numbered, Job, CallAt, Dialed, Fails, Responds, Listens, Chunk, ResponseEnds, Stops, Leaves
<1>c. UNCHANGED <<writer, wire, id, holder, aborted, bridge>>
  BY DEF callTask, edge, sockVars, Dialed, Fails, Responds, Listens, Chunk, ResponseEnds, Stops, Leaves
<1>d. \A k \in Job : k # c => Expects(k) \subseteq Expects(k)'
  BY <1>a, <1>c DEF Expects, TypeOK, Dialed, Fails, Responds, Listens, Chunk, ResponseEnds, Stops, Leaves
<1>q. queue \in Seq(Frame) /\ Chain(queue, wire)
  BY DEF TypeOK, Frame, OrderInv
<1>1. ASSUME NEW a \in FrameType, Send(id[c], <<a>>),
             writer = "on" => a \in Expects(c)' /\ \A t \in Expects(c) : a \in OnWire!Follows[t],
             writer = "off" => Expects(c)' # {}
      PROVE  OrderInv'
  <2>1. CASE writer = "on"
    <3>1. PICK t \in Expects(c) : LastIs(queue, wire, id[c], t)
      BY <1>a, <1>b, <2>1 DEF OrderInv, Stands
    <3>2. Grown(queue, queue \o Frames(id[c], <<a>>), wire, id[c], a)
      BY <1>1, <1>b, <1>q, <2>1, <3>1, SendGrows
    <3> QED BY <1>1, <1>a, <1>b, <1>c, <1>d, <2>1, <3>2, OrderOwn DEF Send
  <2>2. CASE writer = "off"
    BY <1>1, <1>a, <1>b, <1>c, <1>d, <2>2, OrderOwn DEF Send
  <2> QED BY <2>1, <2>2 DEF TypeOK
<1>2. CASE Fails(c)
  <2>1. Send(id[c], <<"ABORT">>) /\ task[c] \in {"dial", "request", "stream"} /\ task'[c] = "leaving"
    BY <1>2 DEF Fails, CallAt, TypeOK
  <2>2. "ABORT" \in Expects(c)'
    BY <2>1 DEF Expects, Mark, FrameType
  <2>3. \A t \in Expects(c) : "ABORT" \in OnWire!Follows[t]
    BY <1>a, <2>1 DEF Expects, OnWire!Follows
  <2> QED BY <1>1, <2>1, <2>2, <2>3, FrameLists
<1>3. CASE Responds(c)
  <2>1. /\ Send(id[c], <<"RES_HEAD">>) /\ task[c] = "request"
        /\ task'[c] = IF writer = "on" THEN "headed" ELSE "leaving"
    BY <1>3 DEF Responds, CallAt, TypeOK
  <2>2. IF writer = "on" THEN "RES_HEAD" \in Expects(c)' ELSE "RES_END" \in Expects(c)'
    BY <2>1 DEF Expects, Mark, FrameType
  <2>3. \A t \in Expects(c) : "RES_HEAD" \in OnWire!Follows[t]
    BY <1>a, <2>1 DEF Expects, OnWire!Follows
  <2> QED BY <1>1, <2>1, <2>2, <2>3, FrameLists
<1>4. CASE Chunk(c)
  <2>1. /\ Send(id[c], <<"RES_BODY">>) /\ task[c] = "stream"
        /\ task'[c] = IF writer = "on" THEN "stream" ELSE "leaving"
    BY <1>4 DEF Chunk, CallAt, TypeOK
  <2>2. IF writer = "on" THEN "RES_BODY" \in Expects(c)' ELSE "RES_END" \in Expects(c)'
    BY <2>1 DEF Expects, Mark, FrameType
  <2>3. \A t \in Expects(c) : "RES_BODY" \in OnWire!Follows[t]
    BY <1>a, <2>1 DEF Expects, OnWire!Follows
  <2> QED BY <1>1, <2>1, <2>2, <2>3, FrameLists
<1>5. CASE ResponseEnds(c)
  <2>1. Send(id[c], <<"RES_END">>) /\ task[c] = "stream" /\ task'[c] = "leaving"
    BY <1>5 DEF ResponseEnds, CallAt, TypeOK
  <2>2. "RES_END" \in Expects(c)'
    BY <2>1 DEF Expects, Mark, FrameType
  <2>3. \A t \in Expects(c) : "RES_END" \in OnWire!Follows[t]
    BY <1>a, <2>1 DEF Expects, OnWire!Follows
  <2> QED BY <1>1, <2>1, <2>2, <2>3, FrameLists
<1>6. CASE Dialed(c) \/ Listens(c) \/ Stops(c) \/ Leaves(c)
  <2>1. queue' = queue
    BY <1>6 DEF Dialed, Listens, Stops, Leaves
  <2>2. c \in notified => c \in aborted
    BY DEF HandleInv
  <2>3. Expects(c) \subseteq Expects(c)'
    <3>1. CASE Dialed(c) \/ Listens(c)
      BY <3>1, <1>a, <1>c DEF Expects, Dialed, Listens, CallAt, TypeOK
    <3>2. CASE Stops(c)
      BY <3>2, <1>a, <1>c, <2>2 DEF Expects, Stops, CallAt, TypeOK
    <3>3. CASE Leaves(c)
      BY <3>3, <1>a, <1>c DEF Expects, Leaves, CallAt, TypeOK
    <3> QED BY <1>6, <3>1, <3>2, <3>3
  <2>4. \A k \in Job : Expects(k) \subseteq Expects(k)'
    BY <1>d, <2>3
  <2> QED BY <1>c, <2>1, <2>4, OrderIdle
<1> QED BY <1>2, <1>3, <1>4, <1>5, <1>6

\* run() keeps the order when it reads a frame of a WebSocket.
LEMMA SockFrameOrder ==
  ASSUME ~IdsReused, TypeOK, Numbered, HandleInv, OrderInv, NEW w \in Sock,
         (\E i \in Id : WsOpen(w, i)) \/ WsData(w) \/ WsCloseFrame(w)
  PROVE  OrderInv'
<1>a. w \in Job /\ Call \cap Sock = {} /\ UniqueIds
  BY JobsAssumption DEF Job, HandleInv
<1>1. ASSUME NEW i \in Id, WsOpen(w, i) PROVE OrderInv'
  <2>1. Opens(w, i, "upgrade") /\ writer' = writer /\ queue' = queue
    BY <1>1 DEF WsOpen
  <2>2. \A k \in Job : k # w => Expects(k) \subseteq Expects(k)'
    BY <1>1, <1>a DEF WsOpen, Expects, callVars, TypeOK
  <2>3. "upgrade" \in Expects(w)'
    BY <1>1 DEF WsOpen, Expects, Mark, TypeOK
  <2>4. Grown(queue, queue, wire', i, "upgrade")
    BY <1>a, <2>1, OpenGrows
  <2> QED BY <1>a, <2>1, <2>2, <2>3, <2>4, OrderOpen
<1>2. CASE WsData(w) \/ WsCloseFrame(w)
  <2>1. UNCHANGED <<writer, queue, wire, id, holder, task, bridge, aborted>>
    BY <1>2 DEF WsData, WsCloseFrame, edge, callVars, sockVars
  <2>2. \A k \in Job : Expects(k) \subseteq Expects(k)'
    BY <2>1 DEF Expects
  <2> QED BY <2>1, <2>2, OrderIdle
<1> QED BY <1>1, <1>2

\* The task of a WebSocket sends what may follow.
LEMMA BridgeOrder ==
  ASSUME TypeOK, Numbered, HandleInv, OrderInv, NEW w \in Sock,
         \/ WsDialed(w) \/ WsFails(w) \/ Forwards(w) \/ VisitorClosed(w) \/ Written(w)
         \/ GuestData(w) \/ GuestEnds(w) \/ WsLeaves(w)
  PROVE  OrderInv'
<1>a. w \in Job /\ Call \cap Sock = {} /\ UniqueIds
  BY JobsAssumption DEF Job, HandleInv
<1>b. bridge[w] # "none" /\ id[w] \in Id /\ id[w] # None
  BY <1>a DEF TypeOK, Numbered, Job, SockAt, WsDialed, WsFails, Forwards, VisitorClosed, Written, GuestData, GuestEnds, WsLeaves
<1>c. UNCHANGED <<writer, wire, id, holder, aborted, task>>
  BY DEF bridgeTask, edge, callVars, WsDialed, WsFails, Forwards, VisitorClosed, Written, GuestData, GuestEnds, WsLeaves
<1>d. \A k \in Job : k # w => Expects(k) \subseteq Expects(k)'
  BY <1>a, <1>c DEF Expects, TypeOK, WsDialed, WsFails, Forwards, VisitorClosed, Written, GuestData, GuestEnds, WsLeaves
<1>q. queue \in Seq(Frame) /\ Chain(queue, wire)
  BY DEF TypeOK, Frame, OrderInv
<1>e. /\ \A t \in Expects(w) : bridge[w] \in {"dial", "bridge", "write"} => t \in {"upgrade", "WS_DATA"}
      /\ \A t \in {"upgrade", "WS_DATA"} : "WS_DATA" \in OnWire!Follows[t] /\ "WS_CLOSE" \in OnWire!Follows[t]
      /\ "WS_CLOSE" \in OnWire!Follows["WS_CLOSE"]
  BY <1>a DEF Expects, OnWire!Follows
<1>1. ASSUME NEW a \in {"WS_DATA", "WS_CLOSE"}, NEW b \in {"WS_CLOSE"},
             bridge[w] \in {"dial", "bridge", "write"},
             Send(id[w], <<a>>) \/ Send(id[w], <<a, b>>),
             NEW u \in Expects(w)', writer = "on" => u = IF Send(id[w], <<a>>) THEN a ELSE b
      PROVE  OrderInv'
  <2>1. CASE writer = "on"
    <3>1. PICK t \in Expects(w) : LastIs(queue, wire, id[w], t)
      BY <1>a, <1>b, <2>1 DEF OrderInv, Stands
    <3>2. a \in OnWire!Follows[t] /\ b \in OnWire!Follows[a]
      BY <1>1, <1>e
    <3>3. /\ Grown(queue, queue \o Frames(id[w], <<a>>), wire, id[w], a)
          /\ Grown(queue, queue \o Frames(id[w], <<a, b>>), wire, id[w], b)
      BY <1>b, <1>q, <3>1, <3>2, SendGrows, FrameLists
    <3>4. Grown(queue, queue', wire, id[w], u)
      BY <1>1, <2>1, <3>3 DEF Send
    <3> QED BY <1>a, <1>b, <1>c, <1>d, <1>1, <2>1, <3>4, OrderOwn
  <2>2. CASE writer = "off"
    BY <1>1, <1>a, <1>b, <1>c, <1>d, <2>2, OrderOwn DEF Send
  <2> QED BY <2>1, <2>2 DEF TypeOK
<1>l. /\ bridge'[w] = "leaving" => "WS_CLOSE" \in Expects(w)' /\ "WS_DATA" \in Expects(w)'
      /\ bridge'[w] = "bridge" => "WS_DATA" \in Expects(w)'
  BY DEF Expects, Mark, FrameType
<1>2. CASE WsFails(w)
  <2>1. Send(id[w], <<"WS_CLOSE">>) /\ bridge[w] \in {"dial", "write"} /\ bridge'[w] = "leaving"
    BY <1>2 DEF WsFails, SockAt, TypeOK
  <2> QED BY <1>1, <1>l, <2>1
<1>3. CASE GuestData(w)
  <2>1. /\ Send(id[w], <<"WS_DATA">>) /\ bridge[w] \in {"dial", "bridge"}
        /\ bridge'[w] \in {"bridge", "leaving"}
    BY <1>3 DEF GuestData, SockAt, TypeOK
  <2> QED BY <1>1, <1>l, <2>1
<1>4. CASE GuestEnds(w)
  <2>1. bridge[w] \in {"dial", "bridge"} /\ bridge'[w] = "leaving"
    BY <1>4 DEF GuestEnds, SockAt, TypeOK
  <2>2. PICK a \in {"WS_DATA", "WS_CLOSE"} :
          Send(id[w], <<"WS_CLOSE">>) \/ Send(id[w], <<a, "WS_CLOSE">>)
    BY <1>4 DEF GuestEnds
  <2>3. CASE Send(id[w], <<"WS_CLOSE">>)
    BY <1>1, <1>l, <2>1, <2>3
  <2>4. CASE Send(id[w], <<a, "WS_CLOSE">>)
    <3>1. CASE Send(id[w], <<a>>)
      BY <1>1, <1>l, <2>1, <3>1
    <3>2. CASE ~Send(id[w], <<a>>)
      BY <1>1, <1>l, <2>1, <2>4, <3>2
    <3> QED BY <3>1, <3>2
  <2> QED BY <2>2, <2>3, <2>4
<1>5. CASE WsDialed(w) \/ Forwards(w) \/ VisitorClosed(w) \/ Written(w) \/ WsLeaves(w)
  <2>1. queue' = queue
    BY <1>5 DEF WsDialed, Forwards, VisitorClosed, Written, WsLeaves
  <2>2. Expects(w) \subseteq Expects(w)'
    BY <1>5, <1>a, <1>c DEF Expects, WsDialed, Forwards, VisitorClosed, Written, WsLeaves, SockAt, TypeOK
  <2>3. \A k \in Job : Expects(k) \subseteq Expects(k)'
    BY <1>d, <2>2
  <2> QED BY <1>c, <2>1, <2>3, OrderIdle
<1> QED BY <1>2, <1>3, <1>4, <1>5

\* A frame that is written leaves the last frames as they are.
LEMMA LinkOrder ==
  ASSUME TypeOK, Numbered, OrderInv, LinkStep
  PROVE  OrderInv'
<1>e. UNCHANGED <<id, holder, task, bridge, aborted>>
  BY DEF LinkStep, Write, WriteFails, WriterEnds, ReaderEnds, ReaderFails, WriterAwaited, Return,
         edge, callVars, sockVars
<1>x. \A k \in Job : Expects(k)' = Expects(k)
  BY <1>e DEF Expects
<1>1. CASE Write
  <2>q. queue \in Seq(Frame) /\ queue # <<>> /\ Chain(queue, wire) /\ DOMAIN wire = Id
    BY <1>1 DEF Write, TypeOK, Frame, OrderInv
  <2>w. wire' = [wire EXCEPT ![Head(queue).id] = Head(queue).t] /\ queue' = Tail(queue)
    BY <1>1 DEF Write
  <2>1. /\ Chain(Tail(queue), wire')
        /\ \A i \in Id : \A u : LastIs(queue, wire, i, u) => LastIs(Tail(queue), wire', i, u)
    BY <2>q, <2>w, ChainTail
  <2>2. Chain(queue, wire)'
    BY <2>1, <2>w DEF Chain
  <2>3. \A n \in 1..Len(queue') : holder[queue'[n].id] # None
    <3>1. /\ Len(queue) \in Nat /\ Len(queue') = Len(queue) - 1
          /\ \A n \in 1..Len(queue') : queue'[n] = queue[n + 1]
      BY <2>q, <2>w, LenProperties, HeadTailProperties
    <3>2. \A n \in 1..Len(queue') : n + 1 \in 1..Len(queue)
      BY <3>1
    <3> QED BY <3>1, <3>2 DEF OrderInv
  <2>4. ASSUME writer = "on", NEW j \in Job, id[j] # None PROVE Stands(j)'
    <3>1. PICK t \in Expects(j) : LastIs(queue, wire, id[j], t)
      BY <2>4 DEF OrderInv, Stands
    <3>2. LastIs(queue', wire', id[j], t)
      BY <2>1, <2>4, <2>w, <3>1 DEF TypeOK
    <3> QED BY <1>e, <1>x, <3>1, <3>2 DEF Stands, LastIs
  <2>5. writer = "on" => \A j \in Job : Stands(j)'
    BY <1>e, <2>4 DEF Stands
  <2>6. writer' = "on" /\ writer = "on"
    BY <1>1 DEF Write
  <2> QED BY <1>e, <2>2, <2>3, <2>5, <2>6 DEF OrderInv
<1>2. CASE WriteFails \/ WriterEnds
  <2>1. writer' = "off" /\ queue' = <<>>
    BY <1>2 DEF WriteFails, WriterEnds
  <2>2. Chain(queue, wire)'
    BY <2>1 DEF Chain
  <2> QED BY <2>1, <2>2 DEF OrderInv
<1>3. CASE ReaderEnds \/ ReaderFails \/ WriterAwaited
  <2>1. UNCHANGED <<writer, queue, wire>>
    BY <1>3 DEF ReaderEnds, ReaderFails, WriterAwaited, Return
  <2> QED BY <1>e, <1>x, <2>1, OrderIdle
<1> QED BY <1>1, <1>2, <1>3 DEF LinkStep

\* Every step keeps the order.
LEMMA OrderStep ==
  ASSUME ~IdsReused, TypeOK, Numbered, HandleInv, OrderInv, [Next]_vars
  PROVE  OrderInv'
<1>1. CASE UNCHANGED vars
  <2>1. \A j \in Job : Expects(j) \subseteq Expects(j)'
    BY <1>1 DEF Expects, vars, edge, callVars, sockVars
  <2> QED BY <1>1, <2>1, OrderIdle DEF vars, edge
<1>2. ASSUME NEW c \in Call, CallStep(c) PROVE OrderInv'
  BY <1>2, CallFrameOrder, CallTaskOrder DEF CallStep
<1>3. ASSUME NEW w \in Sock, SockStep(w) PROVE OrderInv'
  BY <1>3, SockFrameOrder, BridgeOrder DEF SockStep
<1> QED BY <1>1, <1>2, <1>3, LinkOrder DEF Next

\* The queue continues what is on the wire, and every task stands where its
\* last frame says, while the edge does not use an id again.
THEOREM OrderHolds ==
  ASSUME ~IdsReused
  PROVE  Spec => []OrderInv
<1>1. Init => OrderInv
  BY DEF Init, OrderInv, Chain, Stands
<1>2. TypeOK /\ Numbered /\ HandleInv /\ OrderInv /\ [Next]_vars => OrderInv'
  BY OrderStep
<1> QED BY <1>1, <1>2, TypeCorrect, HandlesHold, PTL DEF Spec

\* No task ends in silence while the edge can be told.
THEOREM CallsAnswered ==
  ASSUME ~IdsReused
  PROVE  Spec => []EveryCallAnswered
<1>1. TypeOK /\ Numbered /\ OrderInv => EveryCallAnswered
  <2> SUFFICES ASSUME TypeOK, Numbered, OrderInv, NEW c \in Call,
                      task[c] = "done", writer = "on", c \notin aborted
               PROVE  Told(id[c]) \cap {"RES_END", "ABORT"} # {}
    BY DEF EveryCallAnswered
  <2>1. c \in Job /\ c \notin Sock /\ id[c] # None
    BY JobsAssumption DEF Job, Numbered
  <2>2. PICK t \in Expects(c) : LastIs(queue, wire, id[c], t)
    BY <2>1 DEF OrderInv, Stands
  <2>3. t \in {"RES_END", "ABORT"}
    BY <2>1, <2>2 DEF Expects
  <2>4. t \in Told(id[c])
    BY <2>2 DEF Told, LastIs
  <2> QED BY <2>3, <2>4
<1> QED BY <1>1, TypeCorrect, OrderHolds, PTL

\* The wire implements Exchange: what the writer puts on it is, for every id,
\* one answer in order.
THEOREM WireImplements ==
  ASSUME ~IdsReused
  PROVE  Spec => AnswersInOrder
<1>1. Init => OnWire!Init
  BY DEF Init, OnWire!Init
<1>2. ASSUME TypeOK, OrderInv, [Next]_vars PROVE [OnWire!Next]_wire
  <2>1. CASE Write
    <3>1. queue \in Seq(Frame) /\ queue # <<>> /\ Chain(queue, wire) /\ DOMAIN wire = Id
      BY <1>2, <2>1 DEF Write, TypeOK, Frame, OrderInv
    <3>2. Head(queue).id \in Id
      <4>1. Head(queue) \in Frame
        BY <3>1, HeadTailProperties
      <4> QED BY <4>1 DEF Frame
    <3>3. Head(queue).t \in OnWire!Follows[wire[Head(queue).id]]
      BY <3>1, ChainTail
    <3> QED BY <2>1, <3>2, <3>3 DEF Write, OnWire!Next, OnWire!Reply
  <2>2. ASSUME NEW j \in Job, NEW i \in Id, NEW kind \in {"request", "upgrade"}, Opens(j, i, kind)
        PROVE  OnWire!Next
    BY <2>2 DEF Opens, OnWire!Next, OnWire!Open
  <2>3. CASE UNCHANGED vars
    BY <2>3 DEF vars
  <2>4. ASSUME NEW c \in Call, CallStep(c) PROVE [OnWire!Next]_wire
    <3>1. wire' = wire \/ \E i \in Id : Opens(c, i, "request")
      BY <2>4 DEF CallStep, ReqHead, Page, ReqBody, ReqEnd, UploadBreaks, AbortFrame, callTask,
                  Dialed, Fails, Responds, Listens, Chunk, ResponseEnds, Stops, Leaves
    <3> QED BY <2>2, <3>1 DEF Job
  <2>5. ASSUME NEW w \in Sock, SockStep(w) PROVE [OnWire!Next]_wire
    <3>1. wire' = wire \/ \E i \in Id : Opens(w, i, "upgrade")
      BY <2>5 DEF SockStep, WsOpen, WsData, WsCloseFrame, bridgeTask,
                  WsDialed, WsFails, Forwards, VisitorClosed, Written, GuestData, GuestEnds, WsLeaves
    <3> QED BY <2>2, <3>1 DEF Job
  <2>6. CASE WriteFails \/ WriterEnds \/ ReaderEnds \/ ReaderFails \/ WriterAwaited
    BY <2>6 DEF WriteFails, WriterEnds, ReaderEnds, ReaderFails, WriterAwaited, Return
  <2> QED BY <1>2, <2>1, <2>3, <2>4, <2>5, <2>6 DEF Next, LinkStep
<1> QED BY <1>1, <1>2, TypeCorrect, OrderHolds, PTL DEF Spec, AnswersInOrder, OnWire!Spec
=============================================================================
