# Verification of neko-computer

TLA+ models of neko: the edge that relays visitors to a sandbox through a tunnel
(`edge/`), and the CLI that runs sandboxes and keeps their checkpoints
(`crates/neko/`). TLC checks them on small instances; TLAPS proves theorems
about them for every value of the constants. Paths below are relative to the
repository; the modules name the functions they translate, with the names of
the source.

## The system

A *computer* is a name for a sandbox whose disk is saved as a chain of
*checkpoints*. `neko run` boots one and may open a *tunnel*: the CLI's
*connector* holds one WebSocket to a Durable Object of the edge, one object per
subdomain, and every visitor request or visitor WebSocket of that subdomain is
multiplexed over it by an id, in frames of type, id and payload.

| Component | State it keeps | Operations | Talks to | What makes it correct |
|---|---|---|---|---|
| Tunnel object, `edge/src/tunnel.ts` | the attached connector, the map of pending requests with their timers, streams and head promises, `nextId`, the token bucket; tagged and attached sockets, which survive hibernation | connect, kill, visitor request, visitor WebSocket, every frame of the connector, socket close and error, timers, constructor | connector (frames), visitors (HTTP, WebSocket), policy (calls it awaits) | one owner at a time; every request ends; no entry, timer or stream is left behind; caps hold; visitors never outlive the connector |
| Policy seam, `edge/src/policy.ts` | the configured policy and limits | connect, closed, contain | tunnel object | a failing handler costs one request |
| Worker, `edge/src/lib.ts` | JWKS cache | route, authenticate | tunnel objects, deny list | connects are authenticated, internal headers stripped |
| Limiter, `edge/src/limiter.ts` | a counter and its window | count, peek | policies | never admits more than `max` per window |
| Connector, `crates/neko/src/tunnel.rs` | maps of upload bodies, abort handles and guest sockets by id | one task per request or socket, one reader, one writer | tunnel object (frames), sandbox (HTTP, WebSocket) | one answer per request, in order; aborts end the guest request; no task or entry is left |
| Session, `run.rs` | sandbox, boot source, queues of dials and shells | boot, serve, checkpoint on the way down | connector, store, sign in | the checkpoint's parent is what was booted; whoever asks for the sandbox is answered; what ended well is saved |
| Store, `store.rs`, `commands.rs` | SQLite tables of computers and checkpoints; one image file per checkpoint | run, clone, rm, gc, prune | sessions of other processes, the file system | what a computer needs is never deleted; what nothing needs is reclaimed |
| Provisioning, `paths.rs` | base image files and a VERSION mark | clear, link, download, unpack | file system, network, a shuru install | what boots is the whole image of the pinned version; a retry gets there |
| Sign in, `login.rs`, `dist.rs` | a session file | device flow, token exchange, choice of a workspace | identity provider, console | a session token goes to its issuer only |
| Upgrade, `upgrade.rs`, `install.sh` | the installed binary | fetch, verify, replace | network, file system | the binary is never half replaced |
| Forwarding, mounts, terminal: `forward.rs`, `mount.rs`, `term.rs`, `assets/term/app.js` | listeners, a terminal page | parse, copy bytes | sandbox | |
| Names, mascot, release lookup, arguments | none | | | |

What is hard here: the tunnel object is single threaded but suspended calls
interleave at each `await`, so that what was read before one may be stale after
it; close events come late and after replacements; hibernation loses the memory
of the object and keeps its sockets; a response head, its timeout, an abort and
the loss of the connector race; the store's statements commit one by one while
other processes run, and a process may die between any two of them.
`PROJECT.json` lists each of these hazards at its line, with the properties
that would catch it.

## The modules

    Tunnel       the Tunnel object         <- MCTunnel     <- TunnelProofs  <- ForwardingProofs
      implements Forwarding  what the connector is sent
    Connector    the host connector        <- ConnectorProofs
      implements Exchange    what the edge is answered
    Computers    the store and commands    <- MCComputers  <- ComputersProofs  <- HistoryProofs
      extends Ancestry       ancestors of a checkpoint
      implements Histories   what neko history shows
    Session      one neko run              <- MCSession    <- SessionProofs
      extends SignIn       the session file
    Provision    the base image            <- MCProvision  <- ProvisionProofs
      extends Upgrade      the binary

### Tunnel

One step is one turn of the object's event loop: from the event that starts it
to the next await of every continuation it wakes. The suspended calls are
state: `asked` (connects in `policy.connect`, with the `liveUser` each read,
in `seen`), `releasing` (releases in `policy.closed`, by socket and caller),
and `phase` of each request (`admit`: in the visitor check of a private tunnel;
`upload`: in `reader.read()`; `await`: in the race for the head).

| State | In the code |
|---|---|
| `connector`, `nextId`, `pending` | the fields of that name; `pending` is a set of requests, with the key of each in `rid` |
| `idle`, `life` | requests whose timer of that name is armed |
| `head`, `stream` | the promise and the `ReadableStream` of a request; `"null"` is a head whose `headSettled` is set and whose promise is never resolved |
| `sock`, `mode` | what the runtime holds for each socket: its readiness, its attachment |
| `slots` | external: the connects a policy has counted in `connect` and not been told of in `closed`: a replaced connector's stays |
| `sent` | the frames of the last turn; the interface for the connector's module |

A socket is `open`, `lost` (the peer is gone, the event is still to come, sends
are swallowed), `closing` (close was called, or its event is being handled;
sends throw) or `gone`. `getWebSockets` lists the first three. `ReleaseEnd`
removes the socket when its close event is over.

Actions follow the handlers: `ConnectAsk`, `Denied`, `Accepted` (connect),
`Kill`, `ConnectorEnds`, `ReleaseEnd`, `ReleaseFails` (release), `Arrive`,
`Admit`, `Relay`, `OpenWebSocket` (serve), `UploadChunk`, `UploadEnd`,
`UploadBreaks`, `HeadTimeout`, `IdleFires`, `LifetimeFires`, `VisitorCancels`,
one per frame type and outcome (`ResHead`, `ResHeadGarbled`, `ResHeadNull`,
`ResBody`, `ResBodyOverflows`, `ResEnd`, `AbortFrame`, `WsCloseFrame`),
`WsMessage`, `WsEnds`, and `Reawaken` (the constructor after hibernation).

The environment is a set of switches. `PolicyYields`: the policy does I/O, so
other turns run while it decides; without it a suspended policy call runs on
before any other event, as with the default `allowAll`. `Exclusive`: the policy
denies a connect over another account's live connector, which it must judge by
the `liveUser` it was given. `ClosedFails`: `closed` may reject. `Hibernates`:
the runtime evicts an object that nothing keeps awake, which is one with no
timer, no suspended call and no response under way.

Abstracted: payloads, headers and statuses (a head is one with a body, one
whose status forbids a body, or one the `Response` constructor throws on);
bytes are chunks (`BodyCap` of them are admitted); the token bucket is a choice
to refuse. Left out: the alarm that wipes old storage, the liveness probe
(it reads only), the wording of answers, 405 and 426 answers. The checks of
`kill` on who may kill are left out: every kill that is modelled is authorised.
Bound: one kill of a connector is under way at a time.

`Forwarding` is what a connector may rely on in the frames of one tunnel: each is
about one request or socket, under an id that nothing else alive has; a request is
opened once, its upload is chunks and one end or is cut short, it is aborted only
while its answer is awaited or under way or its upload is read; a socket is data
until one close. `Tunnel` implements it with `rid` for its ids, `sent` for its frames, `pending`
for the requests that are open, those in phase `upload` for the uploads and
the listed sockets for the bridges. With hibernation its `Restarts` is true: an id
may be used again once nobody alive has it. Not promised, since the code does not
keep it: that a request gets one ABORT only (the lifetime timer may send one while
the upload goes on and then runs into the cap), or that no chunk follows the first.

### Connector

`run()` holds the WebSocket to the edge; its tasks run on several threads, so a
step is the piece of a task between two awaits, or less where another thread can
get between two effects (`Responds` and `Listens`; the end of `handle` and
`Leaves`). A frame of the edge is an action of the reader.

| State | In the code |
|---|---|
| `reader`, `writer`, `queue` | where `run()` stands, whether the writer task lives, the channel between |
| `bodies`, `aborts`, `sockets` | the maps of that name, from ids to whose sender or `Notify` they hold |
| `notified` | calls whose `notified()` future was woken |
| `task` | `dial`, `request` (in `send_request`), `headed` (the head is sent and `notified()` not yet called), `stream` (in the select), `leaving` (`handle` is over, the entry still there) |
| `bridge`, `shell`, `inbox` | the same for `ws_handle` (`write`, `close`: it awaits a message, or its Close, to be written to the guest) and, for a web terminal, `term_ws`; what the guest channel of a socket holds |
| `id`, `holder`, `upload` | external: the edge's side, as `Tunnel` has it |
| `aborted`, `closed`, `dropped`, `wire` | history: which ABORT and WS_CLOSE frames were read, lost chunks, the last frame written for each id |

Calls: `ReqHead`, `Page` (the terminal's pages and the redirect, which `run()`
answers by itself), `ReqBody`, `ReqEnd`, `AbortFrame`, then `Dialed`, `Responds`,
`Listens`, `Chunk`, `ResponseEnds`, `Fails`, `Stops`, `Leaves`. Sockets: `WsOpen`,
`WsData`, `WsCloseFrame`, `WsDialed`, `WsFails`, `Forwards`, `Written`, `VisitorClosed`,
`GuestData`, `GuestEnds`, `WsLeaves`. The link: `Write`, `WriteFails`,
`WriterEnds`, `ReaderEnds` (a Close frame or the end of the stream), `ReaderFails`
(`msg?`) and `WriterAwaited`. After a Close no write succeeds, so `Write` needs
the reader to be reading. `UploadBreaks` is the edge's: it gives a request up and
sends no frame (tunnel.ts:287). `IdsReused` lets the edge give out ids again, as
it does after hibernation. `QueueBound` bounds both kinds of channel, for data
only. When `run()` has returned the process is ending and nothing more is
modelled. Left out: what is in heads and headers, frames too short or garbled,
the two loopback addresses of a dial, terminal resizes (which change no state
here), a second ABORT for an id (the edge sends one if an upload it aborted runs
into the cap; it finds no entries), and the connect request.

`Exchange` is what an edge may rely on: per id one answer, in order, with one
end. `Connector` implements it with `wire` for its variable.

### Computers

One step is one SQL statement (each commits by itself) or one file operation,
so that the commands of several processes interleave as they may; with
`Crashes` a process may die between any two. `pc` is where each process
stands; `base` is `boot_from` and `parent` of run.rs; `todo`, `reach` and `dead`
are the locals of `resolve_ref`, `reachable_checkpoints` and `prune`. A label
is a choice to stop at a checkpoint or to look further up the history. The walk
of `reachable_checkpoints` visits heads and parents in any order, where the code
goes computer by computer. Checkpoint ids are fresh: `new_checkpoint_id` draws
them from 2^56. A run without a computer's name only reads and is left out, as
are `ls` and `history`. Copying an image and checking that a name is free are one
step of `CloneFile`: other processes see neither.

`Histories` is what the store promises to whoever works with computers: each has a
history, as `neko history` shows it (its head, and what each checkpoint was made
from), and no command changes a history but to put a checkpoint on top of it, to
begin one as a branch of another, or to remove the computer. Saving, cloning and removing
are one step each there, and gc and prune are none. `Computers` implements it with
`History` for its variable, which is what `Store.history` reads off the tables: the walk
from the head along the parents that have rows. The statements before the head
moves, a crash between any two of them and all of a prune are stutters. In both, a
chain is a least fixed point of the parents (`Ancestry`), so that nothing recurs.

### Session, with SignIn

`run()` of run.rs from its arguments to its end, the task spawned on its
`LocalSet` that owns the sandbox, and whoever asks that task for something.

| State | In the code |
|---|---|
| `args`, `base` | the flags given, `auth_base()` |
| `stage` | the place in `run()`; `serve` is the select, `sync` to `head` the checkpoint on the way down |
| `command`, `interrupted` | `done_rx` and `ctrl_c()` |
| `listen`, `opened` | the listeners of `forward::start`; whether the edge has accepted the tunnel |
| `dials`, `shells`, `asker` | `dial_rx`, `shell_rx`, and where each request stands: `queued`, `called` (the owner awaits the guest for it), `open`, `refused`, `cut` (its reply was dropped) |
| `written`, `flushed`, `image` | external: the files the guest has written (`Mounted`: those under a mount), that a sync has brought to its own disk, that the copy of the disk has |
| `synced`, `atEnd` | history |
| `file`, `login`, `sent` | the session file, the token a `neko login` has yet to store, the token sent last and to whom |

Up to the select: `CheckArgs`, `Prepare`, `Credential` (twice: `access_jwt` and
the workspaces, each reading the file for itself), `Source`, `Boot`, `Launch`,
`Bind`, `Serve`, and `Fails` for every `?`. The owner: `TakeDial`, `TakeShell`,
`Answer`; it answers one at a time, and only while `run_until` polls the set
(`Polled`). Askers: `DialForwarded` (a connection to a forwarded port),
`DialTunneled` (a request or WebSocket of the tunnel; one that carries the terminal only
still dials, port 0, for WebSockets to other paths and requests for the terminal's
socket), `AskShell`, `StreamEnds`; `Writes` is any guest program that writes, under a
mount or not. The select:
`CommandDone`, `Interrupted`, `TunnelEnds`. The way down: `Sync`, `Snapshot`,
`Record`, `SetHead`. An interrupt before the select kills the process, one after
it is swallowed. `SignIn` has the steps of `neko login` (`Granted`, `Truncate`,
`Stored`, `LoginStops`: `fs::write` truncates first) and the reads; issuers differ
when a binary is pointed at another endpoint.

Abstracted: one action stands for a whole call of the store (Computers), of the
tunnel (Connector) and of the provisioning (Provision), which open, fail or end
here. The copy holds what was flushed and any part of the rest of the
guest's disk, and nothing of a mount, whose overlay or host directory is not on it.
That a dial names a port is left out. Bounds: a
connection, a visit and a shell ask once; other logins run while the session
may still read the file. Left out: what arguments say beyond which flags are
given, the choice among workspaces, the cost of a failing sync, output.

### Provision, with Upgrade

`ensure_ready` of paths.rs, by launches (`Proc`) of binaries that upgrades
replace, and `upgrade()`. A step is one file operation.

| State | In the code |
|---|---|
| `file` | each asset in the data directory: of which version, written to its end or not, by whom; `None` if it is missing |
| `mark` | the VERSION file |
| `shuru` | a shuru install: its version and the assets it has, which stays as it was found |
| `pc`, `pin`, `at`, `next`, `left`, `cur` | where a launch stands, the version its binary pins, its place in the loops over the assets |
| `up`, `got`, `staged`, `binary`, `whole` | where an upgrade stands, its release, whose file has the staging name and whose the name of the binary, and which are complete |

`Start` runs what the binary's name holds and takes the fast path of
`provisioned`; `Probe`, `Clear`, `ClearMark` are `clear_assets`; `Link` and
`LinksDone` `link_from_shuru`; `UnpackOpen`, `UnpackFill` and `WriteMark`
`download_base_image`; `Boot` opens the assets. `Stops` is a kill or an error at
any step. `Fetch`, `Open`, `Fill`, `Rename`, `UpgradeStops` are `upgrade()`.

Abstracted: the temporary file of the download is part of the unpacking; the
archive holds the three assets, in any order; removing a file that is there
succeeds; a file has an inode of its own, so that a half-written one keeps its
writer when its name goes to another. Bounds: a launch and an upgrade are used
once; with `Overlap` false two launches that provision, or two upgrades, do not
overlap: the code takes no lock, and the properties fail without it (see below).

## What the runs check

| Run | Instance | Shows |
|---|---|---|
| TunnelStreams | 2 connectors, 2 requests, uploads of 2 chunks against a cap of 1, a policy that yields and may fail, hibernation | `TypeOK`, `TimersMatchPending`, `PendingKeysUnique`, `NoHungStream`, `NoStaleEntry`, `NoOrphanWait`, `FramesForwarded` |
| TunnelSockets | 2 connectors, 3 visitor sockets under a cap of 2, every visibility, a policy that yields, hibernation | `WebSocketCapHolds`, `VisitorsFollowConnector` |
| TunnelLifecycle | 3 connectors of 2 accounts, an exclusive policy that answers at once, 2 visitors of a private tunnel that takes one | `ConcurrencyCapHolds`, `SlotReleasedOnce`, `ConnectorListed`, `NoTakeover`, `DroppedByItsOwnRelease` |
| TunnelLive | 2 connectors, 1 request, fairness | `WaitEnds`, `PendingDrains`, `LostConnectorReleased` |
| ConnectorTasks | 2 requests, 1 visitor WebSocket, 2 ids, a web terminal | `TypeOK`, `EveryCallAnswered`, `HandlesFollowTasks`, `UploadIntact`, `AnswersInOrder` |
| ConnectorLive | 1 request, 1 visitor WebSocket, fairness; a guest that reads | `AbortHeeded`, `ClosedSocketEnds`, `DrainReturns` |
| AbortLost | the same | an ABORT that comes before its task listens is forgotten |
| ComputersSolo | 1 process, 3 names, 4 checkpoints, crashes | `TypeOK`, `LiveIntact`, `PruneIsComplete`, `HistoriesOnlyGrow` |
| ComputersPairs | 2 processes, 2 names, 3 checkpoints | `RowsHaveImages` |
| PruneRace | 2 processes | a prune deletes the history of a live computer |
| SessionRun | 7 command lines, 2 issuers with a token each, 1 mapping, connection, visit and shell, 2 files of which one is under a mount, fairness | `TypeOK`, `TokenStaysHome`, `EndedIsSaved`, `DialsAnswered`, `SessionEnds` |
| ProvisionRun | 3 launches, 2 upgrades, 2 releases that pin 2 images, 4 shuru installs, fairness | `TypeOK`, `BootsReady`, `BinaryWhole`, `RetrySucceeds` |

Bounds. Every request, connector and socket of an instance is used once, so a
run may stop: deadlock is not checked for the tunnel. TunnelStreams has no visitor
socket, so that `FramesForwarded` is checked there for requests, across hibernation; the
theorem covers sockets. Two connectors are the
least for a replacement, three for a late close that meets a second replacement;
two requests for a frame or a timer that hits the wrong one; one visitor socket
more than the cap to exceed it. Connectors of one account, requests and visitor
sockets are interchangeable and are declared symmetric, never in the run with
liveness properties or under two accounts. A request and a socket
share the connector's reader, channel and writer and have different ids; with
the ids never used again, requests do not touch each other's entries, and the
proofs hold for any number. Four checkpoints allow a chain of
two, a branch from its middle and a dead one at once. Three launches are a first
that dies, one that finds what it left and one after an upgrade; two upgrades,
one over what the other left. One connection and one shell are enough for the
owner to be busy with one while the other waits; two files, for one written before
the end of the session that the sync brings to the disk and one that no sync does. Each property has a
mutant in the module of its definition, marked `Mutant:`, a plausible slip in
the code that the property's run refutes.

Fairness. `Fairness` is what the runtime gives: armed timers fire (`HeadTimeout`,
`LifetimeFires`), a close event is delivered (`ConnectorEnds`), the verification
of a visitor's token returns (`Admit`). `FairPolicy` is what a deployment must
give: the promises of its policy settle, and closed succeeds. Nothing is assumed
of visitors or of the connector: they may send anything or go silent. In
the connector, `Scheduled` is what tokio gives: a task that can go on does, a
branch of a select that stays ready is taken, the writer comes to what is queued.
What waits for the guest waits without a timeout, so that `FairGuest` is asked of it:
dials end, a request whose body ended is answered, a response goes on or ends, and a
guest WebSocket reads what is written to it or breaks (`Written`), though it may send
nothing for good. `Forwards` takes a message off the channel; that it is written is the
guest's doing. In a session `Scheduled` is
again what tokio gives: `run()` goes on, the select sees a branch that is ready, the
owner comes back to its queues; `FairSandbox` is asked of the guest: the calls that
answer a dial or a shell, sync and copy return. A launch that is not killed goes on. The idle
timer needs no fairness, since a connector may re-arm it forever; the lifetime
timer does the work.

### Where the code and its documentation part

- `AbortLost`: `handle` calls `abort.notified()` after the response head is sent
  (tunnel.rs:360) and `notify_waiters` leaves no permit, so that an ABORT read
  before is lost and the response streams on to nobody, against
  docs/specs/tunnel-protocol.md:48.
- `PruneRace`: `prune` reads and deletes in separate statements, foreign keys off
  (commands.rs:95-108): a clone or a checkpoint recorded between loses its
  history, against commands.rs:93.

Also met while modelling, and not given runs of their own.

In the tunnel object: `release()` compares its socket with the attached one before
it awaits `policy.closed` and drops whatever is attached after (tunnel.ts:544-555),
so that with a policy that does I/O a connector that reconnects meanwhile is
closed with its requests, against the comment at tunnel.ts:545; a new instance
counts ids from 1 while the visitor sockets of the one before keep their tags
(tunnel.ts:71), so that two visitors may share one, against
docs/specs/tunnel-protocol.md:57 (`FramesForwarded` fails with `Hibernates` and a
visitor socket); a verdict of a policy that does I/O is applied to
a `liveUser` that may have changed (tunnel.ts:154-167; `NoTakeover` is checked and
proved for one that answers at once, and fails under `PolicyYields`); a replaced
connector's requests stay pending under its successor (tunnel.ts:184-191); a
`closed` that rejects leaves a dead socket attached (`ConnectorListed` fails under
`ClosedFails`); docs/specs/tunnel-protocol.md:106 has the worker ask the Limiter
before a connect, and nothing in the repository does. Of the slots a policy counts:
policy.ts:38 says that `closed` is called when the connector closed, but a replaced
connector's close event is ignored (tunnel.ts:544), so that what its `connect` counted
is never released, unless the policy counts names and not connects; with a policy that
does I/O a kill and the close event it causes both call `closed` (tunnel.ts:133,
524-554); and a constructor that runs after hibernation may attach a killed connector
that is still closing, and its close event releases it again (`SlotReleasedOnce` fails
under `PolicyYields` or `Hibernates`). A connector whose host dies keeps its slot until
the runtime reports its close, which is what the probe is for
(docs/specs/tunnel-protocol.md:137-139). A `Response` constructor that throws answers 500
and leaves the entry, until RES_END, an ABORT or its timers (tunnel.ts:82-88, 311-320).

In the connector: after a Close of the edge, `run()` returns only if no upload is
open and no WebSocket is left, or if some task writes and so finds the socket gone:
it holds the upload senders and the map of sockets while it waits for tasks that
wait for these (tunnel.rs:311-312; `DrainReturns` excludes the two cases); an upload
that is aborted ends for the guest as if it were complete (tunnel.rs:254); a task
that ends leaves the sender of its upload in `bodies` until the edge ends or aborts it,
and for good if the upload broke (tunnel.rs:241); a write to a guest WebSocket has no
timeout (tunnel.rs:415-420), so that a guest that stops reading holds the task, and the
socket its visitor has closed, for good; with only a terminal in the tunnel,
docs/specs/tunnel-protocol.md:118 says that every other path answers a 302, but WebSockets
to other paths and requests for the terminal's own socket are let through and dial port
0 (tunnel.rs:221, 265-281, run.rs:275); with
`IdsReused` a task that ends late removes the handles of its successor under the
same id, and may write into its answer (`HandlesFollowTasks` and `AnswersInOrder`
fail).

In the store: an image written by a process that died before it recorded the
checkpoint is never swept (run.rs:311, commands.rs:102); with two processes a `gc`
between `add_checkpoint` and `set_head` removes the new checkpoint, and of two sessions
of one computer the later `set_head` drops the checkpoint of the other from its
history (run.rs:314).

In a session: `--checkpoint` without a name is refused at the end only, and the
session is lost (run.rs:305-308); a sync that fails is ignored (run.rs:310), so that
the checkpoint may lack what the guest wrote; what is written under a mount, /workspace
by default, where the command runs, is in no checkpoint (mount.rs:5-8, the repository's README.md:65,
skills/neko/SKILL.md:78); the comment at run.rs:220 has a session with `--tunnel` run the
tunnel and only one without it wait for the command, but the select of the tunnel waits
for the command as well (run.rs:285-293), so that a tunnel is closed when its command
ends (`SessionEnds`, whose mutant is what the comment says); an interrupt after the select is
swallowed while the sync may hang; the owner of the sandbox has no timeout, so that
one dial that hangs stops all dials and shells; it may be suspended in the middle of
a call when `run_until` stops polling it and the checkpoint uses the same sandbox;
the token and the workspaces are read from the session file separately, so that a
login between gives the token of one account and the workspace of another.

On the way there: two first launches may overlap (paths.rs:38), and one marks or
boots what the other clears or unpacks (`BootsReady` fails under `Overlap`), against
paths.rs:30-33; two upgrades share `.neko.upgrade` and one may rename the other's
half-written file (`BinaryWhole` fails under `Overlap`); `assets_present` does not look for
the initramfs; a link that fails because shuru is on another device is an error, not
a download; a shuru that is upgraded or removed later takes the linked image with
it; install.sh extracts over the binary in place.

## What is proved

`TunnelProofs` assumes only the named ASSUMEs of Tunnel: constants are what they
are declared to be, limits are naturals.

- `TypeCorrect`: `TypeOK`, which includes the bound on what an upload may send.
- `RequestsInvariant`: `RequestInv`, the inductive invariant of requests. The
  five properties below are not inductive: that a stream still open has an entry
  needs to know that every entry's stream is open and that a resolved head whose
  call has yet to hand it over is watched already (`EntryInv`); that keys are
  unique needs every key to be below `nextId`. It holds under every switch.
- `NoHungStreams`, `NoStaleEntries`, `TimersFollowEntries`, `IdsUnique`,
  `NoOrphans`: the properties, from it. `NoStaleEntry` says whose an entry is: a call's
  that uploads or waits, or an answer's made from the head its connector sent. The 500 of a
  head that `Response` throws on is such an answer, since the code keeps that entry.
- `ConcurrencyCap` and `WebSocketCap`: the caps, under every switch. A step adds at
  most one entry (`PendingStep`) and opens at most one socket (`SocketSteps`); the
  WebSocket cap counts the list less one, and when a socket is opened the connector
  is on the list, since WS_OPEN throws otherwise.
- `ConnectorStaysListed`, `VisitorsFollow`: if `closed` never rejects, for any policy
  and across hibernation. `LinkInv` adds that a connect under way has no socket yet
  and a release under way has one; the constructor finds the connector because
  it is listed.
- `OneOwner`, `SlotsReleasedOnce`: with a policy that answers at once and no
  hibernation, `SlotReleasedOnce`, whatever the policy decides and even if `closed`
  rejects, and `NoTakeover` if it is exclusive too. The strengthening,
  `OneSuspended`, says that at most one policy call is under way and that it still
  sees the connector it started with. That every slot is given back is not
  proved, since it is not so.
- `OwnRelease`: `DroppedByItsOwnRelease`, with a policy that answers at once, exclusive or
  not, if there is no hibernation or `closed` never rejects. A release that ends finds
  the connector it began with, since no other call was under way (`OneSuspended`), and a
  constructor finds the one that was attached, since it is listed (`LinkInv`).

`ForwardingProofs`:

- `TunnelForwards` (assumes `~Hibernates \/ Ws = {}`): `Spec => FramesForwarded`, the
  refinement. Each action maps to one step of `Forwarding`: what serves a visitor is
  `Begin` or `Upgrade` (`ServeForwards`), the upload's turns are `Upload`
  (`UploadForwards`), a timer or a visitor that goes away is `GiveUp`, what a
  visitor's socket does is `Relay` (`SocketForwards`), and the events of the connector and
  of policies send nothing and end things at most (`ConnectorForwards`). That a
  new id is nobody's needs `IdInv`: a call has no id until it takes one, what reads
  an upload has an id behind the counter, and so has every call if the counter never
  restarts; keys of `pending` are below the counter by `RequestInv`. The assumption
  is where the code stands: the tag of a visitor socket outlives a hibernation, the counter
  does not, and TLC finds the shared id as soon as both are there.

`ComputersProofs`:

- `StoreTypes`: `TypeOK`.
- `HistoriesIntact`: with one process at a time, killed anywhere, `LiveIntact`.
  `SoloInv` says that a set of checkpoints with rows and images holds the heads,
  their ancestry and whatever the process is about to use, and that a prune has
  condemned none of it. The witness grows by the new checkpoint in
  `AddCheckpoint` and shrinks to what the walk reached in `ListDead`.
- `PrunesComplete`: likewise with one process. `PruneInv` says that
  every set that holds the heads and the parents of what was walked holds all that
  was walked, and that what is recorded beyond it is condemned, then left to
  delete; `HeadInv` that a session's base is still the head of its computer.
- `ImagesOfRows`: any number of processes, none killed: `RowsHaveImages`, by
  `ImageInv`: a checkpoint being made is known to its maker alone, and a prune
  still holds every condemned checkpoint whose row it has yet to delete.

`HistoryProofs`:

- `HistoriesKept`: with one process at a time, killed anywhere, `Spec =>
  HistoriesOnlyGrow`, the refinement. It needs `LiveIntact` (what a history walks has
  rows, so that no walk stops early), and `LineInv`: what `resolve_ref` still has to
  look at and what a session booted from stay in the history of some computer, and a
  checkpoint that is recorded but not yet a head is in none, with the base as its
  parent. Together with `HeadInv` this makes `set_head` the step `Save` (`SetHeadShows`). A
  prune deletes rows of no history, and ancestors do not change when a parent
  outside of them does (the lemmas on `Ancestors`, which are proved from their
  definition as an intersection).

`ConnectorProofs`. All but the first assume that ids are not used again
(`~IdsReused`), which is what `TunnelForwards` gives without hibernation: with `Restarts`
false, an id is never used again. The edge's part in `Connector` is narrower than
`Forwarding` in two points: it leaves no id out, while ids are only keys to the
connector, and it sends no second ABORT, which would find no entry and change nothing:

- `TypeCorrect`: `TypeOK` and `Numbered`, under every switch.
- `HandlesHold`: `HandleInv`. `HandlesFollowTasks` and `UploadIntact` are not
  inductive: that a task which leaves removes its own entry, and no other's,
  needs to know that the entries under an id are those of the job that holds it
  and that no two jobs hold one id. `HandlesFollow` and `UploadsIntact` follow.
  A task that ended has no entry in `aborts` or `sockets`; `bodies` is the edge's to
  clear, and the property says of it only that it does.
- `OrderHolds`: `OrderInv`. The order on the wire says nothing of what is still
  queued. `Chain` says that the queue, written frame by frame from what is on
  the wire, keeps the protocol for every id; `Stands` says that the last frame of
  an id, queued or written, is one its task may have sent at the place where it
  stands, so that what it sends next may follow. Sending extends the chain at its
  end (`ChainAppend`), the writer shortens it at its head (`ChainTail`), and an
  id just opened has no frame queued (`OpenGrows`).
- `CallsAnswered`: `EveryCallAnswered`, from it.
- `WireImplements`: `Spec => AnswersInOrder`, the refinement: the steps that
  write are `Reply`, those that open an id are `Open`, all others stutter.

`SessionProofs`, for any command lines, tokens, issuers, ports and askers:

- `TypeCorrect`: `TypeOK`, which includes that what is flushed and copied was
  written.
- `TokensStayHome`: `TokenStaysHome`, by `SignInInv`: what the file says of its
  token is true (`FileTells`), also after a login died with the file empty.
- `SessionsAreSaved`: `EndedIsSaved`, by `SaveInv`: each stage of the way down has
  the one before behind it. It speaks of the guest's own disk; of the mounts a checkpoint
  has nothing.

`ProvisionProofs`:

- `TypeCorrect`: `TypeOK`, overlapping or not.
- `BinaryStaysWhole` (assumes `~Overlap`): `BinaryWhole`, by `UpgradeInv`: one upgrade at
  a time, whose own file has the staging name.
- `ImageIsReady` (assumes `~Overlap`): `BootsReady`, by `ProvisionInv`: one launch provisions
  at a time while none is about to boot (`Solo`), a mark speaks for every asset there
  is (`MarkTrue`), a launch boots what is marked (`ReadyMarked`), and each stage has
  its part of the work behind it (`StagesKeep`).

Only model-checked: liveness, which is out of the prover's reach (`WaitEnds`,
`PendingDrains`, `LostConnectorReleased`, `AbortHeeded`, `ClosedSocketEnds`,
`DrainReturns`, `DialsAnswered`, `SessionEnds`, `RetrySucceeds`). Every invariant, every
action property and each of the three refinements that the runs check are proved too,
each under the switches named with its theorem.

## The plan

1. Done: Tunnel with Forwarding, Connector with Exchange, Computers with Histories,
   Session with SignIn, Provision with Upgrade, and the proofs of all their safety
   properties.
2. Left: Relay, which composes Connector with Tunnel over two FIFO channels
   (`sent` is the interface), so that the edge's side of Connector is the real
   one. Until then the two meet in their promises: what Connector assumes of its
   edge is what `Forwarding` says, and Tunnel takes any frame at any time, whether or not
   it keeps to `Exchange`.
3. Left: the token bucket of the tunnel and the Limiter object; pure functions
   (routing of a host, port and mount specifications, choice of a workspace)
   against reference definitions.

## Not modelled

The worker's routing and authentication (stateless checks before the tunnel
object; what they hand on is an input of Tunnel); the Limiter (called by nothing in
the repository); JWT verification, SQLite and the sandbox runtime (libraries); the
parsing of mounts, ports and arguments, names, mascot and release lookup
(stateless); the copy loops of forwarding (pure I/O); the terminal page, a client of
the edge, and its vendored emulator; install.sh.

Of the parts that are modelled: the unbounded growth of the connector's queues, the
wrap of ids after 2^32 requests, the refill of the token bucket (a choice to refuse
in Tunnel) and an upload that stalls, which the idle timer ends for the connector
and nobody for the visitor (tunnel.ts:275).
