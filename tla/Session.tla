------------------------------ MODULE Session -------------------------------
(***************************************************************************)
(* One `neko run` (crates/neko/src/run.rs), from its arguments to the      *)
(* checkpoint on the way down: the sandbox it boots, the command in it,    *)
(* the task that owns the sandbox and answers dials (forward.rs, and       *)
(* Backend::connect of tunnel.rs) and web-terminal shells (term_ws) one by *)
(* one, and the select that ends the session.                              *)
(*                                                                         *)
(* The tunnel itself is Connector, the store Computers, the base image     *)
(* Provision; here they open, fail and end.  Signing in is SignIn.         *)
(***************************************************************************)
EXTENDS SignIn, Sequences

CONSTANTS
  ArgSets, \* the command lines tried: the flags each has
  Port,    \* the mappings a --port gives
  Conn,    \* connections to the forwarded ports
  Visit,   \* requests and sockets of the tunnel that dial the guest
  Shell,   \* web-terminal sockets
  File,    \* files of the guest
  Mounted  \* those under a mount, its overlay included: not on the guest's disk

Flags == {"port", "tunnel", "term", "private", "workspace", "command", "name", "checkpoint"}

ASSUME ArgsAssumption == ArgSets \subseteq SUBSET Flags
ASSUME AskerAssumption ==
  /\ None \notin Conn \cup Visit \cup Shell
  /\ Shell \cap (Conn \cup Visit) = {}
ASSUME MountsAssumption == Mounted \subseteq File

VARIABLES
  args,        \* the flags given
  base,        \* the auth base this binary is pointed at
  stage,       \* where run() stands, see Stages
  command,     \* none, running, or ended: done_tx was sent or dropped
  interrupted, \* ctrl_c() has seen an interrupt
  listen,      \* what became of the listener of each mapping
  opened,      \* the edge has accepted the tunnel
  asker,       \* each dial or shell request, see Asks
  dials,       \* dial_rx
  shells,      \* shell_rx
  written,     \* external: the files the guest has written
  flushed,     \* external: those a sync has brought to its disk
  synced,      \* history: exec(["sync"]) succeeded
  image,       \* those the checkpoint has
  saved,       \* the checkpoint is recorded and is the computer's head
  atEnd        \* history: written, when the select ended

owner == <<asker, dials, shells>>
disk == <<written, flushed, synced, image, saved, atEnd>>
sessionVars == <<args, base, stage, command, interrupted, listen, opened, owner, disk>>
vars == <<sessionVars, signInVars>>

Over == {"ended", "failed", "killed"}
Starting == {"args", "ready", "token", "workspace", "source", "boot", "command", "forward"}
Saving == {"sync", "image", "record", "head"}
Stages == Starting \cup {"serve"} \cup Saving \cup Over

\* called: the owner awaits the guest for it; cut: its reply was dropped.
Asks == {"idle", "queued", "called", "open", "refused", "done", "cut"}

Dialer == Conn \cup Visit
Asker == Dialer \cup Shell
OnDisk == File \ Mounted

TypeOK ==
  /\ SignInTypes
  /\ args \in ArgSets /\ base \in Issuer
  /\ stage \in Stages
  /\ command \in {"none", "running", "ended"}
  /\ interrupted \in BOOLEAN /\ opened \in BOOLEAN
  /\ listen \in [Port -> {"none", "bound", "taken"}]
  /\ asker \in [Asker -> Asks]
  /\ dials \in Seq(Dialer) /\ shells \in Seq(Shell)
  /\ written \subseteq File /\ flushed \subseteq written \cap OnDisk
  /\ image \subseteq written \cap OnDisk /\ atEnd \subseteq written
  /\ synced \in BOOLEAN /\ saved \in BOOLEAN

Init ==
  /\ SignInInit
  /\ args \in ArgSets /\ base \in Issuer
  /\ stage = "args"
  /\ command = "none" /\ interrupted = FALSE /\ opened = FALSE
  /\ listen = [p \in Port |-> "none"]
  /\ asker = [j \in Asker |-> "idle"]
  /\ dials = <<>> /\ shells = <<>>
  /\ written = {} /\ flushed = {} /\ image = {} /\ atEnd = {}
  /\ synced = FALSE /\ saved = FALSE

-----------------------------------------------------------------------------
(* Helpers.                                                                *)

Mappings == IF "port" \in args THEN Port ELSE {}
Opens == args \cap {"tunnel", "term"} # {}
Private == args \cap {"private", "term"} # {}
Alive == stage \notin Over

Goto(s) == stage' = s /\ UNCHANGED owner

\* run() returns, or the process dies: the queues and the replies in them, the
\* sandbox and its streams go with it.
Quit(outcome) ==
  /\ stage' = outcome
  /\ asker' = [j \in Asker |->
                 IF asker[j] \in {"queued", "called", "open"} THEN "cut" ELSE asker[j]]
  /\ dials' = <<>> /\ shells' = <<>>

Untouched == UNCHANGED <<args, base, listen, opened, signInVars>>
Still == Untouched /\ UNCHANGED <<command, interrupted>>

-----------------------------------------------------------------------------
(* The way up.                                                             *)

Refused ==
  \/ "private" \in args /\ ~Opens
  \/ "workspace" \in args /\ ~Opens

CheckArgs == stage = "args" /\ ~Refused /\ Goto("ready") /\ Still /\ UNCHANGED disk

\* ensure_ready and Store::open.
Prepare ==
  /\ stage = "ready"
  /\ Goto(IF Opens THEN "token" ELSE "source")
  /\ Still /\ UNCHANGED disk

\* access_jwt, then the workspaces of resolve_tunnel_workspace: each reads the
\* session file for itself.
Credential(here, next) ==
  /\ stage = here
  /\ Loads(base) /\ Bearer(base)
  /\ (Accepted /\ Goto(next)) \/ Quit("failed")
  /\ UNCHANGED <<args, base, listen, opened, command, interrupted, disk>>

\* The computer is looked up, its boot source resolved, its row created.
Source == stage = "source" /\ Goto("boot") /\ Still /\ UNCHANGED disk

Boot == stage = "boot" /\ Goto("command") /\ Still /\ UNCHANGED disk

\* open_shell of the command, whose reader is spawned.
Launch ==
  /\ stage = "command"
  /\ command' = IF "command" \in args THEN "running" ELSE "none"
  /\ Goto("forward")
  /\ Untouched /\ UNCHANGED <<interrupted, disk>>

\* forward::start: a port that is taken costs its mapping only.
Bind(p) ==
  /\ stage = "forward" /\ p \in Mappings /\ listen[p] = "none"
  /\ \E l \in {"bound", "taken"} : listen' = [listen EXCEPT ![p] = l]
  /\ UNCHANGED <<args, base, stage, command, interrupted, opened, owner, disk, signInVars>>

Serve ==
  /\ stage = "forward" /\ \A p \in Mappings : listen[p] # "none"
  /\ Goto("serve") /\ Still /\ UNCHANGED disk

\* Any step that ends in `?` may fail.
Fails ==
  /\ stage \in (Starting \ {"forward"}) \cup {"image", "record", "head"}
  /\ Quit("failed") /\ Still /\ UNCHANGED disk

-----------------------------------------------------------------------------
(* The task that owns the sandbox: polled within run_until only.           *)

Polled == stage \in {"forward", "serve"}

\* Mutant: the owner copies a stream itself, and so is busy until it ends.
FreeOfStreams == \A j \in Asker : asker[j] \notin {"called", "open"}

Free == \A j \in Asker : asker[j] # "called"

\* What connect_guest and Backend::connect do: the dial is queued with a reply
\* to wait for.
Dial(j) ==
  /\ Alive /\ asker[j] = "idle"
  /\ asker' = [asker EXCEPT ![j] = "queued"]
  /\ dials' = Append(dials, j)
  /\ Still /\ UNCHANGED <<stage, shells, disk>>

\* A connection to a forwarded port is accepted.
DialForwarded(j) == j \in Conn /\ (\E p \in Port : listen[p] = "bound") /\ Dial(j)

\* A request or a WebSocket of the tunnel comes to its dial, of port 0 where
\* the terminal is all the tunnel carries: run() of the tunnel lets WebSockets
\* to other paths and requests for the terminal's own socket through to it.
DialTunneled(j) == j \in Visit /\ opened /\ Dial(j)

\* Mutant: a shell is asked for on the queue of the dials.
AskShellAsDial(j) ==
  /\ Alive /\ asker[j] = "idle"
  /\ opened /\ "term" \in args /\ Private
  /\ asker' = [asker EXCEPT ![j] = "queued"]
  /\ dials' = Append(dials, j)
  /\ Still /\ UNCHANGED <<stage, shells, disk>>

\* term_ws; run() of the tunnel drops the bridge unless it is private.
AskShell(j) ==
  /\ Alive /\ asker[j] = "idle"
  /\ opened /\ "term" \in args /\ Private
  /\ asker' = [asker EXCEPT ![j] = "queued"]
  /\ shells' = Append(shells, j)
  /\ Still /\ UNCHANGED <<stage, dials, disk>>

TakeDial ==
  /\ Polled /\ Free /\ dials # <<>>
  /\ asker' = [asker EXCEPT ![Head(dials)] = "called"]
  /\ dials' = Tail(dials)
  /\ Still /\ UNCHANGED <<stage, shells, disk>>

TakeShell ==
  /\ Polled /\ Free /\ shells # <<>>
  /\ asker' = [asker EXCEPT ![Head(shells)] = "called"]
  /\ shells' = Tail(shells)
  /\ Still /\ UNCHANGED <<stage, dials, disk>>

\* dial_guest or open_shell returns; its result, whatever it is, is the reply.
Answer(j) ==
  /\ Polled /\ asker[j] = "called"
  /\ \E a \in {"open", "refused"} : asker' = [asker EXCEPT ![j] = a]
  /\ Still /\ UNCHANGED <<stage, dials, shells, disk>>

\* External: the guest writes a file, until it goes down with run().
Writes(f) ==
  /\ stage \in {"command", "forward", "serve"} \cup Saving
  /\ written' = written \cup {f}
  /\ Still /\ UNCHANGED <<stage, owner, flushed, synced, image, saved, atEnd>>

\* External: a stream or a shell ends.
StreamEnds(j) ==
  /\ asker[j] = "open"
  /\ asker' = [asker EXCEPT ![j] = "done"]
  /\ Still /\ UNCHANGED <<stage, dials, shells, disk>>

\* The command exits, and its reader sends done or drops it.
CommandEnds ==
  /\ Alive /\ command = "running"
  /\ command' = "ended"
  /\ Untouched /\ UNCHANGED <<stage, interrupted, owner, disk>>

-----------------------------------------------------------------------------
(* The select, and the way down.                                           *)

\* An interrupt kills the process until the select first polls ctrl_c(); after
\* the select it is swallowed.
Interrupt ==
  \/ /\ stage = "serve" /\ ~interrupted
     /\ interrupted' = TRUE
     /\ Untouched /\ UNCHANGED <<stage, command, owner, disk>>
  \/ stage \in Starting /\ Quit("killed") /\ Still /\ UNCHANGED disk

TunnelOpens ==
  /\ stage = "serve" /\ Opens /\ ~opened
  /\ opened' = TRUE
  /\ UNCHANGED <<args, base, listen, signInVars, stage, command, interrupted, owner, disk>>

\* After the select: no checkpoint is asked for, or one of a nameless sandbox.
Down ==
  /\ \/ "checkpoint" \in args /\ "name" \in args /\ Goto("sync")
     \/ "checkpoint" \in args /\ "name" \notin args /\ Quit("failed")
     \/ "checkpoint" \notin args /\ Quit("ended")
  /\ atEnd' = written
  /\ Still /\ UNCHANGED <<written, flushed, synced, image, saved>>

\* The edge refuses the tunnel, or its socket closes or fails.
TunnelEnds == stage = "serve" /\ Opens /\ Down

\* Mutant: a tunnel is served until it ends or is interrupted.
CommandEndsLocal == stage = "serve" /\ command = "ended" /\ ~Opens /\ Down

CommandDone == stage = "serve" /\ command = "ended" /\ Down

Interrupted == stage = "serve" /\ interrupted /\ Down

\* exec(["sync"]), whose failure is ignored: it reaches the guest's disk alone.
Sync ==
  /\ stage = "sync"
  /\ \/ synced' = TRUE /\ flushed' = written \cap OnDisk
     \/ UNCHANGED <<synced, flushed>>
  /\ Goto("image")
  /\ Still /\ UNCHANGED <<written, image, saved, atEnd>>

\* Mutant: the disk is copied while its sync is under way.
SnapshotEarly ==
  /\ stage = "image"
  /\ \E S \in SUBSET (written \cap OnDisk) : image' = S
  /\ Goto("record")
  /\ Still /\ UNCHANGED <<written, flushed, synced, saved, atEnd>>

\* The disk is copied, and no mount: what was flushed, and what else the guest has written
\* out by then.
Snapshot ==
  /\ stage = "image"
  /\ \E S \in SUBSET (written \cap OnDisk) : flushed \subseteq S /\ image' = S
  /\ Goto("record")
  /\ Still /\ UNCHANGED <<written, flushed, synced, saved, atEnd>>

Record == stage = "record" /\ Goto("head") /\ Still /\ UNCHANGED disk

SetHead ==
  /\ stage = "head"
  /\ saved' = TRUE
  /\ Quit("ended")
  /\ Still /\ UNCHANGED <<written, flushed, synced, image, atEnd>>

\* External: the process is killed for good.
Killed == Alive /\ Quit("killed") /\ Still /\ UNCHANGED disk

-----------------------------------------------------------------------------
\* A `neko login` of another terminal, as long as the session may still read
\* what it writes.
OtherLogin ==
  /\ Opens /\ stage \in {"args", "ready", "token", "workspace"}
  /\ LoginStep
  /\ UNCHANGED sessionVars

Up == \/ CheckArgs \/ Prepare \/ Source \/ Boot \/ Launch \/ Serve \/ Fails
      \/ Credential("token", "workspace") \/ Credential("workspace", "source")
      \/ \E p \in Port : Bind(p)

Owns == \/ TakeDial \/ TakeShell \/ CommandEnds
        \/ \E j \in Dialer : DialForwarded(j) \/ DialTunneled(j)
        \/ \E j \in Shell : AskShell(j)
        \/ \E j \in Asker : Answer(j) \/ StreamEnds(j)
        \/ \E f \in File : Writes(f)

Ends == \/ Interrupt \/ TunnelOpens \/ TunnelEnds \/ CommandDone \/ Interrupted
        \/ Sync \/ Snapshot \/ Record \/ SetHead \/ Killed

Next == Up \/ Owns \/ Ends \/ OtherLogin

Spec == Init /\ [][Next]_vars

\* What tokio gives: run() goes on, the select sees a branch that stays ready,
\* and the owner comes back to its queues.
Scheduled ==
  /\ \A p \in Port : WF_vars(Bind(p))
  /\ WF_vars(Serve) /\ WF_vars(CommandDone) /\ WF_vars(Interrupted)
  /\ WF_vars(TakeDial) /\ WF_vars(TakeShell)
  /\ WF_vars(Record) /\ WF_vars(SetHead)

\* What is asked of the sandbox: its calls return.
FairSandbox ==
  /\ \A j \in Asker : WF_vars(Answer(j))
  /\ WF_vars(Sync) /\ WF_vars(Snapshot)

FairSpec == Spec /\ Scheduled /\ FairSandbox

-----------------------------------------------------------------------------
(* Properties.                                                             *)

\* A session that ends well has made the checkpoint it was asked for, and what
\* the guest had written to its own disk when the session ended is in it, if its
\* sync worked, whatever is still being written on the way down.  Of the mounts,
\* /workspace by default, where the command runs, it has nothing.
EndedIsSaved ==
  stage = "ended" /\ "checkpoint" \in args
    => saved /\ (synced => atEnd \cap OnDisk \subseteq image)

\* What makes it inductive: what each stage of the way down has behind it.
SaveInv ==
  /\ stage \in Saving => "name" \in args /\ "checkpoint" \in args
  /\ stage \in Saving \cup {"ended"} /\ synced => atEnd \cap OnDisk \subseteq flushed
  /\ stage \in {"record", "head"} \/ saved => flushed \subseteq image
  /\ stage = "ended" /\ "checkpoint" \in args => saved
  /\ stage \notin Saving \cup {"ended", "failed", "killed"} => ~synced
  /\ saved => stage = "ended"

\* A dial or a shell that is waiting for the one task that owns the sandbox is
\* answered, or let go of when the session ends: no refused call, no other
\* queue and no end of the session leaves it waiting.
DialsAnswered == \A j \in Asker : asker[j] = "queued" ~> asker[j] # "queued"

\* The end of the command and an interrupt end the session, even those that
\* come before anything waits for them.  The command ends a session whose tunnel
\* still serves too: the select has done_rx in it either way, though the comment
\* above it says that one waits for the command only without --tunnel.
SessionEnds == (command = "ended" \/ interrupted) ~> stage \in Over
=============================================================================
