----------------------------- MODULE Provision ------------------------------
(***************************************************************************)
(* The base image every `neko run` makes sure of before it boots           *)
(* (crates/neko/src/paths.rs): the three assets and the VERSION mark of    *)
(* the data directory, cleared and then linked from a shuru install or     *)
(* unpacked from a download, by launches of binaries that upgrades         *)
(* (Upgrade) replace and that pin other versions of it.                    *)
(*                                                                         *)
(* The download to its temporary file is part of the unpacking here; the   *)
(* shuru install stays as it is found.                                     *)
(***************************************************************************)
EXTENDS Upgrade, Naturals, Sequences

CONSTANTS
  Proc, \* launches
  Base, \* versions of the base image
  Pin,  \* SHURU_OS_VERSION of each release
  Install \* shuru installs tried: None, or a version and the assets it has

Asset == {"Image", "rootfs.ext4", "initramfs.cpio.gz"}

ASSUME InstallAssumption == Install \subseteq {None} \cup [of : Base, has : SUBSET Asset]
ASSUME PinAssumption == Pin \in [Version -> Base]

VARIABLES
  shuru, \* the shuru install, its version and the assets it has, or None
  file,  \* each asset of the data directory, or None
  mark,  \* its VERSION, None while it is missing or empty
  pc,    \* where each launch stands
  pin,   \* the version its binary pins
  at,    \* the asset it clears or links next
  next,  \* what it clears for
  left,  \* the assets it has yet to unpack
  cur    \* the one it is writing

dirVars == <<file, mark>>
launchVars == <<pc, pin, at, next, left, cur>>
vars == <<upgradeVars, shuru, dirVars, launchVars>>

\* An asset: its version, whether it is written to its end, and by whom (None:
\* a link, to all of it).
Written == [of : Base, whole : BOOLEAN, by : Proc \cup {None}]
Linked(b) == [of |-> b, whole |-> TRUE, by |-> None]

ASSUME ProcAssumption == None \notin Proc \cup Base \cup Asset \cup Written

Steps == {"idle", "probe", "clear", "link", "unpack", "ready", "booted", "stopped"}
Provisioning == {"probe", "clear", "link", "unpack"}

TypeOK ==
  /\ UpgradeTypes
  /\ shuru \in Install
  /\ file \in [Asset -> Written \cup {None}]
  /\ mark \in Base \cup {None}
  /\ pc \in [Proc -> Steps]
  /\ pin \in [Proc -> Base \cup {None}]
  /\ at \in [Proc -> 1..4]
  /\ next \in [Proc -> {"link", "unpack"}]
  /\ left \in [Proc -> SUBSET Asset]
  /\ cur \in [Proc -> Asset \cup {None}]

Init ==
  /\ UpgradeInit
  /\ shuru \in Install
  /\ file = [a \in Asset |-> None] /\ mark = None
  /\ pc = [p \in Proc |-> "idle"]
  /\ pin = [p \in Proc |-> None]
  /\ at = [p \in Proc |-> 1]
  /\ next = [p \in Proc |-> "link"]
  /\ left = [p \in Proc |-> {}]
  /\ cur = [p \in Proc |-> None]

-----------------------------------------------------------------------------
(* Helpers.                                                                *)

Order == <<"Image", "rootfs.ext4", "initramfs.cpio.gz", "VERSION">>

\* assets_present: the kernel and the root, not the initramfs.
Present == file["Image"] # None /\ file["rootfs.ext4"] # None

\* Mutant: the mark alone says that the image is there.
ProvisionedByMark(b) == mark = b

Provisioned(b) == mark = b /\ Present

Goto(p, step) == pc' = [pc EXCEPT ![p] = step]

ClearFor(p, step) ==
  /\ Goto(p, "clear")
  /\ at' = [at EXCEPT ![p] = 1]
  /\ next' = [next EXCEPT ![p] = step]

\* Bound: while a launch provisions, no other is between its start and its boot.
MayStart(b) ==
  \/ Overlap
  \/ \A p \in Proc : pc[p] \notin Provisioning \cup (IF Provisioned(b) THEN {} ELSE {"ready"})

\* Its locals go with a launch that is over.
Over(p, step) ==
  /\ Goto(p, step)
  /\ pin' = [pin EXCEPT ![p] = None]
  /\ at' = [at EXCEPT ![p] = 1]
  /\ next' = [next EXCEPT ![p] = "link"]
  /\ left' = [left EXCEPT ![p] = {}]
  /\ cur' = [cur EXCEPT ![p] = None]

Apart == UNCHANGED <<upgradeVars, shuru>>

-----------------------------------------------------------------------------
(* ensure_ready.                                                           *)

Start(p) ==
  /\ pc[p] = "idle"
  /\ \E v \in Version :
       /\ Runs(v) /\ MayStart(Pin[v])
       /\ pin' = [pin EXCEPT ![p] = Pin[v]]
       /\ Goto(p, IF Provisioned(Pin[v]) THEN "ready" ELSE "probe")
  /\ Apart /\ UNCHANGED <<dirVars, at, next, left, cur>>

Probe(p) ==
  /\ pc[p] = "probe"
  /\ ClearFor(p, IF shuru # None /\ shuru.of = pin[p] THEN "link" ELSE "unpack")
  /\ left' = [left EXCEPT ![p] = Asset]
  /\ Apart /\ UNCHANGED <<dirVars, pin, cur>>

\* Mutant: a file that is not there to remove ends the clearing.
ClearExisting(p) ==
  /\ pc[p] = "clear" /\ at[p] < 4 /\ file[Order[at[p]]] # None
  /\ file' = [file EXCEPT ![Order[at[p]]] = None]
  /\ at' = [at EXCEPT ![p] = @ + 1]
  /\ Apart /\ UNCHANGED <<mark, pc, pin, next, left, cur>>

\* clear_assets, one file after another; what is not there is passed over.
Clear(p) ==
  /\ pc[p] = "clear" /\ at[p] < 4
  /\ file' = [file EXCEPT ![Order[at[p]]] = None]
  /\ at' = [at EXCEPT ![p] = @ + 1]
  /\ Apart /\ UNCHANGED <<mark, pc, pin, next, left, cur>>

ClearMark(p) ==
  /\ pc[p] = "clear" /\ at[p] = 4
  /\ mark' = None
  /\ at' = [at EXCEPT ![p] = 1]
  /\ Goto(p, next[p])
  /\ Apart /\ UNCHANGED <<file, pin, next, left, cur>>

\* Mutant: the links go one entry too far.
LinkPast(p) ==
  /\ pc[p] = "link"
  /\ at' = [at EXCEPT ![p] = @ + 1]
  /\ Apart /\ UNCHANGED <<dirVars, pc, pin, next, left, cur>>

\* link_from_shuru: what is there stays, what shuru lacks is passed over.
Link(p) ==
  /\ pc[p] = "link" /\ at[p] < 4
  /\ LET a == Order[at[p]]
     IN file' = IF file[a] # None \/ a \notin shuru.has THEN file
                ELSE [file EXCEPT ![a] = Linked(shuru.of)]
  /\ at' = [at EXCEPT ![p] = @ + 1]
  /\ Apart /\ UNCHANGED <<mark, pc, pin, next, left, cur>>

\* shuru's mark is copied if the links are enough; else they go again.
LinksDone(p) ==
  /\ pc[p] = "link" /\ at[p] = 4
  /\ \/ Present /\ mark' = shuru.of /\ Goto(p, "ready") /\ UNCHANGED <<at, next>>
     \/ ~Present /\ ClearFor(p, "unpack") /\ UNCHANGED mark
  /\ Apart /\ UNCHANGED <<file, pin, left, cur>>

\* download_base_image: the assets of the archive one by one, in its order,
\* each a new file; then the mark.
UnpackOpen(p, a) ==
  /\ pc[p] = "unpack" /\ cur[p] = None /\ a \in left[p]
  /\ file' = [file EXCEPT ![a] = [of |-> pin[p], whole |-> FALSE, by |-> p]]
  /\ cur' = [cur EXCEPT ![p] = a]
  /\ left' = [left EXCEPT ![p] = @ \ {a}]
  /\ Apart /\ UNCHANGED <<mark, pc, pin, at, next>>

UnpackFill(p) ==
  /\ pc[p] = "unpack" /\ cur[p] # None
  /\ LET f == file[cur[p]]
     IN file' = IF f # None /\ f.by = p THEN [file EXCEPT ![cur[p]].whole = TRUE] ELSE file
  /\ cur' = [cur EXCEPT ![p] = None]
  /\ Apart /\ UNCHANGED <<mark, pc, pin, at, next, left>>

WriteMark(p) ==
  /\ pc[p] = "unpack" /\ cur[p] = None /\ left[p] = {}
  /\ mark' = pin[p]
  /\ Goto(p, "ready")
  /\ Apart /\ UNCHANGED <<file, pin, at, next, left, cur>>

\* AsyncSandbox::boot opens the assets.
Boot(p) ==
  /\ pc[p] = "ready"
  /\ Over(p, "booted")
  /\ Apart /\ UNCHANGED dirVars

\* External: it is killed, or the network or the disk fails it.
Stops(p) ==
  /\ pc[p] \in Provisioning \cup {"ready"}
  /\ Over(p, "stopped")
  /\ Apart /\ UNCHANGED dirVars

Goes(p) ==
  \/ Probe(p) \/ Clear(p) \/ ClearMark(p) \/ Link(p) \/ LinksDone(p)
  \/ (\E a \in Asset : UnpackOpen(p, a)) \/ UnpackFill(p) \/ WriteMark(p) \/ Boot(p)

Upgrades(u) == UpgradeStep(u) /\ UNCHANGED <<shuru, dirVars, launchVars>>

Next == \/ \E p \in Proc : Start(p) \/ Goes(p) \/ Stops(p)
        \/ \E u \in Upg : Upgrades(u)

Spec == Init /\ [][Next]_vars

\* A launch that is not killed goes on.
FairSpec == Spec /\ \A p \in Proc : WF_vars(Goes(p))

-----------------------------------------------------------------------------
(* Properties.                                                             *)

\* What a launch boots is the whole image its binary pins, whatever launches of
\* whatever releases died before it, and wherever.
BootsReady ==
  \A p \in Proc : pc[p] = "ready" =>
    Present /\ \A a \in Asset : file[a] # None => file[a].of = pin[p] /\ file[a].whole

\* What makes it inductive.  One launch provisions while none is ready:
Solo ==
  \A p, q \in Proc :
    pc[p] \in Provisioning /\ pc[q] \in Provisioning \cup {"ready"} => p = q

\* a mark speaks for every asset there is:
MarkTrue ==
  mark # None => \A a \in Asset : file[a] # None => file[a].of = mark /\ file[a].whole

\* a launch boots what is marked:
ReadyMarked == \A p \in Proc : pc[p] = "ready" => mark = pin[p] /\ Present

\* and each stage has its part of the work behind it.
Cleared(p) ==
  /\ left[p] = Asset /\ cur[p] = None
  /\ next[p] = "link" => shuru # None /\ shuru.of = pin[p]
  /\ at[p] > 1 => file["Image"] = None
  /\ at[p] > 2 => file["rootfs.ext4"] = None
  /\ at[p] > 3 => file["initramfs.cpio.gz"] = None

Links(p) ==
  /\ mark = None /\ left[p] = Asset /\ cur[p] = None
  /\ shuru # None /\ shuru.of = pin[p]
  /\ \A a \in Asset : file[a] # None => file[a].of = pin[p] /\ file[a].whole

Unpacks(p) ==
  /\ mark = None /\ pin[p] # None /\ cur[p] \notin left[p]
  /\ \A a \in Asset :
       /\ a \in left[p] => file[a] = None
       /\ a \notin left[p] => file[a] # None /\ file[a].of = pin[p]
       /\ a \notin left[p] /\ cur[p] # a => file[a].whole
       /\ cur[p] = a => file[a].by = p

StagesKeep ==
  \A p \in Proc : /\ pc[p] \in {"idle", "probe"} => cur[p] = None
                  /\ pc[p] \notin {"idle", "booted", "stopped"} => pin[p] # None
                  /\ pc[p] = "clear" => Cleared(p)
                  /\ pc[p] = "link" => Links(p)
                  /\ pc[p] = "unpack" => Unpacks(p)

ProvisionInv == Solo /\ MarkTrue /\ ReadyMarked /\ StagesKeep

\* A launch that finds the image missing, old or half there gets it, unless it
\* is stopped in its turn: nothing left behind is in its way.
RetrySucceeds ==
  \A p \in Proc : pc[p] = "probe" ~> pc[p] \in {"ready", "booted", "stopped"}
=============================================================================
