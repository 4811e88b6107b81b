------------------------------ MODULE Upgrade -------------------------------
(***************************************************************************)
(* `neko upgrade` (crates/neko/src/upgrade.rs): the latest release is      *)
(* unpacked to a staging file beside the binary and renamed over it.  Each *)
(* upgrade is a process of its own, may die at any step and stages to the  *)
(* same name, in a file (an inode) of its own.                             *)
(***************************************************************************)
CONSTANTS
  Version, \* releases
  First,   \* the one installed
  Upg,     \* upgrades
  Overlap, \* may two upgrades, or two launches that provision, overlap?
  None     \* null

ASSUME VersionAssumption == First \in Version
ASSUME OverlapAssumption == Overlap \in BOOLEAN
ASSUME UpgAssumption == None \notin Upg

VARIABLES
  up,     \* where each upgrade stands
  got,    \* the release it fetched
  staged, \* whose file has the staging name
  binary, \* whose file has the name of the binary; None: the one installed
  whole   \* whose files are written to their end

upgradeVars == <<up, got, staged, binary, whole>>

UpSteps == {"idle", "fetched", "open", "full", "over"}

UpgradeTypes ==
  /\ up \in [Upg -> UpSteps]
  /\ got \in [Upg -> Version \cup {None}]
  /\ staged \in Upg \cup {None} /\ binary \in Upg \cup {None}
  /\ whole \subseteq Upg

UpgradeInit ==
  /\ up = [u \in Upg |-> "idle"]
  /\ got = [u \in Upg |-> None]
  /\ staged = None /\ binary = None /\ whole = {}

-----------------------------------------------------------------------------
Upgrading == {u \in Upg : up[u] \in {"fetched", "open", "full"}}

\* What runs when neko is called: the system runs no half-written binary.
Runs(v) == \/ binary = None /\ v = First
           \/ binary \in whole /\ v = got[binary]

\* The release the index names latest, newer or not, is downloaded, unless it
\* is the running one.
Fetch(u, v) ==
  /\ up[u] = "idle"
  /\ Overlap \/ Upgrading = {}
  /\ \E current \in Version :
       /\ Runs(current)
       /\ up' = [up EXCEPT ![u] = IF v = current THEN "over" ELSE "fetched"]
  /\ got' = [got EXCEPT ![u] = v]
  /\ UNCHANGED <<staged, binary, whole>>

\* Mutant: a staging file that is there is taken as it is.
OpenUnlessThere(u) ==
  /\ up[u] = "fetched"
  /\ staged' = IF staged = None THEN u ELSE staged
  /\ up' = [up EXCEPT ![u] = "open"]
  /\ UNCHANGED <<got, binary, whole>>

\* The unpacking removes what has the staging name and creates its own.
Open(u) ==
  /\ up[u] = "fetched"
  /\ staged' = u
  /\ up' = [up EXCEPT ![u] = "open"]
  /\ UNCHANGED <<got, binary, whole>>

Fill(u) ==
  /\ up[u] = "open"
  /\ whole' = whole \cup {u}
  /\ up' = [up EXCEPT ![u] = "full"]
  /\ UNCHANGED <<got, staged, binary>>

\* Whatever has the staging name by now becomes the binary.
Rename(u) ==
  /\ up[u] = "full"
  /\ up' = [up EXCEPT ![u] = "over"]
  /\ \/ staged # None /\ binary' = staged /\ staged' = None
     \/ staged = None /\ UNCHANGED <<staged, binary>>
  /\ UNCHANGED <<got, whole>>

\* External: it is killed, or the network or the disk fails it.
UpgradeStops(u) ==
  /\ u \in Upgrading
  /\ up' = [up EXCEPT ![u] = "over"]
  /\ UNCHANGED <<got, staged, binary, whole>>

UpgradeStep(u) ==
  \/ \E v \in Version : Fetch(u, v)
  \/ Open(u) \/ Fill(u) \/ Rename(u) \/ UpgradeStops(u)

-----------------------------------------------------------------------------
\* The name of the binary never holds a half-written release, wherever the
\* upgrades before died and whatever they left at the staging name.
BinaryWhole == binary # None => binary \in whole

\* What makes it inductive while upgrades do not overlap: one at a time, and
\* its own file staged.
UpgradeInv ==
  /\ BinaryWhole
  /\ \A u, v \in Upgrading : u = v
  /\ \A u \in Upg : up[u] \in {"open", "full"} => staged = u
  /\ \A u \in Upg : up[u] = "full" => u \in whole
=============================================================================
