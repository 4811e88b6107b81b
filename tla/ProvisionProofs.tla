-------------------------- MODULE ProvisionProofs ---------------------------
(***************************************************************************)
(* Theorems about Upgrade and Provision, for every set of releases, base   *)
(* images, installs, upgrades and launches.  All but type correctness hold *)
(* while upgrades, and launches that provision, do not overlap.            *)
(***************************************************************************)
EXTENDS Provision, TLAPS

(* Types.                                                                  *)

LEMMA InitTypes == Init => TypeOK
BY InstallAssumption DEF Init, TypeOK, UpgradeInit, UpgradeTypes, UpSteps, Steps

\* The steps of an upgrade keep the types.
LEMMA UpgradeKeepsTypes ==
  ASSUME UpgradeTypes, NEW u \in Upg, UpgradeStep(u)
  PROVE  UpgradeTypes'
<1> USE DEF UpgradeTypes, UpSteps
<1>1. ASSUME NEW v \in Version, Fetch(u, v) PROVE UpgradeTypes'
  BY <1>1 DEF Fetch
<1>2. CASE Open(u) \/ Fill(u) \/ Rename(u) \/ UpgradeStops(u)
  BY <1>2 DEF Open, Fill, Rename, UpgradeStops
<1> QED BY <1>1, <1>2 DEF UpgradeStep

\* A launch has a version to get, and links from a shuru install there is.
Equipped ==
  \A p \in Proc : /\ pc[p] \in Provisioning \cup {"ready"} => pin[p] \in Base
                  /\ pc[p] = "link" => shuru # None
                  /\ pc[p] = "clear" /\ next[p] = "link" => shuru # None

\* The steps of a launch keep that, and the types.
LEMMA LaunchKeepsTypes ==
  ASSUME TypeOK, Equipped, NEW p \in Proc, Start(p) \/ Goes(p) \/ Stops(p)
  PROVE  TypeOK' /\ Equipped'
<1> USE DEF TypeOK, Equipped, Apart, upgradeVars, UpgradeTypes, dirVars, Goto, ClearFor, Over, Steps, Provisioning
<1>1. CASE Start(p)
  BY <1>1, PinAssumption DEF Start
<1>2. CASE Probe(p)
  BY <1>2 DEF Probe
<1>3. CASE Clear(p) \/ ClearMark(p)
  BY <1>3 DEF Clear, ClearMark
<1>4. CASE Link(p) \/ LinksDone(p)
  <2>1. shuru # None /\ shuru.of \in Base
    BY <1>4, InstallAssumption DEF Link, LinksDone
  <2>2. CASE Link(p)
    <3>1. DEFINE a == Order[at[p]]
    <3>2. a \in Asset
      BY <2>2 DEF Link, Order, Asset
    <3>3. Linked(shuru.of) \in Written
      BY <2>1 DEF Linked, Written
    <3>4. file' \in [Asset -> Written \cup {None}]
      BY <2>2, <3>2, <3>3 DEF Link
    <3>5. at' \in [Proc -> 1..4]
      BY <2>2 DEF Link
    <3> QED BY <2>1, <2>2, <3>4, <3>5 DEF Link
  <2>3. CASE LinksDone(p)
    BY <2>1, <2>3 DEF LinksDone
  <2> QED BY <1>4, <2>2, <2>3
<1>5. ASSUME NEW a \in Asset, UnpackOpen(p, a) PROVE TypeOK' /\ Equipped'
  <2>1. pin[p] \in Base => [of |-> pin[p], whole |-> FALSE, by |-> p] \in Written
    BY DEF Written
  <2> QED BY <1>5, <2>1 DEF UnpackOpen
<1>6. CASE UnpackFill(p)
  <2>1. cur[p] \in Asset
    BY <1>6 DEF UnpackFill
  <2>2. file' \in [Asset -> Written \cup {None}]
    <3>1. CASE file[cur[p]] # None
      <4>1. file[cur[p]] \in Written
        BY <2>1, <3>1
      <4>2. [file[cur[p]] EXCEPT !.whole = TRUE] \in Written
        BY <4>1 DEF Written
      <4> QED BY <1>6, <2>1, <4>2 DEF UnpackFill
    <3>2. CASE file[cur[p]] = None
      BY <1>6, <2>1, <3>2 DEF UnpackFill
    <3> QED BY <3>1, <3>2
  <2> QED BY <1>6, <2>2 DEF UnpackFill
<1>7. CASE WriteMark(p)
  BY <1>7 DEF WriteMark
<1>8. CASE Boot(p) \/ Stops(p)
  BY <1>8 DEF Boot, Stops
<1> QED BY <1>1, <1>2, <1>3, <1>4, <1>5, <1>6, <1>7, <1>8 DEF Goes

\* Every state that launches and upgrades can reach is well typed, overlapping
\* or not.
THEOREM TypeCorrect == Spec => []TypeOK
<1>1. TypeOK /\ Equipped /\ [Next]_vars => TypeOK' /\ Equipped'
  <2> SUFFICES ASSUME TypeOK, Equipped, [Next]_vars PROVE TypeOK' /\ Equipped'
    OBVIOUS
  <2>1. ASSUME NEW u \in Upg, Upgrades(u) PROVE TypeOK' /\ Equipped'
    <3>1. UpgradeTypes'
      BY <2>1, UpgradeKeepsTypes DEF Upgrades, TypeOK
    <3> QED BY <2>1, <3>1 DEF Upgrades, TypeOK, Equipped, dirVars, launchVars
  <2>2. CASE UNCHANGED vars
    BY <2>2 DEF vars, TypeOK, UpgradeTypes, Equipped, upgradeVars, dirVars, launchVars
  <2> QED BY <2>1, <2>2, LaunchKeepsTypes DEF Next
<1>2. Init => Equipped
  BY DEF Init, Equipped, Provisioning
<1> QED BY <1>1, <1>2, InitTypes, PTL DEF Spec

-----------------------------------------------------------------------------
(* The binary.                                                             *)

\* One upgrade at a time stages its own file, whole before it is renamed.
LEMMA UpgradeKeepsInv ==
  ASSUME ~Overlap, UpgradeTypes, UpgradeInv, NEW u \in Upg, UpgradeStep(u)
  PROVE  UpgradeInv'
<1> USE UpgAssumption DEF UpgradeTypes, UpgradeInv, BinaryWhole, Upgrading, UpSteps
<1>1. ASSUME NEW v \in Version, Fetch(u, v) PROVE UpgradeInv'
  BY <1>1 DEF Fetch
<1>2. CASE Open(u)
  BY <1>2 DEF Open
<1>3. CASE Fill(u)
  BY <1>3 DEF Fill
<1>4. CASE Rename(u)
  BY <1>4 DEF Rename
<1>5. CASE UpgradeStops(u)
  BY <1>5 DEF UpgradeStops
<1> QED BY <1>1, <1>2, <1>3, <1>4, <1>5 DEF UpgradeStep

\* neko is never half a binary.
THEOREM BinaryStaysWhole ==
  ASSUME ~Overlap
  PROVE  Spec => []BinaryWhole
<1>1. Init => UpgradeInv
  BY DEF Init, UpgradeInit, UpgradeInv, BinaryWhole, Upgrading
<1>2. TypeOK /\ UpgradeInv /\ [Next]_vars => UpgradeInv'
  <2> SUFFICES ASSUME TypeOK, UpgradeInv, [Next]_vars PROVE UpgradeInv'
    OBVIOUS
  <2>1. ASSUME NEW u \in Upg, Upgrades(u) PROVE UpgradeInv'
    BY <2>1, UpgradeKeepsInv DEF Upgrades, TypeOK
  <2>2. ASSUME UNCHANGED upgradeVars PROVE UpgradeInv'
    BY <2>2 DEF upgradeVars, UpgradeInv, BinaryWhole, Upgrading
  <2>3. ASSUME NEW p \in Proc, Start(p) \/ Goes(p) \/ Stops(p) PROVE UNCHANGED upgradeVars
    BY <2>3 DEF Start, Goes, Stops, Probe, Clear, ClearMark, Link, LinksDone, UnpackOpen,
                UnpackFill, WriteMark, Boot, Apart
  <2> QED BY <2>1, <2>2, <2>3 DEF Next, vars
<1>3. UpgradeInv => BinaryWhole
  BY DEF UpgradeInv
<1> QED BY <1>1, <1>2, <1>3, TypeCorrect, PTL DEF Spec

-----------------------------------------------------------------------------
(* The base image.                                                         *)

LEMMA InitProvision == Init => ProvisionInv
BY DEF Init, ProvisionInv, Solo, MarkTrue, ReadyMarked, StagesKeep, Provisioning

\* While one launch provisions, no other is under way.
LEMMA Alone ==
  ASSUME TypeOK, ProvisionInv, NEW p \in Proc, pc[p] \in Provisioning
  PROVE  \A q \in Proc \ {p} : pc[q] \in {"idle", "booted", "stopped"}
BY DEF TypeOK, ProvisionInv, Solo, Provisioning, Steps

\* So its steps have only its own stage, and the mark, to keep.
LEMMA AloneKeeps ==
  ASSUME TypeOK, ProvisionInv, NEW p \in Proc, pc[p] \in Provisioning,
         NEW s \in Provisioning \cup {"ready"}, pc' = [pc EXCEPT ![p] = s], pin' = pin,
         \A q \in Proc \ {p} : cur'[q] = cur[q],
         s = "ready" => mark' = pin[p] /\ Present',
         s = "probe" => cur'[p] = None,
         s = "clear" => Cleared(p)',
         s = "link" => Links(p)',
         s = "unpack" => Unpacks(p)',
         MarkTrue'
  PROVE  ProvisionInv'
<1> USE DEF ProvisionInv, TypeOK
<1>1. \A q \in Proc \ {p} : pc'[q] = pc[q] /\ pc[q] \in {"idle", "booted", "stopped"}
  BY Alone
<1>2. pc'[p] = s
  OBVIOUS
<1>3. Solo'
  BY <1>1, <1>2 DEF Solo, Provisioning
<1>4. ReadyMarked'
  BY <1>1, <1>2 DEF ReadyMarked, Present
<1>5. StagesKeep'
  <2> SUFFICES ASSUME NEW q \in Proc
               PROVE  /\ pc'[q] \in {"idle", "probe"} => cur'[q] = None
                      /\ pc'[q] \notin {"idle", "booted", "stopped"} => pin'[q] # None
                      /\ pc'[q] = "clear" => Cleared(q)'
                      /\ pc'[q] = "link" => Links(q)'
                      /\ pc'[q] = "unpack" => Unpacks(q)'
    BY DEF StagesKeep
  <2>1. CASE q = p
    BY <1>2, <2>1 DEF StagesKeep, Provisioning
  <2>2. CASE q # p
    BY <1>1, <2>2 DEF StagesKeep
  <2> QED BY <2>1, <2>2
<1> QED BY <1>3, <1>4, <1>5

\* A launch starts on the image its binary pins, or alone.
LEMMA StartKeeps ==
  ASSUME ~Overlap, TypeOK, ProvisionInv, NEW p \in Proc, Start(p)
  PROVE  ProvisionInv'
<1> USE DEF ProvisionInv, TypeOK, Goto, dirVars
<1>1. PICK v \in Version : /\ MayStart(Pin[v])
                           /\ pin' = [pin EXCEPT ![p] = Pin[v]]
                           /\ pc' = [pc EXCEPT ![p] = IF Provisioned(Pin[v]) THEN "ready" ELSE "probe"]
  BY DEF Start
<1>2. Pin[v] \in Base /\ Pin[v] # None
  BY PinAssumption, ProcAssumption
<1>3. pc[p] = "idle" /\ UNCHANGED <<file, mark, at, next, left, cur, shuru>>
  BY DEF Start, Apart
<1>4. Solo'
  BY <1>1, <1>3 DEF MayStart, Solo, Provisioning
<1>5. MarkTrue'
  BY <1>3 DEF MarkTrue
<1>6. ReadyMarked'
  BY <1>1, <1>3 DEF ReadyMarked, Provisioned, Present
<1>7. StagesKeep'
  BY <1>1, <1>2, <1>3 DEF StagesKeep, Cleared, Links, Unpacks
<1> QED BY <1>4, <1>5, <1>6, <1>7

\* Clearing takes the mark last, and leaves an empty directory.
LEMMA ClearKeeps ==
  ASSUME TypeOK, ProvisionInv, NEW p \in Proc, Probe(p) \/ Clear(p) \/ ClearMark(p)
  PROVE  ProvisionInv'
<1> USE DEF ProvisionInv, TypeOK, Goto, dirVars, Steps, Provisioning, Apart
<1>1. CASE Probe(p)
  <2>1. Cleared(p)'
    BY <1>1 DEF Probe, ClearFor, Cleared, StagesKeep
  <2>2. MarkTrue'
    BY <1>1 DEF Probe, MarkTrue
  <2> QED BY <1>1, <2>1, <2>2, AloneKeeps DEF Probe, ClearFor
<1>2. CASE Clear(p)
  <2>1. Cleared(p)'
    BY <1>2 DEF Clear, Cleared, StagesKeep, Order, Asset
  <2>2. MarkTrue'
    BY <1>2 DEF Clear, MarkTrue
  <2>3. pc' = [pc EXCEPT ![p] = "clear"]
    BY <1>2 DEF Clear
  <2> QED BY <1>2, <2>1, <2>2, <2>3, AloneKeeps DEF Clear
<1>3. CASE ClearMark(p)
  <2>1. Cleared(p) /\ pin[p] # None
    BY <1>3 DEF ClearMark, StagesKeep
  <2>2. \A a \in Asset : file[a] = None
    BY <1>3, <2>1 DEF ClearMark, Cleared, Asset
  <2>3. MarkTrue' /\ mark' = None
    BY <1>3 DEF ClearMark, MarkTrue
  <2>4. next[p] = "link" => Links(p)'
    BY <1>3, <2>1, <2>2, <2>3 DEF ClearMark, Links, Cleared
  <2>5. next[p] = "unpack" => Unpacks(p)'
    BY <1>3, <2>1, <2>2, <2>3, ProcAssumption DEF ClearMark, Unpacks, Cleared
  <2> QED BY <1>3, <2>3, <2>4, <2>5, AloneKeeps DEF ClearMark
<1> QED BY <1>1, <1>2, <1>3

\* Links are of the pinned version, and marked only if they are enough.
LEMMA LinkKeeps ==
  ASSUME TypeOK, ProvisionInv, NEW p \in Proc, Link(p) \/ LinksDone(p)
  PROVE  ProvisionInv'
<1> USE DEF ProvisionInv, TypeOK, Goto, dirVars, Steps, Provisioning, Apart
<1>l. Links(p) /\ pin[p] # None
  BY DEF Link, LinksDone, StagesKeep
<1>1. CASE Link(p)
  <2>1. Order[at[p]] \in Asset
    BY <1>1 DEF Link, Order, Asset
  <2>2. \A a \in Asset : file'[a] # None => file'[a].of = pin[p] /\ file'[a].whole
    BY <1>1, <1>l, <2>1 DEF Link, Links, Linked
  <2>3. Links(p)' /\ MarkTrue'
    BY <1>1, <1>l, <2>2 DEF Link, Links, MarkTrue
  <2>4. pc' = [pc EXCEPT ![p] = "link"]
    BY <1>1 DEF Link
  <2> QED BY <1>1, <2>3, <2>4, AloneKeeps DEF Link
<1>2. CASE LinksDone(p) /\ Present
  <2>1. pc' = [pc EXCEPT ![p] = "ready"] /\ mark' = pin[p] /\ Present'
    BY <1>2, <1>l DEF LinksDone, Links, Present
  <2>2. MarkTrue'
    BY <1>2, <1>l, <2>1 DEF LinksDone, MarkTrue, Links
  <2> QED BY <1>2, <2>1, <2>2, AloneKeeps DEF LinksDone
<1>3. CASE LinksDone(p) /\ ~Present
  <2>1. Cleared(p)'
    BY <1>3, <1>l DEF LinksDone, ClearFor, Cleared, Links
  <2>2. MarkTrue'
    BY <1>3 DEF LinksDone, MarkTrue
  <2> QED BY <1>3, <2>1, <2>2, AloneKeeps DEF LinksDone, ClearFor
<1> QED BY <1>1, <1>2, <1>3

\* The mark is written when every asset of the archive is whole.
LEMMA UnpackKeeps ==
  ASSUME TypeOK, ProvisionInv, NEW p \in Proc,
         (\E a \in Asset : UnpackOpen(p, a)) \/ UnpackFill(p) \/ WriteMark(p)
  PROVE  ProvisionInv'
<1> USE DEF ProvisionInv, TypeOK, Goto, dirVars, Steps, Provisioning, Apart
<1>u. Unpacks(p) /\ pc[p] = "unpack"
  BY DEF UnpackOpen, UnpackFill, WriteMark, StagesKeep
<1>1. ASSUME NEW a \in Asset, UnpackOpen(p, a) PROVE ProvisionInv'
  <2>1. /\ cur'[p] = a /\ left'[p] = left[p] \ {a}
        /\ file' = [file EXCEPT ![a] = [of |-> pin[p], whole |-> FALSE, by |-> p]]
        /\ UNCHANGED <<mark, pin>>
    BY <1>1 DEF UnpackOpen
  <2>2. [of |-> pin[p], whole |-> FALSE, by |-> p] \in Written
    BY <1>u DEF Written, Unpacks
  <2>3. Unpacks(p)'
    <3>1. cur[p] = None /\ a \in left[p] /\ a # None
      BY <1>1, ProcAssumption DEF UnpackOpen
    <3>2. DEFINE f == [of |-> pin[p], whole |-> FALSE, by |-> p]
    <3>3. f # None /\ f.of = pin[p] /\ f.by = p
      BY <2>2, ProcAssumption
    <3>4. file' = [file EXCEPT ![a] = f]
      BY <2>1
    <3> HIDE DEF f
    <3>5. mark' = None /\ pin'[p] # None /\ cur'[p] \notin left'[p]
      BY <1>u, <2>1 DEF Unpacks
    <3>6. ASSUME NEW x \in Asset
          PROVE  /\ x \in left'[p] => file'[x] = None
                 /\ x \notin left'[p] => file'[x] # None /\ file'[x].of = pin'[p]
                 /\ x \notin left'[p] /\ cur'[p] # x => file'[x].whole
                 /\ cur'[p] = x => file'[x].by = p
      <4>1. CASE x = a
        BY <2>1, <3>1, <3>3, <3>4, <4>1
      <4>2. CASE x # a
        <5>1. file'[x] = file[x] /\ (x \in left'[p] <=> x \in left[p]) /\ cur[p] # x
          BY <2>1, <3>1, <3>4, <4>2, ProcAssumption
        <5> QED BY <1>u, <2>1, <4>2, <5>1 DEF Unpacks
      <4> QED BY <4>1, <4>2
    <3> QED BY <3>5, <3>6 DEF Unpacks
  <2>4. MarkTrue'
    BY <1>u, <2>1 DEF MarkTrue, Unpacks
  <2>5. pc' = [pc EXCEPT ![p] = "unpack"]
    BY <1>1 DEF UnpackOpen
  <2> QED BY <1>1, <2>3, <2>4, <2>5, AloneKeeps DEF UnpackOpen
<1>2. CASE UnpackFill(p)
  <2>1. cur[p] \in Asset /\ file[cur[p]] \in Written /\ file[cur[p]].by = p
    BY <1>2, <1>u DEF UnpackFill, Unpacks
  <2>2. file[cur[p]].of = pin[p] /\ cur[p] \notin left[p]
    BY <1>u, <2>1 DEF Unpacks
  <2>3. DEFINE f == [file[cur[p]] EXCEPT !.whole = TRUE]
  <2>4. f \in Written /\ f # None /\ f.of = pin[p] /\ f.whole
    BY <2>1, <2>2, ProcAssumption DEF Written
  <2>5. file' = [file EXCEPT ![cur[p]] = f]
    BY <1>2, <2>1, ProcAssumption DEF UnpackFill
  <2> HIDE DEF f
  <2>6. Unpacks(p)'
    BY <1>2, <1>u, <2>1, <2>2, <2>4, <2>5, ProcAssumption DEF UnpackFill, Unpacks
  <2>7. MarkTrue'
    BY <1>2, <1>u DEF UnpackFill, MarkTrue, Unpacks
  <2>8. pc' = [pc EXCEPT ![p] = "unpack"]
    BY <1>2, <1>u DEF UnpackFill
  <2> QED BY <1>2, <2>6, <2>7, <2>8, AloneKeeps DEF UnpackFill
<1>3. CASE WriteMark(p)
  <2>1. \A a \in Asset : file[a] # None /\ file[a].of = pin[p] /\ file[a].whole
    BY <1>3, <1>u, ProcAssumption DEF WriteMark, Unpacks
  <2>2. MarkTrue' /\ Present' /\ mark' = pin[p]
    BY <1>3, <2>1 DEF WriteMark, MarkTrue, Present, Asset
  <2> QED BY <1>3, <2>2, AloneKeeps DEF WriteMark
<1> QED BY <1>1, <1>2, <1>3

\* A launch that is over has nothing left to keep.
LEMMA OverKeeps ==
  ASSUME TypeOK, ProvisionInv, NEW p \in Proc, Boot(p) \/ Stops(p)
  PROVE  ProvisionInv'
<1> USE DEF ProvisionInv, TypeOK, Over, Goto, dirVars, Apart
<1>1. /\ pc' \in {[pc EXCEPT ![p] = "booted"], [pc EXCEPT ![p] = "stopped"]}
      /\ \A q \in Proc \ {p} : /\ pin'[q] = pin[q] /\ at'[q] = at[q] /\ next'[q] = next[q]
                               /\ left'[q] = left[q] /\ cur'[q] = cur[q]
      /\ UNCHANGED <<file, mark, shuru>>
  BY DEF Boot, Stops
<1>2. Solo'
  BY <1>1 DEF Solo, Provisioning
<1>3. MarkTrue' /\ ReadyMarked'
  BY <1>1 DEF MarkTrue, ReadyMarked, Present
<1>4. StagesKeep'
  BY <1>1 DEF StagesKeep, Cleared, Links, Unpacks
<1> QED BY <1>2, <1>3, <1>4

\* A launch boots the whole image that its binary pins.
THEOREM ImageIsReady ==
  ASSUME ~Overlap
  PROVE  Spec => []BootsReady
<1>1. TypeOK /\ ProvisionInv /\ [Next]_vars => ProvisionInv'
  <2> SUFFICES ASSUME TypeOK, ProvisionInv, [Next]_vars PROVE ProvisionInv'
    OBVIOUS
  <2>1. ASSUME NEW p \in Proc, Start(p) \/ Goes(p) \/ Stops(p) PROVE ProvisionInv'
    BY <2>1, StartKeeps, ClearKeeps, LinkKeeps, UnpackKeeps, OverKeeps DEF Goes
  <2>2. ASSUME UNCHANGED <<shuru, dirVars, launchVars>> PROVE ProvisionInv'
    BY <2>2 DEF ProvisionInv, Solo, MarkTrue, ReadyMarked, Present, StagesKeep, Cleared, Links,
                Unpacks, dirVars, launchVars
  <2> QED BY <2>1, <2>2 DEF Next, Upgrades, vars
<1>2. ProvisionInv /\ TypeOK => BootsReady
  BY ProcAssumption DEF ProvisionInv, ReadyMarked, MarkTrue, BootsReady, StagesKeep
<1> QED BY <1>1, <1>2, InitProvision, TypeCorrect, PTL DEF Spec
=============================================================================
