-------------------------- MODULE ComputersProofs ---------------------------
(***************************************************************************)
(* Theorems about Computers, for every set of names, checkpoint ids and    *)
(* processes.                                                              *)
(***************************************************************************)
EXTENDS Computers, TLAPS

USE NullAssumption

-----------------------------------------------------------------------------
(* Type correctness.                                                       *)

LocalTypes ==
  /\ pc \in [Proc -> Steps]
  /\ kind \in [Proc -> Kinds]
  /\ who \in [Proc -> Name \cup {None}]
  /\ base \in [Proc -> Ckpt \cup {None}]
  /\ new \in [Proc -> Ckpt \cup {None}]
  /\ todo \in [Proc -> SUBSET Ckpt]
  /\ reach \in [Proc -> SUBSET Ckpt]
  /\ dead \in [Proc -> SUBSET Ckpt]
  /\ \A p \in Proc : ArgsOK(p)

\* A process that ends leaves well-typed locals.
LEMMA ExitType ==
  ASSUME TypeOK, NEW p \in Proc, Exit(p)
  PROVE  LocalTypes'
BY DEF TypeOK, LocalTypes, ArgsOK, Exit, Goto, Steps, Kinds

\* A command that creates has its computer, one that records its checkpoint.
LEMMA ArgsType ==
  ASSUME TypeOK, NEW p \in Proc
  PROVE  /\ pc[p] = "create" => who[p] \in Name
         /\ pc[p] = "copied" => new[p] \in Ckpt
         /\ pc[p] = "added" => who[p] \in Name /\ new[p] \in Ckpt
<1>1. who[p] \in Name \cup {None} /\ new[p] \in Ckpt \cup {None}
  BY DEF TypeOK
<1>2. ArgsOK(p)
  BY DEF TypeOK
<1> QED BY <1>1, <1>2 DEF ArgsOK, Steps

\* The steps of run and clone keep the types.
LEMMA SessionTypes ==
  ASSUME TypeOK, NEW p \in Proc, Sessions(p)
  PROVE  TypeOK'
<1> USE DEF TypeOK, ArgsOK, store, local, Goto, Begin
<1>1. ASSUME Exit(p), UNCHANGED store PROVE TypeOK'
  BY <1>1, ExitType DEF LocalTypes
<1>2. ASSUME NEW n \in Name, Run(p, n) PROVE TypeOK'
  BY <1>2 DEF Run, Steps, Kinds
<1>3. ASSUME NEW n \in Name, RunFrom(p, n) \/ CloneRef(p, n) PROVE TypeOK'
  BY <1>3 DEF RunFrom, CloneRef, Steps, Kinds
<1>4. ASSUME NEW n \in Name, Source(p, n) PROVE TypeOK'
  BY <1>1, <1>4 DEF Source, Steps, At
<1>5. ASSUME NEW n \in Name, NEW c \in Ckpt, CloneFile(p, n, c) PROVE TypeOK'
  BY <1>5 DEF CloneFile, Draw, Steps, Kinds
<1>6. ASSUME NEW c \in Ckpt, Snapshot(p, c) PROVE TypeOK'
  BY <1>6 DEF Snapshot, Draw, Steps, At
<1>7. ASSUME Resolve(p) PROVE TypeOK'
  BY <1>1, <1>7 DEF Resolve, Steps, At
<1>8. ASSUME Create(p) PROVE TypeOK'
  <2>1. CASE Exit(p) /\ UNCHANGED store
    BY <1>1, <2>1
  <2>2. CASE /\ computers' = computers \cup {who[p]}
             /\ head' = [head EXCEPT ![who[p]] = base[p]]
             /\ who[p] \in Name
             /\ Goto(p, "boot") /\ UNCHANGED local
             /\ UNCHANGED <<rows, parent, images, drawn>>
    BY <1>8, <2>2 DEF Steps, Create, At
  <2>3. CASE /\ computers' = computers \cup {who[p]}
             /\ head' = [head EXCEPT ![who[p]] = base[p]]
             /\ who[p] \in Name
             /\ Exit(p)
             /\ UNCHANGED <<rows, parent, images, drawn>>
    BY <2>3, ExitType DEF LocalTypes
  <2>4. who[p] \in Name
    BY <1>8, ArgsType DEF Create, At
  <2> HIDE DEF TypeOK
  <2> QED BY <1>8, <2>1, <2>2, <2>3, <2>4 DEF Create
<1>9. ASSUME Boot(p) \/ Leave(p) PROVE TypeOK'
  BY <1>1, <1>9 DEF Boot, Leave, Steps, At
<1>10. ASSUME AddCheckpoint(p) PROVE TypeOK'
  <2>1. new[p] \in Ckpt
    BY <1>10, ArgsType DEF AddCheckpoint, At
  <2>2. CASE Exit(p) /\ UNCHANGED store
    BY <1>1, <2>2
  <2>3. ASSUME rows' = rows \cup {new[p]}, parent' = [parent EXCEPT ![new[p]] = base[p]]
        PROVE  rows' \subseteq Ckpt /\ parent' \in [Ckpt -> Ckpt \cup {None}]
    BY <2>1, <2>3
  <2>4. CASE ~(Exit(p) /\ UNCHANGED store) /\ kind[p] = "file"
    BY <1>10, <2>1, <2>3, <2>4 DEF AddCheckpoint, Steps, At
  <2>5. CASE ~(Exit(p) /\ UNCHANGED store) /\ kind[p] # "file"
    BY <1>10, <2>1, <2>3, <2>5 DEF AddCheckpoint, Steps, At
  <2> QED BY <2>2, <2>4, <2>5
<1>11. ASSUME SetHead(p) PROVE TypeOK'
  BY <1>11, ExitType DEF SetHead, LocalTypes
<1> HIDE DEF TypeOK
<1> QED BY <1>2, <1>3, <1>4, <1>5, <1>6, <1>7, <1>8, <1>9, <1>10, <1>11 DEF Sessions

\* The steps of rm, gc and their prune keep the types.
LEMMA PruneTypes ==
  ASSUME TypeOK, NEW p \in Proc, Prunes(p)
  PROVE  TypeOK'
<1> USE DEF TypeOK, ArgsOK, store, Goto, Steps
<1>1. ASSUME NEW n \in Name, Rm(p, n) PROVE TypeOK'
  BY <1>1 DEF Rm, Kinds
<1>2. ASSUME Gc(p) PROVE TypeOK'
  BY <1>2 DEF Gc, Kinds
<1>3. ASSUME ListHeads(p) PROVE TypeOK'
  BY <1>3 DEF ListHeads, Heads
<1>4. ASSUME Walk(p) PROVE TypeOK'
  BY <1>4 DEF Walk, ParentOf
<1>5. ASSUME ListDead(p) PROVE TypeOK'
  BY <1>5 DEF ListDead
<1>6. ASSUME Unlink(p) \/ BeginDelete(p) PROVE TypeOK'
  BY <1>6 DEF Unlink, BeginDelete
<1>7. ASSUME DeleteRow(p) PROVE TypeOK'
  BY <1>7 DEF DeleteRow
<1>8. ASSUME EndPrune(p) PROVE TypeOK'
  BY <1>8, ExitType DEF EndPrune, LocalTypes
<1> HIDE DEF TypeOK
<1> QED BY <1>1, <1>2, <1>3, <1>4, <1>5, <1>6, <1>7, <1>8 DEF Prunes

\* The tables, the files and the locals keep their types.
THEOREM StoreTypes == Spec => []TypeOK
<1>1. Init => TypeOK
  BY DEF Init, TypeOK, ArgsOK, Steps, Kinds
<1>2. TypeOK /\ [Next]_vars => TypeOK'
  <2> SUFFICES ASSUME TypeOK, [Next]_vars PROVE TypeOK'
    OBVIOUS
  <2>1. CASE UNCHANGED vars
    BY <2>1 DEF TypeOK, ArgsOK, vars, store, local
  <2>2. ASSUME NEW p \in Proc, Crash(p) PROVE TypeOK'
    BY <2>2, ExitType DEF Crash, LocalTypes, TypeOK, store
  <2> QED BY <2>1, <2>2, SessionTypes, PruneTypes DEF Next
<1> QED BY <1>1, <1>2, PTL DEF Spec

-----------------------------------------------------------------------------
(* Every recorded checkpoint has its image, while no process is killed.    *)

\* A step that leaves the rows, the images and the ids alone, at most moves
\* its own process to where nothing is condemned, and lets go of no condemned
\* checkpoint that is still recorded.
LEMMA QuietImages ==
  ASSUME TypeOK, ImageInv, NEW p \in Proc,
         UNCHANGED <<rows, images, drawn>>,
         NEW s \in Steps \ {"copied", "unlink", "delete"}, pc' = [pc EXCEPT ![p] = s],
         dead' = [dead EXCEPT ![p] = {}], dead[p] \cap rows = {},
         \A q \in Proc \ {p} : new'[q] = new[q] /\ todo'[q] = todo[q]
  PROVE  ImageInv'
<1>1. pc \in [Proc -> Steps] /\ dead \in [Proc -> SUBSET Ckpt]
  BY DEF TypeOK
<1>2. RowsHaveImages'
  BY <1>1 DEF ImageInv, RowsHaveImages
<1>3. ASSUME NEW q \in Proc PROVE MakeInv(q)'
  BY <1>1, <1>3 DEF ImageInv, MakeInv, At
<1>4. ASSUME NEW q \in Proc PROVE CondemnInv(q)'
  <2>1. CASE q = p
    BY <1>1, <2>1 DEF ImageInv, CondemnInv, At
  <2>2. CASE q # p
    BY <1>1, <2>2 DEF ImageInv, CondemnInv, At
  <2> QED BY <2>1, <2>2
<1> QED BY <1>2, <1>3, <1>4 DEF ImageInv

\* A process that ends, none of its condemned checkpoints recorded.
LEMMA ExitImages ==
  ASSUME TypeOK, ImageInv, NEW p \in Proc, Exit(p),
         UNCHANGED <<rows, images, drawn>>, dead[p] \cap rows = {}
  PROVE  ImageInv'
<1>1. new \in [Proc -> Ckpt \cup {None}] /\ todo \in [Proc -> SUBSET Ckpt]
  BY DEF TypeOK
<1> QED BY <1>1, QuietImages DEF Exit, Goto, Steps

\* A command in a session has condemned nothing.
LEMMA NothingCondemned ==
  ASSUME TypeOK, ImageInv, NEW p \in Proc, pc[p] \notin {"unlink", "delete"}
  PROVE  dead[p] = {} /\ dead = [dead EXCEPT ![p] = {}]
BY DEF TypeOK, ImageInv, CondemnInv, At

\* Drawing an id, and writing its image, leaves the process with a checkpoint
\* that is nobody else's.
LEMMA DrawImages ==
  ASSUME TypeOK, ImageInv, NEW p \in Proc, pc[p] \notin {"unlink", "delete"},
         NEW c \in Ckpt, Draw(p, c), UNCHANGED <<todo, dead>>
  PROVE  ImageInv'
<1>1. /\ pc \in [Proc -> Steps] /\ dead \in [Proc -> SUBSET Ckpt]
      /\ new \in [Proc -> Ckpt \cup {None}]
  BY DEF TypeOK
<1>2. RowsHaveImages' /\ (rows \subseteq drawn)'
  BY DEF ImageInv, RowsHaveImages, Draw
<1>3. ASSUME NEW q \in Proc PROVE MakeInv(q)'
  BY <1>1, <1>3 DEF ImageInv, MakeInv, CondemnInv, Draw, Goto, At
<1>4. ASSUME NEW q \in Proc PROVE CondemnInv(q)'
  BY <1>1, <1>4 DEF ImageInv, CondemnInv, Draw, Goto, At
<1> QED BY <1>2, <1>3, <1>4 DEF ImageInv

\* The steps of run and clone keep the images of what is recorded.
LEMMA SessionImages ==
  ASSUME TypeOK, ImageInv, NEW p \in Proc, Sessions(p)
  PROVE  ImageInv'
<1>0. /\ pc \in [Proc -> Steps] /\ dead \in [Proc -> SUBSET Ckpt]
      /\ new \in [Proc -> Ckpt \cup {None}] /\ todo \in [Proc -> SUBSET Ckpt]
  BY DEF TypeOK
<1>1. ASSUME Exit(p), UNCHANGED <<rows, images, drawn>>, pc[p] \notin {"unlink", "delete"}
      PROVE  ImageInv'
  BY <1>1, ExitImages, NothingCondemned
<1>2. ASSUME UNCHANGED <<rows, images, drawn, new, dead>>, pc[p] \notin {"unlink", "delete"},
             NEW s \in Steps \ {"copied", "unlink", "delete"}, Goto(p, s),
             \A q \in Proc \ {p} : todo'[q] = todo[q]
      PROVE  ImageInv'
  BY <1>2, QuietImages, NothingCondemned DEF Goto
<1>3. ASSUME NEW n \in Name, Run(p, n) PROVE ImageInv'
  BY <1>2, <1>3 DEF Run, store, At, Steps
<1>4. ASSUME NEW n \in Name, RunFrom(p, n) \/ CloneRef(p, n) PROVE ImageInv'
  BY <1>2, <1>4 DEF RunFrom, CloneRef, store, At, Steps
<1>13. ASSUME NEW n \in Name, Source(p, n) PROVE ImageInv'
  <2>1. pc[p] = "source" /\ UNCHANGED <<rows, images, drawn>>
    BY <1>13 DEF Source, At, store
  <2>2. CASE Exit(p)
    BY <1>1, <2>1, <2>2
  <2>3. CASE ~Exit(p)
    <3>1. /\ UNCHANGED <<new, dead>> /\ Goto(p, "resolve")
          /\ \A q \in Proc \ {p} : todo'[q] = todo[q]
      BY <1>0, <1>13, <2>3 DEF Source
    <3> QED BY <1>2, <2>1, <3>1 DEF Steps
  <2> QED BY <2>2, <2>3
<1>5. ASSUME NEW n \in Name, NEW c \in Ckpt, CloneFile(p, n, c) PROVE ImageInv'
  BY <1>5, DrawImages DEF CloneFile, At
<1>6. ASSUME NEW c \in Ckpt, Snapshot(p, c) PROVE ImageInv'
  BY <1>6, DrawImages DEF Snapshot, At
<1>7. ASSUME Resolve(p) PROVE ImageInv'
  <2>1. pc[p] = "resolve" /\ UNCHANGED <<rows, images, drawn>>
    BY <1>7 DEF Resolve, At, store
  <2>2. CASE Exit(p)
    BY <1>1, <2>1, <2>2
  <2>3. CASE ~Exit(p)
    <3>1. UNCHANGED <<new, dead>> /\ \A q \in Proc \ {p} : todo'[q] = todo[q]
      BY <1>0, <1>7, <2>3 DEF Resolve
    <3>2. \E s \in {"boot", "create", "resolve"} : Goto(p, s)
      BY <1>0, <1>7, <2>1, <2>3 DEF Resolve, Goto
    <3> QED BY <1>2, <2>1, <3>1, <3>2 DEF Steps
  <2> QED BY <2>2, <2>3
<1>8. ASSUME Create(p) PROVE ImageInv'
  <2>1. pc[p] = "create" /\ UNCHANGED <<rows, images, drawn>>
    BY <1>8 DEF Create, At, store
  <2>2. Exit(p) \/ (Goto(p, "boot") /\ UNCHANGED local)
    BY <1>8 DEF Create
  <2> QED BY <1>1, <1>2, <2>1, <2>2 DEF local, Steps
<1>9. ASSUME Boot(p) \/ Leave(p) PROVE ImageInv'
  BY <1>1, <1>2, <1>9 DEF Boot, Leave, At, store, local, Steps
<1>10. ASSUME AddCheckpoint(p) PROVE ImageInv'
  <2>1. pc[p] = "copied"
    BY <1>10 DEF AddCheckpoint, At
  <2>2. CASE Exit(p) /\ UNCHANGED store
    BY <1>1, <2>1, <2>2 DEF store
  <2>3. CASE ~(Exit(p) /\ UNCHANGED store)
    <3>1. /\ rows' = rows \cup {new[p]} /\ UNCHANGED <<images, drawn, new, todo, dead>>
          /\ \E s \in {"create", "added"} : pc' = [pc EXCEPT ![p] = s]
      BY <1>10, <2>3 DEF AddCheckpoint, Goto
    <3>2. new[p] \in images \cap drawn
      BY <2>1 DEF ImageInv, MakeInv, At
    <3>3. RowsHaveImages' /\ (rows \subseteq drawn)'
      BY <3>1, <3>2 DEF ImageInv, RowsHaveImages
    <3>4. ASSUME NEW q \in Proc PROVE MakeInv(q)'
      BY <1>0, <2>1, <3>1 DEF ImageInv, MakeInv, At
    <3>5. ASSUME NEW q \in Proc PROVE CondemnInv(q)'
      <4>1. new[p] \notin dead[q]
        BY <2>1 DEF ImageInv, MakeInv, At
      <4> QED BY <1>0, <2>1, <3>1, <4>1 DEF ImageInv, CondemnInv, At
    <3> QED BY <3>3, <3>4, <3>5 DEF ImageInv
  <2> QED BY <2>2, <2>3
<1>11. ASSUME SetHead(p) PROVE ImageInv'
  BY <1>1, <1>11 DEF SetHead, At
<1> QED BY <1>3, <1>4, <1>5, <1>6, <1>7, <1>8, <1>9, <1>10, <1>11, <1>13 DEF Sessions

\* The steps of rm, gc and their prune keep the images of what is recorded:
\* images go only of condemned checkpoints, which keep their condemnation
\* until their rows are gone.
LEMMA PruneImages ==
  ASSUME TypeOK, ImageInv, NEW p \in Proc, Prunes(p)
  PROVE  ImageInv'
<1>0. /\ pc \in [Proc -> Steps] /\ dead \in [Proc -> SUBSET Ckpt]
      /\ new \in [Proc -> Ckpt \cup {None}] /\ todo \in [Proc -> SUBSET Ckpt]
      /\ rows \subseteq Ckpt
  BY DEF TypeOK
<1>1. ASSUME UNCHANGED <<rows, images, drawn, new, dead>>, pc[p] \notin {"copied", "unlink", "delete"},
             NEW s \in Steps \ {"copied", "unlink", "delete"}, pc' = [pc EXCEPT ![p] = s],
             \A q \in Proc \ {p} : todo'[q] = todo[q]
      PROVE  ImageInv'
  BY <1>1, QuietImages, NothingCondemned
<1>2. ASSUME NEW n \in Name, Rm(p, n) PROVE ImageInv'
  <2>1. pc[p] = "idle" /\ \E s \in {"idle", "heads"} : pc' = [pc EXCEPT ![p] = s]
    BY <1>0, <1>2 DEF Rm, At, Goto
  <2> QED BY <1>1, <1>2, <2>1 DEF Rm, Steps
<1>3. ASSUME Gc(p) PROVE ImageInv'
  BY <1>1, <1>3 DEF Gc, Goto, At, store, Steps
<1>4. ASSUME ListHeads(p) PROVE ImageInv'
  <2>1. \A q \in Proc \ {p} : todo'[q] = todo[q]
    BY <1>0, <1>4 DEF ListHeads
  <2> QED BY <1>1, <1>4, <2>1 DEF ListHeads, Goto, At, store, Steps
<1>5. ASSUME Walk(p) PROVE ImageInv'
  <2>1. \A q \in Proc \ {p} : todo'[q] = todo[q]
    BY <1>0, <1>5 DEF Walk
  <2>2. pc[p] = "walk" /\ pc' = [pc EXCEPT ![p] = "walk"] /\ UNCHANGED <<rows, images, drawn, new, dead>>
    BY <1>0, <1>5 DEF Walk, At, store
  <2> QED BY <1>1, <2>1, <2>2 DEF Steps
<1>6. ASSUME ListDead(p) PROVE ImageInv'
  <2>1. /\ pc[p] = "walk" /\ pc' = [pc EXCEPT ![p] = "unlink"]
        /\ UNCHANGED <<rows, images, drawn, new>>
        /\ dead' = [dead EXCEPT ![p] = rows \ reach[p]]
        /\ todo' = [todo EXCEPT ![p] = rows \ reach[p]]
    BY <1>6 DEF ListDead, Goto, At, store
  <2>2. dead[p] = {}
    BY <2>1, NothingCondemned
  <2>3. RowsHaveImages'
    BY <1>0, <2>1, <2>2 DEF ImageInv, RowsHaveImages
  <2>4. ASSUME NEW q \in Proc PROVE MakeInv(q)'
    BY <1>0, <2>1 DEF ImageInv, MakeInv, At
  <2>5. ASSUME NEW q \in Proc PROVE CondemnInv(q)'
    BY <1>0, <2>1 DEF ImageInv, CondemnInv, At
  <2> QED BY <2>1, <2>3, <2>4, <2>5 DEF ImageInv
<1>7. ASSUME Unlink(p) PROVE ImageInv'
  <2>1. PICK c \in todo[p] : images' = images \ {c} /\ todo' = [todo EXCEPT ![p] = @ \ {c}]
    BY <1>7 DEF Unlink
  <2>2. pc[p] = "unlink" /\ UNCHANGED <<rows, drawn, pc, new, dead>>
    BY <1>7 DEF Unlink, At
  <2>3. c \in dead[p]
    BY <2>1, <2>2 DEF ImageInv, CondemnInv, At
  <2>4. RowsHaveImages'
    BY <2>1, <2>2, <2>3 DEF ImageInv, RowsHaveImages
  <2>5. ASSUME NEW q \in Proc PROVE MakeInv(q)'
    BY <2>1, <2>2, <2>3 DEF ImageInv, MakeInv, At
  <2>6. ASSUME NEW q \in Proc PROVE CondemnInv(q)'
    BY <1>0, <2>1, <2>2 DEF ImageInv, CondemnInv, At
  <2> QED BY <2>2, <2>4, <2>5, <2>6 DEF ImageInv
<1>8. ASSUME BeginDelete(p) PROVE ImageInv'
  <2>1. /\ pc[p] = "unlink" /\ pc' = [pc EXCEPT ![p] = "delete"]
        /\ todo' = [todo EXCEPT ![p] = dead[p]]
        /\ UNCHANGED <<rows, images, drawn, new, dead>>
    BY <1>8 DEF BeginDelete, Goto, At, store
  <2>2. RowsHaveImages'
    BY <2>1 DEF ImageInv, RowsHaveImages
  <2>3. ASSUME NEW q \in Proc PROVE MakeInv(q)'
    BY <1>0, <2>1 DEF ImageInv, MakeInv, At
  <2>4. ASSUME NEW q \in Proc PROVE CondemnInv(q)'
    BY <1>0, <2>1 DEF ImageInv, CondemnInv, At
  <2> QED BY <2>1, <2>2, <2>3, <2>4 DEF ImageInv
<1>9. ASSUME DeleteRow(p) PROVE ImageInv'
  <2>1. PICK c \in todo[p] : rows' = rows \ {c} /\ todo' = [todo EXCEPT ![p] = @ \ {c}]
    BY <1>9 DEF DeleteRow
  <2>2. pc[p] = "delete" /\ UNCHANGED <<images, drawn, pc, new, dead>>
    BY <1>9 DEF DeleteRow, At
  <2>3. RowsHaveImages'
    BY <2>1, <2>2 DEF ImageInv, RowsHaveImages
  <2>4. ASSUME NEW q \in Proc PROVE MakeInv(q)'
    BY <2>1, <2>2 DEF ImageInv, MakeInv, At
  <2>5. ASSUME NEW q \in Proc PROVE CondemnInv(q)'
    BY <1>0, <2>1, <2>2 DEF ImageInv, CondemnInv, At
  <2> QED BY <2>1, <2>2, <2>3, <2>4, <2>5 DEF ImageInv
<1>10. ASSUME EndPrune(p) PROVE ImageInv'
  <2>1. dead[p] \cap rows = {}
    BY <1>10 DEF EndPrune, ImageInv, CondemnInv, At
  <2> QED BY <1>10, <2>1, ExitImages DEF EndPrune, store
<1> QED BY <1>2, <1>3, <1>4, <1>5, <1>6, <1>7, <1>8, <1>9, <1>10 DEF Prunes

\* While no process is killed, a recorded checkpoint has its image unless a
\* prune under way has condemned it, whatever commands run at the same time.
THEOREM ImagesOfRows ==
  ASSUME ~Crashes
  PROVE  Spec => []RowsHaveImages
<1>1. Init => ImageInv
  BY DEF Init, ImageInv, RowsHaveImages, MakeInv, CondemnInv, At
<1>2. TypeOK /\ ImageInv /\ [Next]_vars => ImageInv'
  <2> SUFFICES ASSUME TypeOK, ImageInv, [Next]_vars PROVE ImageInv'
    OBVIOUS
  <2>1. CASE UNCHANGED vars
    BY <2>1 DEF ImageInv, RowsHaveImages, MakeInv, CondemnInv, At, vars, store, local
  <2> QED BY <2>1, SessionImages, PruneImages DEF Next, Crash
<1>3. ImageInv => RowsHaveImages
  BY DEF ImageInv
<1> QED BY <1>1, <1>2, <1>3, StoreTypes, PTL DEF Spec

-----------------------------------------------------------------------------
(* With one process at a time, the history of every computer is intact.    *)

\* What SoloInv says of the one process: S is a set of checkpoints that are
\* safe from it.
SafeFrom(p, S) ==
  /\ S \in SUBSET (rows \cap images) /\ Closed(S)
  /\ Anchors(p) \subseteq S /\ dead[p] \cap S = {}

SoloWith(p, S) == SafeFrom(p, S) /\ rows \subseteq drawn /\ ProcInv(p)

\* The one process may be named.
LEMMA SoloNamed ==
  ASSUME NEW p, Proc = {p}
  PROVE  SoloInv <=> \E S \in SUBSET (rows \cap images) : SoloWith(p, S)
BY DEF SoloInv, StoreInv, SoloWith, SafeFrom

\* A process that ends, the heads among the safe checkpoints, anchors nothing.
LEMMA ExitSolo ==
  ASSUME TypeOK, NEW p, Proc = {p}, NEW S, SoloWith(p, S), Exit(p),
         UNCHANGED <<rows, images, drawn, parent>>, Heads' \subseteq S
  PROVE  SoloWith(p, S)'
<1>1. /\ pc'[p] = "idle" /\ base'[p] = None /\ new'[p] = None
      /\ todo'[p] = {} /\ reach'[p] = {} /\ dead'[p] = {}
  BY DEF TypeOK, Exit, Goto
<1>2. SafeFrom(p, S)'
  BY <1>1 DEF SoloWith, SafeFrom, Closed, ParentOf, Anchors, At
<1>3. ProcInv(p)'
  BY <1>1 DEF ProcInv, WalkInv, At
<1> QED BY <1>2, <1>3 DEF SoloWith

\* The steps of run and clone keep the histories intact.
LEMMA SessionSolo ==
  ASSUME TypeOK, NEW p, Proc = {p}, NEW S, SoloWith(p, S), Sessions(p)
  PROVE  \E T : SoloWith(p, T)'
<1>0. /\ pc \in [Proc -> Steps] /\ new \in [Proc -> Ckpt \cup {None}]
      /\ base \in [Proc -> Ckpt \cup {None}] /\ kind \in [Proc -> Kinds]
      /\ who \in [Proc -> Name \cup {None}] /\ todo \in [Proc -> SUBSET Ckpt]
      /\ reach \in [Proc -> SUBSET Ckpt] /\ dead \in [Proc -> SUBSET Ckpt]
      /\ head \in [Name -> Ckpt \cup {None}] /\ computers \subseteq Name
      /\ parent \in [Ckpt -> Ckpt \cup {None}] /\ rows \subseteq Ckpt /\ p \in Proc
  BY DEF TypeOK
<1>1. /\ S \subseteq rows /\ S \subseteq images /\ Heads \subseteq S
      /\ \A c \in S : ParentOf(c) \subseteq S
      /\ Anchors(p) \subseteq S /\ ProcInv(p) /\ rows \subseteq drawn
  BY DEF SoloWith, SafeFrom, Closed
<1>2. \A n \in computers : head[n] # None => head[n] \in S
  BY <1>1 DEF Heads
<1>3. ASSUME Exit(p), UNCHANGED store PROVE \E T : SoloWith(p, T)'
  <2>1. Heads' \subseteq S
    BY <1>1, <1>3 DEF Heads, store
  <2> QED BY <1>3, <2>1, ExitSolo DEF store
\* A step of a session that changes the process only.
<1>4. ASSUME UNCHANGED <<rows, parent, images, drawn, reach, dead>>, Heads' \subseteq S,
             pc[p] \notin {"walk", "unlink", "delete"},
             pc'[p] \in {"source", "resolve", "create", "boot", "up"},
             base'[p] # None => base'[p] \in S,
             pc'[p] = "resolve" => todo'[p] \subseteq S
      PROVE  \E T : SoloWith(p, T)'
  <2>1. Anchors(p)' \subseteq S
    BY <1>4 DEF Anchors, At
  <2>2. Closed(S)'
    BY <1>1, <1>4 DEF Closed, ParentOf
  <2>3. ProcInv(p)' /\ dead'[p] = {}
    BY <1>1, <1>4 DEF ProcInv, WalkInv, At
  <2>4. SoloWith(p, S)'
    BY <1>1, <1>4, <2>1, <2>2, <2>3 DEF SoloWith, SafeFrom
  <2> QED BY <2>4
<1>5. ASSUME NEW n \in Name, Run(p, n) PROVE \E T : SoloWith(p, T)'
  <2>1. pc[p] = "idle" /\ UNCHANGED <<rows, parent, images, drawn, reach, dead, computers, head>>
    BY <1>5 DEF Run, At, store
  <2>2. /\ base'[p] = None \/ (n \in computers /\ base'[p] = head[n])
        /\ pc'[p] \in {"boot", "create"}
    BY <1>0, <1>5 DEF Run, Begin, Goto
  <2>3. Heads' \subseteq S
    BY <1>1, <2>1 DEF Heads
  <2> QED BY <1>2, <1>4, <2>1, <2>2, <2>3
<1>6. ASSUME NEW n \in Name, RunFrom(p, n) \/ CloneRef(p, n) PROVE \E T : SoloWith(p, T)'
  <2>1. pc[p] = "idle" /\ UNCHANGED <<rows, parent, images, drawn, reach, dead, computers, head>>
    BY <1>6 DEF RunFrom, CloneRef, At, store
  <2>2. base'[p] = None /\ pc'[p] = "source"
    BY <1>0, <1>6 DEF RunFrom, CloneRef, Begin, Goto
  <2>3. Heads' \subseteq S
    BY <1>1, <2>1 DEF Heads
  <2> QED BY <1>4, <2>1, <2>2, <2>3
<1>15. ASSUME NEW src \in Name, Source(p, src) PROVE \E T : SoloWith(p, T)'
  <2>1. pc[p] = "source" /\ UNCHANGED store
    BY <1>15 DEF Source, At
  <2>2. CASE Exit(p)
    BY <1>3, <2>1, <2>2
  <2>3. CASE ~Exit(p)
    <3>1. /\ src \in computers /\ head[src] # None /\ UNCHANGED <<base, reach, dead>>
          /\ todo'[p] = {head[src]} /\ pc'[p] = "resolve"
      BY <1>0, <1>15, <2>3 DEF Source, Goto
    <3>2. base[p] = None \/ base[p] \in S
      BY <1>1 DEF Anchors
    <3>3. Heads' \subseteq S
      BY <1>1, <2>1 DEF Heads, store
    <3> QED BY <1>2, <1>4, <2>1, <3>1, <3>2, <3>3 DEF store
  <2> QED BY <2>2, <2>3
<1>7. ASSUME Resolve(p) PROVE \E T : SoloWith(p, T)'
  <2>1. pc[p] = "resolve" /\ UNCHANGED store
    BY <1>7 DEF Resolve, At, store
  <2>2. CASE Exit(p)
    BY <1>3, <2>1, <2>2
  <2>3. CASE ~Exit(p)
    <3>1. PICK c \in todo[p] :
            \/ /\ base' = [base EXCEPT ![p] = c] /\ c \in rows
               /\ todo' = [todo EXCEPT ![p] = {}]
               /\ Goto(p, IF kind[p] = "seed" THEN "boot" ELSE "create")
               /\ UNCHANGED <<reach, dead>>
            \/ /\ c \in rows /\ parent[c] # None
               /\ todo' = [todo EXCEPT ![p] = {parent[c]}]
               /\ UNCHANGED <<pc, base, reach, dead>>
      BY <1>7, <2>3 DEF Resolve
    <3>2. c \in Ckpt /\ c # None /\ c \in S
      BY <1>0, <1>1, <2>1 DEF Anchors, At
    <3>3. base[p] = None \/ base[p] \in S
      BY <1>1 DEF Anchors
    <3>4. parent[c] = None \/ parent[c] \in S
      BY <1>1, <3>2 DEF ParentOf
    <3>5. /\ base'[p] = None \/ base'[p] \in S
          /\ pc'[p] \in {"boot", "create", "resolve"}
          /\ todo'[p] \subseteq S /\ UNCHANGED <<reach, dead>>
      BY <1>0, <2>1, <3>1, <3>2, <3>3, <3>4 DEF Goto
    <3>6. Heads' \subseteq S
      BY <1>1, <2>1 DEF Heads, store
    <3> QED BY <1>4, <2>1, <3>5, <3>6 DEF store
  <2> QED BY <2>2, <2>3
<1>8. ASSUME Create(p) PROVE \E T : SoloWith(p, T)'
  <2>1. CASE Exit(p) /\ UNCHANGED store
    BY <1>3, <2>1
  <2>2. CASE ~(Exit(p) /\ UNCHANGED store)
    <3>1. /\ computers' = computers \cup {who[p]}
          /\ head' = [head EXCEPT ![who[p]] = base[p]]
          /\ Exit(p) \/ (Goto(p, "boot") /\ UNCHANGED local)
          /\ UNCHANGED <<rows, parent, images, drawn>> /\ pc[p] = "create"
      BY <1>8, <2>2 DEF Create, At
    <3>2. who[p] \in Name
      BY <1>0, <3>1, ArgsType
    <3>3. base[p] = None \/ base[p] \in S
      BY <1>1 DEF Anchors
    <3>4. \A n \in computers' : head'[n] = None \/ head'[n] \in S
      BY <1>0, <1>2, <3>1, <3>2, <3>3
    <3>5. Heads' \subseteq S
      BY <3>4 DEF Heads
    <3>6. CASE Exit(p)
      BY <3>1, <3>5, <3>6, ExitSolo
    <3>7. CASE Goto(p, "boot") /\ UNCHANGED local
      <4>1. pc'[p] = "boot" /\ UNCHANGED <<base, reach, dead>>
        BY <1>0, <3>7 DEF Goto, local
      <4> QED BY <1>4, <3>1, <3>3, <3>5, <4>1
    <3> QED BY <3>1, <3>6, <3>7
  <2> QED BY <2>1, <2>2
<1>9. ASSUME Boot(p) \/ Leave(p) PROVE \E T : SoloWith(p, T)'
  <2>1. UNCHANGED store
    BY <1>9 DEF Boot, Leave
  <2>2. CASE Exit(p)
    BY <1>3, <2>1, <2>2
  <2>3. CASE ~Exit(p)
    <3>1. pc[p] = "boot" /\ Goto(p, "up") /\ UNCHANGED local
      BY <1>9, <2>3 DEF Boot, Leave, At
    <3>2. pc'[p] = "up" /\ UNCHANGED <<base, reach, dead, rows, parent, images, drawn>>
      BY <1>0, <2>1, <3>1 DEF Goto, local, store
    <3>3. base[p] = None \/ base[p] \in S
      BY <1>1 DEF Anchors
    <3>4. Heads' \subseteq S
      BY <1>1, <2>1 DEF Heads, store
    <3> QED BY <1>4, <3>1, <3>2, <3>3, <3>4
  <2> QED BY <2>2, <2>3
<1>10. ASSUME NEW c \in Ckpt, Draw(p, c), pc[p] \in {"idle", "up"},
              UNCHANGED <<todo, reach, dead>>, base'[p] = None \/ base'[p] \in S
       PROVE  \E T : SoloWith(p, T)'
  <2>1. /\ pc'[p] = "copied" /\ new'[p] = c /\ c \notin drawn
        /\ images' = images \cup {c} /\ drawn' = drawn \cup {c}
        /\ UNCHANGED <<rows, parent, computers, head>>
    BY <1>0, <1>10 DEF Draw, Goto
  <2>2. Closed(S)'
    BY <1>1, <2>1 DEF Closed, Heads, ParentOf
  <2>3. Anchors(p)' \subseteq S
    BY <1>10, <2>1 DEF Anchors, At
  <2>4. ProcInv(p)' /\ dead'[p] = {}
    BY <1>1, <1>10, <2>1 DEF ProcInv, WalkInv, At
  <2>5. SoloWith(p, S)'
    BY <1>1, <2>1, <2>2, <2>3, <2>4 DEF SoloWith, SafeFrom
  <2> QED BY <2>5
<1>11. ASSUME NEW n \in Name, NEW c \in Ckpt, CloneFile(p, n, c) PROVE \E T : SoloWith(p, T)'
  <2>1. base'[p] = None
    BY <1>0, <1>11 DEF CloneFile, Begin
  <2> QED BY <1>10, <1>11, <2>1 DEF CloneFile, At
<1>12. ASSUME NEW c \in Ckpt, Snapshot(p, c) PROVE \E T : SoloWith(p, T)'
  <2>1. base'[p] = None \/ base'[p] \in S
    BY <1>1, <1>12 DEF Snapshot, Anchors
  <2> QED BY <1>10, <1>12, <2>1 DEF Snapshot, At
<1>13. ASSUME AddCheckpoint(p) PROVE \E T : SoloWith(p, T)'
  <2>1. CASE Exit(p) /\ UNCHANGED store
    BY <1>3, <2>1
  <2>2. CASE ~(Exit(p) /\ UNCHANGED store)
    <3> DEFINE T == S \cup {new[p]}
    <3>1. /\ pc[p] = "copied" /\ rows' = rows \cup {new[p]}
          /\ parent' = [parent EXCEPT ![new[p]] = base[p]]
          /\ UNCHANGED <<computers, head, images, drawn, new, todo, reach, dead>>
          /\ pc'[p] \in {"create", "added"}
          /\ base'[p] \in {base[p], new[p]}
      BY <1>0, <1>13, <2>2 DEF AddCheckpoint, Goto, At
    <3>2. new[p] \in Ckpt /\ new[p] \in images /\ new[p] \in drawn /\ new[p] \notin rows
      BY <1>0, <1>1, <3>1, ArgsType DEF ProcInv
    <3>3. base[p] = None \/ base[p] \in S
      BY <1>1 DEF Anchors
    <3>4. \A c \in T : parent'[c] = None \/ parent'[c] \in T
      <4>1. parent'[new[p]] = base[p]
        BY <1>0, <3>1, <3>2
      <4>2. ASSUME NEW c \in S PROVE parent'[c] = None \/ parent'[c] \in S
        BY <1>0, <1>1, <3>1, <3>2 DEF ParentOf
      <4> QED BY <3>3, <4>1, <4>2
    <3>5. Closed(T)'
      BY <1>1, <3>1, <3>4 DEF Closed, Heads, ParentOf
    <3>6. Anchors(p)' \subseteq T
      BY <3>1, <3>3 DEF Anchors, At
    <3>7. ProcInv(p)' /\ dead'[p] = {}
      BY <1>1, <3>1 DEF ProcInv, WalkInv, At
    <3>8. (T \in SUBSET (rows \cap images))' /\ (rows \subseteq drawn)'
      BY <1>1, <3>1, <3>2
    <3>9. SoloWith(p, T)'
      BY <3>1, <3>5, <3>6, <3>7, <3>8 DEF SoloWith, SafeFrom
    <3> QED BY <3>9
  <2> QED BY <2>1, <2>2
<1>14. ASSUME SetHead(p) PROVE \E T : SoloWith(p, T)'
  <2>1. new[p] \in S
    BY <1>0, <1>1, <1>14, ArgsType DEF SetHead, Anchors, At
  <2>2. \A n \in computers' : head'[n] = None \/ head'[n] \in S
    BY <1>0, <1>2, <1>14, <2>1 DEF SetHead
  <2>3. Heads' \subseteq S
    BY <2>2 DEF Heads
  <2> QED BY <1>14, <2>3, ExitSolo DEF SetHead
<1> QED BY <1>5, <1>6, <1>7, <1>8, <1>9, <1>11, <1>12, <1>13, <1>14, <1>15
        DEF Sessions

\* The steps of rm, gc and their prune keep the histories intact.  A prune
\* condemns what its walk did not reach: what it reached is closed, and takes
\* the place of S.
LEMMA PruneSolo ==
  ASSUME TypeOK, NEW p, Proc = {p}, NEW S, SoloWith(p, S), Prunes(p)
  PROVE  \E T : SoloWith(p, T)'
<1>0. /\ pc \in [Proc -> Steps] /\ base \in [Proc -> Ckpt \cup {None}]
      /\ todo \in [Proc -> SUBSET Ckpt] /\ reach \in [Proc -> SUBSET Ckpt]
      /\ dead \in [Proc -> SUBSET Ckpt] /\ head \in [Name -> Ckpt \cup {None}]
      /\ parent \in [Ckpt -> Ckpt \cup {None}] /\ rows \subseteq Ckpt /\ p \in Proc
  BY DEF TypeOK
<1>1. /\ S \subseteq rows /\ S \subseteq images /\ Heads \subseteq S
      /\ \A c \in S : ParentOf(c) \subseteq S
      /\ dead[p] \cap S = {} /\ ProcInv(p) /\ rows \subseteq drawn
  BY DEF SoloWith, SafeFrom, Closed
\* A step in or into a prune: only its own marks matter.
<1>2. ASSUME pc[p] \in {"idle", "heads", "walk", "unlink", "delete"},
             UNCHANGED <<base, drawn>>, pc'[p] \in {"idle", "heads", "walk", "unlink", "delete"},
             NEW T, T \subseteq rows' \cap images', Closed(T)', dead'[p] \cap T = {},
             rows' \subseteq drawn, ProcInv(p)'
      PROVE  SoloWith(p, T)'
  <2>1. Anchors(p)' = {}
    BY <1>1, <1>2 DEF Anchors, At, ProcInv
  <2> QED BY <1>2, <2>1 DEF SoloWith, SafeFrom
<1>3. ASSUME NEW n \in Name, Rm(p, n) PROVE SoloWith(p, S)'
  <2>1. /\ pc[p] = "idle" /\ pc'[p] \in {"idle", "heads"}
        /\ UNCHANGED <<rows, parent, images, drawn, base, todo, reach, dead>>
    BY <1>0, <1>3 DEF Rm, Goto, At
  <2>2. Heads' \subseteq Heads
    BY <1>0, <1>3 DEF Rm, Heads
  <2>3. Closed(S)'
    BY <1>1, <2>1, <2>2 DEF Closed, ParentOf
  <2>4. ProcInv(p)'
    BY <1>1, <2>1 DEF ProcInv, WalkInv, At
  <2> QED BY <1>1, <1>2, <2>1, <2>3, <2>4
<1>4. ASSUME Gc(p) PROVE SoloWith(p, S)'
  <2>1. /\ pc[p] = "idle" /\ pc'[p] = "heads"
        /\ UNCHANGED <<rows, parent, images, drawn, computers, head, base, todo, reach, dead>>
    BY <1>0, <1>4 DEF Gc, Goto, At, store
  <2>2. Closed(S)'
    BY <1>1, <2>1 DEF Closed, Heads, ParentOf
  <2>3. ProcInv(p)'
    BY <1>1, <2>1 DEF ProcInv, WalkInv, At
  <2> QED BY <1>1, <1>2, <2>1, <2>2, <2>3
<1>5. ASSUME ListHeads(p) PROVE SoloWith(p, S)'
  <2>1. /\ pc[p] = "heads" /\ pc'[p] = "walk" /\ todo'[p] = Heads
        /\ UNCHANGED <<rows, parent, images, drawn, computers, head, base, reach, dead>>
    BY <1>0, <1>5 DEF ListHeads, Goto, At, store
  <2>2. Closed(S)' /\ Heads' = Heads
    BY <1>1, <2>1 DEF Closed, Heads, ParentOf
  <2>3. ProcInv(p)'
    BY <1>1, <2>1, <2>2 DEF ProcInv, WalkInv, At
  <2> QED BY <1>1, <1>2, <2>1, <2>2, <2>3
<1>6. ASSUME Walk(p) PROVE SoloWith(p, S)'
  <2>1. PICK c \in todo[p] :
          /\ reach' = [reach EXCEPT ![p] = reach[p] \cup {c}]
          /\ todo' = [todo EXCEPT ![p] = (todo[p] \cup (IF c \in rows THEN ParentOf(c) ELSE {}))
                                          \ (reach[p] \cup {c})]
    BY <1>6 DEF Walk
  <2>2. pc[p] = "walk" /\ UNCHANGED <<rows, parent, images, drawn, computers, head, pc, base, dead>>
    BY <1>6 DEF Walk, At, store
  <2>3. Closed(S)' /\ Heads' = Heads /\ \A d : ParentOf(d)' = ParentOf(d)
    BY <1>1, <2>2 DEF Closed, Heads, ParentOf
  <2>4. /\ Heads \subseteq reach[p] \cup todo[p]
        /\ \A d \in reach[p] \cap rows : ParentOf(d) \subseteq reach[p] \cup todo[p]
    BY <1>1, <2>2 DEF ProcInv, WalkInv, At
  <2>5. reach'[p] = reach[p] \cup {c}
    BY <1>0, <2>1
  <2>6. todo'[p] = (todo[p] \cup (IF c \in rows THEN ParentOf(c) ELSE {})) \ (reach[p] \cup {c})
    BY <1>0, <2>1
  <2>7. Heads \subseteq reach'[p] \cup todo'[p]
    BY <2>4, <2>5, <2>6
  <2>8. \A d \in reach'[p] \cap rows : ParentOf(d) \subseteq reach'[p] \cup todo'[p]
    BY <2>4, <2>5, <2>6
  <2>9. ProcInv(p)'
    BY <1>1, <2>2, <2>3, <2>7, <2>8 DEF ProcInv, WalkInv, At
  <2> QED BY <1>1, <1>2, <2>2, <2>3, <2>9
<1>7. ASSUME ListDead(p) PROVE SoloWith(p, S \cap reach[p])'
  <2> DEFINE T == S \cap reach[p]
  <2>1. /\ pc[p] = "walk" /\ pc'[p] = "unlink" /\ todo[p] = {}
        /\ dead'[p] = rows \ reach[p] /\ todo'[p] = rows \ reach[p]
        /\ UNCHANGED <<rows, parent, images, drawn, computers, head, base, reach>>
    BY <1>0, <1>7 DEF ListDead, Goto, At, store
  <2>2. /\ Heads \subseteq reach[p]
        /\ \A c \in reach[p] \cap rows : ParentOf(c) \subseteq reach[p]
    BY <1>1, <2>1 DEF ProcInv, WalkInv, At
  <2>3. Closed(T)'
    BY <1>1, <2>1, <2>2 DEF Closed, Heads, ParentOf
  <2>4. ProcInv(p)'
    BY <1>1, <2>1 DEF ProcInv, WalkInv, At
  <2>5. dead'[p] \cap T = {} /\ T \subseteq rows' \cap images'
    BY <1>1, <2>1
  <2>6. SoloWith(p, T)'
    BY <1>1, <1>2, <2>1, <2>3, <2>4, <2>5
  <2> QED BY <2>1, <2>6
<1>8. ASSUME Unlink(p) PROVE SoloWith(p, S)'
  <2>1. PICK c \in todo[p] : images' = images \ {c} /\ todo' = [todo EXCEPT ![p] = @ \ {c}]
    BY <1>8 DEF Unlink
  <2>2. pc[p] = "unlink" /\ UNCHANGED <<rows, parent, drawn, computers, head, pc, base, reach, dead>>
    BY <1>8 DEF Unlink, At
  <2>3. c \in dead[p] /\ todo'[p] = todo[p] \ {c}
    BY <1>0, <1>1, <2>1, <2>2 DEF ProcInv
  <2>4. Closed(S)'
    BY <1>1, <2>2 DEF Closed, Heads, ParentOf
  <2>5. ProcInv(p)'
    BY <1>1, <2>2, <2>3 DEF ProcInv, WalkInv, At
  <2> QED BY <1>1, <1>2, <2>1, <2>2, <2>3, <2>4, <2>5
<1>9. ASSUME BeginDelete(p) PROVE SoloWith(p, S)'
  <2>1. /\ pc[p] = "unlink" /\ pc'[p] = "delete" /\ todo'[p] = dead[p]
        /\ UNCHANGED <<rows, parent, images, drawn, computers, head, base, reach, dead>>
    BY <1>0, <1>9 DEF BeginDelete, Goto, At, store
  <2>2. Closed(S)'
    BY <1>1, <2>1 DEF Closed, Heads, ParentOf
  <2>3. ProcInv(p)'
    BY <1>1, <2>1 DEF ProcInv, WalkInv, At
  <2> QED BY <1>1, <1>2, <2>1, <2>2, <2>3
<1>10. ASSUME DeleteRow(p) PROVE SoloWith(p, S)'
  <2>1. PICK c \in todo[p] : /\ rows' = rows \ {c} /\ parent' = [parent EXCEPT ![c] = None]
                             /\ todo' = [todo EXCEPT ![p] = @ \ {c}]
    BY <1>10 DEF DeleteRow
  <2>2. pc[p] = "delete" /\ UNCHANGED <<images, drawn, computers, head, pc, base, reach, dead>>
    BY <1>10 DEF DeleteRow, At
  <2>3. c \in dead[p] /\ c \notin S /\ todo'[p] = todo[p] \ {c}
    BY <1>0, <1>1, <2>1, <2>2 DEF ProcInv
  <2>4. \A d \in S : parent'[d] = parent[d]
    BY <1>0, <1>1, <2>1, <2>3
  <2>5. Closed(S)'
    BY <1>1, <2>2, <2>4 DEF Closed, Heads, ParentOf
  <2>6. ProcInv(p)'
    BY <1>1, <2>2, <2>3 DEF ProcInv, WalkInv, At
  <2> QED BY <1>1, <1>2, <2>1, <2>2, <2>3, <2>5, <2>6
<1>11. ASSUME EndPrune(p) PROVE SoloWith(p, S)'
  <2>1. Heads' \subseteq S
    BY <1>1, <1>11 DEF EndPrune, Heads, store
  <2> QED BY <1>11, <2>1, ExitSolo DEF EndPrune, store
<1> QED BY <1>3, <1>4, <1>5, <1>6, <1>7, <1>8, <1>9, <1>10, <1>11 DEF Prunes

\* The invariant of one process at a time.
LEMMA SoloHolds ==
  ASSUME NEW p, Proc = {p}
  PROVE  Spec => []SoloInv
<1>1. Init => SoloInv
  <2> SUFFICES ASSUME Init PROVE SoloWith(p, {})
    BY SoloNamed
  <2> QED BY DEF Init, SoloWith, SafeFrom, Closed, Heads, Anchors, ProcInv, WalkInv, At
<1>2. TypeOK /\ SoloInv /\ [Next]_vars => SoloInv'
  <2> SUFFICES ASSUME TypeOK, NEW S, SoloWith(p, S), [Next]_vars
               PROVE  \E T : SoloWith(p, T)'
    BY SoloNamed DEF SoloInv, StoreInv, SoloWith, SafeFrom
  <2>1. CASE UNCHANGED vars
    <3>1. SoloWith(p, S)'
      BY <2>1 DEF SoloWith, SafeFrom, Closed, Heads, ParentOf, Anchors, ProcInv, WalkInv, At,
                  vars, store, local
    <3> QED BY <3>1
  <2>2. CASE Crash(p)
    <3>1. Heads' \subseteq S
      BY <2>2 DEF Crash, Heads, store, SoloWith, SafeFrom, Closed
    <3>2. SoloWith(p, S)'
      BY <2>2, <3>1, ExitSolo DEF Crash, store
    <3> QED BY <3>2
  <2> QED BY <2>1, <2>2, SessionSolo, PruneSolo DEF Next
<1> QED BY <1>1, <1>2, StoreTypes, PTL DEF Spec

\* With one process at a time, killed between any two of its steps: whatever
\* sessions, clones, removals and prunes it ran, the row and the image of every
\* checkpoint in the history of a computer are there.
THEOREM HistoriesIntact ==
  ASSUME NEW p, Proc = {p}
  PROVE  Spec => []LiveIntact
<1>1. SoloInv => LiveIntact
  BY DEF SoloInv, StoreInv, LiveIntact
<1> QED BY <1>1, SoloHolds, PTL

-----------------------------------------------------------------------------
(* What a session and a prune of the one process come to.                  *)

\* Outside of a prune and of a session nothing is at stake.
LEMMA IdlePath ==
  ASSUME TypeOK, NEW p \in Proc, Exit(p)
  PROVE  PruneInv(p)' /\ HeadInv(p)'
<1>1. pc'[p] = "idle" /\ kind'[p] = "none"
  BY DEF TypeOK, Exit, Goto
<1> QED BY <1>1 DEF PruneInv, HeadInv, At

\* A session moves the head of its computer from its base, to a checkpoint that
\* was recorded with that base for its parent.
LEMMA SessionPath ==
  ASSUME TypeOK, NEW p \in Proc, HeadInv(p), Sessions(p)
  PROVE  PruneInv(p)' /\ HeadInv(p)'
<1>0. /\ pc \in [Proc -> Steps] /\ new \in [Proc -> Ckpt \cup {None}]
      /\ base \in [Proc -> Ckpt \cup {None}] /\ kind \in [Proc -> Kinds]
      /\ who \in [Proc -> Name \cup {None}] /\ todo \in [Proc -> SUBSET Ckpt]
      /\ head \in [Name -> Ckpt \cup {None}] /\ computers \subseteq Name
      /\ parent \in [Ckpt -> Ckpt \cup {None}]
  BY DEF TypeOK
<1>2. pc'[p] \notin {"walk", "unlink", "delete"} => PruneInv(p)'
  BY DEF PruneInv, At
<1>3. ASSUME Exit(p), UNCHANGED head PROVE PruneInv(p)' /\ HeadInv(p)'
  BY <1>3, IdlePath
\* A step that changes where the session stands, and little else.
<1>4. ASSUME UNCHANGED <<head, parent, new>>, pc'[p] \notin {"walk", "unlink", "delete", "added"},
             kind'[p] = "seed" /\ pc'[p] \in {"source", "resolve"} => head[who'[p]] = None,
             pc'[p] \in {"boot", "up", "copied"} /\ kind'[p] # "file" =>
               head[who'[p]] \in {None, base'[p]},
             pc'[p] \in {"boot", "up"} => kind'[p] # "file"
      PROVE  PruneInv(p)' /\ HeadInv(p)'
  BY <1>2, <1>4 DEF HeadInv
<1>5. ASSUME NEW n \in Name, Run(p, n) PROVE PruneInv(p)' /\ HeadInv(p)'
  <2>1. UNCHANGED <<head, parent, new>> /\ who'[p] = n
    BY <1>0, <1>5 DEF Run, Begin, store
  <2>2. \/ pc'[p] = "boot" /\ kind'[p] = "head" /\ base'[p] = head[n]
        \/ pc'[p] = "create" /\ kind'[p] = "new"
    BY <1>0, <1>5 DEF Run, Begin, Goto
  <2> QED BY <1>4, <2>1, <2>2
<1>6. ASSUME NEW n \in Name, RunFrom(p, n) \/ CloneRef(p, n)
      PROVE  PruneInv(p)' /\ HeadInv(p)'
  <2>1. UNCHANGED <<head, parent, new>> /\ who'[p] = n /\ pc'[p] = "source"
    BY <1>0, <1>6 DEF RunFrom, CloneRef, Begin, Goto, store
  <2>2. kind'[p] = "seed" => n \in computers /\ head[n] = None
    BY <1>0, <1>6 DEF RunFrom, CloneRef, Begin
  <2> QED BY <1>4, <2>1, <2>2
<1>7. ASSUME NEW n \in Name, Source(p, n) PROVE PruneInv(p)' /\ HeadInv(p)'
  <2>1. UNCHANGED <<head, parent>> /\ pc[p] = "source"
    BY <1>7 DEF Source, store, At
  <2>2. CASE UNCHANGED <<kind, who, base, new, reach, dead>> /\ Goto(p, "resolve")
    BY <1>0, <1>4, <2>1, <2>2 DEF Goto, HeadInv
  <2> QED BY <1>3, <1>7, <2>1, <2>2 DEF Source
<1>8. ASSUME Resolve(p) PROVE PruneInv(p)' /\ HeadInv(p)'
  <2>1. UNCHANGED <<head, parent>> /\ pc[p] = "resolve"
    BY <1>8 DEF Resolve, store, At
  <2>2. ASSUME Goto(p, IF kind[p] = "seed" THEN "boot" ELSE "create"), UNCHANGED <<kind, who, new>>
        PROVE  PruneInv(p)' /\ HeadInv(p)'
    BY <1>0, <1>4, <2>1, <2>2 DEF Goto, HeadInv
  <2>3. ASSUME UNCHANGED <<pc, kind, who, base, new>>
        PROVE  PruneInv(p)' /\ HeadInv(p)'
    BY <1>4, <2>1, <2>3 DEF HeadInv
  <2> QED BY <1>3, <1>8, <2>1, <2>2, <2>3 DEF Resolve
<1>9. ASSUME Create(p) PROVE PruneInv(p)' /\ HeadInv(p)'
  <2>1. pc[p] = "create" /\ who[p] \in Name /\ UNCHANGED parent
    BY <1>9, ArgsType DEF Create, At, store
  <2>2. CASE UNCHANGED head /\ Exit(p)
    BY <1>3, <2>2
  <2>3. CASE who[p] \notin computers /\ head' = [head EXCEPT ![who[p]] = base[p]]
             /\ computers' = computers \cup {who[p]}
    <3>2. CASE Exit(p)
      BY <3>2, IdlePath
    <3>3. CASE kind[p] = "new" /\ Goto(p, "boot") /\ UNCHANGED local
      <4>1. pc'[p] = "boot" /\ kind'[p] = "new" /\ head'[who'[p]] = base'[p]
        BY <1>0, <2>1, <2>3, <3>3 DEF Goto, local
      <4> QED BY <1>2, <4>1 DEF HeadInv
    <3> QED BY <1>9, <2>3, <3>2, <3>3 DEF Create, store, Exit
  <2> QED BY <1>9, <2>2, <2>3 DEF Create, store
<1>10. ASSUME Boot(p) \/ Leave(p) PROVE PruneInv(p)' /\ HeadInv(p)'
  <2>1. UNCHANGED <<head, parent>> /\ pc[p] \in {"boot", "up"}
    BY <1>10 DEF Boot, Leave, store, At
  <2>2. CASE Goto(p, "up") /\ UNCHANGED local
    BY <1>0, <1>4, <2>1, <2>2 DEF Goto, HeadInv, local
  <2> QED BY <1>3, <1>10, <2>1, <2>2 DEF Boot, Leave
<1>11. ASSUME NEW c \in Ckpt, Snapshot(p, c) PROVE PruneInv(p)' /\ HeadInv(p)'
  <2>1. pc[p] = "up" /\ pc'[p] = "copied" /\ UNCHANGED <<head, parent, kind, who, base>>
    BY <1>0, <1>11 DEF Snapshot, Draw, Goto, At
  <2> QED BY <1>2, <2>1 DEF HeadInv
<1>12. ASSUME NEW n \in Name, NEW c \in Ckpt, CloneFile(p, n, c)
       PROVE  PruneInv(p)' /\ HeadInv(p)'
  <2>1. pc'[p] = "copied" /\ kind'[p] = "file" /\ UNCHANGED <<head, parent>>
    BY <1>0, <1>12 DEF CloneFile, Begin, Draw, Goto
  <2> QED BY <1>2, <2>1 DEF HeadInv
<1>13. ASSUME AddCheckpoint(p) PROVE PruneInv(p)' /\ HeadInv(p)'
  <2>1. pc[p] = "copied" /\ new[p] \in Ckpt /\ UNCHANGED head
    BY <1>13, ArgsType DEF AddCheckpoint, At, store
  <2>2. CASE Exit(p)
    BY <1>3, <2>1, <2>2
  <2>3. CASE /\ parent' = [parent EXCEPT ![new[p]] = base[p]] /\ UNCHANGED <<kind, who, new>>
             /\ IF kind[p] = "file"
                THEN Goto(p, "create") /\ base' = [base EXCEPT ![p] = new[p]]
                ELSE Goto(p, "added") /\ UNCHANGED base
    <3>1. CASE kind[p] = "file"
      <4>1. pc'[p] = "create" /\ kind'[p] = "file"
        BY <1>0, <2>3, <3>1 DEF Goto
      <4> QED BY <1>2, <2>1, <4>1 DEF HeadInv
    <3>2. CASE kind[p] # "file"
      <4>1. pc'[p] = "added" /\ kind'[p] # "file" /\ UNCHANGED <<base, who, new>>
        BY <1>0, <2>3, <3>2 DEF Goto
      <4>2. parent'[new[p]] = base[p]
        BY <1>0, <2>1, <2>3
      <4> QED BY <1>2, <2>1, <3>2, <4>1, <4>2 DEF HeadInv
    <3> QED BY <3>1, <3>2
  <2> QED BY <1>13, <2>2, <2>3 DEF AddCheckpoint
<1>14. ASSUME SetHead(p) PROVE PruneInv(p)' /\ HeadInv(p)'
  <2>1. pc[p] = "added" /\ who[p] \in Name /\ Exit(p)
    BY <1>14, ArgsType DEF SetHead, At
  <2> QED BY <2>1, IdlePath
<1> QED BY <1>5, <1>6, <1>7, <1>8, <1>9, <1>10, <1>11, <1>12, <1>13, <1>14 DEF Sessions

\* A prune walks to what the heads need and to nothing else, so that all that is
\* left when it has deleted the rest is needed.
LEMMA PrunePath ==
  ASSUME TypeOK, NEW p \in Proc, PruneInv(p), ProcInv(p), HeadInv(p), Prunes(p)
  PROVE  PruneInv(p)' /\ HeadInv(p)'
<1>0. /\ pc \in [Proc -> Steps] /\ kind \in [Proc -> Kinds]
      /\ todo \in [Proc -> SUBSET Ckpt] /\ reach \in [Proc -> SUBSET Ckpt]
      /\ dead \in [Proc -> SUBSET Ckpt] /\ head \in [Name -> Ckpt \cup {None}]
      /\ parent \in [Ckpt -> Ckpt \cup {None}] /\ rows \subseteq Ckpt /\ computers \subseteq Name
  BY DEF TypeOK
\* Outside of a session the second invariant says nothing.
<1>2. pc'[p] \in {"idle", "heads", "walk", "unlink", "delete"} => HeadInv(p)'
  BY DEF HeadInv
<1>3. ASSUME NEW n \in Name, Rm(p, n) PROVE PruneInv(p)' /\ HeadInv(p)'
  <2>1. pc'[p] \in {"idle", "heads"}
    BY <1>0, <1>3 DEF Rm, Goto, At
  <2> QED BY <1>2, <2>1 DEF PruneInv, At
<1>4. ASSUME Gc(p) PROVE PruneInv(p)' /\ HeadInv(p)'
  <2>1. pc'[p] = "heads"
    BY <1>0, <1>4 DEF Gc, Goto
  <2> QED BY <1>2, <2>1 DEF PruneInv, At
<1>5. ASSUME ListHeads(p) PROVE PruneInv(p)' /\ HeadInv(p)'
  <2>1. /\ pc[p] = "heads" /\ pc'[p] = "walk" /\ todo'[p] = Heads
        /\ UNCHANGED <<computers, head, reach>>
    BY <1>0, <1>5 DEF ListHeads, Goto, At, store
  <2>2. reach'[p] = {} /\ Heads' = Heads
    BY <2>1 DEF ProcInv, Heads
  <2> QED BY <1>2, <2>1, <2>2 DEF PruneInv, WalkedInto, At
<1>6. ASSUME Walk(p) PROVE PruneInv(p)' /\ HeadInv(p)'
  <2>1. PICK c \in todo[p] :
          /\ reach' = [reach EXCEPT ![p] = reach[p] \cup {c}]
          /\ todo' = [todo EXCEPT ![p] = (todo[p] \cup (IF c \in rows THEN ParentOf(c) ELSE {}))
                                          \ (reach[p] \cup {c})]
    BY <1>6 DEF Walk
  <2>2. pc[p] = "walk" /\ pc' = pc /\ UNCHANGED <<computers, head, parent>>
    BY <1>6 DEF Walk, At, store
  <2>3. /\ reach'[p] = reach[p] \cup {c}
        /\ todo'[p] \subseteq todo[p] \cup ParentOf(c)
    BY <1>0, <2>1
  <2>4. Heads' = Heads /\ \A d : ParentOf(d)' = ParentOf(d)
    BY <2>2 DEF Heads, ParentOf
  <2>5. ASSUME NEW S \in SUBSET Ckpt, WalkedInto(p, S)' PROVE reach'[p] \cup todo'[p] \subseteq S
    <3>1. reach[p] \cup todo[p] \subseteq S
      BY <2>2, <2>3, <2>4, <2>5 DEF PruneInv, WalkedInto, At
    <3>2. ParentOf(c) \subseteq S
      BY <2>3, <2>4, <2>5, <3>1 DEF WalkedInto
    <3> QED BY <2>3, <3>1, <3>2
  <2> QED BY <1>2, <2>2, <2>5 DEF PruneInv, At
<1>7. ASSUME ListDead(p) PROVE PruneInv(p)' /\ HeadInv(p)'
  <2>1. /\ pc[p] = "walk" /\ pc'[p] = "unlink"
        /\ dead'[p] = rows \ reach[p] /\ todo'[p] = rows \ reach[p]
        /\ UNCHANGED <<computers, head, parent, rows, reach>>
    BY <1>0, <1>7 DEF ListDead, Goto, At, store
  <2>2. \A S : WalkedInto(p, S)' <=> WalkedInto(p, S)
    BY <2>1 DEF WalkedInto, Heads, ParentOf
  <2> QED BY <1>2, <2>1, <2>2 DEF PruneInv, At
<1>8. ASSUME Unlink(p) \/ BeginDelete(p) PROVE PruneInv(p)' /\ HeadInv(p)'
  <2>1. /\ pc[p] = "unlink" /\ pc'[p] \in {"unlink", "delete"}
        /\ UNCHANGED <<computers, head, parent, rows, reach, dead>>
    BY <1>0, <1>8 DEF Unlink, BeginDelete, Goto, At, store
  <2>2. /\ pc'[p] = "unlink" => todo'[p] \subseteq todo[p]
        /\ pc'[p] = "delete" => todo'[p] = dead[p]
    BY <1>0, <1>8 DEF Unlink, BeginDelete, Goto, At
  <2>3. \A S : WalkedInto(p, S)' <=> WalkedInto(p, S)
    BY <2>1 DEF WalkedInto, Heads, ParentOf
  <2> QED BY <1>2, <2>1, <2>2, <2>3 DEF PruneInv, At
<1>9. ASSUME DeleteRow(p) PROVE PruneInv(p)' /\ HeadInv(p)'
  <2>1. PICK c \in todo[p] : /\ rows' = rows \ {c} /\ parent' = [parent EXCEPT ![c] = None]
                             /\ todo' = [todo EXCEPT ![p] = @ \ {c}]
    BY <1>9 DEF DeleteRow
  <2>2. pc[p] = "delete" /\ UNCHANGED <<computers, head, pc, reach, dead>>
    BY <1>9 DEF DeleteRow, At
  <2>3. c \notin reach[p] /\ todo'[p] = todo[p] \ {c}
    BY <1>0, <2>1, <2>2 DEF PruneInv, At
  <2>4. \A d \in reach[p] : ParentOf(d)' = ParentOf(d)
    BY <1>0, <2>1, <2>3 DEF ParentOf
  <2>5. \A S : WalkedInto(p, S)' <=> WalkedInto(p, S)
    BY <2>2, <2>4 DEF WalkedInto, Heads
  <2> QED BY <1>2, <2>1, <2>2, <2>3, <2>5 DEF PruneInv, At
<1>10. ASSUME EndPrune(p) PROVE PruneInv(p)' /\ HeadInv(p)'
  BY <1>10, IdlePath DEF EndPrune, store
<1> QED BY <1>3, <1>4, <1>5, <1>6, <1>7, <1>8, <1>9, <1>10 DEF Prunes

\* One step of the only process keeps where a session stands and what a prune has walked.
LEMMA PathStep ==
  ASSUME NEW u, Proc = {u}
  PROVE  TypeOK /\ SoloInv /\ PathInv /\ [Next]_vars => PathInv'
<1> SUFFICES ASSUME TypeOK, SoloInv, PathInv, [Next]_vars PROVE PathInv'
  OBVIOUS
<1>1. CASE UNCHANGED vars
  BY <1>1 DEF PathInv, PruneInv, WalkedInto, Heads, ParentOf, HeadInv, At, vars, store, local
<1>2. CASE Crash(u)
  BY <1>2, IdlePath DEF PathInv, Crash
<1> QED BY <1>1, <1>2, SessionPath, PrunePath DEF Next, SoloInv, PathInv

\* Where a session stands and what a prune has walked, with one process at a time.
LEMMA PathHolds ==
  ASSUME NEW u, Proc = {u}
  PROVE  Spec => []PathInv
<1>1. Init => PathInv
  BY DEF Init, PathInv, PruneInv, HeadInv, At
<1>2. TypeOK /\ SoloInv /\ PathInv /\ [Next]_vars => PathInv'
  BY PathStep
<1>3. Spec => []SoloInv
  BY SoloHolds
<1> QED BY <1>1, <1>2, <1>3, StoreTypes, PTL DEF Spec

\* With one process at a time, a prune that runs to its end leaves no checkpoint
\* that no computer needs.
THEOREM PrunesComplete ==
  ASSUME NEW u, Proc = {u}
  PROVE  Spec => PruneIsComplete
<1>1. ASSUME TypeOK, PathInv, NEW p \in Proc, EndPrune(p) PROVE rows \subseteq Live
  <2>1. pc[p] = "delete" /\ todo[p] = {}
    BY <1>1 DEF EndPrune, At
  <2>2. ASSUME NEW S \in SUBSET rows, Closed(S) PROVE rows \subseteq S
    <3>1. WalkedInto(p, S)
      BY <2>2 DEF Closed, WalkedInto
    <3> QED BY <1>1, <2>1, <3>1 DEF PathInv, PruneInv, At, TypeOK
  <2> QED BY <2>2 DEF Live
<1>2. TypeOK /\ PathInv /\ [Next]_vars => [EndsComplete]_vars
  BY <1>1 DEF EndsComplete
<1>3. Spec => []PathInv
  BY PathHolds
<1> QED BY <1>2, <1>3, StoreTypes, PTL DEF Spec, PruneIsComplete

=============================================================================
