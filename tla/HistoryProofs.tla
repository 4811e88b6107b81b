--------------------------- MODULE HistoryProofs ----------------------------
(***************************************************************************)
(* Proof that the store implements Histories while one process runs at a   *)
(* time: first what Ancestors is, then the invariant of what a session     *)
(* holds on to, then each step as a step of Histories or none.             *)
(***************************************************************************)
EXTENDS ComputersProofs

-----------------------------------------------------------------------------
(* Ancestors.                                                              *)

\* Ancestors is the least set that holds c and is whole.
LEMMA AncestorsLeast ==
  ASSUME NEW D, NEW prev \in [D -> D \cup {None}], NEW c \in D \cup {None}
  PROVE  /\ Ancestors(prev, c) \subseteq D
         /\ {c} \ {None} \subseteq Ancestors(prev, c)
         /\ Whole(prev, Ancestors(prev, c))
         /\ \A S \in SUBSET D : {c} \ {None} \subseteq S /\ Whole(prev, S) => Ancestors(prev, c) \subseteq S
<1>1. DOMAIN prev = D
  OBVIOUS
<1>2. ASSUME NEW d \in Ancestors(prev, c), prev[d] # None PROVE prev[d] \in Ancestors(prev, c)
  <2>1. d \in D /\ prev[d] \in D
    BY <1>1, <1>2 DEF Ancestors
  <2>2. ASSUME NEW S \in SUBSET D, {c} \ {None} \subseteq S, Whole(prev, S) PROVE prev[d] \in S
    BY <1>1, <1>2, <2>2 DEF Ancestors, Whole
  <2> QED BY <1>1, <2>1, <2>2 DEF Ancestors
<1> QED BY <1>1, <1>2 DEF Ancestors, Whole

\* Nothing comes before nothing.
LEMMA NoAncestors ==
  ASSUME NEW D, NEW prev \in [D -> D \cup {None}]
  PROVE  Ancestors(prev, None) = {}
<1>1. Whole(prev, {}) /\ {None} \ {None} \subseteq {} /\ {} \in SUBSET D
  BY DEF Whole
<1>2. Ancestors(prev, None) \subseteq {}
  BY <1>1, AncestorsLeast
<1> QED BY <1>2

\* The ancestors of c are c and those of what c was made from.
LEMMA AncestorsStep ==
  ASSUME NEW D, NEW prev \in [D -> D \cup {None}], NEW c \in D, None \notin D
  PROVE  Ancestors(prev, c) = {c} \cup Ancestors(prev, prev[c])
<1> DEFINE A == Ancestors(prev, c)
           B == Ancestors(prev, prev[c])
<1>1. /\ A \subseteq D /\ c \in A /\ Whole(prev, A)
      /\ \A S \in SUBSET D : c \in S /\ Whole(prev, S) => A \subseteq S
  BY AncestorsLeast
<1>2. /\ B \subseteq D /\ {prev[c]} \ {None} \subseteq B /\ Whole(prev, B)
      /\ \A S \in SUBSET D : {prev[c]} \ {None} \subseteq S /\ Whole(prev, S) => B \subseteq S
  BY AncestorsLeast
<1>3. Whole(prev, {c} \cup B)
  BY <1>2 DEF Whole
<1>4. A \subseteq {c} \cup B
  BY <1>1, <1>2, <1>3
<1>5. {prev[c]} \ {None} \subseteq A
  BY <1>1 DEF Whole
<1>6. B \subseteq A
  BY <1>1, <1>2, <1>5
<1> QED BY <1>1, <1>4, <1>6

\* They depend on the ancestors only.
LEMMA AncestorsSame ==
  ASSUME NEW D, NEW prev \in [D -> D \cup {None}], NEW next \in [D -> D \cup {None}],
         NEW c \in D \cup {None}, \A d \in Ancestors(prev, c) : next[d] = prev[d]
  PROVE  Ancestors(next, c) = Ancestors(prev, c)
<1> DEFINE A == Ancestors(prev, c)
           B == Ancestors(next, c)
<1>1. /\ A \subseteq D /\ {c} \ {None} \subseteq A /\ Whole(prev, A)
      /\ \A S \in SUBSET D : {c} \ {None} \subseteq S /\ Whole(prev, S) => A \subseteq S
  BY AncestorsLeast
<1>2. /\ B \subseteq D /\ {c} \ {None} \subseteq B /\ Whole(next, B)
      /\ \A S \in SUBSET D : {c} \ {None} \subseteq S /\ Whole(next, S) => B \subseteq S
  BY AncestorsLeast
<1>3. Whole(next, A)
  BY <1>1 DEF Whole
<1>4. B \subseteq A
  BY <1>1, <1>2, <1>3
<1>5. Whole(prev, B)
  BY <1>2, <1>4 DEF Whole
<1> QED BY <1>1, <1>2, <1>4, <1>5

\* The ancestors of an ancestor may be found among the ancestors.
LEMMA AncestorsWithin ==
  ASSUME NEW D, NEW prev \in [D -> D \cup {None}], NEW c \in D \cup {None}, None \notin D,
         NEW b \in Ancestors(prev, c)
  PROVE  /\ Ancestors(prev, b) \subseteq Ancestors(prev, c)
         /\ Ancestors([d \in Ancestors(prev, c) |-> prev[d]], b) = Ancestors(prev, b)
<1> DEFINE A == Ancestors(prev, c)
           B == Ancestors(prev, b)
           q == [d \in A |-> prev[d]]
           C == Ancestors(q, b)
<1>1. /\ A \subseteq D /\ Whole(prev, A)
  BY AncestorsLeast
<1>2. b \in D
  BY <1>1
<1>3. /\ B \subseteq D /\ b \in B /\ Whole(prev, B)
      /\ \A S \in SUBSET D : b \in S /\ Whole(prev, S) => B \subseteq S
  BY <1>2, AncestorsLeast
<1>4. B \subseteq A
  BY <1>1, <1>3
<1>5. q \in [A -> A \cup {None}]
  BY <1>1 DEF Whole
<1>6. /\ C \subseteq A /\ b \in C /\ Whole(q, C)
      /\ \A S \in SUBSET A : b \in S /\ Whole(q, S) => C \subseteq S
  <2> HIDE DEF q
  <2> QED BY <1>1, <1>5, AncestorsLeast
<1>7. Whole(prev, C)
  BY <1>6 DEF Whole
<1>8. Whole(q, B)
  BY <1>3, <1>4 DEF Whole
<1>9. B = C
  BY <1>1, <1>3, <1>4, <1>6, <1>7, <1>8
<1> QED BY <1>4, <1>9

-----------------------------------------------------------------------------
(* Histories of computers, and what a session holds on to.                 *)

\* What neko history shows of every computer.
Histories == [n \in computers |-> History(n)]

\* With one process, a history is recorded and has its images; nothing that is
\* about to be recorded or deleted is part of it.
LEMMA HistoryRecorded ==
  ASSUME TypeOK, SoloInv, NEW n \in computers
  PROVE  /\ Ancestors(parent, head[n]) \subseteq rows
         /\ \A p \in Proc : dead[p] \cap Ancestors(parent, head[n]) = {}
<1>1. /\ parent \in [Ckpt -> Ckpt \cup {None}] /\ head[n] \in Ckpt \cup {None}
      /\ rows \subseteq Ckpt
  BY DEF TypeOK
<1>2. PICK S \in SUBSET (rows \cap images) : Closed(S) /\ \A p \in Proc : dead[p] \cap S = {}
  BY DEF SoloInv, StoreInv
<1>3. {head[n]} \ {None} \subseteq S /\ Whole(parent, S) /\ S \in SUBSET Ckpt
  BY <1>1, <1>2 DEF Closed, Heads, ParentOf, Whole
<1>4. Ancestors(parent, head[n]) \subseteq S
  BY <1>1, <1>3, AncestorsLeast
<1> QED BY <1>2, <1>4

\* A step that changes parents outside of the histories only changes no history.
LEMMA HistoriesSame ==
  ASSUME TypeOK, TypeOK', SoloInv, UNCHANGED <<computers, head>>,
         \A n \in computers : \A c \in Ancestors(parent, head[n]) : parent'[c] = parent[c] /\ c \in rows'
  PROVE  /\ \A n \in computers : Ancestors(parent, head[n])' = Ancestors(parent, head[n])
         /\ \A S : InHistory(S)' <=> InHistory(S)
         /\ Histories' = Histories
<1>1. /\ parent \in [Ckpt -> Ckpt \cup {None}] /\ parent' \in [Ckpt -> Ckpt \cup {None}]
      /\ \A n \in computers : head[n] \in Ckpt \cup {None}
  BY DEF TypeOK
<1>2. ASSUME NEW n \in computers PROVE Ancestors(parent', head[n]) = Ancestors(parent, head[n])
  BY <1>1, <1>2, AncestorsSame
<1>3. ASSUME NEW n \in computers PROVE History(n)' = History(n)
  BY <1>2, <1>3, HistoryRecorded DEF History
<1> QED BY <1>2, <1>3 DEF InHistory, Histories

\* A step that leaves computers, rows and parents alone changes no history.
LEMMA StoreSame ==
  ASSUME UNCHANGED <<computers, head, parent, rows>>
  PROVE  /\ \A n \in computers : Ancestors(parent, head[n])' = Ancestors(parent, head[n])
         /\ \A S : InHistory(S)' <=> InHistory(S)
         /\ Histories' = Histories
BY DEF InHistory, Histories, History

\* A process that ends holds on to nothing.
LEMMA ExitLine ==
  ASSUME TypeOK, NEW p \in Proc, Exit(p)
  PROVE  LineInv(p)'
<1>1. pc'[p] = "idle" /\ kind'[p] = "none" /\ base'[p] = None
  BY DEF TypeOK, Exit, Goto
<1> QED BY <1>1 DEF LineInv, At

\* What a session boots or branches from stays in a history while it works, and
\* its new checkpoint in none.
LEMMA SessionLine ==
  ASSUME TypeOK, TypeOK', SoloInv, NEW p \in Proc, HeadInv(p), LineInv(p), Sessions(p)
  PROVE  LineInv(p)'
<1>0. /\ pc \in [Proc -> Steps] /\ new \in [Proc -> Ckpt \cup {None}]
      /\ base \in [Proc -> Ckpt \cup {None}] /\ kind \in [Proc -> Kinds]
      /\ who \in [Proc -> Name \cup {None}] /\ todo \in [Proc -> SUBSET Ckpt]
      /\ head \in [Name -> Ckpt \cup {None}] /\ computers \subseteq Name
      /\ parent \in [Ckpt -> Ckpt \cup {None}] /\ rows \subseteq Ckpt
      /\ parent' \in [Ckpt -> Ckpt \cup {None}] /\ None \notin Ckpt
  BY NullAssumption DEF TypeOK
<1>1. \A n \in computers :
        /\ {head[n]} \ {None} \subseteq Ancestors(parent, head[n])
        /\ Whole(parent, Ancestors(parent, head[n]))
  BY <1>0, AncestorsLeast
<1>2. ASSUME NEW n \in Name, Run(p, n) PROVE LineInv(p)'
  <2>1. /\ UNCHANGED store /\ pc'[p] \in {"boot", "create"} /\ kind'[p] \in {"head", "new"}
        /\ base'[p] = None \/ (n \in computers /\ base'[p] = head[n])
    BY <1>0, <1>2 DEF Run, Begin, Goto
  <2>2. ASSUME base'[p] # None PROVE InHistory({base[p]})'
    <3>1. base'[p] \in Ancestors(parent', head'[n]) /\ n \in computers'
      BY <1>1, <2>1, <2>2 DEF store
    <3> QED BY <3>1 DEF InHistory
  <2>3. pc'[p] # "resolve" /\ pc'[p] # "added" /\ kind'[p] # "file"
    BY <2>1
  <2> QED BY <2>2, <2>3 DEF LineInv, At
<1>3. ASSUME NEW n \in Name, RunFrom(p, n) \/ CloneRef(p, n) PROVE LineInv(p)'
  <2>1. pc'[p] = "source" /\ kind'[p] \in {"seed", "new", "clone"} /\ base'[p] = None
    BY <1>0, <1>3 DEF RunFrom, CloneRef, Begin, Goto
  <2> QED BY <2>1 DEF LineInv, At
<1>4. ASSUME NEW n \in Name, Source(p, n) PROVE LineInv(p)'
  <2>1. CASE Exit(p)
    BY <2>1, ExitLine
  <2>2. CASE n \in computers /\ head[n] # None /\ ~Exit(p)
    <3>1. /\ UNCHANGED <<store, base, kind, new>> /\ pc[p] = "source" /\ pc'[p] = "resolve"
          /\ todo'[p] = {head[n]}
      BY <1>0, <1>4, <2>2 DEF Source, Goto, At
    <3>2. InHistory(todo'[p])
      BY <1>1, <2>2, <3>1 DEF InHistory
    <3> QED BY <3>1, <3>2, StoreSame DEF LineInv, At, store
  <2> QED BY <1>4, <2>1, <2>2 DEF Source
<1>5. ASSUME Resolve(p) PROVE LineInv(p)'
  <2>1. pc[p] = "resolve" /\ UNCHANGED store /\ kind[p] # "file"
    BY <1>5 DEF Resolve, At, LineInv, store, Exit
  <2>2. PICK m \in computers : todo[p] \subseteq Ancestors(parent, head[m])
    BY <2>1 DEF LineInv, At, InHistory
  <2>3. CASE Exit(p)
    BY <2>3, ExitLine
  <2>4. ASSUME NEW c \in todo[p], base' = [base EXCEPT ![p] = c], UNCHANGED <<kind, new>>,
               pc'[p] \in {"boot", "create"}
        PROVE  LineInv(p)'
    <3>1. InHistory({base'[p]})
      BY <1>0, <2>2, <2>4 DEF InHistory
    <3> QED BY <2>1, <2>4, <3>1, StoreSame DEF LineInv, At, store
  <2>5. ASSUME NEW c \in todo[p], parent[c] # None, todo' = [todo EXCEPT ![p] = {parent[c]}],
               UNCHANGED <<pc, kind, base, new>>
        PROVE  LineInv(p)'
    <3>1. InHistory(todo'[p])
      BY <1>0, <1>1, <2>2, <2>5 DEF InHistory, Whole
    <3> QED BY <2>1, <2>5, <3>1, StoreSame DEF LineInv, At, store
  <2> QED BY <1>0, <1>5, <2>3, <2>4, <2>5 DEF Resolve, Goto
<1>6. ASSUME Create(p) PROVE LineInv(p)'
  <2>1. CASE Exit(p)
    BY <2>1, ExitLine
  <2>2. CASE ~Exit(p)
    <3>1. /\ pc[p] = "create" /\ kind[p] = "new" /\ who[p] \notin computers
          /\ computers' = computers \cup {who[p]}
          /\ head' = [head EXCEPT ![who[p]] = base[p]]
          /\ pc'[p] = "boot" /\ UNCHANGED <<parent, local>>
      BY <1>0, <1>6, <2>2 DEF Create, Goto, At
    <3>2. ASSUME base[p] # None PROVE InHistory({base[p]})'
      <4>1. PICK m \in computers : {base[p]} \subseteq Ancestors(parent, head[m])
        BY <3>1, <3>2 DEF LineInv, InHistory
      <4>2. m \in computers' /\ head'[m] = head[m] /\ parent' = parent /\ base' = base
        BY <1>0, <3>1 DEF local
      <4> QED BY <4>1, <4>2 DEF InHistory
    <3> QED BY <3>1, <3>2 DEF LineInv, At, local
  <2> QED BY <2>1, <2>2
<1>7. ASSUME Boot(p) \/ Leave(p) PROVE LineInv(p)'
  <2>1. CASE Exit(p)
    BY <2>1, ExitLine
  <2>2. CASE ~Exit(p)
    <3>1. pc[p] = "boot" /\ pc'[p] = "up" /\ UNCHANGED <<store, local>>
      BY <1>0, <1>7, <2>2 DEF Boot, Leave, Goto, At
    <3> QED BY <3>1, StoreSame DEF LineInv, At, store, local
  <2> QED BY <2>1, <2>2
<1>8. ASSUME NEW c \in Ckpt, Snapshot(p, c) PROVE LineInv(p)'
  <2>1. /\ pc[p] = "up" /\ pc'[p] = "copied" /\ UNCHANGED <<computers, head, rows, parent, kind, base>>
    BY <1>0, <1>8 DEF Snapshot, Draw, Goto, At
  <2> QED BY <2>1, StoreSame DEF LineInv, At
<1>9. ASSUME NEW n \in Name, NEW c \in Ckpt, CloneFile(p, n, c) PROVE LineInv(p)'
  <2>1. pc'[p] = "copied" /\ kind'[p] = "file" /\ base'[p] = None
    BY <1>0, <1>9 DEF CloneFile, Draw, Begin, Goto
  <2> QED BY <2>1 DEF LineInv, At
<1>10. ASSUME AddCheckpoint(p) PROVE LineInv(p)'
  <2>1. CASE Exit(p)
    BY <2>1, ExitLine
  <2>2. CASE ~Exit(p)
    <3>1. /\ pc[p] = "copied" /\ rows' = rows \cup {new[p]}
          /\ parent' = [parent EXCEPT ![new[p]] = base[p]]
          /\ UNCHANGED <<computers, head, kind, new>>
          /\ IF kind[p] = "file" THEN pc'[p] = "create" /\ base'[p] = new[p]
                                 ELSE pc'[p] = "added" /\ base'[p] = base[p]
      BY <1>0, <1>10, <2>2 DEF AddCheckpoint, Goto, At
    <3>2. new[p] \in Ckpt \ rows
      BY <1>0, <3>1 DEF SoloInv, ProcInv, TypeOK, ArgsOK, At
    <3>3. \A n \in computers : new[p] \notin Ancestors(parent, head[n])
      BY <3>2, HistoryRecorded
    <3>4. \A n \in computers : \A c \in Ancestors(parent, head[n]) : parent'[c] = parent[c] /\ c \in rows'
      BY <1>0, <3>1, <3>3, HistoryRecorded
    <3>5. /\ \A n \in computers : Ancestors(parent, head[n])' = Ancestors(parent, head[n])
          /\ \A S : InHistory(S)' <=> InHistory(S)
      BY <3>1, <3>4, HistoriesSame
    <3>6. new'[p] \in rows' /\ parent'[new'[p]] = base[p]
      BY <1>0, <3>1, <3>2
    <3> QED BY <3>1, <3>3, <3>5, <3>6 DEF LineInv, At
  <2> QED BY <2>1, <2>2
<1>11. ASSUME SetHead(p) PROVE LineInv(p)'
  BY <1>11, ExitLine DEF SetHead
<1> QED BY <1>2, <1>3, <1>4, <1>5, <1>6, <1>7, <1>8, <1>9, <1>10, <1>11 DEF Sessions

\* A prune works on nothing but its lists, and deletes nothing of a history.
LEMMA PruneSteps ==
  ASSUME TypeOK, TypeOK', SoloInv, NEW p \in Proc, Prunes(p), ~\E n \in Name : Rm(p, n)
  PROVE  /\ pc[p] \in {"idle", "heads", "walk", "unlink", "delete"}
         /\ pc'[p] \in {"idle", "heads", "walk", "unlink", "delete"}
         /\ base'[p] = None /\ kind'[p] \in {kind[p], "none", "prune"}
         /\ Histories' = Histories
<1>0. /\ pc \in [Proc -> Steps] /\ base \in [Proc -> Ckpt \cup {None}]
      /\ kind \in [Proc -> Kinds] /\ parent \in [Ckpt -> Ckpt \cup {None}]
  BY DEF TypeOK
<1>1. pc[p] \in {"idle", "heads", "walk", "unlink", "delete"} => base[p] = None
  BY DEF SoloInv, ProcInv
<1>2. ASSUME UNCHANGED <<computers, head, parent, rows, base>>,
             pc[p] \in {"idle", "heads", "walk", "unlink", "delete"}
      PROVE  base'[p] = None /\ Histories' = Histories
  BY <1>1, <1>2, StoreSame
<1>3. CASE Gc(p) \/ ListHeads(p) \/ Walk(p) \/ ListDead(p) \/ Unlink(p) \/ BeginDelete(p)
  <2>1. UNCHANGED <<computers, head, parent, rows, base>>
    BY <1>3 DEF Gc, ListHeads, Walk, ListDead, Unlink, BeginDelete, store
  <2>2. /\ pc[p] \in {"idle", "heads", "walk", "unlink", "delete"}
        /\ pc'[p] \in {"idle", "heads", "walk", "unlink", "delete"}
        /\ kind'[p] \in {kind[p], "prune"}
    BY <1>0, <1>3 DEF Gc, ListHeads, Walk, ListDead, Unlink, BeginDelete, Goto, At
  <2> QED BY <1>2, <2>1, <2>2
<1>4. CASE DeleteRow(p)
  <2>1. PICK c \in todo[p] : rows' = rows \ {c} /\ parent' = [parent EXCEPT ![c] = None]
    BY <1>4 DEF DeleteRow
  <2>2. pc[p] = "delete" /\ UNCHANGED <<computers, head, pc, kind, base>>
    BY <1>4 DEF DeleteRow, At
  <2>3. c \in dead[p]
    BY <2>1, <2>2 DEF SoloInv, ProcInv
  <2>4. \A n \in computers : \A d \in Ancestors(parent, head[n]) : parent'[d] = parent[d] /\ d \in rows'
    BY <1>0, <2>1, <2>3, HistoryRecorded
  <2> QED BY <1>1, <2>2, <2>4, HistoriesSame
<1>5. CASE EndPrune(p)
  <2>1. UNCHANGED <<computers, head, parent, rows>> /\ pc[p] = "delete"
    BY <1>5 DEF EndPrune, At, store
  <2>2. pc'[p] = "idle" /\ base'[p] = None /\ kind'[p] = "none"
    BY <1>0, <1>5 DEF EndPrune, Exit, Goto
  <2> QED BY <2>1, <2>2, StoreSame
<1> QED BY <1>3, <1>4, <1>5 DEF Prunes

\* The steps of rm and gc, with nothing at stake.
LEMMA PruneLine ==
  ASSUME TypeOK, TypeOK', SoloInv, NEW p \in Proc, LineInv(p), Prunes(p)
  PROVE  LineInv(p)'
<1>1. CASE \E n \in Name : Rm(p, n)
  <2>1. /\ pc[p] = "idle" /\ pc'[p] \in {"idle", "heads"} /\ base'[p] = base[p]
        /\ kind'[p] \in {kind[p], "prune"}
    BY <1>1 DEF Rm, Goto, At, TypeOK
  <2>2. base[p] = None
    BY <2>1 DEF SoloInv, ProcInv
  <2> QED BY <2>1, <2>2 DEF LineInv, At
<1>2. CASE ~\E n \in Name : Rm(p, n)
  <2>1. /\ pc[p] \in {"idle", "heads", "walk", "unlink", "delete"}
        /\ pc'[p] \in {"idle", "heads", "walk", "unlink", "delete"}
        /\ base'[p] = None /\ kind'[p] \in {kind[p], "none", "prune"}
    BY <1>2, PruneSteps
  <2> QED BY <2>1 DEF LineInv, At
<1> QED BY <1>1, <1>2

-----------------------------------------------------------------------------
(* The refinement.                                                         *)

\* Each computer shows what it showed before, or the step is one of Histories.
Shows == Histories' = Histories \/ Shown!Next

\* In a history that is recorded, what is shown is what was recorded.
LEMMA ShownHistory ==
  ASSUME TypeOK, SoloInv, NEW n \in computers
  PROVE  /\ Histories[n].head = head[n]
         /\ Histories[n].prev = [c \in Ancestors(parent, head[n]) |-> parent[c]]
BY HistoryRecorded DEF Histories, History

\* Histories means by ancestors what the store means.
LEMMA ShownAncestors ==
  ASSUME NEW f, NEW c
  PROVE  Shown!Ancestors(f, c) = Ancestors(f, c)
BY DEF Shown!Ancestors, Shown!Whole, Ancestors, Whole

\* A history as of one of its checkpoints is what that checkpoint was made from.
LEMMA ShownAsOf ==
  ASSUME TypeOK, SoloInv, NEW n \in computers, NEW b \in Ancestors(parent, head[n])
  PROVE  /\ b \in DOMAIN Histories[n].prev
         /\ Shown!AsOf(Histories[n], b) = [head |-> b, prev |-> [c \in Ancestors(parent, b) |-> parent[c]]]
<1> DEFINE A == Ancestors(parent, head[n])
           q == [d \in A |-> parent[d]]
<1>1. parent \in [Ckpt -> Ckpt \cup {None}] /\ head[n] \in Ckpt \cup {None} /\ None \notin Ckpt
  BY NullAssumption DEF TypeOK
<1>2. Ancestors(parent, b) \subseteq A /\ Ancestors(q, b) = Ancestors(parent, b)
  BY <1>1, AncestorsWithin
<1>3. Histories[n].prev = q
  BY ShownHistory
<1>4. Shown!AsOf(Histories[n], b) = [head |-> b, prev |-> [c \in Ancestors(q, b) |-> q[c]]]
  BY <1>3, ShownAncestors DEF Shown!AsOf
<1>5. [c \in Ancestors(q, b) |-> q[c]] = [c \in Ancestors(parent, b) |-> parent[c]]
  BY <1>2
<1> QED BY <1>3, <1>4, <1>5

\* So whatever is in a history may be branched from.
LEMMA ShownBranch ==
  ASSUME TypeOK, SoloInv, NEW b, InHistory({b})
  PROVE  [head |-> b, prev |-> [c \in Ancestors(parent, b) |-> parent[c]]] \in Shown!Branches
<1>1. PICK n \in computers : b \in Ancestors(parent, head[n])
  BY DEF InHistory
<1>2. Histories[n] = History(n) /\ Histories = [m \in computers |-> History(m)]
  BY <1>1 DEF Histories
<1>3. Shown!AsOf(Histories[n], b) \in Shown!Branches
  BY <1>1, <1>2, ShownAsOf DEF Shown!Branches, Shown!Computer
<1> QED BY <1>1, <1>3, ShownAsOf

\* A step that moves the head of one computer puts its history in place.
LEMMA ShownPut ==
  ASSUME NEW n, UNCHANGED <<rows, parent>>, computers' = computers \cup {n},
         \A m \in computers \ {n} : head'[m] = head[m]
  PROVE  Shown!Put(n, History(n)')
<1>1. \A m \in computers \ {n} : History(m)' = History(m)
  BY DEF History
<1> QED BY <1>1 DEF Shown!Put, Shown!Computer

\* A checkpoint in no history is not known to Histories.
LEMMA ShownFresh ==
  ASSUME NEW c \in Ckpt, \A n \in computers : c \notin Ancestors(parent, head[n])
  PROVE  c \in Ckpt \ Shown!Known
BY DEF Shown!Known, Shown!Computer, History

\* The history of a checkpoint, all of it recorded: none is blank, and a
\* checkpoint adds itself to that of the one it was made from.
LEMMA ShownSaved ==
  ASSUME TypeOK, NEW b \in Ckpt \cup {None}
  PROVE  /\ [head |-> None, prev |-> [c \in Ancestors(parent, None) |-> parent[c]]] = Shown!Blank
         /\ \A d \in Ckpt : parent[d] = b =>
              [head |-> d, prev |-> [c \in Ancestors(parent, d) |-> parent[c]]] =
                Shown!Saved([head |-> b, prev |-> [c \in Ancestors(parent, b) |-> parent[c]]], d)
<1>1. parent \in [Ckpt -> Ckpt \cup {None}] /\ None \notin Ckpt
  BY NullAssumption DEF TypeOK
<1>2. Ancestors(parent, None) = {}
  BY <1>1, NoAncestors
<1>3. \A d \in Ckpt : parent[d] = b => Ancestors(parent, d) = Ancestors(parent, b) \cup {d}
  BY <1>1, AncestorsStep
<1> QED BY <1>2, <1>3 DEF Shown!Blank, Shown!Saved

\* What a computer shows once it is at a checkpoint of recorded history.
LEMMA ShownAt ==
  ASSUME NEW n, NEW b, UNCHANGED <<rows, parent>>, head'[n] = b, Ancestors(parent, b) \subseteq rows
  PROVE  History(n)' = [head |-> b, prev |-> [c \in Ancestors(parent, b) |-> parent[c]]]
<1>1. Ancestors(parent, b) \cap rows = Ancestors(parent, b)
  OBVIOUS
<1> QED BY <1>1 DEF History

\* With one process, what comes before an anchor of a session is recorded.
LEMMA AnchorRecorded ==
  ASSUME TypeOK, SoloInv, NEW b, InHistory({b})
  PROVE  Ancestors(parent, b) \subseteq rows
<1>1. PICK n \in computers : b \in Ancestors(parent, head[n])
  BY DEF InHistory
<1>2. parent \in [Ckpt -> Ckpt \cup {None}] /\ head[n] \in Ckpt \cup {None} /\ None \notin Ckpt
  BY NullAssumption DEF TypeOK
<1>3. Ancestors(parent, b) \subseteq Ancestors(parent, head[n])
  BY <1>1, <1>2, AncestorsWithin
<1> QED BY <1>3, HistoryRecorded

\* Creating a computer is creating it in Histories.
LEMMA CreateShows ==
  ASSUME TypeOK, SoloInv, NEW p \in Proc, LineInv(p), Create(p)
  PROVE  Shows
<1> PICK n : n = who[p]
  OBVIOUS
<1> DEFINE At_(b) == [head |-> b, prev |-> [c \in Ancestors(parent, b) |-> parent[c]]]
<1>0. /\ n \in Name \cup {None} /\ head \in [Name -> Ckpt \cup {None}]
      /\ base[p] \in Ckpt \cup {None} /\ new[p] \in Ckpt \cup {None} /\ computers \subseteq Name
      /\ rows \subseteq Ckpt /\ parent \in [Ckpt -> Ckpt \cup {None}]
      /\ pc[p] = "create" /\ n # None /\ None \notin Ckpt
  BY NullAssumption DEF TypeOK, ArgsOK, Create, At, Steps
<1>1. CASE UNCHANGED store
  BY <1>1, StoreSame DEF Shows, store
<1>2. CASE ~UNCHANGED store
  <2>1. /\ n \in Name \ computers /\ computers' = computers \cup {n}
        /\ head' = [head EXCEPT ![n] = base[p]] /\ UNCHANGED <<rows, parent>>
    BY <1>0, <1>2 DEF Create
  <2>2. Shown!Put(n, History(n)') /\ head'[n] = base[p]
    BY <1>0, <2>1, ShownPut
  <2>3. CASE base[p] = None
    <3>1. Ancestors(parent, base[p]) = {}
      BY <1>0, <2>3, NoAncestors
    <3>2. History(n)' = Shown!Blank
      BY <2>1, <2>2, <2>3, <3>1, ShownAt, ShownSaved
    <3> QED BY <2>1, <2>2, <3>2 DEF Shows, Shown!Next, Shown!Create, Shown!Computer
  <2>4. CASE base[p] # None /\ kind[p] = "file"
    <3>1. /\ base[p] = new[p] /\ new[p] \in rows /\ parent[new[p]] = None
          /\ \A m \in computers : new[p] \notin Ancestors(parent, head[m])
      BY <1>0, <2>4 DEF LineInv, At
    <3>2. Ancestors(parent, base[p]) \subseteq rows
      BY <1>0, <3>1, AncestorsStep, NoAncestors
    <3>3. History(n)' = At_(base[p])
      BY <2>1, <2>2, <3>2, ShownAt
    <3>4. At_(base[p]) = Shown!Saved(Shown!Blank, base[p])
      BY <1>0, <2>4, <3>1, ShownSaved
    <3>5. base[p] \in Ckpt \ Shown!Known
      BY <1>0, <2>4, <3>1, ShownFresh
    <3> QED BY <2>1, <2>2, <3>3, <3>4, <3>5 DEF Shows, Shown!Next, Shown!Create, Shown!Computer
  <2>5. CASE base[p] # None /\ kind[p] # "file"
    <3>1. InHistory({base[p]})
      BY <2>5 DEF LineInv
    <3>2. History(n)' = At_(base[p])
      BY <2>1, <2>2, <3>1, AnchorRecorded, ShownAt
    <3>3. At_(base[p]) \in Shown!Branches
      BY <3>1, ShownBranch
    <3> QED BY <2>1, <2>2, <3>2, <3>3 DEF Shows, Shown!Next, Shown!Create, Shown!Computer
  <2> QED BY <2>3, <2>4, <2>5
<1> QED BY <1>1, <1>2

\* Moving the head to the new checkpoint saves the session in Histories.
LEMMA SetHeadShows ==
  ASSUME TypeOK, SoloInv, NEW p \in Proc, HeadInv(p), LineInv(p), SetHead(p)
  PROVE  Shows
<1> PICK n : n = who[p]
  OBVIOUS
<1> DEFINE At_(b) == [head |-> b, prev |-> [c \in Ancestors(parent, b) |-> parent[c]]]
<1>0. /\ n \in Name \cup {None} /\ head \in [Name -> Ckpt \cup {None}]
      /\ base[p] \in Ckpt \cup {None} /\ new[p] \in Ckpt \cup {None} /\ computers \subseteq Name
      /\ rows \subseteq Ckpt /\ parent \in [Ckpt -> Ckpt \cup {None}]
      /\ pc[p] = "added" /\ n # None /\ new[p] # None /\ None \notin Ckpt
  BY NullAssumption DEF TypeOK, ArgsOK, SetHead, At, Steps
<1>1. UNCHANGED <<computers, rows, parent>>
  BY DEF SetHead
<1>2. CASE UNCHANGED head
  BY <1>1, <1>2, StoreSame DEF Shows
<1>3. CASE ~UNCHANGED head
  <2>1. n \in computers /\ head' = [head EXCEPT ![n] = new[p]]
    BY <1>3 DEF SetHead
  <2>2. computers' = computers \cup {n} /\ \A m \in computers \ {n} : head'[m] = head[m]
    BY <1>0, <1>1, <2>1
  <2>3. Shown!Put(n, History(n)') /\ head'[n] = new[p]
    BY <1>0, <1>1, <2>1, <2>2, ShownPut
  <2>4. /\ new[p] \in rows /\ parent[new[p]] = base[p] /\ kind[p] # "file"
        /\ \A m \in computers : new[p] \notin Ancestors(parent, head[m])
        /\ head[n] \in {None, base[p]}
    BY <1>0 DEF LineInv, HeadInv, At
  <2>5. Ancestors(parent, base[p]) \subseteq rows
    <3>1. CASE base[p] = None
      BY <1>0, <3>1, NoAncestors
    <3>2. CASE base[p] # None
      BY <2>4, <3>2, AnchorRecorded DEF LineInv
    <3> QED BY <3>1, <3>2
  <2>6. Ancestors(parent, new[p]) \subseteq rows
    BY <1>0, <2>4, <2>5, AncestorsStep
  <2>7. History(n)' = Shown!Saved(At_(base[p]), new[p])
    <3>1. History(n)' = At_(new[p])
      BY <1>1, <2>3, <2>6, ShownAt
    <3>2. At_(new[p]) = Shown!Saved(At_(base[p]), new[p])
      BY <1>0, <2>4, ShownSaved
    <3> QED BY <3>1, <3>2
  <2>8. new[p] \in Ckpt \ Shown!Known
    BY <1>0, <2>4, ShownFresh
  <2>9. Histories[n] = At_(head[n]) /\ Histories = [m \in computers |-> History(m)]
    <3>1. Ancestors(parent, head[n]) \cap rows = Ancestors(parent, head[n])
      BY <2>1, HistoryRecorded
    <3> QED BY <2>1, <3>1 DEF Histories, History
  <2>10. CASE head[n] = base[p]
    <3>1. Shown!Put(n, Shown!Saved(Histories[n], new[p]))
      BY <2>3, <2>7, <2>9, <2>10
    <3> QED BY <1>0, <2>1, <2>8, <2>9, <3>1 DEF Shows, Shown!Next, Shown!Save, Shown!Computer
  <2>11. CASE head[n] = None /\ base[p] # None
    <3>1. Histories[n] = Shown!Blank
      BY <2>9, <2>11, ShownSaved
    <3>2. At_(base[p]) \in Shown!Branches
      BY <2>4, <2>11, ShownBranch DEF LineInv
    <3>3. Shown!Put(n, Shown!Saved(At_(base[p]), new[p]))
      BY <2>3, <2>7
    <3> QED BY <1>0, <2>1, <2>8, <2>9, <3>1, <3>2, <3>3 DEF Shows, Shown!Next, Shown!Save, Shown!Computer
  <2> QED BY <2>4, <2>10, <2>11
<1> QED BY <1>2, <1>3

\* Removing a computer is removing it in Histories.
LEMMA RmShows ==
  ASSUME TypeOK, NEW p \in Proc, NEW n \in Name, Rm(p, n)
  PROVE  Shows
<1>1. /\ n \in computers /\ computers' = computers \ {n} /\ UNCHANGED <<rows, parent>>
      /\ \A m \in computers' : head'[m] = head[m]
  BY DEF TypeOK, Rm
<1>2. \A m \in computers' : History(m)' = History(m)
  BY <1>1 DEF History
<1> QED BY <1>1, <1>2 DEF Shows, Shown!Next, Shown!Remove, Shown!Computer

\* Every other step of a session is none of Histories.
LEMMA SessionShows ==
  ASSUME TypeOK, TypeOK', SoloInv, NEW p \in Proc, HeadInv(p), LineInv(p), Sessions(p)
  PROVE  Shows
<1>1. CASE \/ \E n \in Name : Run(p, n) \/ RunFrom(p, n) \/ Source(p, n) \/ CloneRef(p, n)
           \/ Resolve(p) \/ Boot(p) \/ Leave(p)
  <2>1. UNCHANGED <<computers, head, parent, rows>>
    BY <1>1 DEF Run, RunFrom, Source, CloneRef, Resolve, Boot, Leave, store
  <2> QED BY <2>1, StoreSame DEF Shows
<1>2. CASE (\E n \in Name, c \in Ckpt : CloneFile(p, n, c)) \/ (\E c \in Ckpt : Snapshot(p, c))
  <2>1. UNCHANGED <<computers, head, parent, rows>>
    BY <1>2 DEF CloneFile, Snapshot, Draw
  <2> QED BY <2>1, StoreSame DEF Shows
<1>3. CASE AddCheckpoint(p)
  <2>1. CASE UNCHANGED store
    BY <2>1, StoreSame DEF Shows, store
  <2>2. CASE ~UNCHANGED store
    <3>1. /\ UNCHANGED <<computers, head>> /\ rows' = rows \cup {new[p]}
          /\ parent' = [parent EXCEPT ![new[p]] = base[p]]
      BY <1>3, <2>2 DEF AddCheckpoint
    <3>2. new[p] \in Ckpt \ rows /\ parent \in [Ckpt -> Ckpt \cup {None}]
      BY <1>3 DEF AddCheckpoint, SoloInv, ProcInv, TypeOK, ArgsOK, At
    <3>3. \A n \in computers : \A c \in Ancestors(parent, head[n]) : parent'[c] = parent[c] /\ c \in rows'
      BY <3>1, <3>2, HistoryRecorded
    <3> QED BY <3>1, <3>3, HistoriesSame DEF Shows
  <2> QED BY <2>1, <2>2
<1> QED BY <1>1, <1>2, <1>3, CreateShows, SetHeadShows DEF Sessions

-----------------------------------------------------------------------------
(* The invariant, and the refinement.                                      *)

LineInvs == \A p \in Proc : LineInv(p)

\* A step of the one process, or its death, keeps LineInv and shows in no
\* history but as a step of Histories.
LEMMA LineStep ==
  ASSUME NEW u, Proc = {u}, TypeOK, TypeOK', SoloInv, PathInv, LineInvs, [Next]_vars
  PROVE  LineInvs' /\ Shows
<1>0. u \in Proc /\ HeadInv(u) /\ LineInv(u)
  BY DEF PathInv, LineInvs
<1>1. CASE UNCHANGED vars
  <2>1. UNCHANGED <<computers, head, parent, rows>> /\ UNCHANGED <<pc, kind, base, new, todo>>
    BY <1>1 DEF vars, store, local
  <2>2. LineInv(u)'
    BY <1>0, <2>1, StoreSame DEF LineInv, At
  <2> QED BY <2>1, <2>2, StoreSame DEF LineInvs, Shows
<1>2. CASE Crash(u)
  <2>1. UNCHANGED <<computers, head, parent, rows>>
    BY <1>2 DEF Crash, store
  <2>2. LineInv(u)'
    BY <1>0, <1>2, ExitLine DEF Crash
  <2> QED BY <2>1, <2>2, StoreSame DEF LineInvs, Shows
<1>3. CASE Sessions(u)
  BY <1>0, <1>3, SessionLine, SessionShows DEF LineInvs
<1>4. CASE Prunes(u)
  <2>1. Shows
    BY <1>0, <1>4, RmShows, PruneSteps DEF Shows
  <2> QED BY <1>0, <1>4, <2>1, PruneLine DEF LineInvs
<1> QED BY <1>1, <1>2, <1>3, <1>4 DEF Next

\* What the one session holds on to, in every state.
LEMMA LineHolds ==
  ASSUME NEW u, Proc = {u}
  PROVE  Spec => []LineInvs
<1>1. Init => LineInvs
  BY DEF Init, LineInvs, LineInv, At
<1>2. TypeOK /\ TypeOK' /\ SoloInv /\ PathInv /\ LineInvs /\ [Next]_vars => LineInvs'
  BY LineStep
<1>3. (Spec => []SoloInv) /\ (Spec => []PathInv)
  BY SoloHolds, PathHolds
<1> QED BY <1>1, <1>2, <1>3, StoreTypes, PTL DEF Spec

\* With one process at a time, killed between any two of its steps, the store
\* implements Histories: of every computer neko history shows what the sessions
\* and clones that ended put there, and nothing else changes it, whatever other
\* computers are removed and whatever a prune reclaims or leaves behind.
THEOREM HistoriesKept ==
  ASSUME NEW u, Proc = {u}
  PROVE  Spec => HistoriesOnlyGrow
<1>1. Init => Shown!Init
  BY DEF Init, Shown!Init
<1>2. TypeOK /\ TypeOK' /\ SoloInv /\ PathInv /\ LineInvs /\ [Next]_vars
        => [Shown!Next]_([n \in computers |-> History(n)])
  BY LineStep DEF Shows, Histories
<1>3. (Spec => []SoloInv) /\ (Spec => []PathInv) /\ (Spec => []LineInvs)
  BY SoloHolds, PathHolds, LineHolds
<1> QED BY <1>1, <1>2, <1>3, StoreTypes, PTL DEF Spec, HistoriesOnlyGrow, Shown!Spec

=============================================================================
