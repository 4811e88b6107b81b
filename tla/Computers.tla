----------------------------- MODULE Computers ------------------------------
(***************************************************************************)
(* Computers and checkpoints of the CLI (crates/neko/src/store.rs,         *)
(* commands.rs, and the parts of run.rs that use them): a SQLite database  *)
(* of computers and checkpoints, one image file per checkpoint, and the    *)
(* commands run, clone, rm and gc that processes run on them.              *)
(*                                                                         *)
(* Each SQL statement commits by itself, and so does each file operation:  *)
(* a step is one of them, and the steps of processes interleave.  A process *)
(* may die between any two.                                                *)
(***************************************************************************)
EXTENDS Naturals, FiniteSets, Ancestry

CONSTANTS
  Proc, \* neko processes that may run at a time
  Name, \* names of computers
  Ckpt, \* checkpoint ids that new_checkpoint_id may draw
  Crashes \* a process may be killed between two steps

ASSUME NullAssumption == None \notin Ckpt /\ None \notin Name
ASSUME CrashesAssumption == Crashes \in BOOLEAN

VARIABLES
  computers, \* table computer: the names it has a row for
  head,      \* their head_id
  rows,      \* table checkpoint: the ids it has a row for
  parent,    \* their parent_id
  images,    \* the checkpoints whose image file exists
  drawn,     \* the ids drawn so far: a draw is fresh
  pc,        \* where each process stands, see Steps
  kind,      \* what the process is at, see Kinds
  who,       \* the computer named on its command line
  base,      \* the checkpoint it boots or branches from
  new,       \* the checkpoint it makes
  todo,      \* the checkpoints left to resolve, walk, unlink or delete
  reach,     \* prune: the checkpoints walked
  dead       \* prune: the checkpoints to delete

store == <<computers, head, rows, parent, images, drawn>>
local == <<kind, who, base, new, todo, reach, dead>>
vars == <<store, pc, local>>

Steps == {"idle", "source", "resolve", "create", "boot", "up", "copied", "added",
          "heads", "walk", "unlink", "delete"}

\* "head": run of a computer that exists; "new": run of one that does not;
\* "seed": run --from of one that has no checkpoint; "clone" and "file": the
\* two forms of clone; "prune": rm and gc.
Kinds == {"none", "head", "new", "seed", "clone", "file", "prune"}

\* A command under way has its computer, one that records its checkpoint.
ArgsOK(p) ==
  /\ pc[p] \in Steps \ {"idle", "heads", "walk", "unlink", "delete"} => who[p] # None
  /\ pc[p] \in {"copied", "added"} => new[p] # None

TypeOK ==
  /\ computers \subseteq Name
  /\ head \in [Name -> Ckpt \cup {None}]
  /\ rows \subseteq Ckpt /\ images \subseteq Ckpt /\ drawn \subseteq Ckpt
  /\ parent \in [Ckpt -> Ckpt \cup {None}]
  /\ pc \in [Proc -> Steps]
  /\ kind \in [Proc -> Kinds]
  /\ who \in [Proc -> Name \cup {None}]
  /\ base \in [Proc -> Ckpt \cup {None}]
  /\ new \in [Proc -> Ckpt \cup {None}]
  /\ todo \in [Proc -> SUBSET Ckpt]
  /\ reach \in [Proc -> SUBSET Ckpt]
  /\ dead \in [Proc -> SUBSET Ckpt]
  /\ \A p \in Proc : ArgsOK(p)

Init ==
  /\ computers = {} /\ rows = {} /\ images = {} /\ drawn = {}
  /\ head = [n \in Name |-> None]
  /\ parent = [c \in Ckpt |-> None]
  /\ pc = [p \in Proc |-> "idle"]
  /\ kind = [p \in Proc |-> "none"]
  /\ who = [p \in Proc |-> None]
  /\ base = [p \in Proc |-> None]
  /\ new = [p \in Proc |-> None]
  /\ todo = [p \in Proc |-> {}]
  /\ reach = [p \in Proc |-> {}]
  /\ dead = [p \in Proc |-> {}]

-----------------------------------------------------------------------------
(* Helpers.                                                                *)

At(p, step) == pc[p] = step
Goto(p, step) == pc' = [pc EXCEPT ![p] = step]

\* A process ends, with success, an error or a crash: its locals are gone.
Exit(p) ==
  /\ Goto(p, "idle")
  /\ kind' = [kind EXCEPT ![p] = "none"]
  /\ who' = [who EXCEPT ![p] = None]
  /\ base' = [base EXCEPT ![p] = None]
  /\ new' = [new EXCEPT ![p] = None]
  /\ todo' = [todo EXCEPT ![p] = {}]
  /\ reach' = [reach EXCEPT ![p] = {}]
  /\ dead' = [dead EXCEPT ![p] = {}]

\* A command that goes on: its kind, its computer, its boot source.
Begin(p, k, n, b) ==
  /\ kind' = [kind EXCEPT ![p] = k]
  /\ who' = [who EXCEPT ![p] = n]
  /\ base' = [base EXCEPT ![p] = b]

\* A foreign key to the checkpoint table is satisfied.
Known(c) == c = None \/ c \in rows

\* Mutant: a computer without a checkpoint counts as a head.
HeadsAndNull == {head[n] : n \in computers}

Heads == {head[n] : n \in computers} \ {None}
ParentOf(c) == {parent[c]} \ {None}

-----------------------------------------------------------------------------
(* neko run                                                                *)

\* get_computer(name): resume from its head, or create it first.
Run(p, n) ==
  /\ At(p, "idle")
  /\ IF n \in computers
     THEN Begin(p, "head", n, head[n]) /\ Goto(p, "boot")
     ELSE Begin(p, "new", n, None) /\ Goto(p, "create")
  /\ UNCHANGED <<store, new, todo, reach, dead>>

\* Mutant: a computer with history is not refused.
RunFromAnywhere(p, n) ==
  /\ At(p, "idle")
  /\ Begin(p, IF n \in computers THEN "seed" ELSE "new", n, None)
  /\ Goto(p, "source")
  /\ UNCHANGED <<store, new, todo, reach, dead>>

\* --from: get_computer(name) refuses a computer with history.
RunFrom(p, n) ==
  /\ At(p, "idle")
  /\ ~(n \in computers /\ head[n] # None)
  /\ Begin(p, IF n \in computers THEN "seed" ELSE "new", n, None)
  /\ Goto(p, "source")
  /\ UNCHANGED <<store, new, todo, reach, dead>>

\* resolve_ref, of --from and of clone: get_computer of the source computer.
Source(p, src) ==
  /\ At(p, "source")
  /\ IF src \in computers /\ head[src] # None
     THEN /\ todo' = [todo EXCEPT ![p] = {head[src]}]
          /\ Goto(p, "resolve")
          /\ UNCHANGED <<kind, who, base, new, reach, dead>>
     ELSE Exit(p)
  /\ UNCHANGED store

\* get_checkpoint of the reference: take it, or look for a label further up.
Resolve(p) ==
  /\ At(p, "resolve")
  /\ \E c \in todo[p] :
       \/ /\ c \in rows
          /\ base' = [base EXCEPT ![p] = c]
          /\ todo' = [todo EXCEPT ![p] = {}]
          /\ Goto(p, IF kind[p] = "seed" THEN "boot" ELSE "create")
          /\ UNCHANGED <<store, kind, who, new, reach, dead>>
       \/ /\ c \in rows /\ parent[c] # None
          /\ todo' = [todo EXCEPT ![p] = {parent[c]}]
          /\ UNCHANGED <<store, pc, kind, who, base, new, reach, dead>>
       \/ (c \in rows => parent[c] = None) /\ Exit(p) /\ UNCHANGED store

\* create_computer(name, base): the primary key and the foreign key hold.
Create(p) ==
  /\ At(p, "create")
  /\ \/ /\ who[p] \notin computers /\ Known(base[p])
        /\ computers' = computers \cup {who[p]}
        /\ head' = [head EXCEPT ![who[p]] = base[p]]
        /\ IF kind[p] = "new"
           THEN Goto(p, "boot") /\ UNCHANGED local
           ELSE Exit(p)
        /\ UNCHANGED <<rows, parent, images, drawn>>
     \/ (who[p] \in computers \/ ~Known(base[p])) /\ Exit(p) /\ UNCHANGED store

\* The sandbox boots from the image of base, or from the base image.
Boot(p) ==
  /\ At(p, "boot")
  /\ \/ (base[p] = None \/ base[p] \in images) /\ Goto(p, "up") /\ UNCHANGED local
     \/ base[p] # None /\ base[p] \notin images /\ Exit(p)
  /\ UNCHANGED store

\* The session ends without --checkpoint.
Leave(p) == At(p, "up") /\ Exit(p) /\ UNCHANGED store

\* new_checkpoint_id, and the image of the checkpoint written.
Draw(p, c) ==
  /\ c \notin drawn
  /\ drawn' = drawn \cup {c}
  /\ images' = images \cup {c}
  /\ new' = [new EXCEPT ![p] = c]
  /\ Goto(p, "copied")
  /\ UNCHANGED <<computers, head, rows, parent>>

\* The session ends with --checkpoint.
Snapshot(p, c) ==
  At(p, "up") /\ Draw(p, c) /\ UNCHANGED <<kind, who, base, todo, reach, dead>>

\* add_checkpoint(new, parent): run records its boot source, clone of an
\* image file makes a root and goes on to create its computer there.
AddCheckpoint(p) ==
  /\ At(p, "copied")
  /\ \/ /\ Known(base[p])
        /\ rows' = rows \cup {new[p]}
        /\ parent' = [parent EXCEPT ![new[p]] = base[p]]
        /\ IF kind[p] = "file"
           THEN Goto(p, "create") /\ base' = [base EXCEPT ![p] = new[p]]
           ELSE Goto(p, "added") /\ UNCHANGED base
        /\ UNCHANGED <<computers, head, images, drawn, kind, who, new, todo, reach, dead>>
     \/ ~Known(base[p]) /\ Exit(p) /\ UNCHANGED store

\* set_head(name, new): no row to update and a foreign key are errors.
SetHead(p) ==
  /\ At(p, "added")
  /\ head' = IF who[p] \in computers /\ Known(new[p])
             THEN [head EXCEPT ![who[p]] = new[p]] ELSE head
  /\ Exit(p)
  /\ UNCHANGED <<computers, rows, parent, images, drawn>>

-----------------------------------------------------------------------------
(* neko clone                                                              *)

\* clone FILE NAME: the name is free, and the image is copied, which no other
\* process sees.
CloneFile(p, n, c) ==
  /\ At(p, "idle") /\ n \notin computers
  /\ Begin(p, "file", n, None)
  /\ Draw(p, c)
  /\ UNCHANGED <<todo, reach, dead>>

\* clone REF NAME: the name is free.
CloneRef(p, n) ==
  /\ At(p, "idle") /\ n \notin computers
  /\ Begin(p, "clone", n, None)
  /\ Goto(p, "source")
  /\ UNCHANGED <<store, new, todo, reach, dead>>

-----------------------------------------------------------------------------
(* neko rm, neko gc, and the prune they share                              *)

\* delete_computer, then prune unless --keep-checkpoints.
Rm(p, n) ==
  /\ At(p, "idle") /\ n \in computers
  /\ computers' = computers \ {n}
  /\ head' = [head EXCEPT ![n] = None]
  /\ \/ UNCHANGED <<pc, kind>>
     \/ Goto(p, "heads") /\ kind' = [kind EXCEPT ![p] = "prune"]
  /\ UNCHANGED <<rows, parent, images, drawn, who, base, new, todo, reach, dead>>

Gc(p) ==
  /\ At(p, "idle")
  /\ Goto(p, "heads") /\ kind' = [kind EXCEPT ![p] = "prune"]
  /\ UNCHANGED <<store, who, base, new, todo, reach, dead>>

\* reachable_checkpoints: list_computers is one statement.
ListHeads(p) ==
  /\ At(p, "heads")
  /\ todo' = [todo EXCEPT ![p] = Heads]
  /\ Goto(p, "walk")
  /\ UNCHANGED <<store, kind, who, base, new, reach, dead>>

\* Mutant: the walk stops at the heads.
WalkHeads(p) ==
  /\ At(p, "walk")
  /\ \E c \in todo[p] :
       /\ reach' = [reach EXCEPT ![p] = @ \cup {c}]
       /\ todo' = [todo EXCEPT ![p] = @ \ {c}]
  /\ UNCHANGED <<store, pc, kind, who, base, new, dead>>

\* reachable_checkpoints: one get_checkpoint of the walk.  The order of the
\* walk is abstracted: heads and parents not walked yet are a set.
Walk(p) ==
  /\ At(p, "walk")
  /\ \E c \in todo[p] :
       LET R == reach[p] \cup {c} IN
       /\ reach' = [reach EXCEPT ![p] = R]
       /\ todo' = [todo EXCEPT ![p] = (todo[p] \cup (IF c \in rows THEN ParentOf(c) ELSE {})) \ R]
  /\ UNCHANGED <<store, pc, kind, who, base, new, dead>>

\* Mutant: a checkpoint that some checkpoint was made from is spared.
ListDeadLeaves(p) ==
  /\ At(p, "walk") /\ todo[p] = {}
  /\ LET D == {c \in rows \ reach[p] : \A d \in rows : parent[d] # c} IN
     dead' = [dead EXCEPT ![p] = D] /\ todo' = [todo EXCEPT ![p] = D]
  /\ Goto(p, "unlink")
  /\ UNCHANGED <<store, kind, who, base, new, reach>>

\* all_checkpoints, less the reachable ones.
ListDead(p) ==
  /\ At(p, "walk") /\ todo[p] = {}
  /\ dead' = [dead EXCEPT ![p] = rows \ reach[p]]
  /\ todo' = [todo EXCEPT ![p] = rows \ reach[p]]
  /\ Goto(p, "unlink")
  /\ UNCHANGED <<store, kind, who, base, new, reach>>

\* remove_file of one dead image.
Unlink(p) ==
  /\ At(p, "unlink")
  /\ \E c \in todo[p] :
       /\ images' = images \ {c}
       /\ todo' = [todo EXCEPT ![p] = @ \ {c}]
  /\ UNCHANGED <<computers, head, rows, parent, drawn, pc, kind, who, base, new, reach, dead>>

\* delete_checkpoints, foreign keys off.
BeginDelete(p) ==
  /\ At(p, "unlink") /\ todo[p] = {}
  /\ todo' = [todo EXCEPT ![p] = dead[p]]
  /\ Goto(p, "delete")
  /\ UNCHANGED <<store, kind, who, base, new, reach, dead>>

\* Mutant: foreign keys stay on, and the batch stops at the first error.
DeleteRowChecked(p) ==
  /\ At(p, "delete")
  /\ \E c \in todo[p] :
       IF \E d \in rows : parent[d] = c
       THEN Exit(p) /\ UNCHANGED store
       ELSE /\ rows' = rows \ {c}
            /\ parent' = [parent EXCEPT ![c] = None]
            /\ todo' = [todo EXCEPT ![p] = @ \ {c}]
            /\ UNCHANGED <<computers, head, images, drawn, pc, kind, who, base, new, reach, dead>>

DeleteRow(p) ==
  /\ At(p, "delete")
  /\ \E c \in todo[p] :
       /\ rows' = rows \ {c}
       /\ parent' = [parent EXCEPT ![c] = None]
       /\ todo' = [todo EXCEPT ![p] = @ \ {c}]
  /\ UNCHANGED <<computers, head, images, drawn, pc, kind, who, base, new, reach, dead>>

EndPrune(p) == At(p, "delete") /\ todo[p] = {} /\ Exit(p) /\ UNCHANGED store

-----------------------------------------------------------------------------
\* External: the process is killed, or the machine stops.
Crash(p) == Crashes /\ ~At(p, "idle") /\ Exit(p) /\ UNCHANGED store

Sessions(p) ==
  \/ \E n \in Name : Run(p, n) \/ RunFrom(p, n) \/ Source(p, n) \/ CloneRef(p, n)
  \/ \E n \in Name, c \in Ckpt : CloneFile(p, n, c)
  \/ \E c \in Ckpt : Snapshot(p, c)
  \/ Resolve(p) \/ Create(p) \/ Boot(p) \/ Leave(p) \/ AddCheckpoint(p) \/ SetHead(p)

Prunes(p) ==
  \/ \E n \in Name : Rm(p, n)
  \/ Gc(p) \/ ListHeads(p) \/ Walk(p) \/ ListDead(p)
  \/ Unlink(p) \/ BeginDelete(p) \/ DeleteRow(p) \/ EndPrune(p)

Next == \E p \in Proc : Sessions(p) \/ Prunes(p) \/ Crash(p)

Spec == Init /\ [][Next]_vars

-----------------------------------------------------------------------------
(* Properties.                                                             *)

\* S holds every head and, with a checkpoint, its whole ancestry.
Closed(S) == Heads \subseteq S /\ \A c \in S : ParentOf(c) \subseteq S

\* What the computers need is there: each head and all of its history, rows
\* and images, through prunes that stop halfway.
LiveIntact == \E S \in SUBSET (rows \cap images) : Closed(S)

\* What makes it inductive when one process runs: the checkpoints a session
\* holds on to are as good as heads, a prune under way has condemned none of
\* those, and its walk misses none.
Anchors(p) ==
  ({base[p]} \cup (IF At(p, "added") THEN {new[p]} ELSE {})
             \cup (IF At(p, "resolve") THEN todo[p] ELSE {})) \ {None}

StoreInv ==
  \E S \in SUBSET (rows \cap images) :
    Closed(S) /\ \A p \in Proc : Anchors(p) \subseteq S /\ dead[p] \cap S = {}

WalkInv(p) ==
  At(p, "walk") =>
    /\ Heads \subseteq reach[p] \cup todo[p]
    /\ \A c \in reach[p] \cap rows : ParentOf(c) \subseteq reach[p] \cup todo[p]

ProcInv(p) ==
  /\ pc[p] \in {"idle", "heads", "walk", "unlink", "delete"} => base[p] = None
  /\ pc[p] \notin {"walk", "unlink", "delete"} => reach[p] = {}
  /\ IF pc[p] \in {"unlink", "delete"} THEN todo[p] \subseteq dead[p] ELSE dead[p] = {}
  /\ pc[p] = "copied" => new[p] \in (images \cap drawn) \ rows
  /\ WalkInv(p)

SoloInv == StoreInv /\ rows \subseteq drawn /\ \A p \in Proc : ProcInv(p)

\* The checkpoints some computer needs.
Live == {c \in rows : \A S \in SUBSET rows : Closed(S) => c \in S}

\* A prune that runs to its end leaves no checkpoint that no computer needs.
EndsComplete == \A p \in Proc : EndPrune(p) => rows \subseteq Live
PruneIsComplete == [][EndsComplete]_vars

\* neko history: from the head of a computer back to its root.
History(n) ==
  [head |-> head[n], prev |-> [c \in Ancestors(parent, head[n]) \cap rows |-> parent[c]]]

\* No command changes what neko history shows of a computer, but to add the
\* checkpoint of a session on top: not a prune, whatever it removes and wherever
\* it is killed, nor a clone, nor the removal of another computer.
Shown == INSTANCE Histories WITH history <- [n \in computers |-> History(n)]
HistoriesOnlyGrow == Shown!Spec

\* What makes it inductive when one process runs: what a session boots or
\* branches from stays in the history of some computer, and no history has
\* the checkpoint it is about to put there.
InHistory(S) == \E n \in computers : S \subseteq Ancestors(parent, head[n])

LineInv(p) ==
  /\ At(p, "resolve") => InHistory(todo[p])
  /\ base[p] # None /\ kind[p] # "file" => InHistory({base[p]})
  /\ At(p, "added") \/ (At(p, "create") /\ kind[p] = "file") =>
       /\ new[p] \in rows /\ parent[new[p]] = IF kind[p] = "file" THEN None ELSE base[p]
       /\ \A n \in computers : new[p] \notin Ancestors(parent, head[n])
  /\ kind[p] = "file" => \/ At(p, "copied") /\ base[p] = None
                         \/ At(p, "create") /\ base[p] = new[p]

\* What makes PruneIsComplete inductive when one process runs: every set that
\* holds the heads and the parents of what was walked holds all that was walked,
\* and what is recorded beyond that is condemned, then left to delete.
WalkedInto(p, S) == Heads \subseteq S /\ \A c \in S \cap reach[p] : ParentOf(c) \subseteq S

PruneInv(p) ==
  /\ At(p, "walk") => \A S \in SUBSET Ckpt : WalkedInto(p, S) => reach[p] \cup todo[p] \subseteq S
  /\ At(p, "unlink") => rows \ dead[p] \subseteq reach[p]
  /\ At(p, "delete") => rows \ todo[p] \subseteq reach[p]
  /\ At(p, "unlink") \/ At(p, "delete") =>
       /\ \A S \in SUBSET Ckpt : WalkedInto(p, S) => reach[p] \subseteq S
       /\ todo[p] \cap reach[p] = {} /\ dead[p] \cap reach[p] = {}

\* What LineInv rests on as well: a session still has the head it resumed from
\* for its base, or its computer has none.
HeadInv(p) ==
  /\ kind[p] = "seed" /\ pc[p] \in {"source", "resolve"} => head[who[p]] = None
  /\ pc[p] \in {"boot", "up", "copied", "added"} /\ kind[p] # "file" => head[who[p]] \in {None, base[p]}
  /\ pc[p] \in {"boot", "up", "added"} => kind[p] # "file"
  /\ pc[p] = "added" => parent[new[p]] = base[p]

PathInv == \A p \in Proc : PruneInv(p) /\ HeadInv(p)

\* A checkpoint that is recorded has its image, unless a prune that is under
\* way has condemned it, however the commands of several processes interleave.
RowsHaveImages == \A c \in rows : c \in images \/ \E p \in Proc : c \in dead[p]

\* What makes it inductive: a checkpoint being made is known to nobody else,
\* and a prune still has to delete every row it has condemned.
MakeInv(p) ==
  At(p, "copied") =>
    /\ new[p] \in (images \cap drawn) \ rows
    /\ \A q \in Proc : new[p] \notin dead[q] /\ (q # p /\ At(q, "copied") => new[q] # new[p])

CondemnInv(p) ==
  /\ dead[p] \subseteq drawn
  /\ ~(At(p, "unlink") \/ At(p, "delete")) => dead[p] = {}
  /\ At(p, "unlink") => todo[p] \subseteq dead[p]
  /\ At(p, "delete") => dead[p] \cap rows \subseteq todo[p]

ImageInv ==
  /\ RowsHaveImages
  /\ rows \subseteq drawn
  /\ \A p \in Proc : MakeInv(p) /\ CondemnInv(p)

=============================================================================
