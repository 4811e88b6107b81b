----------------------------- MODULE Histories ------------------------------
(***************************************************************************)
(* What the store promises to whoever works with computers: each one has a *)
(* history, as neko history shows it, and no command changes the history   *)
(* of a computer but to add a checkpoint to it or to remove the computer.  *)
(* Saving a checkpoint, cloning and removing are single steps here;        *)
(* reclaiming disk space is none at all.                                   *)
(***************************************************************************)
EXTENDS Ancestry

CONSTANTS Name, Ckpt

VARIABLE history  \* of each computer there is: its head, and what each
                  \* checkpoint of its history was made from

Computer == DOMAIN history
Known == UNION {DOMAIN history[n].prev : n \in Computer}

Blank == [head |-> None, prev |-> [c \in {} |-> None]]

\* The history h as it was when b was its head.
AsOf(h, b) == [head |-> b, prev |-> [c \in Ancestors(h.prev, b) |-> h.prev[c]]]

\* What a clone may start from: any checkpoint of any computer.
Branches == UNION {{AsOf(history[n], b) : b \in DOMAIN history[n].prev} : n \in Computer}

\* The history h with a new checkpoint for its head.
Saved(h, c) ==
  [head |-> c, prev |-> [d \in DOMAIN h.prev \cup {c} |-> IF d = c THEN h.head ELSE h.prev[d]]]

Put(n, h) == history' = [m \in Computer \cup {n} |-> IF m = n THEN h ELSE history[m]]

Init == history = [n \in {} |-> Blank]

\* A computer that was never saved, or a clone of an image or of a checkpoint.
Create(n) ==
  /\ n \notin Computer
  /\ \/ Put(n, Blank)
     \/ \E c \in Ckpt \ Known : Put(n, Saved(Blank, c))
     \/ \E h \in Branches : Put(n, h)

\* A session ends and its checkpoint is recorded.
Save(n) ==
  /\ n \in Computer
  /\ \E c \in Ckpt \ Known :
       \/ Put(n, Saved(history[n], c))
       \/ /\ history[n] = Blank
          /\ \E h \in Branches : Put(n, Saved(h, c))

Remove(n) ==
  /\ n \in Computer
  /\ history' = [m \in Computer \ {n} |-> history[m]]

Next == \E n \in Name : Create(n) \/ Save(n) \/ Remove(n)

Spec == Init /\ [][Next]_history
=============================================================================
