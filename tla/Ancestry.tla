------------------------------ MODULE Ancestry ------------------------------
(***************************************************************************)
(* Ancestors of a checkpoint, where prev gives each checkpoint the one it  *)
(* was made from, or None.  Chains are sets here, least fixed points of    *)
(* prev, so that no definition recurs.                                     *)
(***************************************************************************)
CONSTANT None

\* S holds what each of its members was made from.
Whole(prev, S) == \A c \in S : {prev[c]} \ {None} \subseteq S

\* The checkpoint c, if it is one, and what it was made from, back to a root.
Ancestors(prev, c) ==
  {d \in DOMAIN prev : \A S \in SUBSET DOMAIN prev :
                         {c} \ {None} \subseteq S /\ Whole(prev, S) => d \in S}
=============================================================================
