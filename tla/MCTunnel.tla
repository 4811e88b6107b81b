------------------------------ MODULE MCTunnel ------------------------------
(* Small instances of Tunnel for TLC.                                      *)
EXTENDS Tunnel, TLC

CONSTANTS c1, c2, alice, bob

\* Every connector of one account, or one account per connector.
SameUser == [c \in Conn |-> alice]
TwoUsers == [c \in Conn |-> IF c = c1 THEN alice ELSE bob]

\* Requests and visitor sockets are interchangeable; connectors of one
\* account are too.
VisitSymmetry == Permutations(Req) \cup Permutations(Ws)
AllSymmetry == VisitSymmetry \cup Permutations(Conn)
=============================================================================
