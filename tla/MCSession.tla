------------------------------ MODULE MCSession -----------------------------
(* A small instance of Session for TLC.                                    *)
EXTENDS Session, TLC

CONSTANTS home, other, a, b

\* One session token of each issuer.
OneEach == (a :> home) @@ (b :> other)

\* Command lines with every flag: local, public, private and terminal sessions,
\* with and without a command, that ask for a checkpoint or not, and two that
\* are refused.
CommandLines ==
  { {"port", "command", "name", "checkpoint"}, {"command", "checkpoint"},
    {"port", "tunnel", "command"}, {"tunnel", "term", "command", "name", "checkpoint"},
    {"term", "workspace", "checkpoint"}, {"private"}, {"workspace", "command"} }
=============================================================================
