---------------------------- MODULE MCProvision -----------------------------
(* A small instance of Provision for TLC.                                  *)
EXTENDS Provision, TLC

CONSTANTS v1, v2, b1, b2

\* Two releases, each with a base image of its own.
Pins == (v1 :> b1) @@ (v2 :> b2)

\* No shuru, all of a base image, one without its initramfs and one that is
\* not enough to boot.
Installs ==
  { None, [of |-> b1, has |-> Asset], [of |-> b2, has |-> Asset \ {"initramfs.cpio.gz"}],
    [of |-> b2, has |-> {"Image"}] }
=============================================================================
