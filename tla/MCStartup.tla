----------------------------- MODULE MCStartup -----------------------------
(***************************************************************************)
(* A small instance of the server's start for TLC.                         *)
(***************************************************************************)
EXTENDS Startup

\* The three standard descriptors, and one more that was left open.
StandardFds == {0..2, {0, 1, 2, 4}}

=============================================================================
