----------------------------- MODULE MCNodeStorage -----------------------------
(* Small instances of NodeStorage for TLC. *)
EXTENDS NodeStorage
=============================================================================
