-------------------------------- MODULE RaftID --------------------------------
(***************************************************************************)
(* The numbers Raft knows the servers by (nodeIDToRaftID, in raftnode.go   *)
(* and in admin.go).                                                       *)
(***************************************************************************)
EXTENDS Integers, SequencesExt

\* nodeIDToRaftID over the character codes of a name, in words of `size` values
\* (2^64 in the code).
NodeIDToRaftID(codes, size) == FoldLeft(LAMBDA hash, c : (hash * 31 + c) % size, 0, codes)
=============================================================================
