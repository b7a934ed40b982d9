----------------------------- MODULE MCMembership -----------------------------
(* Small instances of Membership for TLC. *)
EXTENDS Membership, RaftID, TLC

CONSTANTS a, b, c   \* the servers

Listens(n) == Address(n, RaftPort)

\* A flag in both formats, with a blank piece, a piece without an ID and a
\* declaration that a later one replaces.
MCInitialPeers == << Pair(a, Address(a, HttpPort)), Blank, AddrOnly(Listens(a)),
                     Pair("", Listens(b)), Pair(b, Listens(b)), Pair(c, Listens(c)) >>
MCLaterPeers == {MCInitialPeers}

\* The peers came out of the maps in different orders.
MCBootOrder == a :> <<a, b, c>> @@ b :> <<b, c, a>> @@ c :> <<c, a, b>>

\* Servers are interchangeable: of InitialPeers only its map is used, which treats
\* them alike, and a server applies the entries of BootOrder all at once.
Symmetry == Permutations(Nodes)

\* The codes of the pod names "kv-0", ... "kv-99" have different Raft IDs.
PodName(i) ==
  <<107, 118, 45>> \o (IF i < 10 THEN <<48 + i>> ELSE <<48 + (i \div 10), 48 + (i % 10)>>)
ASSUME PodIDsDiffer ==
  \A i, j \in 0 .. 99 :
    i # j => NodeIDToRaftID(PodName(i), 2^24) # NodeIDToRaftID(PodName(j), 2^24)
=============================================================================
