---------------------------- MODULE Membership_inv ----------------------------
(***************************************************************************)
(* The invariants of Membership that its proofs rest on.  The definitions   *)
(* take a log, or the lengths on the disks, as a parameter where a step is  *)
(* compared with the one before.                                            *)
(***************************************************************************)
EXTENDS Membership

\* What ProposeConfChange and an election put into the log.
Entries ==
  {Normal} \cup {Change(type, m, AsAddress(m)) : type \in {"AddNode", "AddLearner"}, m \in Nodes}
           \cup {Change("RemoveNode", m, NoAddress) : m \in Nodes}

\* The indices are numbers, and the log is a sequence.
Numbers ==
  /\ log \in Seq(Entries) /\ termStart \in Nat /\ leader \in Nodes \cup {None}
  /\ match \in [Nodes -> Nat] /\ recv \in [Nodes -> Nat] /\ known \in [Nodes -> Nat]
  /\ held \in [Nodes -> Nat] /\ saved \in [Nodes -> Nat]

\* What the leader knows a node to have is on its disk, what is on its disk the library
\* has, and that is part of the leader's log.
InOrder(n) ==
  match[n] <= held[n] /\ Boot <= held[n] /\ held[n] <= recv[n] /\ recv[n] <= LastIndex

Inv == Numbers /\ \A n \in Nodes : InOrder(n)
----------------------------------------------------------------------------
(* The configuration that the entries of a log make. *)

\* An index with a conf change, and no two of them in a range.
At(l, i) == l[i - Boot]
IsChange(l, i) == i \in Boot + 1 .. Boot + Len(l) /\ At(l, i).type # "Normal"
AtMostOneChange(l, i, j) ==
  \A c, d \in i + 1 .. j : IsChange(l, c) /\ IsChange(l, d) => c = d
Unchanged(l, i, j) == \A c \in i + 1 .. j : ~ IsChange(l, c)

\* One log follows another: it has its entries up to k, and one new one.
Follows(l2, l, k, e) ==
  /\ l2 \in Seq(Entries) /\ Len(l2) = k - Boot + 1
  /\ \A i \in Boot + 1 .. k : At(l2, i) = At(l, i)
  /\ \A i \in Nat :
       IsChange(l2, i) <=> (i <= k /\ IsChange(l, i)) \/ (i = k + 1 /\ e.type # "Normal")

\* The last entry up to i that names m has this type.
LastNaming(l, i, m, type) ==
  \E j \in Boot + 1 .. i :
    At(l, j).type = type /\ At(l, j).node = m /\ \A k \in j + 1 .. i : At(l, k).node # m

VotersAt(l, i) ==
  {m \in Nodes : \/ LastNaming(l, i, m, "AddNode")
                 \/ m \in Initial /\ \A j \in Boot + 1 .. i : At(l, j).node # m}
LearnersAt(l, i) == {m \in Nodes : LastNaming(l, i, m, "AddLearner")}

\* Two configurations differ in at most one voter.
OneApart(v, w) == \E x : w \in {v, v \cup {x}, v \ {x}}

\* The configuration after the first entries of n's own log.
OwnVoters(n, i) == IF i < Boot THEN {BootOrder[n][j] : j \in 1 .. i} ELSE VotersAt(log, i)
OwnLearners(n, i) == IF i < Boot THEN {} ELSE LearnersAt(log, i)

Removed(l, i, m) ==
  \E j \in Boot + 1 .. i : At(l, j).type = "RemoveNode" /\ At(l, j).node = m

\* Two logs make the same of what is applied up to i.
SameUpTo(l2, l, i) ==
  /\ VotersAt(l2, i) = VotersAt(l, i) /\ LearnersAt(l2, i) = LearnersAt(l, i)
  /\ \A m : Removed(l2, i, m) <=> Removed(l, i, m)

\* A majority of v has the log up to k on disk.
OnDisks(h, v, k) == Majority({m \in v : h[m] >= k}, v)
----------------------------------------------------------------------------
(* The peers of a transport. *)

\* Every flag names the initial peers by the addresses at which they listen.
FlagsNameListeners ==
  \A flag \in LaterPeers \cup {InitialPeers}, m \in Initial :
    GetPeers(flag)[m] = Address(m, RaftPort)

\* Once n has applied i entries, its map has the members, and the initial peers that no
\* entry removes still have the address of the flag.
InTouch(l, n, i, members, map) ==
  /\ DOMAIN map \subseteq Nodes /\ members \ {n} \subseteq DOMAIN map
  /\ i < Boot => Initial \ {n} \subseteq DOMAIN map
  /\ FlagsNameListeners =>
       \A m \in Initial \ {n} :
         ~ Removed(l, i, m) => m \in DOMAIN map /\ map[m] = Address(m, RaftPort)

\* The states of the loop over rd.CommittedEntries, from entry a to entry k.
IsLoop(f, n, start, a, k) ==
  f = [i \in a .. k |-> IF i = a THEN start ELSE ApplyEntry(f[i - 1], EntryAt(n, i))]

\* What the loop has made of the configuration and the peers
\* when it is at entry i.
LoopAt(n, i, s) ==
  /\ s.voters = OwnVoters(n, i) /\ s.learners = OwnLearners(n, i)
  /\ InTouch(log, n, i, s.voters \cup s.learners, s.peers)
----------------------------------------------------------------------------
(* The invariant. *)

Types ==
  /\ commit \in Nat /\ pendingConf \in Nat /\ pendingConf <= LastIndex
  /\ applied \in [Nodes -> Nat] /\ snap \in [Nodes -> Nat] /\ up \in [Nodes -> BOOLEAN]
  /\ voters \in [Nodes -> SUBSET Nodes] /\ learners \in [Nodes -> SUBSET Nodes]
  /\ DOMAIN peers = Nodes

\* What a server knows to be committed is committed, and in its log and on its disk.
Indices(n) ==
  /\ applied[n] <= saved[n] /\ saved[n] <= known[n] /\ known[n] <= commit
  /\ Boot <= saved[n] /\ saved[n] <= held[n] /\ known[n] <= recv[n] /\ snap[n] <= saved[n]

\* A server's configuration is that of the entries it has applied.
Config(n) ==
  \/ applied[n] = 0 /\ voters[n] = {} /\ learners[n] = {}
  \/ /\ up[n] /\ Boot <= applied[n]
     /\ voters[n] = VotersAt(log, applied[n]) /\ learners[n] = LearnersAt(log, applied[n])

\* So is its transport's map.
Peers(n) ==
  IF up[n] THEN InTouch(log, n, applied[n], Members(n), peers[n])
           ELSE DOMAIN peers[n] \subseteq Nodes

\* Who has a conf change knows that the one before it is committed: the leader had
\* applied it, and an append carries the leader's commit index.
Knows(l, r, k) ==
  \A c, d \in Boot + 1 .. Boot + Len(l) :
    IsChange(l, c) /\ IsChange(l, d) /\ c < d /\ d <= r => c <= k
KnowsEarlier(n) == Knows(log, recv[n], known[n]) /\ Knows(log, held[n], saved[n])

\* At most one conf change is in the leader's log that it has not applied.
Leading ==
  leader # None =>
    /\ up[leader] /\ Boot <= applied[leader] /\ recv[leader] = LastIndex
    /\ Unchanged(log, pendingConf, LastIndex)
    /\ AtMostOneChange(log, applied[leader], LastIndex)

\* What is committed is on the disks of a majority of a configuration that is at most
\* one change old, and so was every conf change when it was committed.
ChosenIn(l, h, k) ==
  /\ k <= Boot + Len(l)
  /\ \E x \in Boot .. k : AtMostOneChange(l, x, k) /\ OnDisks(h, VotersAt(l, x), k)
  /\ \A c \in Boot + 1 .. k : IsChange(l, c) => OnDisks(h, VotersAt(l, c - 1), c)
Chosen == ChosenIn(log, held, commit)

ElectInv ==
  /\ Types /\ Leading /\ Chosen
  /\ \A n \in Nodes : Indices(n) /\ Config(n) /\ Peers(n) /\ KnowsEarlier(n)

\* What a step of another server leaves of m.
SameServer(m) ==
  /\ recv'[m] = recv[m] /\ known'[m] = known[m] /\ held'[m] = held[m] /\ saved'[m] = saved[m]
  /\ snap'[m] = snap[m] /\ up'[m] = up[m] /\ applied'[m] = applied[m] /\ peers'[m] = peers[m]
  /\ voters'[m] = voters[m] /\ learners'[m] = learners[m]
----------------------------------------------------------------------------
\* No server is started with a snapshot on its disk.  createSnapshot writes one without
\* the configuration, and with it what follows does not hold.
NoSnapshotRestored == [][\A n \in Nodes : ~ up[n] /\ up'[n] => snap[n] = 0]_vars
=============================================================================
