--------------------------- MODULE MembershipLemmas ----------------------------
(***************************************************************************)
(* Lemmas for the proofs about Membership: majorities, what disks hold,    *)
(* the configuration that the entries of a log make, the loop that applies *)
(* them, and why the winner of an election has what is committed.          *)
(***************************************************************************)
EXTENDS Membership_inv, FiniteSetTheorems, SequenceTheorems, WellFoundedInduction, TLAPS
----------------------------------------------------------------------------
\* A non-empty set of natural numbers has a least element.
LEMMA LeastIndex ==
  ASSUME NEW S \in SUBSET Nat, S # {}
  PROVE  \E i \in S : \A j \in S : i <= j
<1> DEFINE R == {p \in Nat \X Nat : p[1] < p[2]}
<1>1. IsWellFoundedOn(R, Nat)
  BY NatLessThanWellFounded, Zenon DEF OpToRel
<1>2. \E i \in S : \A j \in S : ~ (<<j, i>> \in R)
  <2> HIDE DEF R
  <2> QED  BY <1>1, WFMin, Zenon
<1>3. PICK i \in S : \A j \in S : ~ (<<j, i>> \in R)
  BY <1>2, Zenon
<1>4. \A j \in S : i <= j
  <2> TAKE j \in S
  <2>1. i \in Nat /\ j \in Nat
    BY Zenon
  <2>2. ~ (j < i)
    BY <1>3, <2>1, Zenon
  <2> QED  BY <2>1, <2>2
<1> QED  BY <1>4, Zenon

\* A majority of a configuration and a majority of it with one voter more have a voter in
\* common: why the library makes one change at a time.
LEMMA OneMoreVoter ==
  ASSUME NEW v \in SUBSET Nodes, NEW w \in SUBSET Nodes, NEW x, w = v \cup {x},
         NEW p, NEW q, Majority(p, v), Majority(q, w)
  PROVE  p \cap q # {}
<1> SUFFICES ASSUME p \cap q = {}
             PROVE  FALSE
  BY Zenon
<1>1. IsFiniteSet(v) /\ IsFiniteSet(w) /\ p \subseteq v /\ q \subseteq w /\ p \cup q \subseteq w
  BY ConstantsAssumption, FS_Subset, Zenon DEF Majority
<1>2. IsFiniteSet(p) /\ IsFiniteSet(q)
  BY <1>1, FS_Subset, Zenon
<1>3. Cardinality(p \cup q) = Cardinality(p) + Cardinality(q) - Cardinality({})
  BY <1>2, FS_Union, Zenon
<1>4. Cardinality(p \cup q) <= Cardinality(w)
  BY <1>1, FS_Subset, Zenon
<1>5. Cardinality(w) = Cardinality(v) \/ Cardinality(w) = Cardinality(v) + 1
  BY <1>1, FS_AddElement, Zenon
<1>6. /\ Cardinality(v) \in Nat /\ Cardinality(w) \in Nat /\ Cardinality({}) = 0
      /\ Cardinality(p) \in Nat /\ Cardinality(q) \in Nat
  BY <1>1, <1>2, FS_CardinalityType, FS_EmptySet, Zenon
<1>7. 2 * Cardinality(p) > Cardinality(v) /\ 2 * Cardinality(q) > Cardinality(w)
  BY Zenon DEF Majority
<1> QED  BY <1>3, <1>4, <1>5, <1>6, <1>7

\* The same of two configurations that differ in at most one voter.
LEMMA Overlap ==
  ASSUME NEW v \in SUBSET Nodes, NEW w \in SUBSET Nodes, OneApart(v, w),
         NEW p, NEW q, Majority(p, v), Majority(q, w)
  PROVE  p \cap q # {}
<1>0. PICK x : w \in {v, v \cup {x}, v \ {x}}
  BY Zenon DEF OneApart
<1>1. CASE w = v
  <2>1. CASE v = {}
    <3>1. p = {}
      BY <2>1, Zenon DEF Majority
    <3>2. Cardinality({}) = 0
      BY FS_EmptySet, Zenon
    <3> QED  BY <2>1, <3>1, <3>2 DEF Majority
  <2>2. CASE v # {}
    <3>1. PICK y \in v : w = v \cup {y}
      BY <1>1, <2>2, Zenon
    <3> QED  BY <3>1, OneMoreVoter, Zenon
  <2> QED  BY <2>1, <2>2, Zenon
<1>2. CASE w = v \cup {x}
  BY <1>2, OneMoreVoter, Zenon
<1>3. CASE w = v \ {x} /\ x \in v
  <2>1. v = w \cup {x}
    BY <1>3, Zenon
  <2>2. q \cap p # {}
    BY <2>1, OneMoreVoter, Zenon
  <2> QED  BY <2>2, Zenon
<1>4. CASE w = v \ {x} /\ x \notin v
  <2>1. w = v
    BY <1>4, Zenon
  <2> QED  BY <1>1, <2>1, Zenon
<1> QED  BY <1>0, <1>1, <1>2, <1>3, <1>4, Zenon

\* The initial peers are finitely many, so their entries have a number.
LEMMA BootType == Boot \in Nat
<1>1. IsFiniteSet(Initial)
  BY ConstantsAssumption, FS_Subset, Zenon
<1> QED  BY <1>1, FS_CardinalityType, Zenon DEF Boot

\* Where the leader's log ends.
LEMMA LogLength ==
  ASSUME log \in Seq(Entries)
  PROVE  Len(log) \in Nat /\ LastIndex \in Nat /\ LastIndex = Boot + Len(log)
BY BootType, LenProperties DEF LastIndex

\* Init gives every server the entries of StartNode and, where it is there, the first leader's.
LEMMA InvInit == Init => Inv
<1> SUFFICES ASSUME Init
             PROVE  Inv
  BY Zenon
<1>1. log \in Seq(Entries) /\ Len(log) = 1
  BY DEF Init, Entries
<1>2. Boot \in Nat /\ LastIndex = Boot + 1 /\ \A n \in Nodes : FirstIndex(n) \in {Boot, Boot + 1}
  BY <1>1, BootType, Zenon DEF LastIndex, FirstIndex
<1>3. Numbers
  BY <1>1, <1>2, ConstantsAssumption DEF Init, Numbers
<1>4. \A n \in Nodes : InOrder(n)
  BY <1>2 DEF Init, InOrder, FirstIndex
<1> QED  BY <1>3, <1>4, Zenon DEF Inv

\* maybeCommit sets a commit index to an index of the log.
LEMMA CommitType ==
  ASSUME Inv, MaybeCommit
  PROVE  known' \in [Nodes -> Nat]
<1>1. CASE UNCHANGED known
  BY <1>1, Zenon DEF Inv, Numbers
<1>2. CASE ~ UNCHANGED known
  <2>1. PICK k \in {k \in termStart .. LastIndex : leader # None /\ OnMajority(k)'} :
          known' = Set(known, leader, k)
    BY <1>2, Zenon DEF MaybeCommit
  <2>2. k \in Nat /\ leader \in Nodes
    BY <2>1, LogLength DEF Inv, Numbers
  <2> QED  BY <2>1, <2>2, Zenon DEF Inv, Numbers, Set
<1> QED  BY <1>1, <1>2, Zenon

\* run keeps the order: it saves all that the library has before an answer leaves.
LEMMA HandleReadyKeeps ==
  ASSUME Inv, NEW n \in Nodes, HandleReady(n)
  PROVE  Inv'
<1> USE DEF Inv
<1>0. /\ match \in [Nodes -> Nat] /\ recv \in [Nodes -> Nat] /\ known \in [Nodes -> Nat]
      /\ held \in [Nodes -> Nat] /\ saved \in [Nodes -> Nat] /\ termStart \in Nat
      /\ Boot \in Nat /\ LastIndex \in Nat /\ leader \in Nodes \cup {None}
  BY LogLength, BootType, Zenon DEF Numbers
<1>1. /\ saved' \in [Nodes -> Nat] /\ held' \in [Nodes -> Nat] /\ held'[n] = recv[n]
      /\ \A m \in Nodes : m # n => held'[m] = held[m]
  <2>1. saved' = Set(saved, n, known[n]) /\ held' = Set(held, n, recv[n])
    BY Zenon DEF HandleReady, Save
  <2>2. known[n] \in Nat /\ recv[n] \in Nat
    BY <1>0, Zenon
  <2>3. saved' \in [Nodes -> Nat]
    BY <1>0, <2>1, <2>2, Zenon DEF Set
  <2> QED  BY <1>0, <2>1, <2>2, <2>3, Zenon DEF Set
<1>2. /\ recv' \in [Nodes -> Nat] /\ recv'[n] = recv[n]
      /\ \A m \in Nodes : m # n => recv'[m] = recv[m]
  <2>1. CASE ApplyCommitted(n).panics
    <3>1. recv' = Set(recv, n, recv[n]) /\ recv[n] \in Nat
      BY <1>0, <2>1, Zenon DEF HandleReady, ProcessGone
    <3> QED  BY <1>0, <3>1, Zenon DEF Set
  <2>2. CASE ~ ApplyCommitted(n).panics
    BY <1>0, <2>2, Zenon DEF HandleReady, Advance
  <2> QED  BY <2>1, <2>2, Zenon
<1>3. known' \in [Nodes -> Nat]
  <2>1. CASE ApplyCommitted(n).panics
    <3>1. known' = Set(known, n, known[n]) /\ known[n] \in Nat
      BY <1>0, <2>1, Zenon DEF HandleReady, ProcessGone
    <3> QED  BY <1>0, <3>1, Zenon DEF Set
  <2>2. CASE ~ ApplyCommitted(n).panics
    BY <2>2, CommitType, Zenon DEF HandleReady, Advance
  <2> QED  BY <2>1, <2>2, Zenon
<1>4. UNCHANGED <<log, termStart>> /\ leader' \in {leader, None}
  BY Zenon DEF HandleReady, ProcessGone, Advance
<1>5. /\ match' \in [Nodes -> Nat]
      /\ \A m \in Nodes : match'[m] <= match[m] \/ (m = n /\ match'[m] <= recv[n])
  <2>1. CASE n = leader
    BY <1>0, <2>1 DEF HandleReady, SendAndForget
  <2>2. CASE n # leader
    <3>1. match' = match \/ match' = Set(match, n, Larger(match[n], recv[n]))
      BY <2>2, Zenon DEF HandleReady, SendAndForget, SendAnswer
    <3>2. /\ Larger(match[n], recv[n]) \in Nat
          /\ Larger(match[n], recv[n]) <= match[n] \/ Larger(match[n], recv[n]) <= recv[n]
      BY <1>0 DEF Larger
    <3>3. \A m \in Nodes : match[m] <= match[m]
      BY <1>0
    <3>4. CASE match' = match
      BY <1>0, <3>3, <3>4, Zenon
    <3>5. CASE match' = Set(match, n, Larger(match[n], recv[n]))
      <4>1. /\ match' \in [Nodes -> Nat] /\ match'[n] = Larger(match[n], recv[n])
            /\ \A m \in Nodes : m # n => match'[m] = match[m]
        BY <1>0, <3>2, <3>5, Zenon DEF Set
      <4> QED  BY <3>2, <3>3, <4>1, Zenon
    <3> QED  BY <3>1, <3>4, <3>5, Zenon
  <2> QED  BY <2>1, <2>2, Zenon
<1>6. Numbers'
  BY <1>0, <1>1, <1>2, <1>3, <1>4, <1>5, Zenon DEF Numbers
<1>7. ASSUME NEW m \in Nodes
      PROVE  InOrder(m)'
  <2>1. LastIndex' = LastIndex
    BY <1>4, Zenon DEF LastIndex
  <2>2. match[m] <= held[m] /\ Boot <= held[m] /\ held[m] <= recv[m] /\ recv[m] <= LastIndex
    BY Zenon DEF InOrder
  <2>3. /\ match[m] \in Nat /\ held[m] \in Nat /\ recv[m] \in Nat /\ match'[m] \in Nat
    BY <1>0, <1>5, Zenon
  <2>4. /\ held'[m] = (IF m = n THEN recv[m] ELSE held[m]) /\ recv'[m] = recv[m]
    BY <1>1, <1>2, Zenon
  <2>5. match'[m] <= match[m] \/ (m = n /\ match'[m] <= recv[m])
    BY <1>5, Zenon
  <2>6. match'[m] <= held'[m] /\ Boot <= held'[m] /\ held'[m] <= recv'[m] /\ recv'[m] <= LastIndex
    BY <1>0, <2>2, <2>3, <2>4, <2>5
  <2> QED  BY <2>1, <2>6, Zenon DEF InOrder
<1> QED  BY <1>6, <1>7, Zenon

\* So does an election: every log is cut back to the winner's, and nothing is known of it.
LEMMA ElectionKeeps ==
  ASSUME Inv, NEW n \in Nodes, Election(n)
  PROVE  Inv'
<1> USE DEF Inv
<1>0. /\ recv \in [Nodes -> Nat] /\ known \in [Nodes -> Nat] /\ held \in [Nodes -> Nat]
      /\ saved \in [Nodes -> Nat] /\ log \in Seq(Entries) /\ Len(log) \in Nat
      /\ Boot \in Nat /\ LastIndex = Boot + Len(log)
  BY LogLength, BootType, Zenon DEF Numbers
<1>1. recv[n] \in Nat /\ Boot <= recv[n] /\ recv[n] - Boot \in 0 .. Len(log)
  <2>1. Boot <= held[n] /\ held[n] <= recv[n] /\ recv[n] <= LastIndex
    BY Zenon DEF InOrder
  <2> QED  BY <1>0, <2>1
<1>2. log' \in Seq(Entries) /\ Len(log') = recv[n] - Boot + 1
  <2> DEFINE front == SubSeq(log, 1, recv[n] - Boot)
  <2>1. \A i \in 1 .. recv[n] - Boot : log[i] \in Entries
    BY <1>0, <1>1, ElementOfSeq
  <2> HIDE DEF Entries
  <2>2. front \in Seq(Entries) /\ Len(front) = recv[n] - Boot
    BY <1>0, <1>1, <2>1, SubSeqProperties
  <2>3. Normal \in Entries
    BY DEF Entries
  <2>4. log' = Append(front, Normal)
    BY Zenon DEF Election
  <2> HIDE DEF front
  <2> QED  BY <2>2, <2>3, <2>4, AppendProperties
<1>3. LastIndex' = recv[n] + 1
  <2>1. LastIndex' = Boot + (recv[n] - Boot + 1)
    BY <1>2, Zenon DEF LastIndex
  <2>2. recv[n] \in Nat /\ Boot \in Nat
    BY <1>0, <1>1, Zenon
  <2> HIDE DEF Inv
  <2> QED  BY <2>1, <2>2
<1>4. /\ match' = [m \in Nodes |-> 0]
      /\ recv' = [m \in Nodes |-> IF m = n THEN recv[n] + 1 ELSE Smaller(recv[m], recv[n])]
      /\ held' = [m \in Nodes |-> Smaller(held[m], recv[n])]
      /\ termStart' = recv[n] + 1 /\ leader' = n /\ UNCHANGED <<known, saved>>
  BY Zenon DEF Election
<1>5. Numbers'
  <2>1. \A m \in Nodes : Smaller(recv[m], recv[n]) \in Nat /\ Smaller(held[m], recv[n]) \in Nat
    BY <1>0, <1>1, Zenon DEF Smaller
  <2>2. recv' \in [Nodes -> Nat] /\ held' \in [Nodes -> Nat] /\ match' \in [Nodes -> Nat]
    BY <1>1, <1>4, <2>1
  <2>3. termStart' \in Nat /\ leader' \in Nodes /\ known' \in [Nodes -> Nat]
        /\ saved' \in [Nodes -> Nat]
    BY <1>0, <1>1, <1>4
  <2> QED  BY <1>2, <2>2, <2>3, Zenon DEF Numbers
<1>6. ASSUME NEW m \in Nodes
      PROVE  InOrder(m)'
  <2>1. /\ held[m] \in Nat /\ recv[m] \in Nat /\ Boot <= held[m] /\ held[m] <= recv[m]
    BY <1>0, Zenon DEF InOrder
  <2>2. /\ match'[m] = 0 /\ held'[m] = Smaller(held[m], recv[n])
        /\ recv'[m] = IF m = n THEN recv[n] + 1 ELSE Smaller(recv[m], recv[n])
    BY <1>4, Zenon
  <2>3. 0 <= Smaller(held[m], recv[n]) /\ Boot <= Smaller(held[m], recv[n])
    BY <1>0, <1>1, <2>1 DEF Smaller
  <2>4. /\ Smaller(held[m], recv[n]) <= Smaller(recv[m], recv[n])
        /\ Smaller(held[m], recv[n]) <= recv[n] + 1 /\ Smaller(recv[m], recv[n]) <= recv[n] + 1
    BY <1>1, <2>1 DEF Smaller
  <2>5. held'[m] <= recv'[m] /\ recv'[m] <= recv[n] + 1
    BY <1>1, <2>2, <2>4
  <2> QED  BY <1>3, <2>2, <2>3, <2>5, Zenon DEF InOrder
<1> QED  BY <1>5, <1>6, Zenon

\* So does ProposeConfChange, which only makes the leader's log longer.
LEMMA ProposalKeeps ==
  ASSUME Inv, NEW cc \in Entries, ProposeConfChange(cc)
  PROVE  Inv'
<1> USE DEF Inv
<1>0. /\ recv \in [Nodes -> Nat] /\ held \in [Nodes -> Nat] /\ log \in Seq(Entries)
      /\ Len(log) \in Nat /\ Boot \in Nat /\ LastIndex = Boot + Len(log) /\ LastIndex \in Nat
      /\ leader \in Nodes
  BY LogLength, BootType, Zenon DEF Numbers, ProposeConfChange
<1>1. log' \in Seq(Entries) /\ Len(log') = Len(log) + 1
  <2>1. PICK e \in Entries : log' = Append(log, e)
    <3>1. Normal \in Entries
      BY DEF Entries
    <3> QED  BY <3>1, Zenon DEF ProposeConfChange
  <2> HIDE DEF Entries
  <2> QED  BY <1>0, <2>1, AppendProperties, Zenon
<1>2. LastIndex' = LastIndex + 1
  BY <1>0, <1>1 DEF LastIndex
<1>3. recv' = Set(recv, leader, LastIndex + 1)
      /\ UNCHANGED <<match, known, held, saved, termStart, leader>>
  BY Zenon DEF ProposeConfChange, disk
<1>4. Numbers'
  BY <1>0, <1>1, <1>3 DEF Numbers, Set
<1>5. ASSUME NEW m \in Nodes
      PROVE  InOrder(m)'
  <2>1. /\ held[m] \in Nat /\ recv[m] \in Nat /\ match[m] <= held[m] /\ Boot <= held[m]
        /\ held[m] <= recv[m] /\ recv[m] <= LastIndex
    BY <1>0, Zenon DEF InOrder
  <2>2. recv'[m] = IF m = leader THEN LastIndex + 1 ELSE recv[m]
    BY <1>0, <1>3, Zenon DEF Set
  <2>3. held[m] <= recv'[m] /\ recv'[m] <= LastIndex + 1
    BY <1>0, <2>1, <2>2
  <2> QED  BY <1>2, <1>3, <2>1, <2>3, Zenon DEF InOrder
<1> QED  BY <1>4, <1>5, Zenon

\* So do messages, crashes, which leave the disk alone, and restarts, which read it.
LEMMA RestKeeps ==
  ASSUME Inv, NEW n \in Nodes,
         SendAppend(n) \/ Crash(n) \/ (\E flag \in LaterPeers : Restart(n, flag))
  PROVE  Inv'
<1> USE DEF Inv
<1>0. /\ recv \in [Nodes -> Nat] /\ known \in [Nodes -> Nat] /\ held \in [Nodes -> Nat]
      /\ saved \in [Nodes -> Nat] /\ LastIndex \in Nat
  BY LogLength, Zenon DEF Numbers
<1>1. UNCHANGED <<log, termStart, match, held, saved>> /\ leader' \in {leader, None}
  BY Zenon DEF SendAppend, Crash, ProcessGone, Restart, cluster, disk
<1>2. ASSUME NEW r \in Nat, NEW k \in Nat, recv' = Set(recv, n, r), known' = Set(known, n, k),
             held[n] <= r, r <= LastIndex
      PROVE  Inv'
  <2>1. Numbers'
    BY <1>0, <1>1, <1>2, Zenon DEF Numbers, Set
  <2>2. LastIndex' = LastIndex /\ \A m \in Nodes : recv'[m] = IF m = n THEN r ELSE recv[m]
    BY <1>0, <1>1, <1>2, Zenon DEF LastIndex, Set
  <2>3. \A m \in Nodes : InOrder(m)'
    BY <1>1, <1>2, <2>2, Zenon DEF InOrder
  <2> QED  BY <2>1, <2>3, Zenon
<1>3. /\ held[n] \in Nat /\ recv[n] \in Nat /\ saved[n] \in Nat /\ known[n] \in Nat
      /\ held[n] <= recv[n] /\ recv[n] <= LastIndex
  BY <1>0, Zenon DEF InOrder
<1>4. CASE SendAppend(n)
  <2>1. leader \in Nodes /\ held[leader] \in Nat /\ saved[leader] \in Nat
    BY <1>0, <1>4, Zenon DEF SendAppend, Numbers
  <2>2. held[leader] <= LastIndex
    <3>1. held[leader] <= recv[leader] /\ recv[leader] <= LastIndex /\ recv[leader] \in Nat
      BY <1>0, <2>1, Zenon DEF InOrder
    <3> QED  BY <1>0, <2>1, <3>1
  <2>3. /\ Larger(recv[n], held[leader]) \in Nat /\ Larger(known[n], saved[leader]) \in Nat
        /\ held[n] <= Larger(recv[n], held[leader]) /\ Larger(recv[n], held[leader]) <= LastIndex
    BY <1>3, <2>1, <2>2 DEF Larger
  <2> QED  BY <1>2, <1>4, <2>3, Zenon DEF SendAppend
<1>5. CASE Crash(n)
  <2>1. recv' = Set(recv, n, held[n]) /\ known' = Set(known, n, saved[n])
    BY <1>5, Zenon DEF Crash, ProcessGone
  <2>2. held[n] <= held[n] /\ held[n] <= LastIndex
    BY <1>0, <1>3
  <2> QED  BY <1>2, <1>3, <2>1, <2>2, Zenon
<1>6. CASE \E flag \in LaterPeers : Restart(n, flag)
  <2>1. UNCHANGED <<recv, known, leader>>
    BY <1>6, Zenon DEF Restart, cluster
  <2>2. LastIndex' = LastIndex
    BY <1>1, Zenon DEF LastIndex
  <2> QED  BY <1>1, <2>1, <2>2, Zenon DEF Numbers, InOrder
<1> QED  BY <1>4, <1>5, <1>6, Zenon

\* Every step keeps the order.
LEMMA InvNext == Inv /\ [Next]_vars => Inv'
<1> SUFFICES ASSUME Inv, [Next]_vars
             PROVE  Inv'
  BY Zenon
<1>1. CASE \E n \in Nodes : HandleReady(n) \/ SendAppend(n) \/ Election(n) \/ Crash(n)
  BY <1>1, HandleReadyKeeps, ElectionKeeps, RestKeeps, Zenon
<1>2. CASE \E n \in Nodes, flag \in LaterPeers : Restart(n, flag)
  BY <1>2, RestKeeps, Zenon
<1>3. ASSUME NEW m \in Nodes, AddLearner(m) \/ Promote(m) \/ RemoveNode(m)
      PROVE  Inv'
  <2>1. /\ Change("AddLearner", m, AsAddress(m)) \in Entries
        /\ Change("AddNode", m, AsAddress(m)) \in Entries
        /\ Change("RemoveNode", m, NoAddress) \in Entries
    BY DEF Entries
  <2> QED  BY <1>3, <2>1, ProposalKeeps, Zenon DEF AddLearner, Promote, RemoveNode
<1>4. ASSUME NEW m \in Nodes, TransferLeader(m)
      PROVE  Inv'
  BY <1>4, ElectionKeeps, Zenon DEF TransferLeader
<1>5. CASE UNCHANGED vars
  BY <1>5, Zenon DEF vars, cluster, library, disk, Inv, Numbers, InOrder, LastIndex
<1> QED  BY <1>1, <1>2, <1>3, <1>4, <1>5, Zenon DEF Next, Admin
----------------------------------------------------------------------------
(* The configuration that the entries of a log make. *)

\* What a conf change in the log can be: one that adds a node names an address, since the
\* admin service puts the node's name into the Context.
LEMMA EntryKinds ==
  ASSUME NEW e \in Entries
  PROVE  /\ e.type \in {"Normal", "AddNode", "AddLearner", "RemoveNode"}
         /\ e.type = "Normal" => e.node = None
         /\ e.type # "Normal" => e.node \in Nodes
         /\ e.type \in {"AddNode", "AddLearner"} => e.context # NoAddress
         /\ e.type = "RemoveNode" => e.context = NoAddress
<1>1. \A m : AsAddress(m) # NoAddress
  <2>1. NoAddress.port = 0
    BY Zenon DEF NoAddress, Address
  <2>2. \A m : AsAddress(m).port = 80
    BY Zenon DEF AsAddress, Address, HttpPort
  <2> QED  BY <2>1, <2>2
<1>2. CASE e = Normal
  BY <1>2 DEF Normal, Change
<1>3. ASSUME NEW m \in Nodes, NEW type \in {"AddNode", "AddLearner"},
             e = Change(type, m, AsAddress(m))
      PROVE  e.type = type /\ e.node = m /\ e.context # NoAddress
  BY <1>1, <1>3, Zenon DEF Change
<1>4. ASSUME NEW m \in Nodes, e = Change("RemoveNode", m, NoAddress)
      PROVE  e.type = "RemoveNode" /\ e.node = m /\ e.context = NoAddress
  BY <1>4, Zenon DEF Change
<1> QED  BY <1>2, <1>3, <1>4 DEF Entries

\* What an election and the three calls of the admin service put into the log.
LEMMA EntriesMade ==
  /\ Normal \in Entries
  /\ \A m \in Nodes : /\ Change("AddLearner", m, AsAddress(m)) \in Entries
                       /\ Change("AddNode", m, AsAddress(m)) \in Entries
                       /\ Change("RemoveNode", m, NoAddress) \in Entries
BY DEF Entries

\* Every index above Boot of a log has an entry.
LEMMA EntryInLog ==
  ASSUME NEW l \in Seq(Entries), NEW i \in Boot + 1 .. Boot + Len(l)
  PROVE  At(l, i) \in Entries
<1> HIDE DEF Entries
<1>1. i - Boot \in 1 .. Len(l)
  BY BootType, LenProperties
<1> QED  BY <1>1, ElementOfSeq, Zenon DEF At

\* Above no entry, the configuration is that of the flag of the first start.
LEMMA ConfigStart ==
  ASSUME NEW l
  PROVE  VotersAt(l, Boot) = Initial /\ LearnersAt(l, Boot) = {}
<1>1. Boot + 1 .. Boot = {}
  BY BootType
<1>2. Initial \subseteq Nodes
  BY ConstantsAssumption, Zenon
<1> QED  BY <1>1, <1>2, Zenon DEF VotersAt, LearnersAt, LastNaming

\* One entry more is the last to name its node and changes nothing for another one.
LEMMA NamingStep ==
  ASSUME NEW l, NEW i \in Nat, Boot <= i, NEW m, NEW type
  PROVE  LastNaming(l, i + 1, m, type)
           <=> IF At(l, i + 1).node = m THEN At(l, i + 1).type = type
               ELSE LastNaming(l, i, m, type)
<1>1. \A j \in Boot + 1 .. i : i + 1 \in j + 1 .. i + 1
  BY BootType
<1>2. i + 1 \in Boot + 1 .. i + 1 /\ (i + 1) + 1 .. i + 1 = {}
  BY BootType
<1>3. \A j : j \in Boot + 1 .. i + 1 <=> j \in Boot + 1 .. i \/ j = i + 1
  BY BootType
<1>4. \A j \in Boot + 1 .. i : \A k : k \in j + 1 .. i + 1 <=> k \in j + 1 .. i \/ k = i + 1
  BY BootType
<1>5. CASE At(l, i + 1).node = m
  BY <1>1, <1>2, <1>3, <1>5, Zenon DEF LastNaming
<1>6. CASE At(l, i + 1).node # m
  BY <1>3, <1>4, <1>6, Zenon DEF LastNaming
<1> QED  BY <1>5, <1>6, Zenon

\* The entries one by one make the configuration: ApplyConfChange.
LEMMA ConfigStep ==
  ASSUME NEW l \in Seq(Entries), NEW i \in Nat, Boot <= i, i < Boot + Len(l)
  PROVE  /\ VotersAt(l, i + 1) = VotersAfter(VotersAt(l, i), At(l, i + 1))
         /\ LearnersAt(l, i + 1) = LearnersAfter(LearnersAt(l, i), At(l, i + 1))
<1> DEFINE e == At(l, i + 1)
<1>1. e \in Entries
  <2>1. i + 1 \in Boot + 1 .. Boot + Len(l)
    BY BootType, LenProperties
  <2> QED  BY <2>1, EntryInLog, Zenon
<1>2. /\ e.type \in {"Normal", "AddNode", "AddLearner", "RemoveNode"}
      /\ e.type = "Normal" => e.node = None
      /\ e.type # "Normal" => e.node \in Nodes
  BY <1>1, EntryKinds, Zenon
<1>3. None \notin Nodes
  BY ConstantsAssumption, Zenon
<1>4. \A m, type : LastNaming(l, i + 1, m, type)
        <=> IF e.node = m THEN e.type = type ELSE LastNaming(l, i, m, type)
  BY NamingStep, Zenon
<1>5. \A m : (\A j \in Boot + 1 .. i + 1 : At(l, j).node # m)
        <=> e.node # m /\ \A j \in Boot + 1 .. i : At(l, j).node # m
  <2>1. \A j : j \in Boot + 1 .. i + 1 <=> j \in Boot + 1 .. i \/ j = i + 1
    BY BootType
  <2> QED  BY <2>1, Zenon
<1> HIDE DEF e
<1>6. VotersAt(l, i + 1) = VotersAfter(VotersAt(l, i), e)
  <2>1. \A m : m \in VotersAt(l, i + 1) <=>
          m \in Nodes /\ IF e.node = m THEN e.type = "AddNode" ELSE m \in VotersAt(l, i)
    BY <1>4, <1>5, Zenon DEF VotersAt
  <2>2. VotersAt(l, i) \subseteq Nodes
    BY Zenon DEF VotersAt
  <2>3. \A m : m \in VotersAfter(VotersAt(l, i), e) <=>
          \/ e.type = "Normal" /\ m \in VotersAt(l, i)
          \/ e.type = "AddNode" /\ (m \in VotersAt(l, i) \/ m = e.node)
          \/ e.type \in {"AddLearner", "RemoveNode"} /\ m \in VotersAt(l, i) /\ m # e.node
    BY <1>2 DEF VotersAfter
  <2> QED  BY <1>2, <1>3, <2>1, <2>2, <2>3
<1>7. LearnersAt(l, i + 1) = LearnersAfter(LearnersAt(l, i), e)
  <2>1. \A m : m \in LearnersAt(l, i + 1) <=>
          m \in Nodes /\ IF e.node = m THEN e.type = "AddLearner" ELSE m \in LearnersAt(l, i)
    BY <1>4, Zenon DEF LearnersAt
  <2>2. LearnersAt(l, i) \subseteq Nodes
    BY Zenon DEF LearnersAt
  <2>3. \A m : m \in LearnersAfter(LearnersAt(l, i), e) <=>
          \/ e.type = "Normal" /\ m \in LearnersAt(l, i)
          \/ e.type = "AddLearner" /\ (m \in LearnersAt(l, i) \/ m = e.node)
          \/ e.type \in {"AddNode", "RemoveNode"} /\ m \in LearnersAt(l, i) /\ m # e.node
    BY <1>2 DEF LearnersAfter
  <2> QED  BY <1>2, <1>3, <2>1, <2>2, <2>3
<1> QED  BY <1>6, <1>7, Zenon DEF e

\* Two logs that agree up to an index make the same configuration there.
LEMMA SamePrefix ==
  ASSUME NEW l1, NEW l2, NEW i \in Nat, \A j \in Boot + 1 .. i : At(l1, j) = At(l2, j)
  PROVE  VotersAt(l1, i) = VotersAt(l2, i) /\ LearnersAt(l1, i) = LearnersAt(l2, i)
<1>1. \A j \in Boot + 1 .. i : \A k \in j + 1 .. i : k \in Boot + 1 .. i
  BY BootType
<1>2. \A m, type : LastNaming(l1, i, m, type) <=> LastNaming(l2, i, m, type)
  BY <1>1, Zenon DEF LastNaming
<1> QED  BY <1>2, Zenon DEF VotersAt, LearnersAt

\* Entries that are no conf changes leave the voters alone.
LEMMA NoChangeBetween ==
  ASSUME NEW l \in Seq(Entries), NEW i \in Nat, NEW j \in Nat,
         Boot <= i, i <= j, j <= Boot + Len(l), Unchanged(l, i, j)
  PROVE  VotersAt(l, i) = VotersAt(l, j)
<1>1. \A k \in i + 1 .. j : At(l, k).type = "Normal" /\ At(l, k).node = None
  <2> SUFFICES ASSUME NEW k \in i + 1 .. j
               PROVE  At(l, k).type = "Normal" /\ At(l, k).node = None
    BY Zenon
  <2>1. k \in Boot + 1 .. Boot + Len(l)
    BY BootType, LenProperties
  <2>2. At(l, k).type = "Normal"
    BY <2>1, Zenon DEF Unchanged, IsChange
  <2> QED  BY <2>1, <2>2, EntryInLog, EntryKinds, Zenon
<1>2. \A k : k \in Boot + 1 .. j <=> k \in Boot + 1 .. i \/ k \in i + 1 .. j
  BY BootType
<1>3. \A p \in Boot + 1 .. i : \A k : k \in p + 1 .. j <=> k \in p + 1 .. i \/ k \in i + 1 .. j
  BY BootType
<1>4. \A m \in Nodes : LastNaming(l, i, m, "AddNode") <=> LastNaming(l, j, m, "AddNode")
  <2>1. None \notin Nodes
    BY ConstantsAssumption, Zenon
  <2> QED  BY <1>1, <1>2, <1>3, <2>1, Zenon DEF LastNaming
<1>5. \A m \in Nodes : (\A k \in Boot + 1 .. i : At(l, k).node # m)
                         <=> \A k \in Boot + 1 .. j : At(l, k).node # m
  BY <1>1, <1>2, ConstantsAssumption, Zenon
<1> QED  BY <1>4, <1>5, Zenon DEF VotersAt

\* At most one conf change makes at most one voter more or less.
LEMMA CloseConfigs ==
  ASSUME NEW l \in Seq(Entries), NEW i \in Nat, NEW j \in Nat,
         Boot <= i, i <= j, j <= Boot + Len(l), AtMostOneChange(l, i, j)
  PROVE  OneApart(VotersAt(l, i), VotersAt(l, j))
<1>1. CASE Unchanged(l, i, j)
  <2>1. VotersAt(l, j) = VotersAt(l, i)
    BY <1>1, NoChangeBetween, Zenon
  <2> QED  BY <2>1, Zenon DEF OneApart
<1>2. CASE ~ Unchanged(l, i, j)
  <2>1. PICK c \in i + 1 .. j : IsChange(l, c)
    BY <1>2, Zenon DEF Unchanged
  <2>2. /\ c - 1 \in Nat /\ c \in Nat /\ Boot <= c - 1 /\ i <= c - 1 /\ c - 1 <= Boot + Len(l)
        /\ c - 1 < Boot + Len(l) /\ (c - 1) + 1 = c /\ Boot <= c /\ c <= j
    BY BootType, LenProperties
  <2>3. Unchanged(l, i, c - 1)
    <3>1. \A d \in i + 1 .. c - 1 : d \in i + 1 .. j /\ d # c
      BY <2>2
    <3> QED  BY <2>1, <3>1, Zenon DEF Unchanged, AtMostOneChange
  <2>4. Unchanged(l, c, j)
    <3>1. \A d \in c + 1 .. j : d \in i + 1 .. j /\ d # c
      BY <2>2
    <3> QED  BY <2>1, <3>1, Zenon DEF Unchanged, AtMostOneChange
  <2>5. VotersAt(l, i) = VotersAt(l, c - 1) /\ VotersAt(l, c) = VotersAt(l, j)
    BY <2>2, <2>3, <2>4, NoChangeBetween, Zenon
  <2>6. VotersAt(l, c) = VotersAfter(VotersAt(l, c - 1), At(l, c))
    <3>1. VotersAt(l, (c - 1) + 1) = VotersAfter(VotersAt(l, c - 1), At(l, (c - 1) + 1))
      BY <2>2, ConfigStep, Zenon
    <3> QED  BY <2>2, <3>1, Zenon
  <2> HIDE DEF At
  <2>7. \A v, e : VotersAfter(v, e) \in {v, v \cup {e.node}, v \ {e.node}}
    BY DEF VotersAfter
  <2>8. VotersAt(l, j) = VotersAfter(VotersAt(l, i), At(l, c))
    BY <2>5, <2>6, Zenon
  <2> DEFINE x == At(l, c).node
             v == VotersAt(l, i)
  <2>9. VotersAt(l, j) \in {v, v \cup {x}, v \ {x}}
    BY <2>7, <2>8, Zenon
  <2> HIDE DEF x, v
  <2>10. OneApart(v, VotersAt(l, j))
    BY <2>9, Zenon DEF OneApart
  <2> QED  BY <2>10, Zenon DEF v
<1> QED  BY <1>1, <1>2, Zenon

\* So majorities of the two have a voter in common.
LEMMA CloseMajorities ==
  ASSUME NEW l \in Seq(Entries), NEW i \in Nat, NEW j \in Nat, NEW k \in Nat,
         Boot <= i, Boot <= j, i <= k, j <= k, k <= Boot + Len(l),
         AtMostOneChange(l, i, k), AtMostOneChange(l, j, k),
         NEW p, NEW q, Majority(p, VotersAt(l, i)), Majority(q, VotersAt(l, j))
  PROVE  p \cap q # {}
<1>1. \A x : VotersAt(l, x) \in SUBSET Nodes
  BY Zenon DEF VotersAt
<1>2. CASE i <= j
  <2>1. j <= Boot + Len(l) /\ \A d \in i + 1 .. j : d \in i + 1 .. k
    BY BootType, LenProperties
  <2>2. AtMostOneChange(l, i, j)
    BY <2>1, Zenon DEF AtMostOneChange
  <2>3. OneApart(VotersAt(l, i), VotersAt(l, j))
    BY <1>2, <2>1, <2>2, CloseConfigs, Zenon
  <2> QED  BY <1>1, <2>3, Overlap, Zenon
<1>3. CASE j <= i
  <2>1. i <= Boot + Len(l) /\ \A d \in j + 1 .. i : d \in j + 1 .. k
    BY BootType, LenProperties
  <2>2. AtMostOneChange(l, j, i)
    BY <2>1, Zenon DEF AtMostOneChange
  <2>3. OneApart(VotersAt(l, j), VotersAt(l, i))
    BY <1>3, <2>1, <2>2, CloseConfigs, Zenon
  <2>4. q \cap p # {}
    BY <1>1, <2>3, Overlap, Zenon
  <2> QED  BY <2>4, Zenon
<1> QED  BY <1>2, <1>3

\* A node is not both a voter and a learner.
LEMMA NeverBoth ==
  ASSUME NEW l, NEW i \in Nat
  PROVE  VotersAt(l, i) \cap LearnersAt(l, i) = {}
<1> SUFFICES ASSUME NEW m \in VotersAt(l, i), m \in LearnersAt(l, i)
             PROVE  FALSE
  BY Zenon
<1>1. PICK j \in Boot + 1 .. i :
        At(l, j).type = "AddLearner" /\ At(l, j).node = m /\ \A k \in j + 1 .. i : At(l, k).node # m
  BY Zenon DEF LearnersAt, LastNaming
<1>2. PICK h \in Boot + 1 .. i :
        At(l, h).type = "AddNode" /\ At(l, h).node = m /\ \A k \in h + 1 .. i : At(l, k).node # m
  BY <1>1, Zenon DEF VotersAt, LastNaming
<1>3. h # j
  BY <1>1, <1>2
<1>4. h \in j + 1 .. i \/ j \in h + 1 .. i
  BY <1>3, BootType
<1> QED  BY <1>1, <1>2, <1>4, Zenon
----------------------------------------------------------------------------
(* The loop over the committed entries. *)

\* The loop comes to an end: there is a function of its states, one for every entry.
LEMMA LoopExists ==
  ASSUME NEW a \in Nat, NEW k \in Nat, a <= k, NEW n, NEW start
  PROVE  \E f : IsLoop(f, n, start, a, k)
<1> DEFINE S == {j \in a .. k : ~ \E f : IsLoop(f, n, start, a, j)}
<1>1. CASE S = {}
  <2>1. k \in a .. k
    OBVIOUS
  <2> QED  BY <1>1, <2>1, Zenon
<1>2. CASE S # {}
  <2>1. S \in SUBSET Nat
    OBVIOUS
  <2>2. PICK j \in S : \A i \in S : j <= i
    <3> HIDE DEF S
    <3> QED  BY <1>2, <2>1, LeastIndex, Zenon
  <2>3. CASE j = a
    <3> DEFINE g == [i \in a .. a |-> start]
    <3>1. \A i \in a .. a : i = a
      OBVIOUS
    <3>2. IsLoop(g, n, start, a, a)
      BY <3>1, Zenon DEF IsLoop
    <3> QED  BY <2>2, <2>3, <3>2, Zenon
  <2>4. CASE j # a
    <3>1. j \in Nat /\ j - 1 \in a .. k /\ ~ (j <= j - 1) /\ j \in a .. k
      BY <2>2, <2>4
    <3>2. PICK g : IsLoop(g, n, start, a, j - 1)
      BY <2>2, <3>1, Zenon
    <3> DEFINE h == [i \in a .. j |-> IF i = j THEN ApplyEntry(g[j - 1], EntryAt(n, j)) ELSE g[i]]
    <3>3. ASSUME NEW i \in a .. j
          PROVE  h[i] = IF i = a THEN start ELSE ApplyEntry(h[i - 1], EntryAt(n, i))
      <4>1. CASE i = a
        <5>1. a \in a .. j - 1 /\ a \in a .. j
          BY <3>1
        <5> QED  BY <2>4, <3>2, <4>1, <5>1, Zenon DEF IsLoop
      <4>2. CASE i # a
        <5>1. i - 1 \in a .. j - 1 /\ i - 1 \in a .. j /\ i - 1 # j
          BY <3>1, <4>2
        <5>2. h[i - 1] = g[i - 1]
          BY <5>1, Zenon
        <5>3. CASE i = j
          BY <4>2, <5>2, <5>3, Zenon
        <5>4. CASE i # j
          <6>1. i \in a .. j - 1
            BY <3>1, <5>4
          <6>2. g[i] = ApplyEntry(g[i - 1], EntryAt(n, i))
            BY <3>2, <4>2, <6>1, Zenon DEF IsLoop
          <6> QED  BY <4>2, <5>2, <5>4, <6>2, Zenon
        <5> QED  BY <5>3, <5>4, Zenon
      <4> QED  BY <4>1, <4>2, Zenon
    <3>4. IsLoop(h, n, start, a, j)
      BY <3>3, Zenon DEF IsLoop
    <3> QED  BY <2>2, <3>4, Zenon
  <2> QED  BY <2>3, <2>4, Zenon
<1> QED  BY <1>1, <1>2, Zenon

\* The entries that StartNode made name the initial peers, one each.
LEMMA BootVoters ==
  ASSUME NEW n \in Nodes
  PROVE  {BootOrder[n][j] : j \in 1 .. Boot} = Initial /\ 0 < Boot
<1>1. BootOrder[n] \in Bijection(1 .. Boot, Initial)
  BY ConstantsAssumption, Zenon
<1>2. {BootOrder[n][j] : j \in 1 .. Boot} = Initial
  BY <1>1, Zenon DEF Bijection, Surjection
<1>3. 0 < Boot
  <2>1. Boot # 0
    <3>1. IsFiniteSet(Initial) /\ Initial # {}
      BY ConstantsAssumption, FS_Subset, Zenon
    <3> QED  BY <3>1, FS_EmptySet, Zenon DEF Boot
  <2> QED  BY <2>1, BootType
<1> QED  BY <1>2, <1>3, Zenon

\* ApplyConfChange takes a server from the configuration of one index to that of the next,
\* through the entries of its own StartNode and then through those of the log.
LEMMA OwnStep ==
  ASSUME log \in Seq(Entries), NEW n \in Nodes, NEW i \in Nat, i < LastIndex
  PROVE  /\ OwnVoters(n, i + 1) = VotersAfter(OwnVoters(n, i), EntryAt(n, i + 1))
         /\ OwnLearners(n, i + 1) = LearnersAfter(OwnLearners(n, i), EntryAt(n, i + 1))
<1>0. Boot \in Nat /\ Len(log) \in Nat /\ LastIndex = Boot + Len(log)
  BY BootType, LogLength, Zenon
<1>1. CASE i < Boot
  <2> DEFINE x == BootOrder[n][i + 1]
  <2>1. EntryAt(n, i + 1).type = "AddNode" /\ EntryAt(n, i + 1).node = x
    <3>1. i + 1 <= Boot
      BY <1>0, <1>1
    <3> QED  BY <3>1, Zenon DEF EntryAt, Change
  <2>2. OwnVoters(n, i) = {BootOrder[n][j] : j \in 1 .. i} /\ OwnLearners(n, i) = {}
    BY <1>1, Zenon DEF OwnVoters, OwnLearners
  <2>3. OwnVoters(n, i + 1) = {BootOrder[n][j] : j \in 1 .. i + 1} /\ OwnLearners(n, i + 1) = {}
    <3>1. CASE i + 1 < Boot
      BY <3>1, Zenon DEF OwnVoters, OwnLearners
    <3>2. CASE i + 1 = Boot
      <4>1. ~ (i + 1 < Boot)
        BY <1>0, <3>2
      <4> QED  BY <3>2, <4>1, ConfigStart, BootVoters, Zenon DEF OwnVoters, OwnLearners
    <3> QED  BY <1>0, <1>1, <3>1, <3>2
  <2>4. {BootOrder[n][j] : j \in 1 .. i + 1} = {BootOrder[n][j] : j \in 1 .. i} \cup {x}
    <3>1. \A j : j \in 1 .. i + 1 <=> j \in 1 .. i \/ j = i + 1
      OBVIOUS
    <3> QED  BY <3>1, Zenon
  <2> HIDE DEF x
  <2>5. \A v : VotersAfter(v, EntryAt(n, i + 1)) = v \cup {x}
    BY <2>1, Zenon DEF VotersAfter
  <2>6. LearnersAfter({}, EntryAt(n, i + 1)) = {}
    BY <2>1 DEF LearnersAfter
  <2> QED  BY <2>2, <2>3, <2>4, <2>5, <2>6, Zenon
<1>2. CASE Boot <= i
  <2>1. ~ (i < Boot) /\ ~ (i + 1 < Boot) /\ ~ (i + 1 <= Boot)
    BY <1>0, <1>2
  <2>2. EntryAt(n, i + 1) = At(log, i + 1)
    BY <2>1, Zenon DEF EntryAt, At
  <2> QED  BY <1>0, <1>2, <2>1, <2>2, ConfigStep, Zenon DEF OwnVoters, OwnLearners
<1> QED  BY <1>0, <1>1, <1>2

\* One round of the loop keeps the configuration and the peers in step: applyEntry adds a
\* peer for a node that the library adds, and takes away only one that it removes.
LEMMA LoopStep ==
  ASSUME log \in Seq(Entries), NEW n \in Nodes, NEW i \in Nat, i < LastIndex,
         NEW s, LoopAt(n, i, s)
  PROVE  LoopAt(n, i + 1, ApplyEntry(s, EntryAt(n, i + 1)))
<1> DEFINE e == EntryAt(n, i + 1)
           t == ApplyEntry(s, e)
<1>0. Boot \in Nat /\ Len(log) \in Nat /\ LastIndex = Boot + Len(log)
  BY BootType, LogLength, Zenon
<1>1. InTouch(log, n, i, s.voters \cup s.learners, s.peers)
  BY Zenon DEF LoopAt
<1>2. /\ VotersAfter(s.voters, e) = OwnVoters(n, i + 1)
      /\ LearnersAfter(s.learners, e) = OwnLearners(n, i + 1)
  BY OwnStep, Zenon DEF LoopAt
<1>3. CASE i < Boot
  <2>1. i + 1 <= Boot /\ Boot + 1 .. i = {} /\ Boot + 1 .. i + 1 = {}
    BY <1>0, <1>3
  <2>2. e.type = "AddNode" /\ e.node = BootOrder[n][i + 1] /\ e.context = NoAddress
    BY <2>1, Zenon DEF EntryAt, Change
  <2>3. e.node \in Initial
    <3>1. i + 1 \in 1 .. Boot
      BY <1>0, <2>1
    <3> QED  BY <2>2, <3>1, BootVoters, Zenon
  <2>4. t.voters = VotersAfter(s.voters, e) /\ t.learners = LearnersAfter(s.learners, e)
        /\ t.peers = s.peers
    <3> HIDE DEF e
    <3> QED  BY <2>2 DEF ApplyEntry
  <2>5. t.voters = s.voters \cup {e.node} /\ t.learners \subseteq s.learners
    <3> HIDE DEF e, t
    <3> QED  BY <2>2, <2>4 DEF VotersAfter, LearnersAfter
  <2>6. \A m : ~ Removed(log, i, m)
    BY <2>1, Zenon DEF Removed
  <2> HIDE DEF e, t
  <2>7. InTouch(log, n, i + 1, t.voters \cup t.learners, t.peers)
    BY <1>1, <1>3, <2>3, <2>4, <2>5, <2>6, Zenon DEF InTouch
  <2> QED  BY <1>2, <2>4, <2>7, Zenon DEF LoopAt, t, e
<1>4. CASE Boot <= i
  <2>1. i + 1 \in Boot + 1 .. Boot + Len(log) /\ ~ (i + 1 <= Boot) /\ ~ (i + 1 < Boot)
    BY <1>0, <1>4
  <2>2. e = At(log, i + 1) /\ e \in Entries
    BY <2>1, EntryInLog, Zenon DEF EntryAt, At
  <2>3. /\ e.type \in {"Normal", "AddNode", "AddLearner", "RemoveNode"}
        /\ e.type # "Normal" => e.node \in Nodes
        /\ e.type \in {"AddNode", "AddLearner"} => e.context # NoAddress
        /\ e.type = "RemoveNode" => e.context = NoAddress
    BY <2>2, EntryKinds, Zenon
  <2>4. \A m : Removed(log, i + 1, m) <=>
                 Removed(log, i, m) \/ (e.type = "RemoveNode" /\ e.node = m)
    <3>1. \A j : j \in Boot + 1 .. i + 1 <=> j \in Boot + 1 .. i \/ j = i + 1
      BY <1>0, <1>4
    <3> QED  BY <2>2, <3>1, Zenon DEF Removed
  <2> HIDE DEF e
  <2>5. t.voters = VotersAfter(s.voters, e) /\ t.learners = LearnersAfter(s.learners, e)
    <3>1. CASE e.type = "Normal"
      BY <3>1 DEF ApplyEntry, VotersAfter, LearnersAfter
    <3>2. CASE e.type # "Normal"
      BY <3>2, Zenon DEF ApplyEntry
    <3> QED  BY <3>1, <3>2, Zenon
  <2>6. InTouch(log, n, i + 1, t.voters \cup t.learners, t.peers)
    <3>1. CASE e.type = "Normal"
      <4>1. t = s
        BY <3>1, Zenon DEF ApplyEntry
      <4> HIDE DEF t
      <4> QED  BY <1>1, <2>1, <2>4, <3>1, <4>1, Zenon DEF InTouch
    <3>2. CASE e.type \in {"AddNode", "AddLearner"}
      <4>1. t.peers = AddPeer(s.peers, e.node, e.context)
        BY <2>3, <3>2 DEF ApplyEntry
      <4>2. t.voters \cup t.learners \subseteq s.voters \cup s.learners \cup {e.node}
        <5> HIDE DEF t
        <5> QED  BY <2>3, <2>5, <3>2 DEF VotersAfter, LearnersAfter
      <4> HIDE DEF t
      <4>3. /\ DOMAIN t.peers = DOMAIN s.peers \cup {e.node}
            /\ \A m \in DOMAIN s.peers : t.peers[m] = s.peers[m]
        BY <4>1, Zenon DEF AddPeer
      <4>4. e.node \in Nodes
        BY <2>3, <3>2
      <4> QED  BY <1>1, <2>1, <2>4, <4>2, <4>3, <4>4, Zenon DEF InTouch
    <3>3. CASE e.type = "RemoveNode"
      <4>1. t.peers = RemovePeer(s.peers, e.node)
        BY <2>3, <3>3 DEF ApplyEntry
      <4>2. t.voters \cup t.learners = (s.voters \cup s.learners) \ {e.node}
        <5> HIDE DEF t
        <5> QED  BY <2>5, <3>3 DEF VotersAfter, LearnersAfter
      <4> HIDE DEF t
      <4>3. /\ DOMAIN t.peers = DOMAIN s.peers \ {e.node}
            /\ \A m \in DOMAIN s.peers \ {e.node} : t.peers[m] = s.peers[m]
        BY <4>1, Zenon DEF RemovePeer
      <4> QED  BY <1>1, <2>1, <2>4, <3>3, <4>2, <4>3, Zenon DEF InTouch
    <3> QED  BY <2>3, <3>1, <3>2, <3>3, Zenon
  <2> QED  BY <1>2, <2>5, <2>6, Zenon DEF LoopAt, e
<1> QED  BY <1>0, <1>3, <1>4

\* So the loop ends with the configuration of all that is committed, and its peers.
LEMMA LoopResult ==
  ASSUME log \in Seq(Entries), NEW n \in Nodes, applied[n] \in Nat, known[n] \in Nat,
         applied[n] <= known[n], known[n] <= LastIndex,
         LoopAt(n, applied[n], [voters |-> voters[n], learners |-> learners[n],
                                peers |-> peers[n], panics |-> FALSE])
  PROVE  LoopAt(n, known[n], ApplyCommitted(n))
<1> DEFINE start == [voters |-> voters[n], learners |-> learners[n], peers |-> peers[n],
                     panics |-> FALSE]
           a == applied[n]
           k == known[n]
<1>1. PICK f : IsLoop(f, n, start, a, k) /\ ApplyCommitted(n) = f[k]
  <2>1. \E f : IsLoop(f, n, start, a, k)
    <3>1. a \in Nat /\ k \in Nat /\ a <= k
      BY Zenon
    <3> HIDE DEF a, k, start
    <3> QED  BY <3>1, LoopExists, Zenon
  <2> QED  BY <2>1, Zenon DEF ApplyCommitted, IsLoop
<1> DEFINE S == {i \in a .. k : ~ LoopAt(n, i, f[i])}
<1>2. CASE S = {}
  <2>1. k \in a .. k
    OBVIOUS
  <2>2. LoopAt(n, k, f[k])
    BY <1>2, <2>1, Zenon
  <2> QED  BY <1>1, <2>2, Zenon
<1>3. CASE S # {}
  <2>1. S \in SUBSET Nat
    OBVIOUS
  <2>2. PICK i \in S : \A j \in S : i <= j
    <3> HIDE DEF S
    <3> QED  BY <1>3, <2>1, LeastIndex, Zenon
  <2>3. i # a
    <3>1. SUFFICES ASSUME i = a
                   PROVE  FALSE
      BY Zenon
    <3>2. f[a] = start
      BY <1>1, <2>2, <3>1, Zenon DEF IsLoop
    <3> QED  BY <2>2, <3>1, <3>2, Zenon
  <2>4. i - 1 \in Nat /\ i - 1 \in a .. k /\ ~ (i <= i - 1) /\ (i - 1) + 1 = i
        /\ i - 1 < LastIndex
    BY <2>2, <2>3, LogLength
  <2>5. LoopAt(n, i - 1, f[i - 1])
    BY <2>2, <2>4, Zenon
  <2>6. f[i] = ApplyEntry(f[i - 1], EntryAt(n, i))
    BY <1>1, <2>2, <2>3, Zenon DEF IsLoop
  <2>7. LoopAt(n, (i - 1) + 1, ApplyEntry(f[i - 1], EntryAt(n, (i - 1) + 1)))
    BY <2>4, <2>5, LoopStep, Zenon
  <2> QED  BY <2>2, <2>4, <2>6, <2>7, Zenon
<1> QED  BY <1>2, <1>3, Zenon
----------------------------------------------------------------------------
(* What a step of the log leaves as it was. *)

\* An election and a proposal keep the entries up to an index and add one.
LEMMA LogFollows ==
  ASSUME NEW l \in Seq(Entries), NEW k \in Nat, Boot <= k, k <= Boot + Len(l),
         NEW e \in Entries, NEW l2, l2 = Append(SubSeq(l, 1, k - Boot), e)
  PROVE  Follows(l2, l, k, e)
<1> DEFINE front == SubSeq(l, 1, k - Boot)
<1>0. Boot \in Nat /\ Len(l) \in Nat
  BY BootType, LenProperties, Zenon
<1>1. k - Boot \in 0 .. Len(l) /\ \A i \in 1 .. k - Boot : l[i] \in Entries
  <2> HIDE DEF Entries
  <2>1. k - Boot \in 0 .. Len(l) /\ \A i \in 1 .. k - Boot : i \in 1 .. Len(l)
    BY <1>0
  <2> QED  BY <2>1, ElementOfSeq, Zenon
<1> HIDE DEF Entries
<1>2. /\ front \in Seq(Entries) /\ Len(front) = k - Boot
      /\ \A i \in 1 .. k - Boot : front[i] = l[i]
  BY <1>0, <1>1, SubSeqProperties
<1> HIDE DEF front
<1>3. /\ l2 \in Seq(Entries) /\ Len(l2) = k - Boot + 1
      /\ \A i \in 1 .. k - Boot : l2[i] = l[i]
      /\ l2[k - Boot + 1] = e
  BY <1>0, <1>1, <1>2, AppendProperties DEF front
<1>4. (\A i \in Boot + 1 .. k : At(l2, i) = At(l, i)) /\ At(l2, k + 1) = e
  <2>1. \A i \in Boot + 1 .. k : i - Boot \in 1 .. k - Boot
    BY <1>0
  <2>2. (k + 1) - Boot = k - Boot + 1
    BY <1>0
  <2> QED  BY <1>3, <2>1, <2>2, Zenon DEF At
<1>5. ASSUME NEW i \in Nat
      PROVE  IsChange(l2, i) <=> (i <= k /\ IsChange(l, i)) \/ (i = k + 1 /\ e.type # "Normal")
  <2>1. i \in Boot + 1 .. Boot + Len(l2) <=> i \in Boot + 1 .. k \/ i = k + 1
    BY <1>0, <1>3
  <2>2. i \in Boot + 1 .. k <=> i <= k /\ i \in Boot + 1 .. Boot + Len(l)
    BY <1>0
  <2>3. ~ (k + 1 <= k)
    BY <1>0
  <2> QED  BY <1>4, <2>1, <2>2, <2>3, Zenon DEF IsChange
<1> QED  BY <1>3, <1>4, <1>5, Zenon DEF Follows

\* The configurations up to there are the same, and so are the removals.
LEMMA ConfigKept ==
  ASSUME NEW l, NEW l2, NEW k \in Nat, NEW e, Follows(l2, l, k, e), NEW i \in Nat, i <= k
  PROVE  SameUpTo(l2, l, i)
<1>1. \A j \in Boot + 1 .. i : At(l2, j) = At(l, j)
  <2>1. \A j \in Boot + 1 .. i : j \in Boot + 1 .. k
    BY BootType
  <2> QED  BY <2>1, Zenon DEF Follows
<1>2. VotersAt(l2, i) = VotersAt(l, i) /\ LearnersAt(l2, i) = LearnersAt(l, i)
  BY <1>1, SamePrefix, Zenon
<1> QED  BY <1>1, <1>2, Zenon DEF Removed, SameUpTo

\* More voters of a configuration are a majority as well.
LEMMA MoreOnDisks ==
  ASSUME NEW v \in SUBSET Nodes, NEW h, NEW h2, NEW i, NEW j,
         \A m \in v : h[m] >= i => h2[m] >= j, OnDisks(h, v, i)
  PROVE  OnDisks(h2, v, j)
<1> DEFINE p == {m \in v : h[m] >= i}
           q == {m \in v : h2[m] >= j}
<1>1. p \subseteq q /\ q \subseteq v /\ IsFiniteSet(v)
  BY ConstantsAssumption, FS_Subset, Zenon
<1> HIDE DEF p, q
<1>2. IsFiniteSet(q) /\ IsFiniteSet(p)
  BY <1>1, FS_Subset, Zenon
<1>3. /\ Cardinality(p) <= Cardinality(q) /\ Cardinality(p) \in Nat /\ Cardinality(q) \in Nat
      /\ Cardinality(v) \in Nat
  BY <1>1, <1>2, FS_Subset, FS_CardinalityType, Zenon
<1>4. 2 * Cardinality(p) > Cardinality(v)
  BY Zenon DEF OnDisks, Majority, p
<1>5. 2 * Cardinality(q) > Cardinality(v)
  BY <1>3, <1>4
<1> QED  BY <1>1, <1>5, Zenon DEF OnDisks, Majority, q

\* What is committed stays so while the log keeps it and no disk loses it.
LEMMA ChosenKept ==
  ASSUME NEW l, NEW h, NEW c \in Nat, ChosenIn(l, h, c), NEW l2, NEW h2,
         h \in [Nodes -> Nat], h2 \in [Nodes -> Nat], \A m \in Nodes : h[m] <= h2[m] \/ c <= h2[m],
         l2 = l \/ \E k \in Nat : Boot <= k /\ c <= k /\ \E e : Follows(l2, l, k, e)
  PROVE  ChosenIn(l2, h2, c)
<1>0. Boot \in Nat
  BY BootType, Zenon
<1>1. /\ c <= Boot + Len(l2)
      /\ \A i \in Nat :
           i <= c => VotersAt(l2, i) = VotersAt(l, i) /\ (IsChange(l2, i) <=> IsChange(l, i))
  <2>1. CASE l2 = l
    BY <2>1, Zenon DEF ChosenIn
  <2>2. ASSUME NEW k \in Nat, NEW e, Follows(l2, l, k, e), Boot <= k, c <= k
        PROVE  c <= Boot + Len(l2) /\ \A i \in Nat : i <= c => VotersAt(l2, i) = VotersAt(l, i)
               /\ (IsChange(l2, i) <=> IsChange(l, i))
    <3>1. Len(l2) = k - Boot + 1
      BY <2>2, Zenon DEF Follows
    <3>2. c <= Boot + Len(l2)
      BY <1>0, <2>2, <3>1
    <3>3. \A i \in Nat : i <= c => i <= k /\ i # k + 1
      BY <2>2
    <3>4. ASSUME NEW i \in Nat, i <= c
          PROVE  VotersAt(l2, i) = VotersAt(l, i) /\ (IsChange(l2, i) <=> IsChange(l, i))
      <4>1. i <= k /\ i # k + 1
        BY <3>3, <3>4, Zenon
      <4>2. SameUpTo(l2, l, i)
        BY <2>2, <4>1, ConfigKept, Zenon
      <4> QED  BY <2>2, <4>1, <4>2, Zenon DEF Follows, SameUpTo
    <3> QED  BY <3>2, <3>4, Zenon
  <2> QED  BY <2>1, <2>2, Zenon
<1>2. ASSUME NEW v \in SUBSET Nodes, NEW i \in Nat, i <= c, OnDisks(h, v, i)
      PROVE  OnDisks(h2, v, i)
  <2>1. \A m \in v : h[m] >= i => h2[m] >= i
    <3> SUFFICES ASSUME NEW m \in v, h[m] >= i
                 PROVE  h2[m] >= i
      BY Zenon
    <3>1. h[m] \in Nat /\ h2[m] \in Nat /\ (h[m] <= h2[m] \/ c <= h2[m])
      BY Zenon
    <3> QED  BY <1>2, <3>1
  <2> QED  BY <1>2, <2>1, MoreOnDisks, Zenon
<1>3. \A x : VotersAt(l, x) \in SUBSET Nodes
  BY Zenon DEF VotersAt
<1>4. \E x \in Boot .. c : AtMostOneChange(l2, x, c) /\ OnDisks(h2, VotersAt(l2, x), c)
  <2>1. PICK x \in Boot .. c : AtMostOneChange(l, x, c) /\ OnDisks(h, VotersAt(l, x), c)
    BY Zenon DEF ChosenIn
  <2>2. x \in Nat /\ x <= c /\ c <= c /\ \A d \in x + 1 .. c : d \in Nat /\ d <= c
    BY <1>0
  <2>3. AtMostOneChange(l2, x, c)
    BY <1>1, <2>1, <2>2, Zenon DEF AtMostOneChange
  <2> QED  BY <1>1, <1>2, <1>3, <2>1, <2>2, <2>3, Zenon
<1>5. ASSUME NEW d \in Boot + 1 .. c, IsChange(l2, d)
      PROVE  OnDisks(h2, VotersAt(l2, d - 1), d)
  <2>1. d \in Nat /\ d <= c /\ d - 1 \in Nat /\ d - 1 <= c
    BY <1>0
  <2>2. OnDisks(h, VotersAt(l, d - 1), d)
    BY <1>1, <1>5, <2>1, Zenon DEF ChosenIn
  <2> QED  BY <1>1, <1>2, <1>3, <2>1, <2>2, Zenon
<1> QED  BY <1>1, <1>4, <1>5, Zenon DEF ChosenIn

\* maybeCommit: more is committed when a majority of the leader's voters has it on disk and
\* the leader has at most one conf change left to apply.
LEMMA ChosenMore ==
  ASSUME NEW l \in Seq(Entries), NEW h, NEW c \in Nat, ChosenIn(l, h, c), h \in [Nodes -> Nat],
         NEW k \in Nat, c < k, k <= Boot + Len(l), NEW a \in Nat, Boot <= a, a <= c,
         AtMostOneChange(l, a, Boot + Len(l)), OnDisks(h, VotersAt(l, a), k)
  PROVE  ChosenIn(l, h, k)
<1>0. Boot \in Nat /\ Len(l) \in Nat
  BY BootType, LenProperties, Zenon
<1>1. AtMostOneChange(l, a, k) /\ a \in Boot .. k
  <2>1. a \in Boot .. k /\ \A d \in a + 1 .. k : d \in a + 1 .. Boot + Len(l)
    BY <1>0
  <2> QED  BY <2>1, Zenon DEF AtMostOneChange
<1>2. ASSUME NEW d \in Boot + 1 .. k, IsChange(l, d)
      PROVE  OnDisks(h, VotersAt(l, d - 1), d)
  <2>1. CASE d <= c
    <3>1. d \in Boot + 1 .. c
      BY <1>0, <2>1
    <3> QED  BY <1>2, <3>1, Zenon DEF ChosenIn
  <2>2. CASE c < d
    <3>1. /\ d \in a + 1 .. Boot + Len(l) /\ d - 1 \in Nat /\ a <= d - 1 /\ d - 1 <= Boot + Len(l)
          /\ \A x \in a + 1 .. d - 1 : x \in a + 1 .. Boot + Len(l) /\ x # d
      BY <1>0, <2>2
    <3>2. Unchanged(l, a, d - 1)
      BY <1>2, <3>1, Zenon DEF AtMostOneChange, Unchanged
    <3>3. VotersAt(l, a) = VotersAt(l, d - 1)
      BY <3>1, <3>2, NoChangeBetween, Zenon
    <3>4. VotersAt(l, a) \in SUBSET Nodes
      BY Zenon DEF VotersAt
    <3>5. \A m \in VotersAt(l, a) : h[m] >= k => h[m] >= d
      <4>1. \A m \in VotersAt(l, a) : h[m] \in Nat
        BY <3>4, Zenon
      <4>2. k \in Nat /\ d \in Nat /\ d <= k
        BY <1>0
      <4> HIDE DEF VotersAt
      <4> QED  BY <4>1, <4>2
    <3>6. OnDisks(h, VotersAt(l, a), d)
      BY <3>4, <3>5, MoreOnDisks, Zenon
    <3> QED  BY <3>3, <3>6, Zenon
  <2>3. d \in Nat
    BY <1>0
  <2> QED  BY <2>1, <2>2, <2>3
<1> QED  BY <1>1, <1>2, Zenon DEF ChosenIn

\* To know of earlier conf changes is not lost with a shorter log or a higher commit index.
LEMMA KnowsStill ==
  ASSUME NEW l, NEW r \in Nat, NEW k \in Nat, Knows(l, r, k),
         NEW r2 \in Nat, NEW k2 \in Nat, r2 <= r, k <= k2
  PROVE  Knows(l, r2, k2)
<1> SUFFICES ASSUME NEW c \in Boot + 1 .. Boot + Len(l), NEW d \in Boot + 1 .. Boot + Len(l),
                    IsChange(l, c), IsChange(l, d), c < d, d <= r2
             PROVE  c <= k2
  BY Zenon DEF Knows
<1>1. d <= r /\ c \in Int
  BY BootType
<1>2. c <= k
  BY <1>1, Zenon DEF Knows
<1> QED  BY <1>1, <1>2

\* Nor with another log, for a server that has none of its new entry or to which that
\* entry is no conf change.
LEMMA KnowsInNext ==
  ASSUME NEW l \in Seq(Entries), NEW l2, NEW k \in Nat, NEW e, Follows(l2, l, k, e),
         NEW r \in Nat, NEW q \in Nat, Knows(l, r, q), NEW r2 \in Nat,
         (r2 <= r /\ r2 <= k) \/ (e.type = "Normal" /\ k <= r)
  PROVE  Knows(l2, r2, q)
<1> SUFFICES ASSUME NEW c \in Boot + 1 .. Boot + Len(l2), NEW d \in Boot + 1 .. Boot + Len(l2),
                    IsChange(l2, c), IsChange(l2, d), c < d, d <= r2
             PROVE  c <= q
  BY Zenon DEF Knows
<1>0. Boot \in Nat /\ l2 \in Seq(Entries) /\ Len(l2) \in Nat /\ Len(l) \in Nat
  BY BootType, LenProperties, Zenon DEF Follows
<1>1. c \in Nat /\ d \in Nat
  BY <1>0
<1>2. /\ (d <= k /\ IsChange(l, d)) \/ (d = k + 1 /\ e.type # "Normal")
      /\ (c <= k /\ IsChange(l, c)) \/ (c = k + 1 /\ e.type # "Normal")
  BY <1>1, Zenon DEF Follows
<1>3. d <= k /\ d <= r /\ c <= k
  BY <1>1, <1>2
<1>4. IsChange(l, c) /\ IsChange(l, d)
  BY <1>1, <1>2, <1>3
<1>5. c \in Boot + 1 .. Boot + Len(l) /\ d \in Boot + 1 .. Boot + Len(l)
  BY <1>4, Zenon DEF IsChange
<1> QED  BY <1>3, <1>4, <1>5, Zenon DEF Knows
----------------------------------------------------------------------------
(* Elections. *)

\* The facts of the invariant that the steps below use most.
LEMMA Facts ==
  ASSUME Inv, ElectInv
  PROVE  /\ Boot \in Nat /\ 0 < Boot /\ Len(log) \in Nat /\ log \in Seq(Entries)
         /\ LastIndex \in Nat /\ LastIndex = Boot + Len(log)
         /\ commit \in Nat /\ commit <= LastIndex /\ pendingConf \in Nat
         /\ \A n \in Nodes :
              /\ recv[n] \in Nat /\ known[n] \in Nat /\ held[n] \in Nat /\ saved[n] \in Nat
              /\ applied[n] \in Nat /\ snap[n] \in Nat /\ match[n] \in Nat
              /\ match[n] <= held[n] /\ held[n] <= recv[n] /\ recv[n] <= LastIndex
              /\ applied[n] <= saved[n] /\ saved[n] <= known[n] /\ known[n] <= commit
              /\ Boot <= saved[n] /\ saved[n] <= held[n] /\ known[n] <= recv[n]
              /\ snap[n] <= saved[n] /\ applied[n] <= known[n] /\ Boot <= known[n]
              /\ Boot <= recv[n] /\ known[n] <= LastIndex
<1>1. /\ log \in Seq(Entries) /\ commit \in Nat /\ pendingConf \in Nat
      /\ recv \in [Nodes -> Nat] /\ known \in [Nodes -> Nat] /\ held \in [Nodes -> Nat]
      /\ saved \in [Nodes -> Nat] /\ applied \in [Nodes -> Nat] /\ snap \in [Nodes -> Nat]
      /\ match \in [Nodes -> Nat]
  BY Zenon DEF Inv, Numbers, ElectInv, Types
<1>2. Boot \in Nat /\ Len(log) \in Nat /\ LastIndex \in Nat /\ LastIndex = Boot + Len(log)
  BY <1>1, BootType, LogLength, Zenon
<1>3. 0 < Boot
  BY ConstantsAssumption, BootVoters, Zenon
<1>4. commit <= LastIndex
  BY <1>2, Zenon DEF ElectInv, Chosen, ChosenIn
<1>5. ASSUME NEW n \in Nodes
      PROVE  /\ match[n] <= held[n] /\ held[n] <= recv[n] /\ recv[n] <= LastIndex
             /\ applied[n] <= saved[n] /\ saved[n] <= known[n] /\ known[n] <= commit
             /\ Boot <= saved[n] /\ saved[n] <= held[n] /\ known[n] <= recv[n]
             /\ snap[n] <= saved[n]
  BY Zenon DEF Inv, InOrder, ElectInv, Indices
<1>6. ASSUME NEW n \in Nodes
      PROVE  /\ recv[n] \in Nat /\ known[n] \in Nat /\ held[n] \in Nat /\ saved[n] \in Nat
             /\ applied[n] \in Nat /\ snap[n] \in Nat /\ match[n] \in Nat
  BY <1>1, Zenon
<1>7. ASSUME NEW n \in Nodes
      PROVE  applied[n] <= known[n] /\ Boot <= known[n] /\ Boot <= recv[n] /\ known[n] <= LastIndex
  BY <1>2, <1>5, <1>6
<1> QED  BY <1>1, <1>2, <1>3, <1>4, <1>5, <1>6, <1>7, Zenon

\* A voter has the configuration of what it has applied.
LEMMA VoterConfig ==
  ASSUME ElectInv, NEW n \in Nodes, voters[n] # {}
  PROVE  up[n] /\ Boot <= applied[n] /\ voters[n] = VotersAt(log, applied[n])
BY Zenon DEF ElectInv, Config

\* Who wins an election has all that is committed.  Of two conf changes that the winner has
\* not applied, it would have to know the first to be committed if it had the second; it
\* has the second, since the majority that made it committed meets the one that elects.
LEMMA WinnerHasCommitted ==
  ASSUME Inv, ElectInv, NEW n \in Nodes, Election(n)
  PROVE  commit <= recv[n]
<1> DEFINE a == applied[n]
<1>0. /\ Boot \in Nat /\ log \in Seq(Entries) /\ LastIndex = Boot + Len(log) /\ Len(log) \in Nat
      /\ commit \in Nat /\ commit <= LastIndex /\ a \in Nat /\ known[n] \in Nat
      /\ recv[n] \in Nat /\ a <= known[n] /\ known[n] <= commit /\ known[n] <= LastIndex
  BY Facts, Zenon
<1>1. n \in voters[n] /\ Majority(Electors(n), voters[n])
      /\ \A i \in a + 1 .. known[n] : EntryAt(n, i).type = "Normal"
  BY Zenon DEF Election
<1>2. Boot <= a /\ voters[n] = VotersAt(log, a)
  BY <1>1, VoterConfig, Zenon
<1>3. \A i \in a + 1 .. known[n] : ~ IsChange(log, i)
  <2>1. \A i \in a + 1 .. known[n] : ~ (i <= Boot)
    BY <1>0, <1>2
  <2> QED  BY <1>1, <2>1, Zenon DEF IsChange, EntryAt, At
<1> HIDE DEF a
<1>4. ASSUME NEW x \in Nat, NEW y \in Nat, NEW k \in Nat, Boot <= x, x <= y, a <= y,
             y <= LastIndex, AtMostOneChange(log, x, y), AtMostOneChange(log, a, y),
             OnDisks(held, VotersAt(log, x), k)
      PROVE  k <= recv[n]
  <2> DEFINE p == {m \in VotersAt(log, x) : held[m] >= k}
  <2>1. Majority(p, VotersAt(log, x)) /\ Majority(Electors(n), VotersAt(log, a))
    BY <1>1, <1>2, <1>4, Zenon DEF OnDisks
  <2>2. p \cap Electors(n) # {}
    <3> HIDE DEF p
    <3> QED  BY <1>0, <1>2, <1>4, <2>1, CloseMajorities, Zenon
  <2>3. PICK m \in Electors(n) : m \in VotersAt(log, x) /\ held[m] >= k
    BY <2>2, Zenon
  <2>4. m \in Nodes /\ (m = n \/ recv[m] <= recv[n])
    BY <2>3, Zenon DEF Electors, VotersAt
  <2>5. held[m] <= recv[m] /\ held[m] \in Nat /\ recv[m] \in Nat
    BY <2>4, Facts, Zenon
  <2> QED  BY <1>0, <2>3, <2>4, <2>5
<1>5. CASE AtMostOneChange(log, a, commit)
  <2>1. PICK x \in Boot .. commit :
          AtMostOneChange(log, x, commit) /\ OnDisks(held, VotersAt(log, x), commit)
    BY Zenon DEF ElectInv, Chosen, ChosenIn
  <2>2. x \in Nat /\ Boot <= x /\ x <= commit /\ a <= commit
    BY <1>0
  <2> QED  BY <1>0, <1>4, <1>5, <2>1, <2>2, Zenon
<1>6. CASE ~ AtMostOneChange(log, a, commit)
  <2> DEFINE S == {c \in a + 1 .. commit :
                     IsChange(log, c) /\ \E b \in a + 1 .. commit : b < c /\ IsChange(log, b)}
  <2>1. S # {} /\ S \in SUBSET Nat
    <3>1. PICK c \in a + 1 .. commit, d \in a + 1 .. commit :
            IsChange(log, c) /\ IsChange(log, d) /\ c # d
      BY <1>6, Zenon DEF AtMostOneChange
    <3>2. c < d \/ d < c
      BY <1>0, <3>1
    <3>3. c \in S \/ d \in S
      BY <3>1, <3>2, Zenon
    <3>4. \A i \in a + 1 .. commit : i \in Nat
      BY <1>0
    <3> QED  BY <3>3, <3>4, Zenon
  <2>2. PICK d \in S : \A c \in S : d <= c
    <3> HIDE DEF S
    <3> QED  BY <2>1, LeastIndex, Zenon
  <2>3. PICK b \in a + 1 .. commit : b < d /\ IsChange(log, b)
    BY <2>2, Zenon
  <2>4. d \in a + 1 .. commit /\ IsChange(log, d)
    BY <2>2, Zenon
  <2>5. AtMostOneChange(log, a, d - 1)
    <3> SUFFICES ASSUME NEW x \in a + 1 .. d - 1, NEW y \in a + 1 .. d - 1,
                        IsChange(log, x), IsChange(log, y), x # y
                 PROVE  FALSE
      BY Zenon DEF AtMostOneChange
    <3>1. /\ x \in a + 1 .. commit /\ y \in a + 1 .. commit /\ ~ (d <= x) /\ ~ (d <= y)
          /\ (x < y \/ y < x)
      BY <1>0, <2>4
    <3>2. x \in S \/ y \in S
      BY <3>1, Zenon
    <3> QED  BY <2>2, <3>1, <3>2, Zenon
  <2> HIDE DEF S
  <2>6. /\ d \in Nat /\ d - 1 \in Nat /\ Boot <= d - 1 /\ d - 1 <= d - 1 /\ a <= d - 1
        /\ d - 1 <= LastIndex /\ d \in Boot + 1 .. commit
        /\ d \in Boot + 1 .. Boot + Len(log) /\ b \in Boot + 1 .. Boot + Len(log)
        /\ (d - 1) + 1 .. d - 1 = {}
    BY <1>0, <1>2, <2>3, <2>4
  <2>7. OnDisks(held, VotersAt(log, d - 1), d)
    BY <2>4, <2>6, Zenon DEF ElectInv, Chosen, ChosenIn
  <2>8. AtMostOneChange(log, d - 1, d - 1)
    BY <2>6, Zenon DEF AtMostOneChange
  <2>9. d <= recv[n]
    BY <1>4, <2>5, <2>6, <2>7, <2>8, Zenon
  <2>10. b <= known[n]
    BY <2>3, <2>4, <2>6, <2>9, Zenon DEF ElectInv, KnowsEarlier, Knows
  <2>11. b \in a + 1 .. known[n]
    BY <1>0, <2>3, <2>10
  <2> QED  BY <1>3, <2>3, <2>11, Zenon
<1> QED  BY <1>5, <1>6, Zenon

\* A log that keeps all that a server has applied keeps its configuration and its peers.
LEMMA ServerKept ==
  ASSUME NEW n \in Nodes, NEW l, NEW l2, NEW k \in Nat, NEW e, Follows(l2, l, k, e),
         NEW i \in Nat, i <= k, NEW members, NEW map, InTouch(l, n, i, members, map)
  PROVE  InTouch(l2, n, i, members, map)
<1>1. SameUpTo(l2, l, i)
  BY ConfigKept, Zenon
<1> QED  BY <1>1, Zenon DEF InTouch, SameUpTo

\* An election keeps the invariant: the new leader's log has all that is committed.
LEMMA ElectionStep ==
  ASSUME Inv, ElectInv, NEW n \in Nodes, Election(n)
  PROVE  ElectInv'
<1> DEFINE k == recv[n]
<1>0. /\ Boot \in Nat /\ log \in Seq(Entries) /\ LastIndex = Boot + Len(log) /\ Len(log) \in Nat
      /\ commit \in Nat /\ k \in Nat /\ Boot <= k /\ k <= Boot + Len(log) /\ Normal \in Entries
  <2>1. Normal \in Entries
    BY EntriesMade, Zenon
  <2> QED  BY <2>1, Facts, Zenon
<1>1. commit <= k
  BY WinnerHasCommitted, Zenon
<1>2. /\ log' = Append(SubSeq(log, 1, k - Boot), Normal) /\ leader' = n /\ pendingConf' = k
      /\ recv' = [m \in Nodes |-> IF m = n THEN k + 1 ELSE Smaller(recv[m], k)]
      /\ held' = [m \in Nodes |-> Smaller(held[m], k)]
      /\ UNCHANGED <<commit, known, voters, learners, saved, snap, up, applied, peers>>
  BY Zenon DEF Election, server
<1> HIDE DEF k
<1>3. Follows(log', log, k, Normal) /\ Normal.type = "Normal"
  BY <1>0, <1>2, LogFollows, Zenon DEF Normal, Change
<1>4. LastIndex' = k + 1 /\ Boot + Len(log') = k + 1
  <2>1. Len(log') = k - Boot + 1
    BY <1>3, Zenon DEF Follows
  <2> QED  BY <1>0, <2>1 DEF LastIndex
<1>5. ASSUME NEW m \in Nodes
      PROVE  /\ applied[m] \in Nat /\ applied[m] <= k
             /\ recv[m] \in Nat /\ held[m] \in Nat /\ known[m] \in Nat /\ saved[m] \in Nat
             /\ recv'[m] = (IF m = n THEN k + 1 ELSE Smaller(recv[m], k))
             /\ held'[m] = Smaller(held[m], k)
             /\ known[m] <= recv[m] /\ known[m] <= k /\ saved[m] <= held[m] /\ saved[m] <= k
  <2>1. /\ applied[m] \in Nat /\ recv[m] \in Nat /\ held[m] \in Nat /\ known[m] \in Nat
        /\ saved[m] \in Nat /\ applied[m] <= known[m] /\ saved[m] <= known[m]
        /\ known[m] <= commit /\ known[m] <= recv[m] /\ saved[m] <= held[m]
    BY Facts, Zenon
  <2>2. applied[m] <= k /\ known[m] <= k /\ saved[m] <= k
    BY <1>0, <1>1, <2>1
  <2> QED  BY <1>2, <2>1, <2>2, Zenon
<1>6. Types'
  <2>1. k <= k + 1
    BY <1>0
  <2> QED  BY <1>0, <1>2, <1>4, <2>1, Zenon DEF ElectInv, Types
<1>7. Leading'
  <2>1. up[n] /\ Boot <= applied[n]
    <3>1. n \in voters[n]
      BY Zenon DEF Election
    <3> QED  BY <3>1, VoterConfig, Zenon
  <2>2. \A i \in Nat : IsChange(log', i) <=> i <= k /\ IsChange(log, i)
    BY <1>3, Zenon DEF Follows
  <2>3. Unchanged(log', k, k + 1)
    <3>1. \A c \in k + 1 .. k + 1 : c \in Nat /\ ~ (c <= k)
      BY <1>0
    <3> QED  BY <2>2, <3>1, Zenon DEF Unchanged
  <2>4. AtMostOneChange(log', applied[n], k + 1)
    <3> SUFFICES ASSUME NEW c \in applied[n] + 1 .. k + 1, NEW d \in applied[n] + 1 .. k + 1,
                        IsChange(log', c), IsChange(log', d), c < d
                 PROVE  FALSE
      <4>1. \A c, d \in applied[n] + 1 .. k + 1 : c = d \/ c < d \/ d < c
        BY <1>0, <1>5
      <4> QED  BY <4>1, Zenon DEF AtMostOneChange
    <3>1. c \in Nat /\ d \in Nat
      BY <1>0, <1>5
    <3>2. IsChange(log, c) /\ IsChange(log, d) /\ d <= k
      BY <2>2, <3>1, Zenon
    <3>3. c <= known[n]
      BY <3>2, Zenon DEF ElectInv, KnowsEarlier, Knows, IsChange, k
    <3>4. c \in applied[n] + 1 .. known[n] /\ ~ (c <= Boot)
      BY <1>0, <1>5, <2>1, <3>1, <3>3
    <3>5. EntryAt(n, c).type = "Normal"
      BY <3>4, Zenon DEF Election
    <3> QED  BY <3>2, <3>4, <3>5, Zenon DEF IsChange, EntryAt, At
  <2>5. recv'[n] = k + 1
    BY <1>5, Zenon
  <2> QED  BY <1>2, <1>4, <2>1, <2>3, <2>4, <2>5, Zenon DEF Leading
<1>8. Chosen'
  <2>1. held \in [Nodes -> Nat] /\ held' \in [Nodes -> Nat]
    <3>1. \A m \in Nodes : Smaller(held[m], k) \in Nat
      BY <1>0, <1>5, Zenon DEF Smaller
    <3> QED  BY <1>2, <3>1, Zenon DEF Inv, Numbers
  <2>2. ASSUME NEW m \in Nodes
        PROVE  held[m] <= held'[m] \/ commit <= held'[m]
    BY <1>0, <1>1, <1>5 DEF Smaller
  <2>3. ChosenIn(log, held, commit)
    BY Zenon DEF ElectInv, Chosen
  <2>4. ChosenIn(log', held', commit)
    BY <1>0, <1>1, <1>3, <2>1, <2>2, <2>3, ChosenKept, Zenon
  <2> QED  BY <1>2, <2>4, Zenon DEF Chosen
<1>9. ASSUME NEW m \in Nodes
      PROVE  Indices(m)' /\ Config(m)' /\ Peers(m)' /\ KnowsEarlier(m)'
  <2>1. Indices(m)'
    <3>1. known[m] <= recv'[m] /\ saved[m] <= held'[m]
      BY <1>0, <1>5 DEF Smaller
    <3>2. Indices(m)
      BY Zenon DEF ElectInv
    <3> QED  BY <1>2, <3>1, <3>2, Zenon DEF Indices
  <2>2. Config(m)'
    <3>1. SameUpTo(log', log, applied[m])
      BY <1>0, <1>3, <1>5, ConfigKept, Zenon
    <3>2. Config(m)
      BY Zenon DEF ElectInv
    <3> QED  BY <1>2, <3>1, <3>2, Zenon DEF Config, SameUpTo
  <2>3. Peers(m)'
    <3>1. Peers(m)
      BY Zenon DEF ElectInv
    <3>2. CASE up[m]
      <4>1. InTouch(log', m, applied[m], Members(m), peers[m])
        BY <1>0, <1>3, <1>5, <3>1, <3>2, ServerKept, Zenon DEF Peers
      <4> QED  BY <1>2, <3>2, <4>1, Zenon DEF Peers, Members
    <3>3. CASE ~ up[m]
      BY <1>2, <3>1, <3>3, Zenon DEF Peers
    <3> QED  BY <3>2, <3>3, Zenon
  <2>4. Knows(log, recv[m], known[m]) /\ Knows(log, held[m], saved[m])
    BY Zenon DEF ElectInv, KnowsEarlier
  <2>5. Knows(log', recv'[m], known[m])
    <3>1. /\ recv'[m] \in Nat
          /\ (recv'[m] <= recv[m] /\ recv'[m] <= k) \/ (Normal.type = "Normal" /\ k <= recv[m])
      BY <1>0, <1>3, <1>5 DEF Smaller, k
    <3> QED  BY <1>0, <1>3, <1>5, <2>4, <3>1, KnowsInNext, Zenon
  <2>6. Knows(log', held'[m], saved[m])
    <3>1. held'[m] \in Nat /\ held'[m] <= held[m] /\ held'[m] <= k
      BY <1>0, <1>5 DEF Smaller
    <3> QED  BY <1>0, <1>3, <1>5, <2>4, <3>1, KnowsInNext, Zenon
  <2> QED  BY <1>2, <2>1, <2>2, <2>3, <2>5, <2>6, Zenon DEF KnowsEarlier
<1> QED  BY <1>6, <1>7, <1>8, <1>9, Zenon DEF ElectInv
=============================================================================
