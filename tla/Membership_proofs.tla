--------------------------- MODULE Membership_proofs ---------------------------
(***************************************************************************)
(* Proofs about Membership: what the leader knows of a node is on that     *)
(* node's disk; and as long as no server starts from a snapshot, elections *)
(* are safe, the servers agree on their configurations, and every server   *)
(* keeps a connection to every other member.                               *)
(***************************************************************************)
EXTENDS MembershipLemmas
----------------------------------------------------------------------------
(* Proposals. *)

\* A proposal keeps the invariant: the leader appends a conf change only once it has
\* applied the last one.
LEMMA ProposalStep ==
  ASSUME Inv, ElectInv, NEW cc \in Entries, ProposeConfChange(cc)
  PROVE  ElectInv'
<1> DEFINE e == IF pendingConf > applied[leader] THEN Normal ELSE cc
           k == LastIndex
<1>0. /\ Boot \in Nat /\ log \in Seq(Entries) /\ k = Boot + Len(log) /\ Len(log) \in Nat
      /\ commit \in Nat /\ k \in Nat /\ Boot <= k /\ commit <= k /\ pendingConf \in Nat
  <2>1. /\ Boot \in Nat /\ log \in Seq(Entries) /\ k = Boot + Len(log) /\ Len(log) \in Nat
        /\ commit \in Nat /\ k \in Nat /\ commit <= k /\ pendingConf \in Nat
    BY Facts, Zenon
  <2> QED  BY <2>1
<1>1. /\ log' = Append(log, e) /\ recv' = Set(recv, leader, k + 1)
      /\ pendingConf' = IF pendingConf > applied[leader] THEN pendingConf ELSE k + 1
      /\ UNCHANGED <<commit, leader, known, voters, learners, held, saved, snap, up, applied,
                     peers>>
  BY Zenon DEF ProposeConfChange, server, disk
<1>2. leader \in Nodes /\ leader # None
  BY Zenon DEF ProposeConfChange, Inv, Numbers
<1>3. /\ up[leader] /\ Boot <= applied[leader] /\ recv[leader] = k
      /\ Unchanged(log, pendingConf, k) /\ AtMostOneChange(log, applied[leader], k)
  BY <1>2, Zenon DEF ElectInv, Leading
<1>4. Follows(log', log, k, e)
  <2>1. e \in Entries
    BY EntriesMade, Zenon
  <2>2. SubSeq(log, 1, k - Boot) = log
    <3>1. k - Boot = Len(log)
      BY <1>0
    <3> QED  BY <1>0, <3>1, SubSeqFull, Zenon
  <2> HIDE DEF e
  <2>3. log' = Append(SubSeq(log, 1, k - Boot), e) /\ k <= Boot + Len(log)
    BY <1>0, <1>1, <2>2
  <2> HIDE DEF k
  <2> QED  BY <1>0, <2>1, <2>3, LogFollows, Zenon
<1>5. LastIndex' = k + 1 /\ Boot + Len(log') = k + 1
  <2>1. Len(log') = k - Boot + 1
    BY <1>4, Zenon DEF Follows
  <2>2. Boot + Len(log') = k + 1
    BY <1>0, <2>1
  <2> QED  BY <2>2, Zenon DEF LastIndex
<1>6. /\ pendingConf > applied[leader] => e.type = "Normal"
      /\ \A i \in Nat : IsChange(log', i) <=>
           (i <= k /\ IsChange(log, i)) \/ (i = k + 1 /\ e.type # "Normal")
  BY <1>4, Zenon DEF Follows, Normal, Change
<1> HIDE DEF k, e
<1>7. ASSUME NEW m \in Nodes
      PROVE  /\ applied[m] \in Nat /\ applied[m] <= k /\ applied[m] <= known[m]
             /\ recv[m] \in Nat /\ held[m] \in Nat /\ known[m] \in Nat /\ saved[m] \in Nat
             /\ recv'[m] = (IF m = leader THEN k + 1 ELSE recv[m])
             /\ held[m] <= recv[m] /\ recv[m] <= k /\ held[m] <= k /\ known[m] <= recv[m]
  <2>1. /\ applied[m] \in Nat /\ recv[m] \in Nat /\ held[m] \in Nat /\ known[m] \in Nat
        /\ saved[m] \in Nat /\ applied[m] <= known[m] /\ held[m] <= recv[m]
        /\ recv[m] <= k /\ known[m] <= recv[m]
    BY Facts, Zenon DEF k
  <2>2. applied[m] <= k /\ held[m] <= k
    BY <1>0, <2>1
  <2>3. recv'[m] = (IF m = leader THEN k + 1 ELSE recv[m])
    BY <1>1, <1>2, Zenon DEF Set, Inv, Numbers
  <2> QED  BY <2>1, <2>2, <2>3, Zenon
<1>8. Types'
  <2>1. pendingConf <= k
    BY Zenon DEF ElectInv, Types, k
  <2>2. pendingConf' \in Nat /\ pendingConf' <= k + 1
    BY <1>0, <1>1, <2>1
  <2> QED  BY <1>1, <1>5, <2>2, Zenon DEF ElectInv, Types
<1>9. pendingConf <= applied[leader] => Unchanged(log, applied[leader], k)
  <2>1. ASSUME pendingConf <= applied[leader]
        PROVE  \A i \in applied[leader] + 1 .. k : i \in pendingConf + 1 .. k
    BY <1>0, <1>2, <1>7, <2>1
  <2> QED  BY <1>3, <2>1, Zenon DEF Unchanged
<1>10. Leading'
  <2>1. Unchanged(log', pendingConf', k + 1)
    <3>1. CASE pendingConf > applied[leader]
      <4>1. \A i \in pendingConf + 1 .. k + 1 :
              i \in Nat /\ (i \in pendingConf + 1 .. k \/ i = k + 1) /\ ~ (k + 1 <= k)
        BY <1>0
      <4> QED  BY <1>1, <1>3, <1>6, <3>1, <4>1, Zenon DEF Unchanged
    <3>2. CASE ~ (pendingConf > applied[leader])
      <4>1. (k + 1) + 1 .. k + 1 = {}
        BY <1>0
      <4> QED  BY <1>1, <3>2, <4>1, Zenon DEF Unchanged
    <3> QED  BY <3>1, <3>2, Zenon
  <2>2. AtMostOneChange(log', applied[leader], k + 1)
    <3> SUFFICES ASSUME NEW c \in applied[leader] + 1 .. k + 1,
                        NEW d \in applied[leader] + 1 .. k + 1,
                        IsChange(log', c), IsChange(log', d)
                 PROVE  c = d
      BY Zenon DEF AtMostOneChange
    <3>1. /\ c \in Nat /\ c <= k => c \in applied[leader] + 1 .. k
          /\ d \in Nat /\ d <= k => d \in applied[leader] + 1 .. k
      BY <1>0, <1>2, <1>7
    <3>2. c \in Nat /\ d \in Nat
      BY <1>0, <1>2, <1>7
    <3>3. CASE e.type = "Normal"
      BY <1>3, <1>6, <3>1, <3>2, <3>3, Zenon DEF AtMostOneChange
    <3>4. CASE e.type # "Normal"
      <4>1. pendingConf <= applied[leader]
        BY <1>0, <1>2, <1>6, <1>7, <3>4
      <4> QED  BY <1>6, <1>9, <3>1, <3>2, <4>1, Zenon DEF Unchanged
    <3> QED  BY <3>3, <3>4, Zenon
  <2>3. recv'[leader] = k + 1
    BY <1>2, <1>7, Zenon
  <2> QED  BY <1>1, <1>3, <1>5, <2>1, <2>2, <2>3, Zenon DEF Leading
<1>11. Chosen'
  <2>1. held \in [Nodes -> Nat] /\ \A m \in Nodes : held[m] <= held[m]
    <3>1. \A m \in Nodes : held[m] <= held[m]
      BY <1>7
    <3> QED  BY <3>1, Zenon DEF Inv, Numbers
  <2>2. ChosenIn(log, held, commit)
    BY Zenon DEF ElectInv, Chosen
  <2>3. ChosenIn(log', held, commit)
    BY <1>0, <1>4, <2>1, <2>2, ChosenKept, Zenon
  <2> QED  BY <1>1, <2>3, Zenon DEF Chosen
<1>12. ASSUME NEW m \in Nodes
       PROVE  Indices(m)' /\ Config(m)' /\ Peers(m)' /\ KnowsEarlier(m)'
  <2>1. Indices(m)'
    <3>1. known[m] <= recv'[m]
      BY <1>0, <1>7
    <3>2. Indices(m)
      BY Zenon DEF ElectInv
    <3> QED  BY <1>1, <3>1, <3>2, Zenon DEF Indices
  <2>2. Config(m)'
    <3>1. SameUpTo(log', log, applied[m])
      BY <1>0, <1>4, <1>7, ConfigKept, Zenon
    <3>2. Config(m)
      BY Zenon DEF ElectInv
    <3> QED  BY <1>1, <3>1, <3>2, Zenon DEF Config, SameUpTo
  <2>3. Peers(m)'
    <3>1. Peers(m)
      BY Zenon DEF ElectInv
    <3>2. CASE up[m]
      <4>1. InTouch(log', m, applied[m], Members(m), peers[m])
        BY <1>0, <1>4, <1>7, <3>1, <3>2, ServerKept, Zenon DEF Peers
      <4> QED  BY <1>1, <3>2, <4>1, Zenon DEF Peers, Members
    <3>3. CASE ~ up[m]
      BY <1>1, <3>1, <3>3, Zenon DEF Peers
    <3> QED  BY <3>2, <3>3, Zenon
  <2>4. Knows(log, recv[m], known[m]) /\ Knows(log, held[m], saved[m])
    BY Zenon DEF ElectInv, KnowsEarlier
  <2>5. Knows(log', held[m], saved[m])
    <3>1. held[m] \in Nat /\ saved[m] \in Nat /\ held[m] <= held[m] /\ held[m] <= k
      BY <1>7
    <3> QED  BY <1>0, <1>4, <2>4, <3>1, KnowsInNext, Zenon
  <2>6. Knows(log', recv'[m], known[m])
    <3>1. CASE m # leader
      <4>1. /\ recv'[m] = recv[m] /\ recv[m] \in Nat /\ known[m] \in Nat
            /\ recv[m] <= recv[m] /\ recv[m] <= k
        BY <1>7, <3>1
      <4> QED  BY <1>0, <1>4, <2>4, <4>1, KnowsInNext, Zenon
    <3>2. CASE m = leader /\ e.type = "Normal"
      <4>1. recv'[m] \in Nat /\ k <= recv[m] /\ recv[m] \in Nat /\ known[m] \in Nat
        BY <1>0, <1>3, <1>7, <3>2
      <4>2. e.type = "Normal"
        BY <3>2, Zenon
      <4> QED  BY <1>0, <1>4, <2>4, <4>1, <4>2, KnowsInNext, Zenon
    <3>3. CASE m = leader /\ e.type # "Normal"
      <4> SUFFICES ASSUME NEW c \in Boot + 1 .. Boot + Len(log'), IsChange(log', c),
                          NEW d \in Boot + 1 .. Boot + Len(log'), c < d
                   PROVE  c <= known[m]
        BY Zenon DEF Knows
      <4>1. c \in Nat /\ (c <= applied[m] \/ c \in applied[m] + 1 .. k) /\ c # k + 1
        BY <1>0, <1>5, <1>7
      <4>2. IsChange(log, c)
        BY <1>6, <4>1, Zenon
      <4>3. pendingConf <= applied[leader]
        BY <1>0, <1>2, <1>6, <1>7, <3>3
      <4>4. c <= applied[m]
        BY <1>9, <3>3, <4>1, <4>2, <4>3, Zenon DEF Unchanged
      <4> QED  BY <1>7, <4>1, <4>4
    <3> QED  BY <3>1, <3>2, <3>3, Zenon
  <2> QED  BY <1>1, <2>1, <2>2, <2>3, <2>5, <2>6, Zenon DEF KnowsEarlier
<1> QED  BY <1>8, <1>10, <1>11, <1>12, Zenon DEF ElectInv
----------------------------------------------------------------------------
(* Messages, crashes and starts. *)

\* A server that a step leaves alone keeps its part of the invariant, in the same log.
LEMMA OthersKept ==
  ASSUME Inv, ElectInv, NEW m \in Nodes, SameServer(m), log' = log, commit' \in Nat,
         commit <= commit'
  PROVE  Indices(m)' /\ Config(m)' /\ Peers(m)' /\ KnowsEarlier(m)'
<1>1. known[m] <= commit'
  <2>1. known[m] \in Nat /\ known[m] <= commit /\ commit \in Nat
    BY Facts, Zenon
  <2> QED  BY <2>1
<1>2. Indices(m) /\ Config(m) /\ Peers(m) /\ KnowsEarlier(m)
  BY Zenon DEF ElectInv
<1>3. Indices(m)'
  BY <1>1, <1>2, Zenon DEF Indices, SameServer
<1>4. Config(m)'
  BY <1>2, Zenon DEF Config, SameServer
<1>5. Peers(m)'
  BY <1>2, Zenon DEF Peers, Members, SameServer
<1>6. KnowsEarlier(m)'
  BY <1>2, Zenon DEF KnowsEarlier, SameServer
<1> QED  BY <1>3, <1>4, <1>5, <1>6, Zenon

\* An append keeps the invariant: it carries the log and the commit index of one Ready.
LEMMA AppendStep ==
  ASSUME Inv, ElectInv, NEW n \in Nodes, SendAppend(n)
  PROVE  ElectInv'
<1>0. /\ leader \in Nodes /\ leader # None /\ n # leader
      /\ recv' = Set(recv, n, Larger(recv[n], held[leader]))
      /\ known' = Set(known, n, Larger(known[n], saved[leader]))
      /\ UNCHANGED <<log, commit, leader, pendingConf, voters, learners, held, saved, snap,
                     up, applied, peers>>
  BY Zenon DEF SendAppend, cluster, disk, server, Inv, Numbers
<1>1. /\ recv[n] \in Nat /\ known[n] \in Nat /\ held[leader] \in Nat /\ saved[leader] \in Nat
      /\ saved[n] \in Nat /\ commit \in Nat
      /\ saved[leader] <= held[leader] /\ saved[leader] <= known[leader]
      /\ known[leader] <= commit /\ known[leader] \in Nat
      /\ known[n] <= recv[n] /\ known[n] <= commit /\ saved[n] <= known[n]
  BY <1>0, Facts, Zenon
<1> DEFINE r == Larger(recv[n], held[leader])
           q == Larger(known[n], saved[leader])
<1>2. /\ r \in Nat /\ q \in Nat /\ q <= r /\ q <= commit /\ saved[n] <= q /\ known[n] <= q
      /\ saved[leader] <= q /\ (r <= recv[n] \/ r <= held[leader])
  BY <1>1 DEF Larger
<1>3. /\ recv'[n] = r /\ known'[n] = q
      /\ \A m \in Nodes : m # n => recv'[m] = recv[m] /\ known'[m] = known[m]
  BY <1>0, Zenon DEF Set, Inv, Numbers
<1> HIDE DEF r, q
<1>4. Types' /\ Chosen'
  BY <1>0, Zenon DEF ElectInv, Types, Chosen, LastIndex
<1>5. Leading'
  <2>1. LastIndex' = LastIndex /\ recv'[leader] = recv[leader]
    BY <1>0, <1>3, Zenon DEF LastIndex
  <2> QED  BY <1>0, <2>1, Zenon DEF ElectInv, Leading
<1>6. ASSUME NEW m \in Nodes
      PROVE  Indices(m)' /\ Config(m)' /\ Peers(m)' /\ KnowsEarlier(m)'
  <2>1. CASE m # n
    <3>1. SameServer(m) /\ commit' \in Nat /\ commit <= commit'
      <4>1. commit <= commit
        BY <1>1
      <4> QED  BY <1>0, <1>1, <1>3, <2>1, <4>1, Zenon DEF SameServer
    <3> QED  BY <1>0, <3>1, OthersKept, Zenon
  <2>2. CASE m = n
    <3>1. Indices(n) /\ Config(n) /\ Peers(n)
      BY Zenon DEF ElectInv
    <3>2. Indices(n)'
      BY <1>0, <1>2, <1>3, <3>1, Zenon DEF Indices
    <3>3. Config(n)' /\ Peers(n)'
      BY <1>0, <3>1, Zenon DEF Config, Peers, Members
    <3>4. Knows(log, recv[n], known[n]) /\ Knows(log, held[leader], saved[leader])
          /\ Knows(log, held[n], saved[n])
      BY <1>0, Zenon DEF ElectInv, KnowsEarlier
    <3>5. Knows(log, r, q)
      BY <1>1, <1>2, <3>4, KnowsStill, Zenon
    <3>6. KnowsEarlier(n)'
      BY <1>0, <1>3, <3>4, <3>5, Zenon DEF KnowsEarlier
    <3> QED  BY <2>2, <3>2, <3>3, <3>6, Zenon
  <2> QED  BY <2>1, <2>2, Zenon
<1> QED  BY <1>4, <1>5, <1>6, Zenon DEF ElectInv

\* The end of a process keeps it, when the disk has what is left to the server.
LEMMA GoneStep ==
  ASSUME Inv, ElectInv, NEW n \in Nodes, NEW h \in Nat, NEW c \in Nat, ProcessGone(n, h, c),
         held' \in [Nodes -> Nat], held'[n] = h, \A m \in Nodes : m # n => held'[m] = held[m],
         saved'[n] = c, \A m \in Nodes : m # n => saved'[m] = saved[m],
         held[n] <= h, saved[n] <= c, c <= commit, c <= h, Knows(log, h, c)
  PROVE  ElectInv'
<1>0. /\ up' = Set(up, n, FALSE) /\ applied' = Set(applied, n, 0) /\ peers' = Set(peers, n, << >>)
      /\ recv' = Set(recv, n, h) /\ known' = Set(known, n, c)
      /\ voters' = Set(voters, n, {}) /\ learners' = Set(learners, n, {})
      /\ leader' = (IF n = leader THEN None ELSE leader)
      /\ UNCHANGED <<log, commit, pendingConf, snap>>
  BY Zenon DEF ProcessGone
<1>1. /\ up \in [Nodes -> BOOLEAN] /\ applied \in [Nodes -> Nat] /\ DOMAIN peers = Nodes
      /\ recv \in [Nodes -> Nat] /\ known \in [Nodes -> Nat] /\ snap \in [Nodes -> Nat]
      /\ voters \in [Nodes -> SUBSET Nodes] /\ learners \in [Nodes -> SUBSET Nodes]
      /\ held \in [Nodes -> Nat] /\ commit \in Nat /\ pendingConf \in Nat
      /\ pendingConf <= LastIndex
  BY Zenon DEF ElectInv, Types, Inv, Numbers
<1>2. /\ up'[n] = FALSE /\ applied'[n] = 0 /\ peers'[n] = << >> /\ recv'[n] = h /\ known'[n] = c
      /\ voters'[n] = {} /\ learners'[n] = {}
  BY <1>0, <1>1, Zenon DEF Set
<1>3. \A m \in Nodes : m # n => SameServer(m)
  BY <1>0, <1>1, Zenon DEF Set, SameServer
<1>4. Types'
  <2>1. /\ up' \in [Nodes -> BOOLEAN] /\ DOMAIN peers' = Nodes
        /\ voters' \in [Nodes -> SUBSET Nodes] /\ learners' \in [Nodes -> SUBSET Nodes]
    BY <1>0, <1>1, Zenon DEF Set
  <2>2. applied' \in [Nodes -> Nat]
    <3>1. 0 \in Nat
      OBVIOUS
    <3> QED  BY <1>0, <1>1, <3>1, Zenon DEF Set
  <2> QED  BY <1>0, <1>1, <2>1, <2>2, Zenon DEF Types, LastIndex
<1>5. Leading'
  <2>1. CASE n = leader
    BY <1>0, <2>1, Zenon DEF Leading
  <2>2. CASE n # leader /\ leader # None
    <3>1. SameServer(leader) /\ leader' = leader /\ LastIndex' = LastIndex
      BY <1>0, <1>3, <2>2, Zenon DEF Inv, Numbers, LastIndex
    <3> QED  BY <1>0, <2>2, <3>1, Zenon DEF ElectInv, Leading, SameServer
  <2>3. CASE n # leader /\ leader = None
    BY <1>0, <2>3, Zenon DEF Leading
  <2> QED  BY <2>1, <2>2, <2>3, Zenon
<1>6. Chosen'
  <2>1. \A m \in Nodes : held[m] <= held'[m]
    <3>1. \A m \in Nodes : held[m] <= held[m]
      BY <1>1
    <3> QED  BY <3>1, Zenon
  <2>2. ChosenIn(log, held, commit)
    BY Zenon DEF ElectInv, Chosen
  <2>3. ChosenIn(log, held', commit)
    BY <1>1, <2>1, <2>2, ChosenKept, Zenon
  <2> QED  BY <1>0, <2>3, Zenon DEF Chosen
<1>7. ASSUME NEW m \in Nodes
      PROVE  Indices(m)' /\ Config(m)' /\ Peers(m)' /\ KnowsEarlier(m)'
  <2>1. CASE m # n
    <3>1. commit' \in Nat /\ commit <= commit'
      <4>1. commit <= commit
        BY <1>1
      <4> QED  BY <1>0, <1>1, <4>1, Zenon
    <3> QED  BY <1>0, <1>3, <2>1, <3>1, OthersKept, Zenon
  <2>2. CASE m = n
    <3>1. /\ Boot <= saved[n] /\ snap[n] <= saved[n] /\ saved[n] \in Nat /\ snap[n] \in Nat
          /\ Boot \in Nat
      BY Facts, Zenon
    <3>2. 0 <= c /\ c <= c /\ Boot <= c /\ snap[n] <= c
      BY <3>1
    <3>3. Indices(n)'
      BY <1>0, <1>2, <3>2, Zenon DEF Indices
    <3>4. Config(n)'
      BY <1>2, Zenon DEF Config
    <3>5. Peers(n)'
      <4>1. DOMAIN << >> \subseteq Nodes
        OBVIOUS
      <4> QED  BY <1>2, <4>1, Zenon DEF Peers
    <3>6. KnowsEarlier(n)'
      BY <1>0, <1>2, Zenon DEF KnowsEarlier
    <3> QED  BY <2>2, <3>3, <3>4, <3>5, <3>6, Zenon
  <2> QED  BY <2>1, <2>2, Zenon
<1> QED  BY <1>4, <1>5, <1>6, <1>7, Zenon DEF ElectInv

\* A crash is one.
LEMMA CrashStep ==
  ASSUME Inv, ElectInv, NEW n \in Nodes, Crash(n)
  PROVE  ElectInv'
<1>1. ProcessGone(n, held[n], saved[n]) /\ UNCHANGED <<held, saved>>
  BY Zenon DEF Crash
<1>2. /\ held[n] \in Nat /\ saved[n] \in Nat /\ saved[n] <= known[n] /\ known[n] <= commit
      /\ saved[n] <= held[n] /\ known[n] \in Nat /\ commit \in Nat
  BY Facts, Zenon
<1>3. held[n] <= held[n] /\ saved[n] <= saved[n] /\ saved[n] <= commit
  BY <1>2
<1>4. Knows(log, held[n], saved[n])
  BY Zenon DEF ElectInv, KnowsEarlier
<1>5. held' \in [Nodes -> Nat]
  BY <1>1, Zenon DEF Inv, Numbers
<1> QED  BY <1>1, <1>2, <1>3, <1>4, <1>5, GoneStep, Zenon

\* The peers of a flag: all of the initial ones but the server itself.
LEMMA StartInTouch ==
  ASSUME NEW n \in Nodes, NEW flag \in LaterPeers \cup {InitialPeers}, NEW l, NEW i,
         NEW members, members \subseteq Initial
  PROVE  InTouch(l, n, i, members, StartPeers(n, flag))
<1>1. /\ DOMAIN StartPeers(n, flag) = DOMAIN GetPeers(flag) \ {n}
      /\ \A m \in DOMAIN GetPeers(flag) \ {n} : StartPeers(n, flag)[m] = GetPeers(flag)[m]
  <2> DEFINE g == GetPeers(flag)
  <2> HIDE DEF g
  <2>1. /\ DOMAIN RemovePeer(g, n) = DOMAIN g \ {n}
        /\ \A m \in DOMAIN g \ {n} : RemovePeer(g, n)[m] = g[m]
    BY Zenon DEF RemovePeer
  <2> QED  BY <2>1, Zenon DEF StartPeers, g
<1>2. Initial \subseteq DOMAIN GetPeers(flag) /\ DOMAIN GetPeers(flag) \subseteq Nodes
  <2>1. CASE flag = InitialPeers
    <3>1. Initial = DOMAIN GetPeers(flag)
      BY <2>1, Zenon DEF Initial
    <3> QED  BY <3>1, ConstantsAssumption, Zenon
  <2>2. CASE flag \in LaterPeers
    BY <2>2, ConstantsAssumption, Zenon
  <2> QED  BY <2>1, <2>2, Zenon
<1> QED  BY <1>1, <1>2, Zenon DEF InTouch, FlagsNameListeners

\* A start without a snapshot: everything is applied again from the first entry.
LEMMA RestartStep ==
  ASSUME Inv, ElectInv, NEW n \in Nodes, NEW flag \in LaterPeers, Restart(n, flag), snap[n] = 0
  PROVE  ElectInv'
<1>0. /\ ~ up[n] /\ up' = Set(up, n, TRUE) /\ applied' = Set(applied, n, 0)
      /\ peers' = Set(peers, n, StartPeers(n, flag))
      /\ UNCHANGED <<log, commit, leader, pendingConf, recv, known, voters, learners,
                     held, saved, snap>>
  BY Zenon DEF Restart, cluster, disk
<1>1. /\ up \in [Nodes -> BOOLEAN] /\ applied \in [Nodes -> Nat] /\ DOMAIN peers = Nodes
      /\ commit \in Nat /\ 0 \in Nat
  <2>1. 0 \in Nat
    OBVIOUS
  <2> QED  BY <2>1, Zenon DEF ElectInv, Types
<1>2. /\ up'[n] = TRUE /\ applied'[n] = 0 /\ peers'[n] = StartPeers(n, flag)
  BY <1>0, <1>1, Zenon DEF Set
<1>3. \A m \in Nodes : m # n => SameServer(m)
  BY <1>0, <1>1, Zenon DEF Set, SameServer
<1>4. Types'
  <2>1. up' \in [Nodes -> BOOLEAN] /\ DOMAIN peers' = Nodes /\ applied' \in [Nodes -> Nat]
    BY <1>0, <1>1, Zenon DEF Set
  <2> QED  BY <1>0, <2>1, Zenon DEF ElectInv, Types, LastIndex
<1>5. Leading'
  <2>1. CASE leader # None
    <3>1. leader # n /\ leader \in Nodes
      BY <1>0, <2>1, Zenon DEF ElectInv, Leading, Inv, Numbers
    <3>2. SameServer(leader) /\ LastIndex' = LastIndex
      BY <1>0, <1>3, <3>1, Zenon DEF LastIndex
    <3> QED  BY <1>0, <2>1, <3>2, Zenon DEF ElectInv, Leading, SameServer
  <2>2. CASE leader = None
    BY <1>0, <2>2, Zenon DEF Leading
  <2> QED  BY <2>1, <2>2, Zenon
<1>6. Chosen'
  BY <1>0, Zenon DEF ElectInv, Chosen
<1>7. ASSUME NEW m \in Nodes
      PROVE  Indices(m)' /\ Config(m)' /\ Peers(m)' /\ KnowsEarlier(m)'
  <2>1. CASE m # n
    <3>1. commit' \in Nat /\ commit <= commit'
      <4>1. commit <= commit
        BY <1>1
      <4> QED  BY <1>0, <1>1, <4>1, Zenon
    <3> QED  BY <1>0, <1>3, <2>1, <3>1, OthersKept, Zenon
  <2>2. CASE m = n
    <3>1. Indices(n) /\ Config(n) /\ KnowsEarlier(n)
      BY Zenon DEF ElectInv
    <3>2. 0 <= saved[n]
      <4>1. saved[n] \in Nat
        BY Facts, Zenon
      <4> QED  BY <4>1
    <3>3. Indices(n)'
      BY <1>0, <1>2, <3>1, <3>2, Zenon DEF Indices
    <3>4. voters[n] = {} /\ learners[n] = {}
      BY <1>0, <3>1, Zenon DEF Config
    <3>5. Config(n)'
      BY <1>0, <1>2, <3>4, Zenon DEF Config
    <3>6. Peers(n)'
      <4>1. InTouch(log, n, 0, {}, StartPeers(n, flag))
        BY StartInTouch, Zenon
      <4>2. Members(n)' = {}
        BY <1>0, <3>4, Zenon DEF Members
      <4> QED  BY <1>0, <1>2, <4>1, <4>2, Zenon DEF Peers
    <3>7. KnowsEarlier(n)'
      BY <1>0, <3>1, Zenon DEF KnowsEarlier
    <3> QED  BY <2>2, <3>3, <3>5, <3>6, <3>7, Zenon
  <2> QED  BY <2>1, <2>2, Zenon
<1> QED  BY <1>4, <1>5, <1>6, <1>7, Zenon DEF ElectInv
----------------------------------------------------------------------------
(* The run loop. *)

\* The loop over the committed entries ends with their configuration and its peers.
LEMMA LoopEnd ==
  ASSUME Inv, ElectInv, NEW n \in Nodes, up[n]
  PROVE  LoopAt(n, known[n], ApplyCommitted(n))
<1>0. /\ log \in Seq(Entries) /\ applied[n] \in Nat /\ known[n] \in Nat /\ 0 < Boot /\ Boot \in Nat
      /\ applied[n] <= known[n] /\ known[n] <= LastIndex
  BY Facts, Zenon
<1> DEFINE s == [voters |-> voters[n], learners |-> learners[n], peers |-> peers[n],
                 panics |-> FALSE]
<1>1. s.voters = voters[n] /\ s.learners = learners[n] /\ s.peers = peers[n]
  BY Zenon
<1>2. Config(n) /\ InTouch(log, n, applied[n], voters[n] \cup learners[n], peers[n])
  BY Zenon DEF ElectInv, Peers, Members
<1>3. voters[n] = OwnVoters(n, applied[n]) /\ learners[n] = OwnLearners(n, applied[n])
  <2>1. CASE applied[n] = 0 /\ voters[n] = {} /\ learners[n] = {}
    <3>1. {BootOrder[n][j] : j \in 1 .. 0} = {}
      <4>1. 1 .. 0 = {}
        OBVIOUS
      <4> QED  BY <4>1, Zenon
    <3> QED  BY <1>0, <2>1, <3>1, Zenon DEF OwnVoters, OwnLearners
  <2>2. CASE /\ Boot <= applied[n] /\ voters[n] = VotersAt(log, applied[n])
             /\ learners[n] = LearnersAt(log, applied[n])
    <3>1. ~ (applied[n] < Boot)
      BY <1>0, <2>2
    <3> QED  BY <2>2, <3>1, Zenon DEF OwnVoters, OwnLearners
  <2> QED  BY <1>2, <2>1, <2>2, Zenon DEF Config
<1> HIDE DEF s
<1>4. LoopAt(n, applied[n], s)
  BY <1>1, <1>2, <1>3, Zenon DEF LoopAt
<1> QED  BY <1>0, <1>4, LoopResult, Zenon DEF s

\* maybeCommit moves the commit index of the leader, up to an index of its log that a
\* majority of its voters has on disk.
LEMMA CommitMoves ==
  ASSUME Inv, ElectInv, MaybeCommit, log' = log, leader' = leader
  PROVE  \/ known' = known /\ commit' = commit
         \/ \E k \in Nat : /\ leader \in Nodes /\ leader # None /\ known[leader] < k
                           /\ k <= LastIndex /\ OnMajority(k)'
                           /\ known' = Set(known, leader, k) /\ commit' = Larger(commit, k)
<1> DEFINE ks == {k \in termStart .. LastIndex : leader # None /\ OnMajority(k)'}
<1>1. CASE \E k \in ks : k > known[leader]
  <2>1. PICK j \in ks : j > known[leader]
    BY <1>1, Zenon
  <2>2. PICK k \in ks : /\ \A i \in ks : i <= k
                        /\ known' = Set(known, leader, k) /\ commit' = Larger(commit, k)
    BY <1>1, Zenon DEF MaybeCommit
  <2>3. /\ leader # None /\ OnMajority(k)'
        /\ k \in termStart .. LastIndex /\ j \in termStart .. LastIndex
    BY <2>1, <2>2, Zenon
  <2>4. leader \in Nodes /\ termStart \in Nat
    BY <2>3, Zenon DEF Inv, Numbers
  <2>5. known[leader] \in Nat /\ LastIndex \in Nat /\ j <= k
    BY <2>1, <2>2, <2>4, Facts, Zenon
  <2> HIDE DEF ks
  <2>6. k \in Nat /\ k <= LastIndex /\ known[leader] < k
    BY <2>1, <2>3, <2>4, <2>5
  <2> QED  BY <2>2, <2>3, <2>4, <2>6, Zenon
<1>2. CASE ~ \E k \in ks : k > known[leader]
  BY <1>2, Zenon DEF MaybeCommit
<1> QED  BY <1>1, <1>2, Zenon

\* What a majority of the leader's voters has answered for is on their disks.
LEMMA AnswersAreOnDisk ==
  ASSUME Inv', NEW k \in Nat, OnMajority(k)', voters'[leader'] \in SUBSET Nodes
  PROVE  OnDisks(held', voters'[leader'], k)
<1> DEFINE v == voters'[leader']
           h == [m \in Nodes |-> IF m = leader' THEN held'[m] ELSE match'[m]]
<1>1. \A m \in Nodes : held'[m] \in Nat /\ match'[m] \in Nat /\ match'[m] <= held'[m]
  BY Zenon DEF Inv, Numbers, InOrder
<1>2. \A m \in v : h[m] = IF m = leader' THEN held'[m] ELSE match'[m]
  BY Zenon
<1>3. OnDisks(h, v, k)
  <2>1. Majority({m \in v : (IF m = leader' THEN held'[m] ELSE match'[m]) >= k}, v)
    BY Zenon DEF OnMajority
  <2>2. {m \in v : (IF m = leader' THEN held'[m] ELSE match'[m]) >= k} = {m \in v : h[m] >= k}
    BY <1>2, Zenon
  <2> HIDE DEF h, v
  <2> QED  BY <2>1, <2>2, Zenon DEF OnDisks
<1>4. \A m \in v : h[m] >= k => held'[m] >= k
  <2>1. v \subseteq Nodes
    BY Zenon
  <2> HIDE DEF h, v
  <2> QED  BY <1>1, <1>2, <2>1
<1> HIDE DEF h
<1> QED  BY <1>3, <1>4, MoreOnDisks, Zenon

\* An iteration that does not end the process keeps the invariant.
LEMMA AdvanceStep ==
  ASSUME Inv, Inv', ElectInv, NEW n \in Nodes, up[n], Save(n), Advance(n, ApplyCommitted(n))
  PROVE  ElectInv'
<1> DEFINE s == ApplyCommitted(n)
<1>0. /\ Boot \in Nat /\ log \in Seq(Entries) /\ LastIndex = Boot + Len(log) /\ Len(log) \in Nat
      /\ LastIndex \in Nat /\ commit \in Nat /\ commit <= LastIndex
  BY Facts, Zenon
<1>1. /\ saved' = Set(saved, n, known[n]) /\ held' = Set(held, n, recv[n])
      /\ voters' = Set(voters, n, s.voters) /\ learners' = Set(learners, n, s.learners)
      /\ peers' = Set(peers, n, s.peers) /\ applied' = Set(applied, n, known[n])
      /\ snap' = Set(snap, n, SnapshotDue(snap[n], known[n]))
      /\ UNCHANGED <<log, leader, pendingConf, recv, up>> /\ MaybeCommit
  BY Zenon DEF Save, Advance
<1>2. /\ s.voters = VotersAt(log, known[n]) /\ s.learners = LearnersAt(log, known[n])
      /\ InTouch(log, n, known[n], s.voters \cup s.learners, s.peers)
      /\ s.voters \in SUBSET Nodes /\ s.learners \in SUBSET Nodes
  <2>1. ~ (known[n] < Boot)
    <3>1. known[n] \in Nat /\ Boot <= known[n]
      BY Facts, Zenon
    <3> QED  BY <1>0, <3>1
  <2>2. LoopAt(n, known[n], s)
    BY LoopEnd, Zenon
  <2> HIDE DEF s
  <2>3. s.voters = VotersAt(log, known[n]) /\ s.learners = LearnersAt(log, known[n])
    BY <2>1, <2>2, Zenon DEF LoopAt, OwnVoters, OwnLearners
  <2> QED  BY <2>2, <2>3, Zenon DEF LoopAt, VotersAt, LearnersAt
<1> HIDE DEF s
<1>3. /\ up \in [Nodes -> BOOLEAN] /\ applied \in [Nodes -> Nat] /\ DOMAIN peers = Nodes
      /\ snap \in [Nodes -> Nat] /\ pendingConf \in Nat /\ pendingConf <= LastIndex
      /\ voters \in [Nodes -> SUBSET Nodes] /\ learners \in [Nodes -> SUBSET Nodes]
      /\ held \in [Nodes -> Nat] /\ saved \in [Nodes -> Nat] /\ known \in [Nodes -> Nat]
      /\ recv \in [Nodes -> Nat] /\ held' \in [Nodes -> Nat]
  BY Zenon DEF ElectInv, Types, Inv, Numbers
<1>4. /\ saved'[n] = known[n] /\ held'[n] = recv[n] /\ voters'[n] = s.voters
      /\ learners'[n] = s.learners /\ peers'[n] = s.peers /\ applied'[n] = known[n]
      /\ snap'[n] = SnapshotDue(snap[n], known[n])
  BY <1>1, <1>3, Zenon DEF Set
<1>5. ASSUME NEW m \in Nodes, m # n
      PROVE  /\ saved'[m] = saved[m] /\ held'[m] = held[m] /\ voters'[m] = voters[m]
             /\ learners'[m] = learners[m] /\ peers'[m] = peers[m]
             /\ applied'[m] = applied[m] /\ snap'[m] = snap[m]
  BY <1>1, <1>3, <1>5, Zenon DEF Set
<1>6. /\ SnapshotDue(snap[n], known[n]) \in Nat /\ SnapshotDue(snap[n], known[n]) <= known[n]
      /\ known[n] <= known[n]
  <2>1. snap[n] \in Nat /\ known[n] \in Nat /\ snap[n] <= saved[n] /\ saved[n] <= known[n]
        /\ saved[n] \in Nat
    BY Facts, Zenon
  <2>2. snap[n] <= known[n] /\ known[n] <= known[n]
    BY <2>1
  <2> QED  BY <2>1, <2>2, Zenon DEF SnapshotDue
<1>7. /\ commit' \in Nat /\ commit <= commit' /\ commit' <= LastIndex
      /\ \A m \in Nodes : /\ known'[m] \in Nat /\ known[m] <= known'[m] /\ known'[m] <= commit'
                          /\ known'[m] <= recv[m]
  <2>1. CASE known' = known /\ commit' = commit
    <3>1. ASSUME NEW m \in Nodes
          PROVE  known[m] \in Nat /\ known[m] <= commit /\ known[m] <= recv[m]
      BY Facts, Zenon
    <3>2. commit <= commit /\ \A m \in Nodes : known[m] <= known[m]
      BY <1>0, <3>1
    <3> QED  BY <1>0, <2>1, <3>1, <3>2, Zenon
  <2>2. ASSUME NEW k \in Nat, leader \in Nodes, leader # None, known[leader] < k, k <= LastIndex,
               known' = Set(known, leader, k), commit' = Larger(commit, k)
        PROVE  /\ commit' \in Nat /\ commit <= commit' /\ commit' <= LastIndex
               /\ \A m \in Nodes : /\ known'[m] \in Nat /\ known[m] <= known'[m]
                                   /\ known'[m] <= commit' /\ known'[m] <= recv[m]
    <3>1. recv[leader] = LastIndex
      BY <2>2, Zenon DEF ElectInv, Leading
    <3>2. commit' \in Nat /\ commit <= commit' /\ commit' <= LastIndex /\ k <= commit'
      BY <1>0, <2>2 DEF Larger
    <3>3. ASSUME NEW m \in Nodes
          PROVE  /\ known'[m] \in Nat /\ known[m] <= known'[m] /\ known'[m] <= commit'
                 /\ known'[m] <= recv[m]
      <4>1. known[m] \in Nat /\ known[m] <= commit /\ known[m] <= recv[m]
        BY Facts, Zenon
      <4>2. known'[m] = IF m = leader THEN k ELSE known[m]
        BY <1>3, <2>2, Zenon DEF Set
      <4> QED  BY <1>0, <2>2, <3>1, <3>2, <4>1, <4>2
    <3> QED  BY <3>2, <3>3, Zenon
  <2> QED  BY <1>1, <2>1, <2>2, CommitMoves, Zenon
<1>8. Types'
  <2>1. /\ voters' \in [Nodes -> SUBSET Nodes] /\ learners' \in [Nodes -> SUBSET Nodes]
        /\ DOMAIN peers' = Nodes
    BY <1>1, <1>2, <1>3, Zenon DEF Set
  <2>2. applied' \in [Nodes -> Nat] /\ snap' \in [Nodes -> Nat]
    BY <1>1, <1>3, <1>6, Zenon DEF Set
  <2> QED  BY <1>1, <1>3, <1>7, <2>1, <2>2, Zenon DEF Types, LastIndex
<1>9. ASSUME NEW m \in Nodes
      PROVE  Indices(m)' /\ Config(m)' /\ Peers(m)' /\ KnowsEarlier(m)'
  <2>1. Indices(m) /\ Config(m) /\ Peers(m) /\ KnowsEarlier(m)
    BY Zenon DEF ElectInv
  <2>2. known'[m] \in Nat /\ known[m] \in Nat /\ recv[m] \in Nat /\ saved[m] \in Nat
        /\ known[m] <= known'[m] /\ known'[m] <= commit' /\ known'[m] <= recv[m]
        /\ recv[m] <= recv[m] /\ saved[m] <= known[m] /\ Boot <= known[m]
    <3>1. known[m] \in Nat /\ recv[m] \in Nat /\ saved[m] \in Nat /\ saved[m] <= known[m]
          /\ Boot <= known[m]
      BY Facts, Zenon
    <3>2. recv[m] <= recv[m]
      BY <3>1
    <3> QED  BY <1>7, <3>1, <3>2, Zenon
  <2>3. Knows(log, recv[m], known'[m])
    BY <2>1, <2>2, KnowsStill, Zenon DEF KnowsEarlier
  <2>4. CASE m = n
    <3>1. Indices(n)'
      BY <1>1, <1>4, <1>6, <2>1, <2>2, <2>4, Zenon DEF Indices
    <3>2. Config(n)'
      BY <1>1, <1>2, <1>4, <2>2, <2>4, Zenon DEF Config
    <3>3. Peers(n)'
      BY <1>1, <1>2, <1>4, Zenon DEF Peers, Members
    <3>4. KnowsEarlier(n)'
      BY <1>1, <1>4, <2>1, <2>3, <2>4, Zenon DEF KnowsEarlier
    <3> QED  BY <2>4, <3>1, <3>2, <3>3, <3>4, Zenon
  <2>5. CASE m # n
    <3>1. saved[m] <= known'[m]
      BY <2>2
    <3>2. Indices(m)'
      BY <1>1, <1>5, <2>1, <2>2, <2>5, <3>1, Zenon DEF Indices
    <3>3. Config(m)' /\ Peers(m)'
      BY <1>1, <1>5, <2>1, <2>5, Zenon DEF Config, Peers, Members
    <3>4. KnowsEarlier(m)'
      BY <1>1, <1>5, <2>1, <2>3, <2>5, Zenon DEF KnowsEarlier
    <3> QED  BY <3>2, <3>3, <3>4, Zenon
  <2> QED  BY <2>4, <2>5, Zenon
<1>10. ASSUME leader # None
       PROVE  /\ leader \in Nodes /\ up[leader] /\ applied'[leader] \in Nat
              /\ applied[leader] <= applied'[leader] /\ Boot <= applied'[leader]
              /\ applied'[leader] <= commit
              /\ AtMostOneChange(log, applied'[leader], LastIndex)
  <2>1. leader \in Nodes
    BY <1>10, Zenon DEF Inv, Numbers
  <2>2. /\ up[leader] /\ Boot <= applied[leader]
        /\ AtMostOneChange(log, applied[leader], LastIndex)
    BY <1>10, Zenon DEF ElectInv, Leading
  <2>3. /\ applied[leader] \in Nat /\ known[leader] \in Nat /\ applied[leader] <= known[leader]
        /\ known[leader] <= commit
    BY <2>1, Facts, Zenon
  <2>4. applied'[leader] = known[leader] \/ applied'[leader] = applied[leader]
    BY <1>4, <1>5, <2>1, Zenon
  <2>5. /\ applied'[leader] \in Nat /\ applied[leader] <= applied'[leader]
        /\ Boot <= applied'[leader] /\ applied'[leader] <= commit
    BY <1>0, <2>2, <2>3, <2>4
  <2>6. \A c \in applied'[leader] + 1 .. LastIndex : c \in applied[leader] + 1 .. LastIndex
    BY <1>0, <2>3, <2>5
  <2>7. AtMostOneChange(log, applied'[leader], LastIndex)
    BY <2>2, <2>6, Zenon DEF AtMostOneChange
  <2> QED  BY <2>1, <2>2, <2>5, <2>7, Zenon
<1>11. Leading'
  <2>1. LastIndex' = LastIndex
    BY <1>1, Zenon DEF LastIndex
  <2> QED  BY <1>1, <1>10, <2>1, Zenon DEF ElectInv, Leading
<1>12. Chosen'
  <2>1. ChosenIn(log, held', commit)
    <3>1. ASSUME NEW m \in Nodes
          PROVE  held[m] <= held'[m]
      <4>1. held[m] \in Nat /\ held[m] <= recv[m]
        BY Facts, Zenon
      <4>2. held[m] <= held[m]
        BY <4>1
      <4> QED  BY <1>4, <1>5, <4>1, <4>2, Zenon
    <3>2. ChosenIn(log, held, commit)
      BY Zenon DEF ElectInv, Chosen
    <3> QED  BY <1>0, <1>3, <3>1, <3>2, ChosenKept, Zenon
  <2>2. CASE commit' = commit
    BY <1>1, <2>1, <2>2, Zenon DEF Chosen
  <2>3. CASE commit' # commit
    <3>1. PICK k \in Nat : /\ leader \in Nodes /\ leader # None /\ k <= LastIndex
                           /\ OnMajority(k)' /\ commit' = Larger(commit, k)
      BY <1>1, <2>3, CommitMoves, Zenon
    <3>2. commit' = k /\ commit < k
      BY <1>0, <2>3, <3>1 DEF Larger
    <3>3. /\ Boot <= applied'[leader] /\ applied'[leader] \in Nat /\ applied'[leader] <= commit
          /\ AtMostOneChange(log, applied'[leader], Boot + Len(log))
      BY <1>0, <1>10, <3>1, Zenon
    <3>4. voters'[leader] = VotersAt(log, applied'[leader])
      <4>1. applied'[leader] # 0
        <5>1. 0 < Boot
          BY Facts, Zenon
        <5> QED  BY <1>0, <3>3, <5>1
      <4>2. PICK p \in Nodes : p = leader
        BY <3>1, Zenon
      <4>3. Config(p)'
        BY <1>9, Zenon
      <4> QED  BY <1>1, <4>1, <4>2, <4>3, Zenon DEF Config
    <3>5. OnDisks(held', VotersAt(log, applied'[leader]), k)
      <4>1. VotersAt(log, applied'[leader]) \in SUBSET Nodes
        BY Zenon DEF VotersAt
      <4>2. voters'[leader'] \in SUBSET Nodes
        BY <1>1, <3>4, <4>1, Zenon
      <4>3. OnDisks(held', voters'[leader'], k)
        BY <3>1, <4>2, AnswersAreOnDisk, Zenon
      <4> QED  BY <1>1, <3>4, <4>3, Zenon
    <3>6. ChosenIn(log, held', k)
      BY <1>0, <1>3, <2>1, <3>1, <3>2, <3>3, <3>5, ChosenMore, Zenon
    <3> QED  BY <1>1, <3>2, <3>6, Zenon DEF Chosen
  <2> QED  BY <2>2, <2>3, Zenon
<1> QED  BY <1>8, <1>9, <1>11, <1>12, Zenon DEF ElectInv

\* An iteration of run keeps the invariant, whether or not applyEntry ends the process.
LEMMA ReadyStep ==
  ASSUME Inv, Inv', ElectInv, NEW n \in Nodes, HandleReady(n)
  PROVE  ElectInv'
<1>1. up[n] /\ Save(n)
  BY Zenon DEF HandleReady, HasReady
<1>2. CASE ~ ApplyCommitted(n).panics
  <2>1. Advance(n, ApplyCommitted(n))
    BY <1>2, Zenon DEF HandleReady
  <2> QED  BY <1>1, <2>1, AdvanceStep, Zenon
<1>3. CASE ApplyCommitted(n).panics
  <2>1. ProcessGone(n, recv[n], known[n])
    BY <1>3, Zenon DEF HandleReady
  <2>2. /\ recv[n] \in Nat /\ known[n] \in Nat /\ held[n] <= recv[n] /\ saved[n] <= known[n]
        /\ known[n] <= commit /\ known[n] <= recv[n]
    BY Facts, Zenon
  <2>3. Knows(log, recv[n], known[n])
    BY Zenon DEF ElectInv, KnowsEarlier
  <2>4. /\ held' \in [Nodes -> Nat] /\ held'[n] = recv[n] /\ saved'[n] = known[n]
        /\ \A m \in Nodes : m # n => held'[m] = held[m] /\ saved'[m] = saved[m]
    BY <1>1, Zenon DEF Save, Set, Inv, Numbers
  <2> QED  BY <2>1, <2>2, <2>3, <2>4, GoneStep, Zenon
<1> QED  BY <1>2, <1>3, Zenon
----------------------------------------------------------------------------
(* The theorems. *)

\* The invariant holds at the start: no conf change is in the log, and the first leader's
\* entry is on the disk of every voter.
LEMMA ElectInit == Init => ElectInv
<1> SUFFICES ASSUME Init
             PROVE  ElectInv
  BY Zenon
<1>0. Boot \in Nat /\ 0 < Boot
  BY BootType, BootVoters, ConstantsAssumption, Zenon
<1>1. /\ log = << Normal >> /\ commit = Boot + 1 /\ leader \in Initial /\ pendingConf = Boot
      /\ recv = [n \in Nodes |-> FirstIndex(n)] /\ known = [n \in Nodes |-> FirstIndex(n)]
      /\ voters = [n \in Nodes |-> Initial] /\ learners = [n \in Nodes |-> {}]
      /\ held = [n \in Nodes |-> FirstIndex(n)] /\ saved = [n \in Nodes |-> FirstIndex(n)]
      /\ snap = [n \in Nodes |-> SnapshotDue(SnapshotDue(0, Boot), FirstIndex(n))]
      /\ up = [n \in Nodes |-> TRUE] /\ applied = [n \in Nodes |-> FirstIndex(n)]
      /\ peers = [n \in Nodes |-> StartPeers(n, InitialPeers)]
  BY Zenon DEF Init
<1>2. log \in Seq(Entries) /\ Len(log) = 1 /\ At(log, Boot + 1) = Normal
  <2>1. Normal \in Entries
    BY EntriesMade, Zenon
  <2> HIDE DEF Entries, Normal
  <2>2. log \in Seq(Entries) /\ Len(log) = 1 /\ log[1] = Normal
    BY <1>1, <2>1
  <2>3. (Boot + 1) - Boot = 1
    BY <1>0
  <2> QED  BY <2>2, <2>3, Zenon DEF At
<1>3. /\ LastIndex = Boot + 1 /\ Boot + Len(log) = Boot + 1 /\ Boot + 1 \in Nat
      /\ Boot + 1 <= Boot + 1 /\ Boot <= Boot + 1 /\ Boot <= Boot
      /\ \A i \in Boot + 1 .. Boot + Len(log) : i = Boot + 1
  BY <1>0, <1>2 DEF LastIndex
<1>4. Normal.type = "Normal" /\ Normal.node = None
  BY Zenon DEF Normal, Change
<1>5. \A c : ~ IsChange(log, c)
  BY <1>2, <1>3, <1>4, Zenon DEF IsChange
<1>6. ASSUME NEW n \in Nodes
      PROVE  /\ FirstIndex(n) \in {Boot, Boot + 1}
             /\ SnapshotDue(SnapshotDue(0, Boot), FirstIndex(n)) \in {0, Boot, FirstIndex(n)}
  BY Zenon DEF FirstIndex, SnapshotDue
<1>7. VotersAt(log, Boot) = Initial /\ LearnersAt(log, Boot) = {}
  BY ConfigStart, Zenon
<1>8. VotersAt(log, Boot + 1) = Initial /\ LearnersAt(log, Boot + 1) = {}
  <2>1. Unchanged(log, Boot, Boot + 1)
    BY <1>5, Zenon DEF Unchanged
  <2>2. VotersAt(log, Boot) = VotersAt(log, Boot + 1)
    BY <1>0, <1>2, <1>3, <2>1, NoChangeBetween, Zenon
  <2>3. Boot < Boot + Len(log)
    BY <1>0, <1>2
  <2>4. LearnersAt(log, Boot + 1) = LearnersAfter(LearnersAt(log, Boot), At(log, Boot + 1))
    BY <1>0, <1>2, <1>3, <2>3, ConfigStep, Zenon
  <2>5. LearnersAfter({}, Normal) = {}
    BY <1>4 DEF LearnersAfter
  <2> QED  BY <1>2, <1>7, <2>2, <2>4, <2>5, Zenon
<1>9. Types
  <2>1. \A n \in Nodes : /\ FirstIndex(n) \in Nat
                         /\ SnapshotDue(SnapshotDue(0, Boot), FirstIndex(n)) \in Nat
    BY <1>0, <1>3, <1>6
  <2>2. Initial \in SUBSET Nodes
    BY ConstantsAssumption, Zenon
  <2> QED  BY <1>0, <1>1, <1>3, <2>1, <2>2, Zenon DEF Types
<1>10. Leading
  <2>1. leader \in Nodes /\ FirstIndex(leader) = Boot + 1
    BY <1>1, ConstantsAssumption, Zenon DEF FirstIndex
  <2>2. Unchanged(log, pendingConf, LastIndex) /\ AtMostOneChange(log, applied[leader], LastIndex)
    BY <1>5, Zenon DEF Unchanged, AtMostOneChange
  <2> QED  BY <1>1, <1>3, <2>1, <2>2, Zenon DEF Leading
<1>11. Chosen
  <2>1. OnDisks(held, Initial, Boot + 1)
    <3>1. \A m \in Initial : held[m] = Boot + 1
      BY <1>1, ConstantsAssumption, Zenon DEF FirstIndex
    <3>2. {m \in Initial : held[m] >= Boot + 1} = Initial
      BY <1>0, <3>1
    <3>3. 2 * Cardinality(Initial) > Cardinality(Initial)
      <4>1. Cardinality(Initial) = Boot
        BY Zenon DEF Boot
      <4> QED  BY <1>0, <4>1
    <3> QED  BY <3>2, <3>3, Zenon DEF OnDisks, Majority
  <2>2. Boot \in Boot .. Boot + 1
    BY <1>0
  <2>3. AtMostOneChange(log, Boot, Boot + 1)
    BY <1>5, Zenon DEF AtMostOneChange
  <2> QED  BY <1>1, <1>3, <1>5, <1>7, <2>1, <2>2, <2>3, Zenon DEF Chosen, ChosenIn
<1>12. ASSUME NEW n \in Nodes
       PROVE  Indices(n) /\ Config(n) /\ Peers(n) /\ KnowsEarlier(n)
  <2> DEFINE f == FirstIndex(n)
  <2>1. /\ recv[n] = f /\ known[n] = f /\ held[n] = f /\ saved[n] = f /\ applied[n] = f
        /\ voters[n] = Initial /\ learners[n] = {} /\ up[n] = TRUE
        /\ peers[n] = StartPeers(n, InitialPeers)
        /\ snap[n] = SnapshotDue(SnapshotDue(0, Boot), f)
    BY <1>1, Zenon
  <2>2. f = Boot \/ f = Boot + 1
    BY <1>6, Zenon
  <2>3. f <= f /\ f <= commit /\ Boot <= f /\ SnapshotDue(SnapshotDue(0, Boot), f) <= f
    BY <1>0, <1>1, <1>6, <2>2
  <2> HIDE DEF f
  <2>4. Indices(n)
    BY <2>1, <2>3, Zenon DEF Indices
  <2>5. Config(n)
    BY <1>7, <1>8, <2>1, <2>2, <2>3, Zenon DEF Config
  <2>6. Peers(n)
    <3>1. Initial \cup {} \subseteq Initial
      BY Zenon
    <3>2. InTouch(log, n, f, Initial \cup {}, StartPeers(n, InitialPeers))
      BY <3>1, StartInTouch, Zenon
    <3> QED  BY <2>1, <3>2, Zenon DEF Peers, Members
  <2>7. KnowsEarlier(n)
    BY <1>5, Zenon DEF KnowsEarlier, Knows
  <2> QED  BY <2>4, <2>5, <2>6, <2>7, Zenon
<1> QED  BY <1>9, <1>10, <1>11, <1>12, Zenon DEF ElectInv

\* Every step keeps the invariant, unless it starts a server from a snapshot.
LEMMA ElectNext ==
  ASSUME Inv, Inv', ElectInv, [Next]_vars, \A n \in Nodes : ~ up[n] /\ up'[n] => snap[n] = 0
  PROVE  ElectInv'
<1>1. CASE \E n \in Nodes : HandleReady(n) \/ SendAppend(n) \/ Election(n) \/ Crash(n)
  BY <1>1, ReadyStep, AppendStep, ElectionStep, CrashStep, Zenon
<1>2. ASSUME NEW n \in Nodes, NEW flag \in LaterPeers, Restart(n, flag)
      PROVE  ElectInv'
  <2>1. ~ up[n] /\ up'[n]
    BY <1>2, Zenon DEF Restart, Set, ElectInv, Types
  <2> QED  BY <1>2, <2>1, RestartStep, Zenon
<1>3. ASSUME NEW m \in Nodes, AddLearner(m) \/ Promote(m) \/ RemoveNode(m)
      PROVE  ElectInv'
  BY <1>3, EntriesMade, ProposalStep, Zenon DEF AddLearner, Promote, RemoveNode
<1>4. ASSUME NEW m \in Nodes, TransferLeader(m)
      PROVE  ElectInv'
  BY <1>4, ElectionStep, Zenon DEF TransferLeader
<1>5. CASE UNCHANGED vars
  <2>1. UNCHANGED <<log, commit, leader, pendingConf, recv, known, voters, learners, held, saved,
                    snap, up, applied, peers>>
    BY <1>5, Zenon DEF vars, cluster, library, disk, server
  <2>2. LastIndex' = LastIndex
    BY <2>1, Zenon DEF LastIndex
  <2>3. Types' /\ Leading' /\ Chosen'
    BY <2>1, <2>2, Zenon DEF ElectInv, Types, Leading, Chosen
  <2>4. \A n \in Nodes : Indices(n)' /\ Config(n)' /\ Peers(n)' /\ KnowsEarlier(n)'
    BY <2>1, Zenon DEF ElectInv, Indices, Config, Peers, Members, KnowsEarlier
  <2> QED  BY <2>3, <2>4, Zenon DEF ElectInv
<1> QED  BY <1>1, <1>2, <1>3, <1>4, <1>5, Zenon DEF Next, Admin

\* So it holds as long as no server starts from a snapshot.
LEMMA ElectInvariant == Spec /\ NoSnapshotRestored => [](Inv /\ ElectInv)
<1>1. Init => Inv /\ ElectInv
  BY InvInit, ElectInit, Zenon
<1>2. Inv /\ [Next]_vars => Inv'
  BY InvNext, Zenon
<1>3. /\ Inv /\ ElectInv /\ Inv' /\ [Next]_vars
      /\ [\A n \in Nodes : ~ up[n] /\ up'[n] => snap[n] = 0]_vars
      => ElectInv'
  <2> SUFFICES ASSUME Inv, ElectInv, Inv', [Next]_vars,
                      [\A n \in Nodes : ~ up[n] /\ up'[n] => snap[n] = 0]_vars
               PROVE  ElectInv'
    BY Zenon
  <2>1. \A n \in Nodes : ~ up[n] /\ up'[n] => snap[n] = 0
    <3>1. CASE UNCHANGED vars
      BY <3>1, Zenon DEF vars, server
    <3> QED  BY <3>1, Zenon
  <2> QED  BY <2>1, ElectNext, Zenon
<1> QED  BY <1>1, <1>2, <1>3, PTL DEF Spec, NoSnapshotRestored

\* No step but an election begins a term.
LEMMA TermsBegin ==
  ASSUME ElectInv, Next, term' # term
  PROVE  \E n \in Nodes : Election(n)
<1>1. ASSUME NEW n \in Nodes
      PROVE  ~ (HandleReady(n) \/ SendAppend(n) \/ Crash(n))
  <2>1. ~ HandleReady(n)
    <3>1. ASSUME HandleReady(n)
          PROVE  term' = term
      <4>1. ProcessGone(n, recv[n], known[n]) \/ Advance(n, ApplyCommitted(n))
        BY <3>1, Zenon DEF HandleReady
      <4> QED  BY <4>1, Zenon DEF ProcessGone, Advance
    <3> QED  BY <3>1, Zenon
  <2>2. ~ SendAppend(n)
    BY Zenon DEF SendAppend, cluster
  <2>3. ~ Crash(n)
    BY Zenon DEF Crash, ProcessGone
  <2> QED  BY <2>1, <2>2, <2>3, Zenon
<1>2. \A n \in Nodes, flag \in LaterPeers : ~ Restart(n, flag)
  BY Zenon DEF Restart, cluster
<1>3. \A cc : ~ ProposeConfChange(cc)
  BY Zenon DEF ProposeConfChange
<1>4. CASE \E n \in Nodes : HandleReady(n) \/ SendAppend(n) \/ Election(n) \/ Crash(n)
  BY <1>1, <1>4, Zenon
<1>5. CASE Admin
  BY <1>3, <1>5, Zenon DEF Admin, AddLearner, Promote, RemoveNode, TransferLeader
<1> QED  BY <1>2, <1>4, <1>5, Zenon DEF Next

\* Election safety (README.md:293): whatever changes of the configuration, promotions
\* without catch-up, elections and crashes come before, a server that wins an election has
\* every committed entry, as long as none starts from a snapshot.  Any number of servers.
THEOREM ElectionsAreSafe == Spec /\ NoSnapshotRestored => ElectionSafety
<1>1. Inv /\ ElectInv /\ [Next]_vars => [term' # term => termStart' > commit]_vars
  <2> SUFFICES ASSUME Inv, ElectInv, Next, term' # term
               PROVE  termStart' > commit
    BY Zenon
  <2>1. PICK n \in Nodes : Election(n)
    BY TermsBegin, Zenon
  <2>2. commit <= recv[n] /\ termStart' = recv[n] + 1
    BY <2>1, WinnerHasCommitted, Zenon DEF Election
  <2>3. commit \in Nat /\ recv[n] \in Nat
    BY Facts, Zenon
  <2> QED  BY <2>2, <2>3
<1> QED  BY <1>1, ElectInvariant, PTL DEF Spec, ElectionSafety

\* The indices of every server stay in order: applied, saved, known and received, none
\* beyond the log, what is known to be committed is, and no member is voter and learner.
THEOREM TypeCorrect == Spec /\ NoSnapshotRestored => []TypeOK
<1>1. Inv /\ ElectInv => TypeOK
  <2> SUFFICES ASSUME Inv, ElectInv
               PROVE  TypeOK
    BY Zenon
  <2>1. \A i \in DOMAIN log : log[i].type \in {"Normal", "AddNode", "AddLearner", "RemoveNode"}
    <3>1. log \in Seq(Entries)
      BY Facts, Zenon
    <3> HIDE DEF Entries
    <3>2. \A i \in DOMAIN log : log[i] \in Entries
      BY <3>1
    <3> QED  BY <3>2, EntryKinds, Zenon
  <2>2. commit \in Boot .. LastIndex /\ pendingConf \in 0 .. LastIndex
    <3>1. PICK n \in Nodes : TRUE
      BY ConstantsAssumption, Zenon
    <3>2. /\ commit \in Nat /\ commit <= LastIndex /\ Boot <= known[n] /\ known[n] <= commit
          /\ known[n] \in Nat /\ Boot \in Nat /\ LastIndex \in Nat
      BY Facts, Zenon
    <3>3. pendingConf \in Nat /\ pendingConf <= LastIndex
      BY Zenon DEF ElectInv, Types
    <3> QED  BY <3>2, <3>3
  <2>3. ASSUME NEW n \in Nodes
        PROVE  /\ match[n] \in 0 .. LastIndex
               /\ Members(n) \subseteq Nodes /\ voters[n] \cap learners[n] = {}
               /\ DOMAIN peers[n] \subseteq Nodes
    <3>1. match[n] \in 0 .. LastIndex
      <4>1. /\ match[n] \in Nat /\ held[n] \in Nat /\ recv[n] \in Nat /\ LastIndex \in Nat
            /\ match[n] <= held[n] /\ held[n] <= recv[n] /\ recv[n] <= LastIndex
        BY Facts, Zenon
      <4> QED  BY <4>1
    <3>2. voters[n] \in SUBSET Nodes /\ learners[n] \in SUBSET Nodes /\ applied[n] \in Nat
      BY Zenon DEF ElectInv, Types
    <3>3. voters[n] \cap learners[n] = {}
      <4>1. Config(n)
        BY Zenon DEF ElectInv
      <4>2. VotersAt(log, applied[n]) \cap LearnersAt(log, applied[n]) = {}
        BY <3>2, NeverBoth, Zenon
      <4> QED  BY <4>1, <4>2, Zenon DEF Config
    <3>4. DOMAIN peers[n] \subseteq Nodes
      BY Zenon DEF ElectInv, Peers, InTouch
    <3> QED  BY <3>1, <3>2, <3>3, <3>4, Zenon DEF Members
  <2>4. leader \in Nodes \cup {None}
    BY Zenon DEF Inv, Numbers
  <2> QED  BY <2>1, <2>2, <2>3, <2>4, Facts, Zenon DEF TypeOK
<1> QED  BY <1>1, ElectInvariant, PTL

\* Servers that have applied the same entries have the same voters and learners, in
\* whatever orders the initial peers were written.
THEOREM ConfigsDoAgree == Spec /\ NoSnapshotRestored => []ConfigsAgree
<1>1. Inv /\ ElectInv => ConfigsAgree
  <2> SUFFICES ASSUME Inv, ElectInv, NEW n \in Nodes, NEW m \in Nodes,
                      applied[n] = applied[m], applied[n] >= Boot
               PROVE  voters[n] = voters[m] /\ learners[n] = learners[m]
    BY Zenon DEF ConfigsAgree
  <2>1. applied[n] # 0
    <3>1. Boot \in Nat /\ 0 < Boot /\ applied[n] \in Nat
      BY Facts, Zenon
    <3> QED  BY <3>1
  <2>2. Config(n) /\ Config(m)
    BY Zenon DEF ElectInv
  <2> QED  BY <2>1, <2>2, Zenon DEF Config
<1> QED  BY <1>1, ElectInvariant, PTL

\* A running server's transport has a peer for every other member of its configuration.
THEOREM MembersHavePeers == Spec /\ NoSnapshotRestored => []MembersArePeers
<1>1. Inv /\ ElectInv => MembersArePeers
  BY Zenon DEF ElectInv, Peers, InTouch, MembersArePeers
<1> QED  BY <1>1, ElectInvariant, PTL

\* If every flag names the initial peers at the addresses where they listen, a running
\* server can reach each of them until it applies its removal.
THEOREM InitialPeersAreReachable ==
  ASSUME FlagsNameListeners
  PROVE  Spec /\ NoSnapshotRestored => []InitialPeersReachable
<1>1. Inv /\ ElectInv => InitialPeersReachable
  <2> SUFFICES ASSUME Inv, ElectInv, NEW n \in Nodes, NEW m \in Initial, up[n], n # m,
                      \A i \in 1 .. applied[n] :
                        EntryAt(n, i).type = "RemoveNode" => EntryAt(n, i).node # m
               PROVE  Reaches(n, m)
    BY Zenon DEF InitialPeersReachable
  <2>1. InTouch(log, n, applied[n], Members(n), peers[n])
    BY Zenon DEF ElectInv, Peers
  <2>2. ~ Removed(log, applied[n], m)
    <3> SUFFICES ASSUME NEW j \in Boot + 1 .. applied[n],
                        At(log, j).type = "RemoveNode", At(log, j).node = m
                 PROVE  FALSE
      BY Zenon DEF Removed
    <3>1. Boot \in Nat /\ applied[n] \in Nat
      BY Facts, Zenon
    <3>2. j \in 1 .. applied[n] /\ ~ (j <= Boot)
      BY <3>1
    <3>3. EntryAt(n, j) = At(log, j)
      BY <3>2, Zenon DEF EntryAt, At
    <3> QED  BY <3>2, <3>3, Zenon
  <2> QED  BY <2>1, <2>2, FlagsNameListeners, Zenon DEF InTouch, Reaches
<1> QED  BY <1>1, ElectInvariant, PTL

\* For any servers, flags, changes of the configuration, elections, crashes, restarts and
\* lost messages: when CaughtUp says yes of another node, its wal.log holds all but maxLag of
\* the entries the leader knows to be committed.
THEOREM CaughtUpHolds == Spec => []CaughtUpIsDurable
<1>1. Init => Inv
  BY InvInit, Zenon
<1>2. Inv /\ [Next]_vars => Inv'
  BY InvNext, Zenon
<1>3. Inv => CaughtUpIsDurable
  <2> SUFFICES ASSUME Inv, NEW n \in Nodes, NEW m \in Nodes, CaughtUp(n, m)
               PROVE  held[m] + MaxLag >= known[n]
    BY Zenon DEF CaughtUpIsDurable
  <2>1. /\ match[m] \in Nat /\ held[m] \in Nat /\ known[n] \in Nat /\ MaxLag \in Nat
        /\ match[m] <= held[m] /\ known[n] <= match[m] + MaxLag
    BY ConstantsAssumption, Zenon DEF Inv, Numbers, InOrder, CaughtUp, IsNodeCaughtUp
  <2> QED  BY <2>1
<1> QED  BY <1>1, <1>2, <1>3, PTL DEF Spec
=============================================================================
