-------------------------- MODULE NodeStorage_proofs --------------------------
(***************************************************************************)
(* Proofs about NodeStorage.                                               *)
(***************************************************************************)
EXTENDS NodeStorage_inv, FiniteSetTheorems, WellFoundedInduction, TLAPS

\* A non-empty set of natural numbers has a least element.
LEMMA LeastExists ==
  ASSUME NEW S \in SUBSET Nat, S # {}
  PROVE  \E i \in S : \A j \in S : i <= j
<1> DEFINE R == {p \in Nat \X Nat : p[1] < p[2]}
<1>1. IsWellFoundedOn(R, Nat)
  BY NatLessThanWellFounded, Zenon DEF OpToRel
<1>2. \E i \in S : \A j \in S : ~ (<<j, i>> \in R)
  <2> HIDE DEF R
  <2> QED  BY <1>1, WFMin, Zenon
<1>3. PICK i \in S : \A j \in S : ~ (<<j, i>> \in R)
  BY <1>2, Zenon
<1>4. \A j \in S : i <= j
  <2> TAKE j \in S
  <2>1. i \in Nat /\ j \in Nat
    BY Zenon
  <2>2. ~ (j < i)
    BY <1>3, <2>1, Zenon
  <2> QED  BY <2>1, <2>2
<1> QED  BY <1>4, Zenon

\* A non-empty, bounded set of natural numbers has a greatest element.
LEMMA GreatestExists ==
  ASSUME NEW S \in SUBSET Nat, S # {}, NEW n \in Nat, \A i \in S : i <= n
  PROVE  \E i \in S : \A j \in S : j <= i
<1> DEFINE T == {m \in Nat : \E i \in S : m = n - i}
<1>1. T \in SUBSET Nat /\ T # {}
  <2>1. PICK i \in S : TRUE
    BY Zenon
  <2>2. n - i \in T
    BY <2>1
  <2> QED  BY <2>2, Zenon
<1>2. PICK t \in T : \A u \in T : t <= u
  <2> HIDE DEF T
  <2> QED  BY <1>1, LeastExists, Zenon
<1>3. PICK i \in S : t = n - i
  BY Zenon
<1>4. ASSUME NEW j \in S  PROVE j <= i
  <2>1. n - j \in T
    OBVIOUS
  <2>2. n - i <= n - j
    BY <1>2, <1>3, <2>1, Zenon
  <2> QED  BY <2>2
<1> QED  BY <1>4, Zenon

\* A non-empty, bounded set of natural numbers has a greatest element, and
\* MaxOf picks it.
LEMMA MaxOfExists ==
  ASSUME NEW S \in SUBSET Nat, S # {}, NEW n \in Nat, \A i \in S : i <= n
  PROVE  MaxOf(S) \in S /\ \A j \in S : j <= MaxOf(S)
BY GreatestExists, Zenon DEF MaxOf

\* An upper bound that belongs to a set of numbers is its MaxOf.
LEMMA MaxOfIs ==
  ASSUME NEW S \in SUBSET Nat, NEW m \in S, \A j \in S : j <= m
  PROVE  MaxOf(S) = m
<1>1. MaxOf(S) \in S /\ \A j \in S : j <= MaxOf(S)
  BY MaxOfExists, Zenon
<1>2. MaxOf(S) \in Nat /\ m \in Nat /\ MaxOf(S) <= m /\ m <= MaxOf(S)
  BY <1>1, Zenon
<1> QED  BY <1>2

\* In a finite set of natural numbers every rank from 1 to its cardinality
\* belongs to some element: ReadEntries takes the records in file order.
LEMMA RankExists ==
  ASSUME NEW D \in SUBSET Nat, NEW n \in Nat, \A p \in D : p <= n,
         NEW k \in 1..Cardinality(D)
  PROVE  \E p \in D : Cardinality({q \in D : q <= p}) = k
<1> DEFINE Below(p) == {q \in D : q <= p}
           T == {p \in D : Cardinality(Below(p)) >= k}
<1>1. IsFiniteSet(D) /\ Cardinality(D) \in Nat
  BY FS_BoundedSetOfNaturals, FS_CardinalityType, Zenon
<1>2. \A S \in SUBSET D : IsFiniteSet(S) /\ Cardinality(S) \in Nat
  BY <1>1, FS_Subset, FS_CardinalityType, Zenon
<1>3. T \in SUBSET Nat /\ T # {}
  <2>1. D # {}
    BY FS_EmptySet
  <2>2. MaxOf(D) \in D /\ \A q \in D : q <= MaxOf(D)
    BY <2>1, MaxOfExists, Zenon
  <2>3. Below(MaxOf(D)) = D
    BY <2>2, Zenon
  <2>4. MaxOf(D) \in T
    BY <2>2, <2>3, <1>1
  <2> QED  BY <2>4, Zenon
<1>4. PICK p \in T : \A q \in T : p <= q
  <2> HIDE DEF T
  <2> QED  BY <1>3, LeastExists, Zenon
<1> DEFINE B == Below(p) \ {p}
<1>5. Cardinality(B) = Cardinality(Below(p)) - 1 /\ Cardinality(B) \in Nat
  <2>1. p \in Below(p) /\ IsFiniteSet(Below(p)) /\ IsFiniteSet(B)
    BY <1>2
  <2>2. Cardinality(B) \in Nat
    BY <2>1, FS_CardinalityType, Zenon
  <2> QED  BY <2>1, <2>2, FS_RemoveElement, Zenon
<1>6. Cardinality(Below(p)) = k
  <2>1. SUFFICES ASSUME Cardinality(B) >= k  PROVE FALSE
    BY <1>5, <1>2
  <2>2. B # {}
    BY <2>1, FS_EmptySet
  <2>3. B \in SUBSET Nat /\ \A i \in B : i <= n
    BY Zenon
  <2> DEFINE m == MaxOf(B)
  <2>4. m \in B /\ \A j \in B : j <= m
    <3> HIDE DEF B
    <3> QED  BY <2>2, <2>3, MaxOfExists, Zenon
  <2> HIDE DEF m
  <2>5. Below(m) = B
    <3>1. m \in Nat /\ p \in Nat /\ m < p
      BY <2>4
    <3>2. \A q \in D : q <= m => q \in B
      BY <3>1
    <3>3. \A q \in B : q \in D /\ q <= m
      BY <2>4, Zenon
    <3> QED  BY <3>2, <3>3, Zenon
  <2>6. m \in T
    BY <2>1, <2>4, <2>5, Zenon
  <2> QED  BY <1>4, <2>4, <2>6
<1> QED  BY <1>6, Zenon

\* ReadEntries is the entry records, numbered from 1.
LEMMA ReadEntriesType ==
  ASSUME walEnd \in Nat, IsPartial(walEnts, Entry), DOMAIN walEnts \subseteq 0..walEnd
  PROVE  /\ Cardinality(DOMAIN walEnts) \in Nat
         /\ ReadEntries \in [1..Cardinality(DOMAIN walEnts) -> Entry]
<1>0. DOMAIN walEnts \in SUBSET Nat /\ \A p \in DOMAIN walEnts : p <= walEnd
  OBVIOUS
<1>1. Cardinality(DOMAIN walEnts) \in Nat
  BY <1>0, FS_BoundedSetOfNaturals, FS_CardinalityType, Zenon
<1>2. ASSUME NEW k \in 1..Cardinality(DOMAIN walEnts)
      PROVE  walEnts[CHOOSE p \in DOMAIN walEnts :
                       Cardinality({q \in DOMAIN walEnts : q <= p}) = k] \in Entry
  <2>1. \E p \in DOMAIN walEnts : Cardinality({q \in DOMAIN walEnts : q <= p}) = k
    BY <1>0, RankExists, Zenon
  <2> QED  BY <2>1, Zenon DEF IsPartial
<1> QED  BY <1>1, <1>2, Zenon DEF ReadEntries

\* What MemoryStorage holds after a replay that did not panic is a log of
\* entries that starts right after the snapshot.
LEMMA ReplayType ==
  ASSUME NEW s \in Nat, NEW n \in Nat, NEW e \in [1..n -> Entry],
         ~Replay(s, e).panic
  PROVE  /\ Replay(s, e).last \in Nat /\ Replay(s, e).last >= s
         /\ Replay(s, e).ents \in [s+1..Replay(s, e).last -> Entry]
<1>1. Cardinality(DOMAIN e) = n
  BY FS_Interval
<1>2. CASE n = 0 \/ e[1].index + n - 1 < s + 1
  <2>1. Replay(s, e) = [panic |-> FALSE, last |-> s, ents |-> NoEntries]
    BY <1>1, <1>2, Zenon DEF Replay
  <2>2. s+1..s = {}
    OBVIOUS
  <2>3. NoEntries \in [{} -> Entry]
    BY Zenon DEF NoEntries
  <2> QED  BY <2>1, <2>2, <2>3
<1>3. CASE ~(n = 0 \/ e[1].index + n - 1 < s + 1)
  <2> DEFINE drop == IF s + 1 > e[1].index THEN s + 1 - e[1].index ELSE 0
             next == e[drop + 1].index
             skip == IF next = s THEN drop + 1 ELSE drop
             body == [i \in s+1..s+n-skip |-> e[i - s + skip]]
  <2>1. e[1].index \in Nat /\ e[1].index > 0
    BY <1>3 DEF Entry
  <2>2. drop \in 0..n-1
    BY <1>3, <2>1
  <2>3. skip \in 0..n
    BY <2>2
  <2>4. Replay(s, e) = [panic |-> FALSE, last |-> s + n - skip, ents |-> body]
    BY <1>1, <1>3, Zenon DEF Replay
  <2>5. body \in [s+1..s+n-skip -> Entry]
    <3>1. \A i \in s+1..s+n-skip : i - s + skip \in 1..n
      <4> HIDE DEF skip
      <4> QED  BY <2>3
    <3> QED  BY <3>1, Zenon
  <2>6. s + n - skip \in Nat /\ s + n - skip >= s
    <3> HIDE DEF skip
    <3> QED  BY <2>3
  <2> HIDE DEF body, skip
  <2> QED  BY <2>4, <2>5, <2>6
<1> QED  BY <1>2, <1>3, Zenon

-----------------------------------------------------------------------------
(* Partial functions *)

\* Writing a record or a file at an index (Put) keeps a partial function one.
LEMMA PutPartial ==
  ASSUME NEW S, NEW f, IsPartial(f, S), NEW k \in Nat, NEW v \in S
  PROVE  IsPartial(Put(f, k, v), S)
BY Zenon DEF IsPartial, Put

\* Put adds its index to the domain.
LEMMA PutDomain ==
  ASSUME NEW f, NEW k, NEW v
  PROVE  DOMAIN Put(f, k, v) = DOMAIN f \cup {k}
BY Zenon DEF Put

\* Dropping records, as Compact and cleanup do, keeps a partial function one.
LEMMA RestrictPartial ==
  ASSUME NEW S, NEW f, IsPartial(f, S), NEW D \in SUBSET DOMAIN f
  PROVE  IsPartial(Restrict(f, D), S)
BY Zenon DEF IsPartial, Restrict

\* The empty log is a partial function.
LEMMA NoEntriesPartial ==
  IsPartial(NoEntries, Entry) /\ DOMAIN NoEntries = {}
BY Zenon DEF IsPartial, NoEntries

-----------------------------------------------------------------------------
(* Type correctness *)

\* A machine on which the server has never run satisfies the type invariant.
LEMMA TypeInit == Init => TypeInv
<1> SUFFICES ASSUME Init PROVE TypeInv
  BY Zenon
<1> USE NoEntriesPartial DEF Init
<1>1. DiskTypeOK
  <2>1. IsPartial(walHs, HardState) /\ DOMAIN walHs = {}
    BY Zenon DEF IsPartial
  <2>2. DOMAIN snaps = {} /\ snaps = [i \in DOMAIN snaps |-> snaps[i]]
    BY Zenon
  <2>3. IsPartial(walEnts, Entry) /\ DOMAIN walEnts = {}
    BY Zenon
  <2>4. walEnd = 0 /\ walSynced = 0 /\ walTorn = FALSE
    BY Zenon
  <2> HIDE DEF Init
  <2>5. walEnd \in Nat /\ walSynced \in 0..walEnd
    BY <2>4
  <2>6. walTorn \in BOOLEAN
    BY <2>4, Zenon
  <2> HIDE <2>4
  <2> QED  BY <2>1, <2>2, <2>3, <2>5, <2>6, Zenon DEF DiskTypeOK, AreSnapFiles
<1>2. EmptyHs \in HardState
  BY Zenon DEF EmptyHs, HardState, Votes
<1>3. WalTypeOK
  BY <1>2, Zenon DEF WalTypeOK
<1>4. NodeTypeOK
  BY <1>2, Zenon DEF NodeTypeOK, NoReady
<1>5. RaftTypeOK
  <2>1. 1..0 = {}
    OBVIOUS
  <2> QED  BY <1>2, <2>1 DEF RaftTypeOK, NoEntries
<1>6. HistoryTypeOK
  BY <1>2, Zenon DEF HistoryTypeOK
<1>7. Shape
  BY DEF Shape, EmptyHs, Bounded
<1> QED  BY <1>1, <1>3, <1>4, <1>5, <1>6, <1>7, Zenon DEF TypeInv, TypeOK

\* What a process that is gone leaves in memory has its type.
LEMMA ProcessGoneType ==
  ASSUME TypeInv, ProcessGone
  PROVE  /\ WalTypeOK' /\ NodeTypeOK' /\ RaftTypeOK' /\ midSave' \in BOOLEAN
         /\ pc' = "idle" /\ offset' <= raftApplied' /\ offset' <= (hs.commit)'
<1> USE NoEntriesPartial DEF ProcessGone
<1>1. EmptyHs \in HardState /\ EmptyHs.commit = 0
  BY Zenon DEF EmptyHs, HardState, Votes
<1>2. WalTypeOK'
  BY <1>1, Zenon DEF WalTypeOK
<1>3. NodeTypeOK'
  BY <1>1, Zenon DEF NodeTypeOK, NoReady
<1>4. RaftTypeOK'
  <2>1. 1..0 = {}
    OBVIOUS
  <2> QED  BY <1>1, <2>1 DEF RaftTypeOK, NoEntries
<1>5. midSave' \in BOOLEAN
  BY Zenon DEF TypeInv, TypeOK, HistoryTypeOK
<1> QED  BY <1>1, <1>2, <1>3, <1>4, <1>5

\* LatestSnapshot is the index of a snapshot file, or 0.
LEMMA LatestSnapshotType ==
  ASSUME TypeInv
  PROVE  /\ LatestSnapshot \in Nat
         /\ LatestSnapshot > 0 => LatestSnapshot \in DOMAIN snaps
<1>1. CASE DOMAIN snaps \subseteq {0}
  BY <1>1 DEF LatestSnapshot
<1>2. CASE ~(DOMAIN snaps \subseteq {0})
  <2>1. DOMAIN snaps \in SUBSET Nat /\ DOMAIN snaps # {}
    BY <1>2, Zenon DEF TypeInv, TypeOK, DiskTypeOK, AreSnapFiles
  <2>2. PICK n \in Nat : \A i \in DOMAIN snaps : i <= n
    BY Zenon DEF TypeInv, Shape, Bounded
  <2>3. MaxOf(DOMAIN snaps) \in DOMAIN snaps
    BY <2>1, <2>2, MaxOfExists, Zenon
  <2> QED  BY <1>2, <2>1, <2>3, Zenon DEF LatestSnapshot
<1> QED  BY <1>1, <1>2, Zenon

\* ReadHardState is the last state record, or the empty hard state.
LEMMA ReadHardStateType ==
  ASSUME DiskTypeOK
  PROVE  /\ ReadHardState \in HardState
         /\ DOMAIN walHs # {} =>
              \E p \in DOMAIN walHs :
                ReadHardState = walHs[p] /\ \A q \in DOMAIN walHs : q <= p
<1>1. CASE DOMAIN walHs = {}
  BY <1>1, Zenon DEF ReadHardState, EmptyHs, HardState, Votes
<1>2. CASE DOMAIN walHs # {}
  <2>1. /\ DOMAIN walHs \in SUBSET Nat /\ walEnd \in Nat
        /\ \A p \in DOMAIN walHs : p <= walEnd
    BY DEF DiskTypeOK
  <2> DEFINE m == MaxOf(DOMAIN walHs)
  <2>2. m \in DOMAIN walHs /\ \A q \in DOMAIN walHs : q <= m
    BY <1>2, <2>1, MaxOfExists, Zenon
  <2>3. ReadHardState = walHs[m]
    BY <1>2, Zenon DEF ReadHardState
  <2>4. walHs[m] \in HardState
    BY <2>2, Zenon DEF DiskTypeOK, IsPartial
  <2> QED  BY <2>2, <2>3, <2>4, Zenon
<1> QED  BY <1>1, <1>2, Zenon

\* Snapshot files, finitely many of them; and what writing one and removing
\* some leave.
SnapsOK(f) == AreSnapFiles(f) /\ Bounded(f)

\* Writing a snapshot file leaves well-formed snapshot files (SnapshotManager.Save).
LEMMA SnapPut ==
  ASSUME NEW f, SnapsOK(f), NEW k \in Nat,
         NEW kind \in {"torn", "cached", "stable"}, NEW data, IsPartial(data, Entry)
  PROVE  SnapsOK(Put(f, k, SnapFile(kind, data)))
<1> DEFINE v == SnapFile(kind, data)
           g == Put(f, k, v)
<1>1. v.kind = kind /\ v.data = data
  BY Zenon DEF SnapFile
<1>2. g = [i \in DOMAIN g |-> g[i]] /\ DOMAIN g = DOMAIN f \cup {k}
  BY Zenon DEF Put
<1>3. \A i \in DOMAIN g : g[i] = IF i = k THEN v ELSE f[i]
  BY Zenon DEF Put
<1>4. PICK n \in Nat : \A i \in DOMAIN f : i <= n
  BY Zenon DEF SnapsOK, AreSnapFiles, Bounded
<1>5. \E m \in Nat : \A i \in DOMAIN g : i <= m
  <2>1. CASE k <= n
    BY <1>2, <1>4, <2>1, Zenon
  <2>2. CASE k > n
    <3>1. \A i \in DOMAIN g : i <= k
      BY <1>2, <1>4, <2>2 DEF SnapsOK, AreSnapFiles, Bounded
    <3> QED  BY <3>1, Zenon
  <2> QED  BY <2>1, <2>2
<1>6. ASSUME NEW i \in DOMAIN g
      PROVE  /\ i \in Nat /\ g[i] = SnapFile(g[i].kind, g[i].data)
             /\ g[i].kind \in {"torn", "cached", "stable"}
             /\ IsPartial(g[i].data, Entry)
  <2>1. CASE i = k
    <3>1. g[i] = v
      BY <1>3, <2>1, Zenon
    <3> QED  BY <1>1, <2>1, <3>1, Zenon
  <2>2. CASE i # k
    <3>1. i \in DOMAIN f /\ g[i] = f[i]
      BY <1>2, <1>3, <2>2, Zenon
    <3> QED  BY <3>1, Zenon DEF SnapsOK, AreSnapFiles, Bounded
  <2> QED  BY <2>1, <2>2, Zenon
<1>7. SnapsOK(g)
  <2> HIDE DEF g
  <2> QED  BY <1>2, <1>5, <1>6, Zenon DEF SnapsOK, AreSnapFiles, Bounded
<1> QED  BY <1>7, Zenon

\* Removing snapshot files leaves well-formed snapshot files (cleanup).
LEMMA SnapRestrict ==
  ASSUME NEW f, SnapsOK(f), NEW D \in SUBSET DOMAIN f
  PROVE  SnapsOK(Restrict(f, D))
<1>1. /\ DOMAIN Restrict(f, D) = D /\ \A i \in D : Restrict(f, D)[i] = f[i]
      /\ Restrict(f, D) = [i \in D |-> Restrict(f, D)[i]]
  BY Zenon DEF Restrict
<1>2. ASSUME NEW i \in D
      PROVE  /\ i \in Nat /\ Restrict(f, D)[i] = SnapFile(f[i].kind, f[i].data)
             /\ f[i].kind \in {"torn", "cached", "stable"}
             /\ IsPartial(f[i].data, Entry)
  BY <1>1, Zenon DEF SnapsOK, AreSnapFiles, Bounded
<1>3. \E n \in Nat : \A i \in D : i <= n
  BY Zenon DEF SnapsOK, AreSnapFiles, Bounded
<1> QED  BY <1>1, <1>2, <1>3, Zenon DEF SnapsOK, AreSnapFiles, Bounded

\* What Compact keeps, in memory and on disk, has its type.
LEMMA RemainingType ==
  ASSUME TypeInv
  PROVE  IsPartial(Remaining(appliedIndex), Entry)
<1>1. IsPartial(wEntries, Entry)
  BY Zenon DEF TypeInv, TypeOK, WalTypeOK
<1> QED  BY <1>1, RestrictPartial, Zenon DEF Remaining

\* The file Compact renames into place is a well-formed write-ahead log.
LEMMA ReplaceWalType ==
  ASSUME TypeInv, ReplaceWal, UNCHANGED <<walEnd, snaps>>
  PROVE  DiskTypeOK' /\ compacted' \in Nat
<1> USE DEF TypeInv, TypeOK
<1>1. compacted' \in Nat
  BY Zenon DEF ReplaceWal, HistoryTypeOK, NodeTypeOK
<1>2. IsPartial(walEnts', Entry) /\ DOMAIN walEnts' \subseteq DOMAIN wEntries
  BY RemainingType, Zenon DEF ReplaceWal, Remaining, Restrict
<1>3. IsPartial(walHs', HardState) /\ DOMAIN walHs' \subseteq {0}
  BY DEF ReplaceWal, IsPartial, WalTypeOK
<1>4. DOMAIN walHs' \subseteq 0..walEnd' /\ DOMAIN walEnts' \subseteq 0..walEnd'
  BY <1>2, <1>3 DEF DiskTypeOK, WalTypeOK
<1>5. walEnd' \in Nat /\ walSynced' \in 0..walEnd'
  BY DEF ReplaceWal, DiskTypeOK
<1>7. walTorn' \in BOOLEAN
  BY Zenon DEF ReplaceWal
<1>6. AreSnapFiles(snaps')
  BY Zenon DEF DiskTypeOK
<1> QED  BY <1>1, <1>2, <1>3, <1>4, <1>5, <1>6, <1>7, Zenon DEF DiskTypeOK

\* A batch of entries that fits the log leaves a log of entries.
LEMMA SplicedType ==
  ASSUME TypeInv, NEW e, IsPartial(e, Entry), NEW last \in Nat,
         \A i \in offset+1..last : i \in DOMAIN e \/ i <= lastIndex
  PROVE  Spliced(e, last) \in [offset+1..last -> Entry]
<1>1. /\ offset \in Nat /\ lastIndex \in Nat
      /\ ents \in [offset+1..lastIndex -> Entry]
  BY Zenon DEF TypeInv, TypeOK, RaftTypeOK
<1>2. ASSUME NEW i \in offset+1..last, i \notin DOMAIN e
      PROVE  ents[i] \in Entry
  <2>1. i \in offset+1..lastIndex
    BY <1>1, <1>2
  <2> QED  BY <1>1, <2>1, Zenon
<1>3. ASSUME NEW i \in DOMAIN e
      PROVE  e[i] \in Entry
  BY Zenon DEF IsPartial
<1> QED  BY <1>2, <1>3, Zenon DEF Spliced

\* A batch is made of entries.
LEMMA BatchesType ==
  ASSUME NEW first \in Nat, first > 0, NEW last \in Nat, NEW t \in Nat,
         NEW e \in Batches(first, last, t)
  PROVE  IsPartial(e, Entry) /\ DOMAIN e = first..last
<1>1. PICK f \in [first..last -> 1..t] :
        e = [i \in first..last |-> [index |-> i, term |-> f[i]]]
  BY Zenon DEF Batches
<1>2. \A i \in first..last : i \in Nat /\ i > 0 /\ f[i] \in Nat
  OBVIOUS
<1>3. \A i \in first..last : [index |-> i, term |-> f[i]] \in Entry
  BY <1>2 DEF Entry
<1> QED  BY <1>1, <1>2, <1>3, Zenon DEF IsPartial

\* Every step of the node, its disk and the library keeps the type invariant.
LEMMA TypeNext == TypeInv /\ [Next]_vars => TypeInv'
<1> SUFFICES ASSUME TypeInv, [Next]_vars PROVE TypeInv'
  BY Zenon
<1> USE DEF TypeInv, TypeOK
<1>1. CASE Ready
  <2> USE <1>1 DEF Ready
  <2>1. PICK h \in NextHs, first \in hs.commit+1..lastIndex+1, last \in 0..MaxIndex :
          \E e \in Batches(first, last, h.term) : Emit(h, first, last, e)
    BY Zenon
  <2>0. PICK e \in Batches(first, last, h.term) : Emit(h, first, last, e)
    BY <2>1, Zenon
  <2>2. LET newLast == IF e = NoEntries THEN lastIndex ELSE last
            log     == Spliced(e, newLast)
        IN  /\ e = NoEntries => first = lastIndex + 1 /\ last = 0
            /\ h.commit <= newLast
            /\ rd' = [hs |-> IF h = hs THEN EmptyHs ELSE h, ents |-> e,
                      last |-> newLast, commit |-> h.commit, next |-> first,
                      start |-> 0]
            /\ hs' = h
            /\ chosen' = [i \in DOMAIN chosen \cup (hs.commit+1..h.commit) |->
                            IF i \in DOMAIN chosen THEN chosen[i] ELSE log[i]]
            /\ pc' = "state"
    BY <2>0 DEF Emit
  <2> DEFINE newLast == IF e = NoEntries THEN lastIndex ELSE last
             log     == Spliced(e, newLast)
  <2> HIDE <1>1 DEF Ready
  <2>3. /\ hs.commit \in Nat /\ hs.term \in Nat /\ offset \in Nat
        /\ lastIndex \in Nat /\ offset <= hs.commit /\ first \in Nat
        /\ last \in Nat /\ first > offset /\ first <= lastIndex + 1
    <3>1. hs \in HardState /\ offset \in Nat /\ lastIndex \in Nat
      BY Zenon DEF RaftTypeOK
    <3>2. offset <= hs.commit
      BY Zenon DEF Shape
    <3> HIDE DEF TypeInv, TypeOK
    <3>3. hs.commit \in Nat /\ hs.term \in Nat
      BY <3>1, Zenon DEF HardState
    <3> QED  BY <3>1, <3>2, <3>3
  <2>4. h \in HardState /\ h.commit >= hs.commit
    BY <2>3 DEF NextHs, HardState
  <2>5. IsPartial(e, Entry) /\ DOMAIN e = first..last
    BY <2>3, <2>4, BatchesType DEF HardState
  <2>6. newLast \in Nat /\ h.commit <= newLast
    BY <2>2, <2>3, Zenon
  <2>7. \A i \in offset+1..newLast : i \in DOMAIN e \/ i <= lastIndex
    BY <2>3, <2>5
  <2>8. log \in [offset+1..newLast -> Entry]
    <3> HIDE DEF newLast
    <3> QED  BY <2>5, <2>6, <2>7, SplicedType, Zenon
  <2>9. IsPartial(chosen', Entry)
    <3> DEFINE new == hs.commit+1..h.commit
    <3>1. chosen' = [i \in DOMAIN chosen \cup new |->
                       IF i \in DOMAIN chosen THEN chosen[i] ELSE log[i]]
      BY <2>2, Zenon
    <3>2. \A i \in DOMAIN chosen : i \in Nat /\ chosen[i] \in Entry
      BY Zenon DEF HistoryTypeOK, IsPartial
    <3>3. \A i \in new : i \in Nat /\ i \in offset+1..newLast
      <4> HIDE DEF newLast
      <4> QED  BY <2>3, <2>4, <2>6 DEF HardState
    <3>4. \A i \in new : log[i] \in Entry
      <4> HIDE DEF log, newLast, new
      <4> QED  BY <2>8, <3>3, Zenon
    <3> HIDE DEF new, log
    <3> QED  BY <3>1, <3>2, <3>3, <3>4, Zenon DEF IsPartial
  <2>10. NodeTypeOK'
    <3>1. EmptyHs \in HardState
      BY Zenon DEF EmptyHs, HardState, Votes
    <3>2. /\ rd' = [hs |-> IF h = hs THEN EmptyHs ELSE h, ents |-> e,
                    last |-> newLast, commit |-> h.commit, next |-> first,
                    start |-> 0]
          /\ h.commit \in Nat
      BY <2>2, <2>4, Zenon DEF HardState
    <3>3. UNCHANGED <<status, stopped, appliedIndex, snapshotIndex, store>> /\ pc' = "state"
      BY <1>1, <2>2, Zenon DEF Ready
    <3> HIDE DEF newLast
    <3> QED  BY <2>3, <2>4, <2>5, <2>6, <3>1, <3>2, <3>3, Zenon DEF NodeTypeOK
  <2>11. DiskTypeOK' /\ WalTypeOK'
    BY <1>1, Zenon DEF Ready, disk, walVars, DiskTypeOK, WalTypeOK
  <2>12. RaftTypeOK'
    BY <1>1, <2>2, <2>4, Zenon DEF Ready, RaftTypeOK
  <2>13. HistoryTypeOK'
    BY <1>1, <2>9, Zenon DEF Ready, HistoryTypeOK
  <2>14. Shape'
    <3>1. /\ UNCHANGED <<snaps, offset, raftApplied, lastIndex>> /\ pc' = "state"
          /\ hs' = h /\ rd'.commit = h.commit /\ rd'.last = newLast /\ rd'.ents = e
      BY <1>1, <2>2, Zenon DEF Ready, disk
    <3>2. offset <= h.commit
      BY <2>3, <2>4 DEF HardState
    <3> HIDE DEF newLast
    <3> QED  BY <2>6, <2>7, <3>1, <3>2, Zenon DEF Shape
  <2> QED  BY <2>10, <2>11, <2>12, <2>13, <2>14, Zenon
<1>2. CASE SaveState
  <2> USE <1>2 DEF SaveState
  <2>1. DiskTypeOK'
    <3>1. walEnd + 1 \in Nat /\ rd.hs \in HardState /\ IsPartial(walHs, HardState)
      BY DEF DiskTypeOK, NodeTypeOK
    <3>2. CASE StateDue
      <4>1. walHs' = Put(walHs, walEnd + 1, rd.hs) /\ walEnd' = walEnd + 1
        BY <3>2, Zenon
      <4>2. IsPartial(walHs', HardState) /\ DOMAIN walHs' = DOMAIN walHs \cup {walEnd + 1}
        <5>1. IsPartial(Put(walHs, walEnd + 1, rd.hs), HardState)
          BY <3>1, PutPartial, Zenon
        <5> QED  BY <4>1, <5>1, PutDomain, Zenon
      <4> QED  BY <4>1, <4>2 DEF DiskTypeOK
    <3>3. CASE ~StateDue
      BY <3>3, Zenon DEF DiskTypeOK
    <3> QED  BY <3>2, <3>3, Zenon
  <2>2. WalTypeOK'
    BY DEF WalTypeOK, NodeTypeOK, DiskTypeOK
  <2>3. NodeTypeOK'
    BY <2>1, Zenon DEF NodeTypeOK, DiskTypeOK
  <2>4. RaftTypeOK' /\ HistoryTypeOK'
    BY Zenon DEF RaftTypeOK, HistoryTypeOK, raft, history
  <2>5. Shape'
    BY <2>1 DEF Shape, raft, NodeTypeOK, DiskTypeOK
  <2> QED  BY <2>1, <2>2, <2>3, <2>4, <2>5, Zenon
<1>3. CASE SaveEntry
  <2> USE <1>3 DEF SaveEntry
  <2>1. walEnd + 1 \in Nat /\ rd.ents[rd.next] \in Entry
    BY DEF DiskTypeOK, NodeTypeOK, IsPartial
  <2>2. IsPartial(walEnts', Entry) /\ DOMAIN walEnts' = DOMAIN walEnts \cup {walEnd + 1}
    <3>1. IsPartial(Put(walEnts, walEnd + 1, rd.ents[rd.next]), Entry)
      BY <2>1, PutPartial, Zenon DEF DiskTypeOK
    <3> QED  BY <3>1, PutDomain, Zenon
  <2>3. DiskTypeOK'
    BY <2>2 DEF DiskTypeOK
  <2>4. NodeTypeOK'
    BY DEF NodeTypeOK
  <2>5. WalTypeOK'
    <3>1. 0..walEnd \subseteq 0..walEnd'
      BY DEF DiskTypeOK
    <3> QED  BY <3>1, Zenon DEF WalTypeOK, walVars
  <2>7. RaftTypeOK' /\ HistoryTypeOK'
    BY Zenon DEF RaftTypeOK, HistoryTypeOK, raft, history
  <2>6. Shape'
    BY <2>2, <2>3 DEF Shape, raft, NodeTypeOK, DiskTypeOK
  <2> QED  BY <2>3, <2>4, <2>5, <2>6, <2>7, Zenon
<1>4. CASE SaveSync
  <2> USE <1>4 DEF SaveSync
  <2>1. IsPartial(wEntries', Entry)
    <3> DEFINE new == rd.start+1..walEnd
    <3>1. \A p \in new : p \in Nat /\ walEnts[p] \in Entry
      BY Zenon DEF DiskTypeOK, NodeTypeOK, Shape, IsPartial
    <3>2. \A p \in DOMAIN wEntries : p \in Nat /\ wEntries[p] \in Entry
      BY Zenon DEF WalTypeOK, IsPartial
    <3>3. wEntries' = [p \in DOMAIN wEntries \cup new |->
                         IF p \in DOMAIN wEntries THEN wEntries[p] ELSE walEnts[p]]
      BY Zenon
    <3> HIDE DEF new, SaveSync
    <3> QED  BY <3>1, <3>2, <3>3, Zenon DEF IsPartial
  <2>2. DiskTypeOK'
    <3>1. UNCHANGED <<walHs, walEnts, walEnd, walTorn, snaps>> /\ walSynced' = walEnd
      BY Zenon
    <3>2. walEnd \in Nat => walEnd \in 0..walEnd
      OBVIOUS
    <3> HIDE DEF SaveSync
    <3> QED  BY <3>1, <3>2, Zenon DEF DiskTypeOK
  <2>3. WalTypeOK'
    <3>1. DOMAIN wEntries' = DOMAIN wEntries \cup (rd.start+1..walEnd)
      BY Zenon
    <3>2. DOMAIN wEntries \cup (rd.start+1..walEnd) \subseteq 0..walEnd
      <4>1. /\ DOMAIN wEntries \subseteq 0..walEnd
            /\ rd.start \in Nat /\ walEnd \in Nat
        BY Zenon DEF WalTypeOK, NodeTypeOK, DiskTypeOK
      <4> HIDE DEF SaveSync, TypeInv, TypeOK
      <4>2. rd.start+1..walEnd \subseteq 0..walEnd
        BY <4>1
      <4> QED  BY <4>1, <4>2, Zenon
    <3> QED  BY <2>1, <3>1, <3>2, Zenon DEF WalTypeOK
  <2>5. NodeTypeOK' /\ RaftTypeOK'
    BY <2>1, Zenon DEF NodeTypeOK, RaftTypeOK, raft
  <2>4. HistoryTypeOK' /\ Shape'
    BY Zenon DEF HistoryTypeOK, Shape, raft
  <2> QED  BY <2>2, <2>3, <2>4, <2>5, Zenon
<1>5. CASE SaveFails
  <2> USE <1>5 DEF SaveFails, CountIOError
  <2>1. DiskTypeOK' /\ WalTypeOK' /\ NodeTypeOK' /\ RaftTypeOK'
    BY Zenon DEF DiskTypeOK, WalTypeOK, NodeTypeOK, RaftTypeOK, raft, walVars
  <2>2. HistoryTypeOK' /\ Shape'
    BY Zenon DEF HistoryTypeOK, Shape, raft
  <2> QED  BY <2>1, <2>2, Zenon
<1>6. CASE Publish
  <2> USE <1>6 DEF Publish
  <2> DEFINE log == Spliced(rd.ents, rd.last)
             new == raftApplied+1..rd.commit
  <2>1. log \in [offset+1..rd.last -> Entry]
    BY SplicedType, Zenon DEF NodeTypeOK, Shape
  <2>2. /\ offset \in Nat /\ raftApplied \in Nat /\ offset <= raftApplied
        /\ rd.commit \in Nat /\ rd.last \in Nat /\ rd.commit <= rd.last
        /\ offset <= rd.commit
    BY Zenon DEF NodeTypeOK, RaftTypeOK, Shape
  <2>3. /\ ents' = log /\ lastIndex' = rd.last /\ raftApplied' = rd.commit
        /\ store' = [i \in DOMAIN store \cup new |-> IF i \in new THEN log[i] ELSE store[i]]
        /\ appliedIndex' = IF new = {} THEN appliedIndex ELSE log[rd.commit].index
        /\ promised' = [hs |-> hs, log |-> WholeLog(log)]
    BY Zenon
  <2>4. \A i \in new : i \in Nat /\ log[i] \in Entry
    <3> HIDE DEF log, Publish, TypeInv, TypeOK
    <3>1. \A i \in new : i \in Nat /\ i \in offset+1..rd.last
      BY <2>2
    <3> QED  BY <2>1, <3>1, Zenon
  <2>5. appliedIndex' \in Nat
    <3>1. CASE new = {}
      BY <2>3, <3>1, Zenon DEF NodeTypeOK
    <3>2. CASE new # {}
      <4>1. rd.commit \in new
        <5> HIDE DEF log, Publish, TypeInv, TypeOK
        <5>1. PICK i \in raftApplied+1..rd.commit : TRUE
          BY <3>2, Zenon
        <5> QED  BY <2>2, <5>1
      <4> HIDE DEF log, new
      <4> QED  BY <2>3, <2>4, <3>2, <4>1, Zenon DEF Entry
    <3> QED  BY <3>1, <3>2, Zenon
  <2>6. \A i \in DOMAIN store : i \in Nat /\ store[i] \in Entry
    BY Zenon DEF NodeTypeOK, IsPartial
  <2>7. IsPartial(store', Entry)
    <3> HIDE DEF log, new, Publish
    <3> QED  BY <2>3, <2>4, <2>6, Zenon DEF IsPartial
  <2>8. IsPartial(WholeLog(log), Entry)
    <3>1. \A i \in DOMAIN log : i \in Nat /\ log[i] \in Entry
      <4> HIDE DEF log, Publish, TypeInv, TypeOK
      <4>1. \A i \in offset+1..rd.last : i \in Nat
        BY <2>2
      <4> QED  BY <2>1, <4>1, Zenon
    <3> HIDE DEF log, Publish
    <3> QED  BY <2>6, <3>1, Zenon DEF IsPartial, WholeLog
  <2>9. NodeTypeOK'
    <3>1. EmptyHs \in HardState
      BY Zenon DEF EmptyHs, HardState, Votes
    <3>2. /\ UNCHANGED <<status, stopped, snapshotIndex>> /\ rd' = NoReady
          /\ pc' \in {"snapcreate", "idle"}
      BY Zenon
    <3> HIDE DEF Publish, log, new
    <3> QED  BY <2>5, <2>7, <3>1, <3>2, NoEntriesPartial, Zenon DEF NodeTypeOK, NoReady
  <2>10. DiskTypeOK' /\ WalTypeOK'
    BY Zenon DEF disk, walVars, DiskTypeOK, WalTypeOK
  <2>11. RaftTypeOK'
    <3>1. UNCHANGED <<hs, offset>>
      BY Zenon
    <3> HIDE DEF Publish, log, new
    <3> QED  BY <2>1, <2>2, <2>3, <3>1, Zenon DEF RaftTypeOK
  <2>12. HistoryTypeOK'
    <3>1. UNCHANGED <<chosen, faulty, midSave, compacted>>
      BY Zenon
    <3>2. hs \in HardState
      BY Zenon DEF RaftTypeOK
    <3> HIDE DEF Publish, log, new
    <3> QED  BY <2>3, <2>8, <3>1, <3>2, Zenon DEF HistoryTypeOK
  <2>13. Shape'
    <3>1. UNCHANGED <<snaps, hs, offset>> /\ pc' \in {"snapcreate", "idle"}
      BY Zenon DEF disk
    <3> HIDE DEF Publish, log, new
    <3> QED  BY <2>2, <2>3, <3>1, Zenon DEF Shape
  <2> QED  BY <2>9, <2>10, <2>11, <2>12, <2>13, Zenon
<1>7. CASE SnapCreate
  <2> USE <1>7 DEF SnapCreate
  <2>1. SnapsOK(snaps')
    <3>1. SnapsOK(snaps) /\ appliedIndex \in Nat
      BY Zenon DEF SnapsOK, DiskTypeOK, Shape, NodeTypeOK
    <3>2. snaps' = Put(snaps, appliedIndex, SnapFile("torn", NoEntries))
      BY Zenon DEF Torn, SnapFile
    <3>3. SnapsOK(Put(snaps, appliedIndex, SnapFile("torn", NoEntries)))
      BY <3>1, NoEntriesPartial, SnapPut, Zenon
    <3> QED  BY <3>2, <3>3, Zenon
  <2>2. DiskTypeOK' /\ Shape'
    BY <2>1, Zenon DEF SnapsOK, DiskTypeOK, Shape, raft
  <2>3. WalTypeOK' /\ NodeTypeOK' /\ RaftTypeOK' /\ HistoryTypeOK'
    BY Zenon DEF WalTypeOK, NodeTypeOK, RaftTypeOK, HistoryTypeOK, walVars, raft, history
  <2> QED  BY <2>2, <2>3, Zenon
<1>8. CASE SnapWrite
  <2> USE <1>8 DEF SnapWrite, CountIOError
  <2> DEFINE written == Put(snaps, appliedIndex, SnapFile("cached", store))
  <2>1. SnapsOK(written)
    BY SnapPut, Zenon DEF SnapsOK, DiskTypeOK, Shape, NodeTypeOK
  <2>2. SnapsOK(snaps')
    <3>1. SnapsOK(Cleanup(written))
      <4> HIDE DEF written
      <4> QED  BY <2>1, SnapRestrict, Zenon DEF Cleanup
    <3> QED  BY <2>1, <3>1, Zenon
  <2>3. DiskTypeOK' /\ Shape'
    BY <2>2, Zenon DEF SnapsOK, DiskTypeOK, Shape, raft
  <2>4. WalTypeOK' /\ NodeTypeOK' /\ RaftTypeOK' /\ HistoryTypeOK'
    BY Zenon DEF WalTypeOK, NodeTypeOK, RaftTypeOK, HistoryTypeOK, walVars, raft
  <2> QED  BY <2>3, <2>4, Zenon
<1>9. CASE SnapFails
  <2> USE <1>9 DEF SnapFails, CountIOError
  <2>1. DiskTypeOK' /\ WalTypeOK' /\ NodeTypeOK' /\ RaftTypeOK'
    BY Zenon DEF DiskTypeOK, WalTypeOK, NodeTypeOK, RaftTypeOK, raft, walVars, disk
  <2>2. HistoryTypeOK' /\ Shape'
    BY Zenon DEF HistoryTypeOK, Shape, raft, disk
  <2> QED  BY <2>1, <2>2, Zenon
<1>10. CASE Compact
  <2> USE <1>10 DEF Compact
  <2>1. DiskTypeOK' /\ (compacted \in Nat)'
    BY ReplaceWalType, Zenon
  <2>2. WalTypeOK'
    <3>1. DOMAIN Remaining(appliedIndex) \subseteq DOMAIN wEntries
      BY Zenon DEF Remaining, Restrict
    <3> QED  BY <3>1, RemainingType, Zenon DEF WalTypeOK
  <2>3. NodeTypeOK' /\ RaftTypeOK' /\ HistoryTypeOK' /\ Shape'
    BY <2>1, Zenon DEF NodeTypeOK, RaftTypeOK, HistoryTypeOK, Shape, raft
  <2> QED  BY <2>1, <2>2, <2>3, Zenon
<1>11. CASE CompactFails
  <2> USE <1>11 DEF CompactFails, CountIOError
  <2>1. DiskTypeOK' /\ (compacted \in Nat)'
    <3>1. CASE ReplaceWal
      BY <3>1, ReplaceWalType, Zenon
    <3>2. CASE UNCHANGED <<walHs, walEnts, walSynced, walTorn, compacted, fOpen>>
      BY <3>2, Zenon DEF DiskTypeOK, HistoryTypeOK
    <3> QED  BY <3>1, <3>2, Zenon
  <2>2. WalTypeOK' /\ NodeTypeOK' /\ RaftTypeOK' /\ HistoryTypeOK' /\ Shape'
    BY <2>1, Zenon DEF WalTypeOK, NodeTypeOK, RaftTypeOK, HistoryTypeOK, Shape, raft
  <2> QED  BY <2>1, <2>2, Zenon
<1>12. CASE Stop
  <2> USE <1>12 DEF Stop
  <2>1. DiskTypeOK' /\ WalTypeOK' /\ NodeTypeOK' /\ RaftTypeOK'
    BY Zenon DEF DiskTypeOK, WalTypeOK, NodeTypeOK, RaftTypeOK, raft, walVars, disk
  <2>2. HistoryTypeOK' /\ Shape'
    BY Zenon DEF HistoryTypeOK, Shape, raft, disk
  <2> QED  BY <2>1, <2>2, Zenon
<1>13. CASE StopClosesWal
  <2> USE <1>13 DEF StopClosesWal
  <2>1. DiskTypeOK' /\ WalTypeOK' /\ NodeTypeOK' /\ RaftTypeOK'
    BY Zenon DEF DiskTypeOK, WalTypeOK, NodeTypeOK, RaftTypeOK, raft, disk
  <2>2. HistoryTypeOK' /\ Shape'
    BY Zenon DEF HistoryTypeOK, Shape, raft, disk, history
  <2> QED  BY <2>1, <2>2, Zenon
<1>14. CASE Exit
  <2> USE <1>14, ProcessGoneType DEF Exit
  <2>1. DiskTypeOK' /\ HistoryTypeOK' /\ Shape'
    BY Zenon DEF DiskTypeOK, HistoryTypeOK, Shape, disk
  <2> QED  BY <2>1, Zenon
<1>15. CASE Crash
  <2> USE <1>15, ProcessGoneType DEF Crash
  <2>1. DiskTypeOK' /\ HistoryTypeOK' /\ Shape'
    BY Zenon DEF DiskTypeOK, HistoryTypeOK, Shape, disk
  <2> QED  BY <2>1, Zenon
<1>16. CASE PowerLoss
  <2> USE <1>16, ProcessGoneType DEF PowerLoss
  <2>1. SnapsOK(snaps')
    <3>1. PICK D \in SUBSET DOMAIN snaps :
            snaps' \in [D -> {Torn} \cup {SnapFile("stable", snaps[i].data) :
                                           i \in DOMAIN snaps}]
      BY Zenon DEF SnapshotsAfterPowerLoss
    <3>2. ASSUME NEW i \in D
          PROVE  /\ i \in Nat /\ snaps'[i] = SnapFile(snaps'[i].kind, snaps'[i].data)
                 /\ snaps'[i].kind \in {"torn", "cached", "stable"}
                 /\ IsPartial(snaps'[i].data, Entry)
      <4>1. i \in Nat
        BY Zenon DEF DiskTypeOK, AreSnapFiles
      <4>2. CASE snaps'[i] = Torn
        BY <4>1, <4>2, NoEntriesPartial DEF Torn, SnapFile
      <4>3. CASE \E j \in DOMAIN snaps : snaps'[i] = SnapFile("stable", snaps[j].data)
        BY <4>1, <4>3 DEF SnapFile, DiskTypeOK, AreSnapFiles
      <4> QED  BY <3>1, <4>2, <4>3, Zenon
    <3>3. DOMAIN snaps' = D /\ snaps' = [i \in D |-> snaps'[i]]
      BY <3>1, Zenon
    <3>4. \E n \in Nat : \A i \in D : i <= n
      BY Zenon DEF Shape, Bounded
    <3> QED  BY <3>2, <3>3, <3>4, Zenon DEF SnapsOK, AreSnapFiles, Bounded
  <2>2. DiskTypeOK'
    <3>1. PICK cut \in walSynced..walEnd :
            /\ walHs' = Restrict(walHs, {p \in DOMAIN walHs : p <= cut})
            /\ walEnts' = Restrict(walEnts, {p \in DOMAIN walEnts : p <= cut})
            /\ walEnd' = cut
            /\ walSynced' = cut
            /\ walTorn' \in {walTorn, walTorn \/ cut < walEnd}
      BY Zenon
    <3>2. IsPartial(walHs', HardState) /\ IsPartial(walEnts', Entry)
      BY <3>1, RestrictPartial, Zenon DEF DiskTypeOK
    <3>3. walEnd' \in Nat /\ walSynced' \in 0..walEnd'
      BY <3>1 DEF DiskTypeOK
    <3>4. DOMAIN walHs' \subseteq 0..walEnd' /\ DOMAIN walEnts' \subseteq 0..walEnd'
      BY <3>1, <3>3 DEF DiskTypeOK, Restrict
    <3>5. walTorn' \in BOOLEAN
      BY <3>1, Zenon DEF DiskTypeOK
    <3> QED  BY <2>1, <3>2, <3>3, <3>4, <3>5, Zenon DEF DiskTypeOK, SnapsOK
  <2>3. HistoryTypeOK' /\ Shape'
    BY <2>1, Zenon DEF HistoryTypeOK, Shape, SnapsOK
  <2> QED  BY <2>2, <2>3, Zenon
<1>17. CASE Writeback
  <2> USE <1>17 DEF Writeback
  <2>1. SnapsOK(snaps')
    <3>1. PICK i \in DOMAIN snaps : snaps' = [snaps EXCEPT ![i].kind = "stable"]
      BY Zenon
    <3>2. /\ SnapsOK(snaps) /\ i \in Nat /\ IsPartial(snaps[i].data, Entry)
          /\ snaps[i] = SnapFile(snaps[i].kind, snaps[i].data)
          /\ snaps = [j \in DOMAIN snaps |-> snaps[j]]
      BY Zenon DEF SnapsOK, DiskTypeOK, Shape, AreSnapFiles
    <3>3. SnapsOK(Put(snaps, i, SnapFile("stable", snaps[i].data)))
      BY <3>2, SnapPut, Zenon
    <3>4. snaps' = Put(snaps, i, SnapFile("stable", snaps[i].data))
      <4>1. [snaps[i] EXCEPT !.kind = "stable"] = SnapFile("stable", snaps[i].data)
        BY <3>2 DEF SnapFile
      <4>2. snaps' = [snaps EXCEPT ![i] = SnapFile("stable", snaps[i].data)]
        BY <3>1, <4>1, Zenon
      <4>3. DOMAIN snaps \cup {i} = DOMAIN snaps
        BY Zenon
      <4> QED  BY <4>2, <4>3, Zenon DEF Put
    <3> QED  BY <3>3, <3>4, Zenon
  <2>2. DiskTypeOK' /\ Shape'
    BY <2>1, Zenon DEF SnapsOK, DiskTypeOK, Shape, raft, node
  <2>3. WalTypeOK' /\ NodeTypeOK' /\ RaftTypeOK' /\ HistoryTypeOK'
    BY DEF WalTypeOK, NodeTypeOK, RaftTypeOK, HistoryTypeOK, walVars, node, raft,
           history
  <2> QED  BY <2>2, <2>3, Zenon
<1>18. CASE Start
  <2> USE <1>18 DEF Start
  <2> DEFINE s     == LatestSnapshot
             h     == ReadHardState
             r     == Replay(s, ReadEntries)
             fresh == s = 0 /\ DOMAIN walEnts = {}
  <2>1. /\ ~r.panic /\ Loadable(h, s, r.last)
        /\ wHard' = h /\ wEntries' = walEnts
        /\ store' = IF s > 0 THEN snaps[s].data ELSE NoEntries
        /\ appliedIndex' = s /\ snapshotIndex' = s
        /\ offset' = s /\ ents' = r.ents /\ lastIndex' = r.last /\ raftApplied' = s
        /\ fOpen' = TRUE /\ status' = "up" /\ stopped' = "no"
        /\ UNCHANGED <<disk, promised, faulty, midSave, compacted, faults>>
    BY Zenon
  <2>2. fresh =>
          /\ hs' = BootHs /\ pc' = "state"
          /\ rd' = [hs |-> BootHs, ents |-> Bootstrap, last |-> BootEntries,
                    commit |-> BootEntries, next |-> 1, start |-> 0]
          /\ chosen' = IF DOMAIN chosen = {} THEN Bootstrap ELSE chosen
    BY Zenon
  <2>3. ~fresh =>
          /\ hs' = IF h = EmptyHs THEN [EmptyHs EXCEPT !.commit = s] ELSE h
          /\ rd' = NoReady /\ chosen' = chosen /\ pc' = "idle"
    BY Zenon
  <2>4. s \in Nat /\ (s > 0 => s \in DOMAIN snaps)
    BY LatestSnapshotType, Zenon
  <2>5. h \in HardState
    BY ReadHardStateType, Zenon
  <2>6. r.last \in Nat /\ r.last >= s /\ r.ents \in [s+1..r.last -> Entry]
    <3>1. /\ Cardinality(DOMAIN walEnts) \in Nat
          /\ ReadEntries \in [1..Cardinality(DOMAIN walEnts) -> Entry]
      BY ReadEntriesType, Zenon DEF DiskTypeOK
    <3> HIDE DEF s
    <3> QED  BY <2>1, <2>4, <3>1, ReplayType, Zenon
  <2>7. BootHs \in HardState /\ EmptyHs \in HardState
    BY ConstantsAssumption, Zenon DEF BootHs, EmptyHs, HardState, Votes
  <2>8. IsPartial(Bootstrap, Entry) /\ DOMAIN Bootstrap = 1..BootEntries
    <3>1. \A i \in 1..BootEntries : i \in Nat \ {0}
      BY ConstantsAssumption
    <3> HIDE DEF Start, TypeInv, TypeOK
    <3> QED  BY <3>1, Zenon DEF IsPartial, Bootstrap, Entry
  <2>9. IsPartial(store', Entry)
    BY <2>1, <2>4, NoEntriesPartial, Zenon DEF DiskTypeOK, AreSnapFiles
  <2>16. BootEntries \in Nat
    BY ConstantsAssumption, Zenon
  <2> HIDE <1>18 DEF Start, s, h, r
  <2>10. DiskTypeOK' /\ WalTypeOK'
    BY <2>1, <2>5, Zenon DEF disk, DiskTypeOK, WalTypeOK
  <2>11. hs' \in HardState /\ hs'.commit >= s /\ hs'.commit \in Nat
    <3>1. CASE fresh
      <4>1. s = 0 /\ hs' = BootHs
        BY <2>2, <3>1, Zenon
      <4>2. BootHs.commit = BootEntries
        BY Zenon DEF BootHs
      <4> HIDE DEF TypeInv, TypeOK
      <4> QED  BY <2>7, <2>16, <4>1, <4>2
    <3>2. CASE ~fresh /\ h = EmptyHs
      BY <2>3, <2>4, <2>7, <3>2 DEF EmptyHs, HardState
    <3>3. CASE ~fresh /\ h # EmptyHs
      <4>1. h.commit \in s..r.last
        BY <2>1, <3>3, Zenon DEF Loadable
      <4> QED  BY <2>3, <2>4, <2>5, <2>6, <3>3, <4>1
    <3> HIDE DEF fresh
    <3> QED  BY <3>1, <3>2, <3>3, Zenon
  <2>12. RaftTypeOK'
    BY <2>1, <2>4, <2>6, <2>11, Zenon DEF RaftTypeOK
  <2>13. NodeTypeOK'
    <3>1. /\ rd'.hs \in HardState /\ IsPartial(rd'.ents, Entry)
          /\ rd'.last \in Nat /\ rd'.commit \in Nat
          /\ rd'.next \in Nat /\ rd'.start \in Nat
          /\ rd' = [hs |-> rd'.hs, ents |-> rd'.ents, last |-> rd'.last,
                    commit |-> rd'.commit, next |-> rd'.next, start |-> rd'.start]
          /\ pc' \in {"state", "idle"}
      <4>1. CASE fresh
        <5> HIDE DEF fresh, TypeInv, TypeOK
        <5>1. /\ pc' = "state"
              /\ rd' = [hs |-> BootHs, ents |-> Bootstrap, last |-> BootEntries,
                        commit |-> BootEntries, next |-> 1, start |-> 0]
          BY <2>2, <4>1, Zenon
        <5>2. BootHs \in HardState /\ IsPartial(Bootstrap, Entry)
          BY <2>7, <2>8, Zenon
        <5> QED  BY <2>16, <5>1, <5>2, Zenon
      <4>2. CASE ~fresh
        <5> HIDE DEF fresh
        <5> QED  BY <2>3, <2>7, <4>2, NoEntriesPartial DEF NoReady
      <4> QED  BY <4>1, <4>2, Zenon
    <3> QED  BY <2>1, <2>4, <2>9, <3>1, Zenon DEF NodeTypeOK
  <2>14. HistoryTypeOK'
    <3>1. IsPartial(chosen', Entry)
      <4>1. CASE fresh
        BY <2>2, <2>8, <4>1, Zenon DEF HistoryTypeOK
      <4>2. CASE ~fresh
        BY <2>3, <4>2, Zenon DEF HistoryTypeOK
      <4> QED  BY <4>1, <4>2, Zenon
    <3> QED  BY <2>1, <3>1, Zenon DEF HistoryTypeOK
  <2>15. Shape'
    <3>1. Bounded(snaps') /\ offset' <= raftApplied' /\ offset' <= hs'.commit
      <4>1. Bounded(snaps') /\ offset' = s /\ raftApplied' = s
        BY <2>1, Zenon DEF Shape, disk
      <4> HIDE DEF TypeInv, TypeOK
      <4> QED  BY <2>4, <2>11, <4>1
    <3>2. CASE fresh
      <4>1. /\ pc' = "state" /\ offset' = 0 /\ rd'.commit = BootEntries
            /\ rd'.last = BootEntries /\ DOMAIN rd'.ents = 1..BootEntries
        <5> HIDE DEF TypeInv, TypeOK
        <5>1. /\ pc' = "state" /\ offset' = 0
              /\ rd' = [hs |-> BootHs, ents |-> Bootstrap, last |-> BootEntries,
                        commit |-> BootEntries, next |-> 1, start |-> 0]
          BY <2>1, <2>2, <3>2, Zenon
        <5>2. DOMAIN Bootstrap = 1..BootEntries
          BY <2>8, Zenon
        <5> QED  BY <5>1, <5>2, Zenon
      <4> HIDE DEF TypeInv, TypeOK
      <4>2. \A i \in offset'+1..rd'.last : i \in DOMAIN rd'.ents
        BY <4>1
      <4>3. offset' <= rd'.commit /\ rd'.commit <= rd'.last
        BY <2>16, <4>1
      <4> QED  BY <3>1, <4>1, <4>2, <4>3, Zenon DEF Shape
    <3>3. CASE ~fresh
      BY <2>3, <3>1, <3>3, Zenon DEF Shape
    <3> QED  BY <3>2, <3>3, Zenon
  <2> QED  BY <2>10, <2>12, <2>13, <2>14, <2>15, Zenon
<1>19. CASE StartFails
  <2> USE <1>19 DEF StartFails
  <2>1. DiskTypeOK' /\ WalTypeOK' /\ NodeTypeOK' /\ RaftTypeOK'
    BY Zenon DEF DiskTypeOK, WalTypeOK, NodeTypeOK, RaftTypeOK, raft, walVars, disk
  <2>2. HistoryTypeOK' /\ Shape'
    BY Zenon DEF HistoryTypeOK, Shape, raft, disk, history
  <2> QED  BY <2>1, <2>2, Zenon
<1>20. CASE UNCHANGED vars
  <2> USE <1>20 DEF vars, disk, walVars, node, raft, history
  <2>1. DiskTypeOK' /\ WalTypeOK' /\ NodeTypeOK' /\ RaftTypeOK'
    BY Zenon DEF DiskTypeOK, WalTypeOK, NodeTypeOK, RaftTypeOK
  <2>2. HistoryTypeOK' /\ Shape'
    BY Zenon DEF HistoryTypeOK, Shape
  <2> QED  BY <2>1, <2>2, Zenon
<1> QED
  BY <1>1, <1>2, <1>3, <1>4, <1>5, <1>6, <1>7, <1>8, <1>9, <1>10, <1>11, <1>12,
     <1>13, <1>14, <1>15, <1>16, <1>17, <1>18, <1>19, <1>20, Zenon DEF Next

\* Type correctness: every variable of NodeStorage keeps its type, for every
\* number of candidates, entries, snapshots, crashes and faults.
THEOREM TypeCorrect == Spec => []TypeOK
<1>1. Init => TypeInv
  BY TypeInit, Zenon
<1>2. TypeInv /\ [Next]_vars => TypeInv'
  BY TypeNext, Zenon
<1>3. TypeInv => TypeOK
  BY Zenon DEF TypeInv
<1> QED  BY <1>1, <1>2, <1>3, PTL DEF Spec

-----------------------------------------------------------------------------
(* Votes are durable *)

\* The hard state of a fresh node is below every other.
LEMMA EmptyHsLeq ==
  ASSUME NEW h \in HardState
  PROVE  HsLeq(EmptyHs, h)
BY DEF HsLeq, EmptyHs, HardState

\* HsLeq is reflexive.
LEMMA HsLeqRefl ==
  ASSUME NEW h \in HardState
  PROVE  HsLeq(h, h)
BY DEF HsLeq, HardState

\* HsLeq is transitive: a promise kept by a later state is kept by all that follow.
LEMMA HsLeqTrans ==
  ASSUME NEW a \in HardState, NEW b \in HardState, NEW c \in HardState,
         HsLeq(a, b), HsLeq(b, c)
  PROVE  HsLeq(a, c)
BY DEF HsLeq, HardState

\* The positions of wal.log are numbers up to walEnd, and so is the last one synced.
LEMMA Positions ==
  ASSUME TypeInv
  PROVE  /\ walEnd \in Nat /\ walSynced \in Nat /\ walSynced <= walEnd
         /\ DOMAIN walHs \in SUBSET Nat /\ DOMAIN walEnts \in SUBSET Nat
         /\ \A p \in DOMAIN walHs : p <= walEnd
<1>1. /\ walEnd \in Nat /\ walSynced \in 0..walEnd
      /\ DOMAIN walHs \subseteq 0..walEnd /\ DOMAIN walEnts \subseteq 0..walEnd
  BY Zenon DEF TypeInv, TypeOK, DiskTypeOK
<1>2. walSynced \in Nat /\ walSynced <= walEnd
  BY <1>1
<1>3. \A p \in 0..walEnd : p \in Nat /\ p <= walEnd
  BY <1>1
<1> QED  BY <1>1, <1>2, <1>3, Zenon

\* The last state record is later than all the others ...
LEMMA LastRecord ==
  ASSUME TypeInv, StateRecords, DOMAIN walHs # {}
  PROVE  /\ ReadHardState \in HardState /\ ReadHardState.commit > 0
         /\ ReadHardState # EmptyHs
         /\ \A p \in DOMAIN walHs : HsLeq(walHs[p], ReadHardState)
<1>1. PICK m \in DOMAIN walHs :
        ReadHardState = walHs[m] /\ \A q \in DOMAIN walHs : q <= m
  BY ReadHardStateType, Zenon DEF TypeInv, TypeOK
<1>2. walHs[m].commit > 0 /\ walHs[m] \in HardState
  BY Zenon DEF StateRecords, TypeInv, TypeOK, DiskTypeOK, IsPartial
<1>3. \A p \in DOMAIN walHs : HsLeq(walHs[p], walHs[m])
  BY <1>1, Zenon DEF StateRecords
<1>4. EmptyHs.commit = 0
  BY Zenon DEF EmptyHs
<1>5. walHs[m] # EmptyHs
  BY <1>2, <1>4
<1> QED  BY <1>1, <1>2, <1>3, <1>5, Zenon

\* ... and than what the node promised.
LEMMA PromisedBeforeLast ==
  ASSUME TypeInv, StateRecords, PromiseSaved
  PROVE  HsLeq(promised.hs, ReadHardState)
<1>1. promised.hs \in HardState /\ ReadHardState \in HardState
  BY ReadHardStateType, Zenon DEF TypeInv, TypeOK, HistoryTypeOK
<1>2. CASE promised.hs = EmptyHs
  BY <1>1, <1>2, EmptyHsLeq, Zenon
<1>3. CASE promised.hs # EmptyHs
  <2>1. PICK p \in DOMAIN walHs : HsLeq(promised.hs, walHs[p])
    BY <1>3, Zenon DEF PromiseSaved
  <2>2. walHs[p] \in HardState
    BY Zenon DEF TypeInv, TypeOK, DiskTypeOK, IsPartial
  <2>3. HsLeq(walHs[p], ReadHardState)
    BY LastRecord, Zenon
  <2> QED  BY <1>1, <2>1, <2>2, <2>3, HsLeqTrans, Zenon
<1> QED  BY <1>2, <1>3, Zenon

\* The invariant gives the property.
LEMMA VoteInvGivesVoteDurable ==
  ASSUME TypeInv, VoteInv
  PROVE  VoteDurable
<1> SUFFICES ASSUME Up, ~faulty PROVE HsLeq(promised.hs, hs)
  BY Zenon DEF VoteDurable
<1> USE DEF VoteInv
<1>1. /\ promised.hs \in HardState /\ hs \in HardState /\ wHard \in HardState
  BY Zenon DEF TypeInv, TypeOK, HistoryTypeOK, RaftTypeOK, WalTypeOK
<1>2. HsLeq(promised.hs, wHard)
  BY PromisedBeforeLast, Zenon DEF MemoryFollows
<1>3. HsLeq(wHard, hs)
  BY <1>1, HsLeqRefl, Zenon DEF MemoryFollows
<1> QED  BY <1>1, <1>2, <1>3, HsLeqTrans, Zenon

\* Nothing is promised when the server has never run.
LEMMA VoteInit == Init => VoteInv
<1> SUFFICES ASSUME Init PROVE VoteInv
  BY Zenon
<1>1. DOMAIN walHs = {} /\ DOMAIN walEnts = {} /\ DOMAIN snaps = {}
  BY Zenon DEF Init, NoEntries
<1>2. promised.hs = EmptyHs /\ ~Up
  BY Zenon DEF Init, Up
<1> QED
  BY <1>1, <1>2, Zenon DEF VoteInv, StateRecords, PromiseSaved, StateFirst, MemoryFollows

\* Compact's fresh wal.log backs the promise with the hard state at its head.
LEMMA ReplaceWalVote ==
  ASSUME TypeInv, StateRecords, PromiseSaved, MemoryFollows, Up, pc = "compact",
         ReplaceWal, TypeInv', UNCHANGED <<walEnd, snaps, promised>>
  PROVE  /\ StateRecords' /\ PromiseSaved' /\ StateFirst'
         /\ ReadHardState' = wHard /\ DOMAIN walHs' # {} /\ walSynced' = walEnd'
<1>1. wHard = ReadHardState /\ DOMAIN walHs # {}
  BY Zenon DEF MemoryFollows
<1>2. wHard \in HardState /\ wHard.commit > 0 /\ wHard # EmptyHs
  BY <1>1, LastRecord, Zenon
<1>3. DOMAIN walHs' = {0} /\ walHs'[0] = wHard
  BY <1>2, Zenon DEF ReplaceWal
<1>4. walSynced' = walEnd' /\ walEnd' \in Nat
  BY Zenon DEF ReplaceWal, TypeInv, TypeOK, DiskTypeOK
<1>5. StateRecords'
  BY <1>2, <1>3, HsLeqRefl, Zenon DEF StateRecords
<1>6. PromiseSaved'
  <2>1. HsLeq(promised.hs, wHard)
    BY <1>1, PromisedBeforeLast, Zenon
  <2>2. 0 <= walSynced'
    BY <1>4
  <2>3. 0 \in DOMAIN walHs' /\ HsLeq(promised'.hs, walHs'[0])
    BY <1>3, <2>1, Zenon
  <2> QED  BY <2>2, <2>3, Zenon DEF PromiseSaved
<1>7. StateFirst'
  <2>1. \A q \in DOMAIN walEnts' : q \in Nat
    BY Zenon DEF TypeInv, TypeOK, DiskTypeOK, IsPartial
  <2> QED  BY <1>3, <1>4, <2>1 DEF StateFirst
<1>8. ReadHardState' = wHard
  <2>1. MaxOf({0}) = 0
    BY MaxOfIs
  <2> QED  BY <1>3, <2>1, Zenon DEF ReadHardState
<1> QED  BY <1>3, <1>4, <1>5, <1>6, <1>7, <1>8, Zenon

\* When a snapshot is due, the Ready's Save has synced a state record.
LEMMA SnapshotAfterSync ==
  ASSUME TypeInv, MemoryFollows, Up,
         pc \in {"publish", "snapcreate", "snapwrite", "compact"}
  PROVE  \E p \in DOMAIN walHs : p <= walSynced
<1>1. walSynced = walEnd /\ DOMAIN walHs # {}
  BY Zenon DEF MemoryFollows
<1> QED  BY <1>1 DEF TypeInv, TypeOK, DiskTypeOK

\* Every step keeps the invariant behind VoteDurable while no Save has failed.
LEMMA VoteNext == TypeInv /\ TypeInv' /\ VoteInv /\ [Next]_vars => VoteInv'
<1> SUFFICES ASSUME TypeInv, TypeInv', VoteInv, [Next]_vars, ~faulty'
             PROVE  StateRecords' /\ PromiseSaved' /\ StateFirst' /\ MemoryFollows'
  BY Zenon DEF VoteInv
<1> DEFINE Goal == StateRecords' /\ PromiseSaved' /\ StateFirst' /\ MemoryFollows'
<1>0. ASSUME faulty' = faulty
      PROVE  StateRecords /\ PromiseSaved /\ StateFirst /\ MemoryFollows
  BY <1>0, Zenon DEF VoteInv
<1>1. CASE Ready
  <2>1. /\ UNCHANGED <<walHs, walEnts, walEnd, walSynced, snaps, wHard, status,
                       promised, faulty>>
        /\ Up /\ pc = "idle"
    BY <1>1, Zenon DEF Ready, disk, walVars
  <2>2. StateRecords /\ PromiseSaved /\ StateFirst /\ MemoryFollows
    BY <1>0, <2>1, Zenon
  <2>3. PICK h \in NextHs :
          /\ rd'.hs = (IF h = hs THEN EmptyHs ELSE h)
          /\ hs' = h /\ pc' = "state"
    BY <1>1 DEF Ready, Emit
  <2>4. hs = wHard /\ DOMAIN walHs # {} /\ wHard = ReadHardState
    BY <2>1, <2>2, Zenon DEF MemoryFollows
  <2>5. hs.commit > 0 /\ hs.commit \in Nat
    BY <2>2, <2>4, LastRecord, Zenon DEF HardState
  <2>6. HsLeq(hs, h) /\ h.commit > 0
    BY <2>5 DEF NextHs, HsLeq
  <2>7. MemoryFollows'
    BY <2>1, <2>3, <2>4, <2>6, Zenon DEF MemoryFollows, ReadHardState, Up
  <2> QED  BY <2>1, <2>2, <2>7, Zenon DEF StateRecords, PromiseSaved, StateFirst
<1>2. CASE SaveState
  <2>1. StateRecords /\ PromiseSaved /\ StateFirst /\ MemoryFollows
    BY <1>0, <1>2, Zenon DEF SaveState, history
  <2>2. /\ UNCHANGED <<walEnts, walSynced, snaps, status, promised, hs>>
        /\ Up /\ pc = "state" /\ pc' = "entries"
    BY <1>2, Zenon DEF SaveState, raft, history
  <2>3. CASE ~StateDue
    <3>1. UNCHANGED <<walHs, walEnd, wHard>>
      BY <1>2, <2>3, Zenon DEF SaveState
    <3>2. hs = wHard /\ DOMAIN walHs # {}
      <4>1. CASE rd.hs = hs
        <5>1. hs # EmptyHs
          <6>1. hs.commit > 0
            BY <2>1, <2>2, Zenon DEF MemoryFollows
          <6>2. EmptyHs.commit = 0
            BY Zenon DEF EmptyHs
          <6> QED  BY <6>1, <6>2
        <5>2. hs = wHard
          BY <2>3, <4>1, <5>1, Zenon DEF StateDue
        <5> QED  BY <2>1, <2>2, <5>1, <5>2, Zenon DEF MemoryFollows, ReadHardState
      <4> QED  BY <2>1, <2>2, <4>1, Zenon DEF MemoryFollows
    <3>3. MemoryFollows'
      BY <2>1, <2>2, <3>1, <3>2, Zenon DEF MemoryFollows, ReadHardState, Up
    <3> QED  BY <2>1, <2>2, <3>1, <3>3, Zenon DEF StateRecords, PromiseSaved, StateFirst
  <2>4. CASE StateDue
    <3> DEFINE e == walEnd + 1
    <3>1. walHs' = Put(walHs, e, rd.hs) /\ walEnd' = e /\ wHard' = rd.hs
      BY <1>2, <2>4, Zenon DEF SaveState
    <3>2. rd.hs = hs /\ HsLeq(wHard, hs) /\ hs.commit > 0 /\ wHard = ReadHardState
      BY <2>1, <2>2, <2>4, Zenon DEF MemoryFollows, StateDue
    <3>3. /\ walEnd \in Nat /\ walSynced \in Nat /\ walSynced <= walEnd
          /\ DOMAIN walHs \in SUBSET Nat /\ \A p \in DOMAIN walHs : p <= walEnd
          /\ \A p \in DOMAIN walHs : walHs[p] \in HardState
          /\ hs \in HardState /\ wHard \in HardState
      <4>1. hs \in HardState /\ wHard \in HardState
        BY Zenon DEF TypeInv, TypeOK, RaftTypeOK, WalTypeOK
      <4>2. \A p \in DOMAIN walHs : walHs[p] \in HardState
        BY Zenon DEF TypeInv, TypeOK, DiskTypeOK, IsPartial
      <4> QED  BY <4>1, <4>2, Positions, Zenon
    <3>4. /\ DOMAIN walHs' = DOMAIN walHs \cup {e} /\ walHs'[e] = hs
          /\ \A p \in DOMAIN walHs : walHs'[p] = walHs[p]
      <4>1. e \notin DOMAIN walHs
        BY <3>3
      <4> QED  BY <3>1, <3>2, <4>1, Zenon DEF Put
    <3>5. \A p \in DOMAIN walHs : HsLeq(walHs[p], hs)
      <4> TAKE p \in DOMAIN walHs
      <4>1. HsLeq(walHs[p], wHard)
        BY <2>1, <3>2, LastRecord, Zenon
      <4> QED  BY <3>2, <3>3, <4>1, HsLeqTrans, Zenon
    <3>6. StateRecords'
      <4>1. \A p \in DOMAIN walHs' : walHs'[p].commit > 0
        BY <2>1, <3>2, <3>4, Zenon DEF StateRecords
      <4>2. ASSUME NEW p \in DOMAIN walHs', NEW q \in DOMAIN walHs', p <= q
            PROVE  HsLeq(walHs'[p], walHs'[q])
        <5>1. CASE q = e
          BY <3>3, <3>4, <3>5, <5>1, HsLeqRefl, Zenon
        <5>2. CASE q # e
          <6>1. p # e
            <7>1. q \in DOMAIN walHs
              BY <3>4, <5>2, Zenon
            <7>2. q \in Nat /\ q <= walEnd
              BY <3>3, <7>1, Zenon
            <7> QED  BY <3>3, <4>2, <7>2
          <6> QED  BY <2>1, <3>4, <4>2, <5>2, <6>1, Zenon DEF StateRecords
        <5> QED  BY <5>1, <5>2, Zenon
      <4> QED  BY <4>1, <4>2, Zenon DEF StateRecords
    <3>7. PromiseSaved' /\ StateFirst'
      BY <2>1, <2>2, <3>4, Zenon DEF PromiseSaved, StateFirst
    <3>8. ReadHardState' = hs
      <4>1. MaxOf(DOMAIN walHs') = e
        <5>1. /\ DOMAIN walHs \cup {e} \in SUBSET Nat
              /\ \A p \in DOMAIN walHs \cup {e} : p <= e
          BY <3>3
        <5>2. MaxOf(DOMAIN walHs \cup {e}) = e
          BY <5>1, MaxOfIs, Zenon
        <5> QED  BY <3>4, <5>2, Zenon
      <4> QED  BY <3>4, <4>1, Zenon DEF ReadHardState
    <3>9. MemoryFollows'
      BY <2>2, <3>1, <3>2, <3>4, <3>8, Zenon DEF MemoryFollows
    <3> QED  BY <3>6, <3>7, <3>9, Zenon
  <2> QED  BY <2>3, <2>4, Zenon
<1>3. CASE SaveEntry
  <2>1. StateRecords /\ PromiseSaved /\ StateFirst /\ MemoryFollows
    BY <1>0, <1>3, Zenon DEF SaveEntry, history
  <2>2. /\ UNCHANGED <<walHs, walSynced, snaps, wHard, status, pc, promised, hs>>
        /\ Up /\ pc = "entries"
        /\ DOMAIN walEnts' = DOMAIN walEnts \cup {walEnd + 1}
    BY <1>3, PutDomain, Zenon DEF SaveEntry, raft, history, walVars
  <2>3. \E p \in DOMAIN walHs : p <= walEnd + 1
    <3>1. PICK p \in DOMAIN walHs : TRUE
      BY <2>1, <2>2, Zenon DEF MemoryFollows
    <3>2. p \in Nat /\ p <= walEnd /\ walEnd \in Nat
      BY Positions, Zenon
    <3> QED  BY <3>2
  <2>4. StateFirst'
    BY <2>1, <2>2, <2>3, Zenon DEF StateFirst
  <2>5. MemoryFollows'
    BY <2>1, <2>2, Zenon DEF MemoryFollows, ReadHardState, Up
  <2> QED  BY <2>1, <2>2, <2>4, <2>5, Zenon DEF StateRecords, PromiseSaved
<1>4. CASE SaveSync
  <2>1. StateRecords /\ PromiseSaved /\ StateFirst /\ MemoryFollows
    BY <1>0, <1>4, Zenon DEF SaveSync
  <2>2. /\ UNCHANGED <<walHs, walEnts, walEnd, snaps, wHard, status, promised, hs>>
        /\ Up /\ pc = "entries" /\ pc' = "publish" /\ walSynced' = walEnd
    BY <1>4, Zenon DEF SaveSync, raft
  <2>3. /\ walSynced \in Nat /\ walEnd \in Nat /\ walSynced <= walEnd
        /\ DOMAIN walHs \in SUBSET Nat
    BY Positions, Zenon
  <2>4. \A p \in DOMAIN walHs : p <= walSynced => p <= walSynced'
    <3> TAKE p \in DOMAIN walHs
    <3>1. p \in Nat
      BY <2>3, Zenon
    <3> QED  BY <2>2, <2>3, <3>1
  <2>5. PromiseSaved' /\ StateFirst'
    BY <2>1, <2>2, <2>4, Zenon DEF PromiseSaved, StateFirst
  <2>6. MemoryFollows'
    BY <2>1, <2>2, Zenon DEF MemoryFollows, ReadHardState, Up
  <2> QED  BY <2>1, <2>2, <2>5, <2>6, Zenon DEF StateRecords
<1>5. CASE SaveFails
  BY <1>5, Zenon DEF SaveFails
<1>6. CASE Publish
  <2>1. StateRecords /\ PromiseSaved /\ StateFirst /\ MemoryFollows
    BY <1>0, <1>6, Zenon DEF Publish
  <2>2. /\ UNCHANGED <<walHs, walEnts, walEnd, walSynced, snaps, wHard, status, hs>>
        /\ Up /\ pc = "publish" /\ pc' \in {"snapcreate", "idle"}
        /\ promised'.hs = hs
    BY <1>6, Zenon DEF Publish, disk, walVars
  <2>3. /\ walSynced = walEnd /\ hs = ReadHardState /\ DOMAIN walHs # {}
    BY <2>1, <2>2, Zenon DEF MemoryFollows
  <2>4. PromiseSaved'
    <3>1. PICK p \in DOMAIN walHs : ReadHardState = walHs[p]
      BY <2>3, ReadHardStateType, Zenon DEF TypeInv, TypeOK
    <3>2. p <= walSynced /\ HsLeq(hs, walHs[p])
      <4>1. hs \in HardState
        BY Zenon DEF TypeInv, TypeOK, RaftTypeOK
      <4>2. HsLeq(hs, hs)
        BY <4>1, HsLeqRefl, Zenon
      <4>3. p <= walSynced
        BY <2>3, Positions, Zenon
      <4> QED  BY <2>3, <3>1, <4>2, <4>3, Zenon
    <3> QED  BY <2>2, <3>2, Zenon DEF PromiseSaved
  <2>5. MemoryFollows'
    BY <2>1, <2>2, Zenon DEF MemoryFollows, ReadHardState, Up
  <2> QED  BY <2>1, <2>2, <2>4, <2>5, Zenon DEF StateRecords, StateFirst
<1>7. CASE SnapCreate
  <2>1. StateRecords /\ PromiseSaved /\ StateFirst /\ MemoryFollows
    BY <1>0, <1>7, Zenon DEF SnapCreate, history
  <2>2. /\ UNCHANGED <<walHs, walEnts, walEnd, walSynced, wHard, status, hs, promised>>
        /\ Up /\ pc = "snapcreate" /\ pc' = "snapwrite"
    BY <1>7, Zenon DEF SnapCreate, walVars, raft, history
  <2>3. StateFirst' /\ MemoryFollows'
    BY <2>1, <2>2, SnapshotAfterSync, Zenon DEF StateFirst, MemoryFollows, ReadHardState, Up
  <2> QED  BY <2>1, <2>2, <2>3, Zenon DEF StateRecords, PromiseSaved
<1>8. CASE SnapWrite
  <2>1. StateRecords /\ PromiseSaved /\ StateFirst /\ MemoryFollows
    BY <1>0, <1>8, Zenon DEF SnapWrite
  <2>2. /\ UNCHANGED <<walHs, walEnts, walEnd, walSynced, wHard, status, hs, promised>>
        /\ Up /\ pc = "snapwrite" /\ pc' = "compact"
    BY <1>8, Zenon DEF SnapWrite, walVars, raft
  <2>3. StateFirst' /\ MemoryFollows'
    BY <2>1, <2>2, SnapshotAfterSync, Zenon DEF StateFirst, MemoryFollows, ReadHardState, Up
  <2> QED  BY <2>1, <2>2, <2>3, Zenon DEF StateRecords, PromiseSaved
<1>9. CASE SnapFails
  <2>1. StateRecords /\ PromiseSaved /\ StateFirst /\ MemoryFollows
    BY <1>0, <1>9, Zenon DEF SnapFails
  <2>2. /\ UNCHANGED <<walHs, walEnts, walEnd, walSynced, snaps, wHard, status, hs,
                       promised>>
        /\ Up /\ pc \in {"snapcreate", "snapwrite"} /\ pc' = "idle"
    BY <1>9, Zenon DEF SnapFails, disk, walVars, raft
  <2>3. MemoryFollows'
    BY <2>1, <2>2, Zenon DEF MemoryFollows, ReadHardState, Up
  <2> QED  BY <2>1, <2>2, <2>3, Zenon DEF StateRecords, PromiseSaved, StateFirst
<1>10. CASE Compact
  <2>1. StateRecords /\ PromiseSaved /\ StateFirst /\ MemoryFollows
    BY <1>0, <1>10, Zenon DEF Compact
  <2>2. /\ UNCHANGED <<walEnd, snaps, wHard, status, hs, promised>> /\ ReplaceWal
        /\ Up /\ pc = "compact" /\ pc' = "idle"
    BY <1>10, Zenon DEF Compact, raft
  <2>3. /\ StateRecords' /\ PromiseSaved' /\ StateFirst'
        /\ ReadHardState' = wHard /\ DOMAIN walHs' # {}
    BY <2>1, <2>2, ReplaceWalVote, Zenon
  <2>4. MemoryFollows'
    BY <2>1, <2>2, <2>3, Zenon DEF MemoryFollows
  <2> QED  BY <2>3, <2>4, Zenon
<1>11. CASE CompactFails
  <2>1. StateRecords /\ PromiseSaved /\ StateFirst /\ MemoryFollows
    BY <1>0, <1>11, Zenon DEF CompactFails
  <2>2. /\ UNCHANGED <<walEnd, snaps, wHard, status, hs, promised>>
        /\ Up /\ pc = "compact" /\ pc' = "idle"
    BY <1>11, Zenon DEF CompactFails, raft
  <2>3. CASE ReplaceWal
    <3>1. /\ StateRecords' /\ PromiseSaved' /\ StateFirst'
          /\ ReadHardState' = wHard /\ DOMAIN walHs' # {}
      BY <2>1, <2>2, <2>3, ReplaceWalVote, Zenon
    <3>2. MemoryFollows'
      BY <2>1, <2>2, <3>1, Zenon DEF MemoryFollows
    <3> QED  BY <3>1, <3>2, Zenon
  <2>4. CASE UNCHANGED <<walHs, walEnts, walSynced, walTorn, compacted, fOpen>>
    <3>1. MemoryFollows'
      BY <2>1, <2>2, <2>4, Zenon DEF MemoryFollows, ReadHardState, Up
    <3> QED  BY <2>1, <2>2, <2>4, <3>1, Zenon DEF StateRecords, PromiseSaved, StateFirst
  <2> QED  BY <1>11, <2>3, <2>4, Zenon DEF CompactFails
<1>12. CASE Stop \/ StopClosesWal \/ UNCHANGED vars
  <2>1. UNCHANGED <<walHs, walEnts, walEnd, walSynced, snaps, wHard, status, pc, rd,
                    hs, promised, faulty>>
    BY <1>12, Zenon DEF Stop, StopClosesWal, vars, disk, walVars, node, raft, history
  <2>2. StateRecords /\ PromiseSaved /\ StateFirst /\ MemoryFollows
    BY <1>0, <2>1, Zenon
  <2>3. MemoryFollows'
    BY <2>1, <2>2, Zenon DEF MemoryFollows, ReadHardState, Up
  <2> QED  BY <2>1, <2>2, <2>3, Zenon DEF StateRecords, PromiseSaved, StateFirst
<1>13. CASE Exit \/ Crash \/ StartFails
  <2>1. /\ UNCHANGED <<walHs, walEnts, walEnd, walSynced, snaps, promised, faulty>>
        /\ ~Up'
    BY <1>13, Zenon DEF Exit, Crash, StartFails, ProcessGone, disk, history, Up
  <2>2. StateRecords /\ PromiseSaved /\ StateFirst
    BY <1>0, <2>1, Zenon
  <2> QED  BY <2>1, <2>2, Zenon DEF StateRecords, PromiseSaved, StateFirst, MemoryFollows
<1>14. CASE PowerLoss
  <2>1. StateRecords /\ PromiseSaved /\ StateFirst
    BY <1>0, <1>14, Zenon DEF PowerLoss
  <2>2. promised' = promised /\ ~Up'
    BY <1>14, Zenon DEF PowerLoss, ProcessGone, Up
  <2>3. PICK cut \in walSynced..walEnd :
          /\ walHs' = Restrict(walHs, {p \in DOMAIN walHs : p <= cut})
          /\ walEnts' = Restrict(walEnts, {p \in DOMAIN walEnts : p <= cut})
          /\ walSynced' = cut
    BY <1>14, Zenon DEF PowerLoss
  <2>4. /\ walSynced \in Nat /\ cut \in Nat /\ walSynced <= cut
        /\ DOMAIN walHs \in SUBSET Nat /\ DOMAIN walEnts \in SUBSET Nat
    <3>1. walSynced \in Nat /\ walEnd \in Nat
      BY Positions, Zenon
    <3>2. cut \in Nat /\ walSynced <= cut
      BY <3>1
    <3> QED  BY <3>1, <3>2, Positions, Zenon
  <2>5. /\ DOMAIN walHs' = {p \in DOMAIN walHs : p <= cut}
        /\ \A p \in DOMAIN walHs' : walHs'[p] = walHs[p]
        /\ DOMAIN walEnts' = {p \in DOMAIN walEnts : p <= cut}
    BY <2>3, Zenon DEF Restrict
  <2>6. \A p \in DOMAIN walHs : p <= walSynced => p \in DOMAIN walHs' /\ p <= walSynced'
    <3> SUFFICES ASSUME NEW p \in DOMAIN walHs, p <= walSynced
                 PROVE  p \in DOMAIN walHs' /\ p <= walSynced'
      BY Zenon
    <3>1. p \in Nat
      BY <2>4, Zenon
    <3>2. p <= cut
      BY <2>4, <3>1
    <3> QED  BY <2>3, <2>5, <3>2, Zenon
  <2>7. DOMAIN snaps' \subseteq DOMAIN snaps
    BY <1>14, Zenon DEF PowerLoss, SnapshotsAfterPowerLoss
  <2>8. StateRecords'
    BY <2>1, <2>5, Zenon DEF StateRecords
  <2>9. PromiseSaved'
    BY <2>1, <2>2, <2>5, <2>6, Zenon DEF PromiseSaved
  <2>10. StateFirst'
    <3>1. ASSUME NEW q \in DOMAIN walEnts'
          PROVE  \E p \in DOMAIN walHs' : p <= q
      <4>1. q \in DOMAIN walEnts /\ q <= cut /\ q \in Nat
        BY <2>4, <2>5, Zenon
      <4>2. PICK p \in DOMAIN walHs : p <= q
        BY <2>1, <4>1, Zenon DEF StateFirst
      <4>3. p \in DOMAIN walHs'
        <5>1. p \in Nat
          BY <2>4, Zenon
        <5>2. p <= cut
          BY <2>4, <4>1, <4>2, <5>1
        <5> QED  BY <2>5, <5>2, Zenon
      <4> QED  BY <4>2, <4>3, Zenon
    <3>2. DOMAIN snaps' # {} => \E p \in DOMAIN walHs' : p <= walSynced'
      BY <2>1, <2>6, <2>7, Zenon DEF StateFirst
    <3> QED  BY <3>1, <3>2, Zenon DEF StateFirst
  <2> QED  BY <2>2, <2>8, <2>9, <2>10, Zenon DEF MemoryFollows
<1>15. CASE Writeback
  <2>1. /\ UNCHANGED <<walHs, walEnts, walEnd, walSynced, wHard, status, pc, rd, hs,
                       promised, faulty>>
        /\ DOMAIN snaps' = DOMAIN snaps
    BY <1>15, Zenon DEF Writeback, walVars, node, raft, history
  <2>2. StateRecords /\ PromiseSaved /\ StateFirst /\ MemoryFollows
    BY <1>0, <2>1, Zenon
  <2>3. MemoryFollows'
    BY <2>1, <2>2, Zenon DEF MemoryFollows, ReadHardState, Up
  <2> QED  BY <2>1, <2>2, <2>3, Zenon DEF StateRecords, PromiseSaved, StateFirst
<1>16. CASE Start
  <2>1. /\ UNCHANGED <<walHs, walEnts, walEnd, walSynced, snaps, promised, faulty>>
        /\ wHard' = ReadHardState
    BY <1>16, Zenon DEF Start, disk
  <2>2. StateRecords /\ PromiseSaved /\ StateFirst
    BY <1>0, <2>1, Zenon
  <2>3. ReadHardState' = ReadHardState
    BY <2>1, Zenon DEF ReadHardState
  <2> DEFINE fresh == LatestSnapshot = 0 /\ DOMAIN walEnts = {}
  <2>4. CASE fresh
    <3>1. hs' = BootHs /\ rd'.hs = BootHs /\ pc' = "state"
      BY <1>16, <2>4 DEF Start
    <3>2. ReadHardState = EmptyHs
      <4>1. Loadable(ReadHardState, 0, 0)
        <5>1. Replay(0, ReadEntries).last = 0
          <6>1. DOMAIN ReadEntries = 1..0 /\ 1..0 = {}
            BY <2>4, FS_EmptySet DEF ReadEntries
          <6> QED  BY <6>1, FS_EmptySet, Zenon DEF Replay
        <5> QED  BY <1>16, <2>4, <5>1, Zenon DEF Start
      <4>2. CASE DOMAIN walHs = {}
        BY <4>2, Zenon DEF ReadHardState
      <4>3. CASE DOMAIN walHs # {}
        BY <2>2, <4>1, <4>3, LastRecord DEF Loadable, HardState
      <4> QED  BY <4>2, <4>3, Zenon
    <3>3. HsLeq(EmptyHs, BootHs) /\ BootHs.commit > 0
      <4>1. BootEntries \in Nat \ {0}
        BY ConstantsAssumption, Zenon
      <4>2. /\ EmptyHs.commit = 0 /\ EmptyHs.term = 0
            /\ BootHs.commit = BootEntries /\ BootHs.term = 1
        BY Zenon DEF EmptyHs, BootHs
      <4> QED  BY <4>1, <4>2 DEF HsLeq
    <3>4. MemoryFollows'
      BY <2>1, <2>3, <3>1, <3>2, <3>3, Zenon DEF MemoryFollows
    <3> QED  BY <2>1, <2>2, <3>4, Zenon DEF StateRecords, PromiseSaved, StateFirst
  <2>5. CASE ~fresh
    <3>1. /\ hs' = IF ReadHardState = EmptyHs
                   THEN [EmptyHs EXCEPT !.commit = LatestSnapshot]
                   ELSE ReadHardState
          /\ pc' = "idle"
      BY <1>16, <2>5, Zenon DEF Start
    <3>2. DOMAIN walHs # {}
      BY <2>2, <2>5, Zenon DEF StateFirst, LatestSnapshot
    <3>3. hs' = ReadHardState
      BY <2>2, <3>1, <3>2, LastRecord, Zenon
    <3>4. MemoryFollows'
      BY <2>1, <2>3, <3>1, <3>2, <3>3, Zenon DEF MemoryFollows
    <3> QED  BY <2>1, <2>2, <3>4, Zenon DEF StateRecords, PromiseSaved, StateFirst
  <2> QED  BY <2>4, <2>5, Zenon
<1> QED
  BY <1>1, <1>2, <1>3, <1>4, <1>5, <1>6, <1>7, <1>8, <1>9, <1>10, <1>11, <1>12,
     <1>13, <1>14, <1>15, <1>16, Zenon DEF Next

\* A running node never goes back on a term, a vote or a commit index its
\* messages carried, whatever crashes, power losses, compactions, failed
\* snapshots and restarts it went through, as long as no Save failed: run saves
\* and syncs the hard state before it sends.
THEOREM VotesAreDurable == Spec => []VoteDurable
<1>1. Init => TypeInv /\ VoteInv
  BY TypeInit, VoteInit, Zenon
<1>2. TypeInv /\ VoteInv /\ [Next]_vars => TypeInv' /\ VoteInv'
  BY TypeNext, VoteNext, Zenon
<1>3. TypeInv /\ VoteInv => VoteDurable
  BY VoteInvGivesVoteDurable, Zenon
<1> QED  BY <1>1, <1>2, <1>3, PTL DEF Spec
=============================================================================
