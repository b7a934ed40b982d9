-------------------------- MODULE NodeStorage_restart --------------------------
(***************************************************************************)
(* Proofs about NodeStorage, continued: what a compaction, a power loss    *)
(* and a restart make of the entries, and so that no restart loses an      *)
(* entry a message spoke for, applies an entry the cluster did not commit, *)
(* or fails on a disk that was not caught half written.                    *)
(***************************************************************************)
EXTENDS NodeStorage_proofs, NodeStorage_log

-----------------------------------------------------------------------------
(* Reading wal.log back *)

\* wal.ReadAll returns a commit index.
LEMMA CommitRead ==
  ASSUME TypeInv
  PROVE  ReadHardState.commit \in Nat
BY ReadHardStateType, Zenon DEF TypeInv, TypeOK, HardState

\* The place of an entry record among those of the file is its index, counted from
\* the compaction.
LEMMA RankIsIndex ==
  ASSUME TypeInv, WalContents, NEW p \in DOMAIN walEnts
  PROVE  Cardinality({q \in DOMAIN walEnts : q <= p}) = walEnts[p].index - compacted
<1> DEFINE S == {q \in DOMAIN walEnts : q <= p}
           T == compacted+1..walEnts[p].index
           f == [q \in S |-> walEnts[q].index]
<1>0. /\ compacted \in Nat
      /\ \A q \in DOMAIN walEnts : q \in Nat /\ walEnts[q].index \in Nat
  BY Numbers, Zenon
<1>1. \A q \in S : walEnts[q].index \in T
  BY <1>0 DEF WalContents
<1>2. f \in [S -> T]
  BY <1>1, Zenon
<1>3. \A a, b \in S : walEnts[a].index = walEnts[b].index => a = b
  <2> SUFFICES ASSUME NEW a \in S, NEW b \in S, walEnts[a].index = walEnts[b].index
               PROVE  a = b
    BY Zenon
  <2>1. a \in Nat /\ b \in Nat /\ walEnts[a].index \in Nat
    BY <1>0, Zenon
  <2>2. ~(a < b) /\ ~(b < a)
    BY <2>1 DEF WalContents
  <2> QED  BY <2>1, <2>2
<1>4. \A t \in T : \E q \in S : walEnts[q].index = t
  BY Zenon DEF WalContents
<1>5. f \in Bijection(S, T)
  <2> HIDE DEF S, T
  <2>1. f \in Injection(S, T)
    BY <1>2, <1>3, Zenon DEF Injection, IsInjective
  <2>2. f \in Surjection(S, T)
    BY <1>2, <1>4, Zenon DEF Surjection
  <2> QED  BY <2>1, <2>2, Zenon DEF Bijection
<1>6. IsFiniteSet(S)
  BY <1>0, FS_BoundedSetOfNaturals, Zenon
<1>7. Cardinality(T) = Cardinality(S)
  <2> HIDE DEF S, T, f
  <2> QED  BY <1>5, <1>6, FS_Bijection, Zenon DEF ExistsBijection
<1>8. Cardinality(T) = walEnts[p].index - compacted
  <2>1. compacted + 1 \in Int /\ walEnts[p].index \in Int /\ walEnts[p].index > compacted
    BY <1>0 DEF WalContents
  <2>2. Cardinality(T) = IF compacted + 1 > walEnts[p].index THEN 0
                         ELSE walEnts[p].index - (compacted + 1) + 1
    BY <2>1, FS_Interval, Zenon
  <2> QED  BY <1>0, <2>1, <2>2
<1> QED  BY <1>7, <1>8, Zenon

\* The last index in wal.log.
WalLast == compacted + Cardinality(DOMAIN walEnts)

\* ReadAll returns the entries from the compaction on, numbered without a gap.
LEMMA ReadEntriesNumbered ==
  ASSUME TypeInv, WalContents
  PROVE  /\ Cardinality(DOMAIN walEnts) \in Nat
         /\ ReadEntries \in [1..Cardinality(DOMAIN walEnts) -> Entry]
         /\ \A k \in 1..Cardinality(DOMAIN walEnts) :
              ReadEntries[k].index = compacted + k
         /\ \A p \in DOMAIN walEnts :
              /\ walEnts[p].index \in compacted+1..WalLast
              /\ ReadEntries[walEnts[p].index - compacted] = walEnts[p]
         /\ \A i \in compacted+1..WalLast : \E p \in DOMAIN walEnts : walEnts[p].index = i
<1> DEFINE n == Cardinality(DOMAIN walEnts)
           Rank(p) == Cardinality({q \in DOMAIN walEnts : q <= p})
<1>0. /\ compacted \in Nat
      /\ \A q \in DOMAIN walEnts : q \in Nat /\ walEnts[q].index \in Nat
  BY Numbers, Zenon
<1>1. n \in Nat /\ ReadEntries \in [1..n -> Entry]
  BY ReadEntriesType, Zenon DEF TypeInv, TypeOK, DiskTypeOK
<1>2. DOMAIN walEnts \in SUBSET Nat /\ walEnd \in Nat /\ \A p \in DOMAIN walEnts : p <= walEnd
  BY DEF TypeInv, TypeOK, DiskTypeOK
<1>3. \A p \in DOMAIN walEnts : Rank(p) = walEnts[p].index - compacted
  BY RankIsIndex, Zenon
<1>4. \A p, q \in DOMAIN walEnts : walEnts[p].index = walEnts[q].index => p = q
  BY <1>0 DEF WalContents
<1>5. ASSUME NEW k \in 1..n
      PROVE  \E p \in DOMAIN walEnts : ReadEntries[k] = walEnts[p] /\ Rank(p) = k
  <2>1. \E p \in DOMAIN walEnts : Rank(p) = k
    BY <1>2, RankExists, Zenon
  <2> DEFINE c == CHOOSE p \in DOMAIN walEnts : Rank(p) = k
  <2>2. c \in DOMAIN walEnts /\ Rank(c) = k
    BY <2>1, Zenon
  <2>3. ReadEntries[k] = walEnts[c]
    BY Zenon DEF ReadEntries
  <2> QED  BY <2>2, <2>3, Zenon
<1> HIDE DEF Rank
<1>6. ASSUME NEW k \in 1..n  PROVE ReadEntries[k].index = compacted + k
  <2>1. PICK p \in DOMAIN walEnts : ReadEntries[k] = walEnts[p] /\ Rank(p) = k
    BY <1>5, Zenon
  <2>2. k = walEnts[p].index - compacted
    BY <1>3, <2>1, Zenon
  <2> QED  BY <1>0, <2>1, <2>2
<1>7. ASSUME NEW p \in DOMAIN walEnts  PROVE walEnts[p].index \in compacted+1..WalLast
  <2>1. Rank(p) <= n
    <3>1. {q \in DOMAIN walEnts : q <= p} \subseteq DOMAIN walEnts
      BY Zenon
    <3>2. IsFiniteSet(DOMAIN walEnts)
      BY <1>2, FS_BoundedSetOfNaturals, Zenon
    <3> QED  BY <3>1, <3>2, FS_Subset, Zenon DEF Rank
  <2>2. walEnts[p].index - compacted <= n /\ walEnts[p].index > compacted
    BY <1>3, <2>1, Zenon DEF WalContents
  <2> QED  BY <1>0, <1>1, <2>2 DEF WalLast
<1>8. ASSUME NEW p \in DOMAIN walEnts
      PROVE  ReadEntries[walEnts[p].index - compacted] = walEnts[p]
  <2> DEFINE k == walEnts[p].index - compacted
  <2>1. k \in 1..n
    BY <1>0, <1>1, <1>7 DEF WalLast
  <2>2. PICK q \in DOMAIN walEnts : ReadEntries[k] = walEnts[q] /\ Rank(q) = k
    BY <1>5, <2>1, Zenon
  <2>3. walEnts[q].index = walEnts[p].index
    BY <1>0, <1>3, <2>2
  <2>4. p = q
    BY <1>4, <2>3, Zenon
  <2> QED  BY <2>2, <2>4, Zenon
<1>9. ASSUME NEW i \in compacted+1..WalLast
      PROVE  \E p \in DOMAIN walEnts : walEnts[p].index = i
  <2>1. i - compacted \in 1..n /\ i \in Nat
    BY <1>0, <1>1 DEF WalLast
  <2>2. PICK p \in DOMAIN walEnts : Rank(p) = i - compacted
    BY <1>5, <2>1, Zenon
  <2>3. walEnts[p].index = i
    BY <1>0, <1>3, <2>1, <2>2
  <2> QED  BY <2>3, Zenon
<1> QED  BY <1>1, <1>6, <1>7, <1>8, <1>9, Zenon

\* MemoryStorage.Append, on entries numbered from c + 1 to c + n without a gap:
\* they become the log after a snapshot that lies between, and a snapshot older
\* than c makes it panic, or leaves the log empty.
LEMMA ReplayNumbered ==
  ASSUME NEW c \in Nat, NEW s \in Nat, NEW n \in Nat, NEW e \in [1..n -> Entry],
         \A k \in 1..n : e[k].index = c + k
  PROVE  /\ c <= s /\ s <= c + n =>
              Replay(s, e) = [panic |-> FALSE, last |-> c + n,
                              ents |-> [i \in s+1..c+n |-> e[i - c]]]
         /\ s < c => Replay(s, e).panic \/ Replay(s, e).last = s
<1>1. Cardinality(DOMAIN e) = n
  BY FS_Interval
<1> DEFINE drop == IF s + 1 > e[1].index THEN s + 1 - e[1].index ELSE 0
           next == e[drop + 1].index
           skip == IF next = s THEN drop + 1 ELSE drop
<1>2. CASE n = 0 \/ e[1].index + n - 1 < s + 1
  <2>1. Replay(s, e) = [panic |-> FALSE, last |-> s, ents |-> NoEntries]
    BY <1>1, <1>2, Zenon DEF Replay
  <2>2. ASSUME c <= s, s <= c + n
        PROVE  s = c + n /\ [i \in s+1..c+n |-> e[i - c]] = NoEntries
    <3>1. s = c + n
      BY <1>2, <2>2
    <3>2. s+1..c+n = {}
      BY <3>1
    <3> QED  BY <3>1, <3>2, Zenon DEF NoEntries
  <2>3. Replay(s, e).last = s
    BY <2>1
  <2>4. c <= s /\ s <= c + n =>
          Replay(s, e) = [panic |-> FALSE, last |-> c + n,
                          ents |-> [i \in s+1..c+n |-> e[i - c]]]
    BY <2>1, <2>2, Zenon
  <2> QED  BY <2>3, <2>4, Zenon
<1>3. CASE ~(n = 0 \/ e[1].index + n - 1 < s + 1)
  <2>1. e[1].index = c + 1 /\ n > 0 /\ c + n >= s + 1
    BY <1>3
  <2>2. ASSUME c <= s
        PROVE  Replay(s, e) = [panic |-> FALSE, last |-> c + n,
                               ents |-> [i \in s+1..c+n |-> e[i - c]]]
    <3>1. drop = s - c
      BY <2>1, <2>2
    <3>2. next = s + 1
      <4>1. s - c + 1 \in 1..n
        BY <2>1, <2>2
      <4>2. e[s - c + 1].index = s + 1
        BY <4>1
      <4> QED  BY <3>1, <4>2, Zenon
    <3>3. skip = s - c
      BY <3>1, <3>2
    <3>4. Replay(s, e) = [panic |-> FALSE, last |-> s + n - skip,
                          ents |-> [i \in s+1..s+n-skip |-> e[i - s + skip]]]
      BY <1>1, <1>3, <3>2, Zenon DEF Replay
    <3>5. s + n - skip = c + n /\ \A i \in Int : i - s + skip = i - c
      <4> HIDE DEF skip
      <4> QED  BY <3>3
    <3> HIDE DEF skip
    <3>6. [i \in s+1..s+n-skip |-> e[i - s + skip]] = [i \in s+1..c+n |-> e[i - c]]
      <4>1. s+1..s+n-skip = s+1..c+n
        BY <3>5, Zenon
      <4>2. \A i \in s+1..c+n : e[i - s + skip] = e[i - c]
        BY <3>5
      <4> QED  BY <4>1, <4>2, Zenon
    <3> QED  BY <3>4, <3>5, <3>6, Zenon
  <2>3. ASSUME s < c  PROVE Replay(s, e).panic
    <3>1. drop = 0
      BY <2>1, <2>3
    <3>2. next = c + 1
      BY <2>1, <3>1
    <3>3. next \notin {s, s + 1}
      BY <2>3, <3>2
    <3> QED  BY <1>1, <1>3, <3>3, Zenon DEF Replay
  <2> QED  BY <2>2, <2>3, Zenon
<1> QED  BY <1>2, <1>3, Zenon

-----------------------------------------------------------------------------
(* Snapshots and compaction *)

\* When createSnapshot runs, the index it runs at is saved: the hard state that
\* commits it and the entry there were synced before it was applied.
LEMMA AppliedSaved ==
  ASSUME TypeInv, MemoryFollows, Up, MemoryLog, DiskLog,
         pc \in {"snapcreate", "snapwrite", "compact"}
  PROVE  /\ Saved(appliedIndex) /\ appliedIndex <= hs.commit /\ hs.commit <= lastIndex
         /\ ReadHardState = hs /\ wHard = hs /\ walSynced = walEnd /\ Reaches(lastIndex)
         /\ DOMAIN walHs # {}
<1>0. /\ lastIndex \in Nat /\ raftApplied \in Nat /\ hs.commit \in Nat /\ compacted \in Nat
      /\ appliedIndex \in Nat
  BY Numbers, Zenon
<1>1. /\ walSynced = walEnd /\ wHard = ReadHardState /\ hs = wHard /\ DOMAIN walHs # {}
  BY Zenon DEF MemoryFollows
<1>2. /\ appliedIndex = raftApplied /\ raftApplied <= lastIndex /\ raftApplied <= hs.commit
      /\ hs.commit <= lastIndex /\ Reaches(lastIndex)
  BY Zenon DEF MemoryLog, Numbered, Applied, WalIsLog, LogEnd, SavedLast, Handling
<1>3. PICK p \in DOMAIN walHs : ReadHardState = walHs[p]
  BY <1>1, ReadHardStateType, Zenon DEF TypeInv, TypeOK
<1>4. p <= walSynced /\ appliedIndex <= walHs[p].commit
  BY <1>1, <1>2, <1>3, Positions, Zenon
<1>5. Reaches(appliedIndex)
  BY <1>0, <1>2, ReachesBelow, Zenon DEF DiskLog
<1>6. \A q \in DOMAIN walEnts : q <= walSynced
  BY <1>1 DEF TypeInv, TypeOK, DiskTypeOK
<1>7. Saved(appliedIndex)
  BY <1>4, <1>5, <1>6, Zenon DEF Saved, Reaches
<1> QED  BY <1>1, <1>2, <1>7, Zenon

\* A snapshot file that is added holds the store's contents, or is torn.
LEMMA NewFileSaved ==
  ASSUME FilesSaved, Applied, Saved(appliedIndex),
         UNCHANGED <<walHs, walEnts, walSynced, compacted, chosen>>,
         \A i \in DOMAIN snaps' :
           \/ i \in DOMAIN snaps /\ snaps'[i] = snaps[i]
           \/ /\ i = appliedIndex
              /\ snaps'[i].kind # "torn" => snaps'[i].data = store
  PROVE  FilesSaved'
<1>1. compacted' > 0 => Saved(compacted)'
  BY Zenon DEF FilesSaved, Saved
<1>2. ASSUME NEW i \in DOMAIN snaps'
      PROVE  /\ Saved(i)
             /\ snaps'[i].kind # "torn" =>
                  /\ DOMAIN snaps'[i].data = 1..i
                  /\ \A j \in 1..i : j \in DOMAIN chosen /\ chosen[j] = snaps'[i].data[j]
  <2>1. CASE i \in DOMAIN snaps /\ snaps'[i] = snaps[i]
    BY <2>1, Zenon DEF FilesSaved, InChosen
  <2>2. CASE i = appliedIndex /\ (snaps'[i].kind # "torn" => snaps'[i].data = store)
    BY <2>2, Zenon DEF Applied, InChosen
  <2> QED  BY <2>1, <2>2, Zenon
<1>3. \A i \in DOMAIN snaps' : Saved(i)'
  BY <1>2, Zenon DEF Saved
<1> QED  BY <1>1, <1>2, <1>3, Zenon DEF FilesSaved, InChosen

\* snap.Save keeps the facts, whether it succeeds, stops half-way or fails.
LEMMA SnapshotLog ==
  ASSUME TypeInv, TypeInv', MemoryFollows, LogFacts, SnapCreate \/ SnapWrite \/ SnapFails
  PROVE  LogFacts'
<1>0. /\ Up /\ MemoryLog /\ DiskLog /\ pc \in {"snapcreate", "snapwrite"}
      /\ pc' \in {"snapwrite", "compact", "idle"}
  BY Zenon DEF SnapCreate, SnapWrite, SnapFails, LogFacts
<1>1. UNCHANGED <<walHs, walEnts, walEnd, walSynced, walTorn, fOpen, wHard, wEntries,
                  status, rd, appliedIndex, store, hs, offset, ents, lastIndex,
                  raftApplied, promised, chosen, faulty, midSave, compacted>>
  BY Zenon DEF SnapCreate, SnapWrite, SnapFails, disk, walVars, raft, history
<1>2. MemoryLog'
  BY <1>0, <1>1, KeepsMemory, Zenon DEF Handling
<1>3. \A i \in DOMAIN snaps' :
        \/ i \in DOMAIN snaps /\ snaps'[i] = snaps[i]
        \/ /\ i = appliedIndex
           /\ snaps'[i].kind # "torn" => snaps'[i].data = store
  <2>1. CASE SnapCreate
    <3>1. snaps' = Put(snaps, appliedIndex, Torn)
      BY <2>1, Zenon DEF SnapCreate
    <3>2. Torn.kind = "torn"
      BY Zenon DEF Torn
    <3> QED  BY <3>1, <3>2, Zenon DEF Put
  <2>2. CASE SnapWrite
    <3> DEFINE written == Put(snaps, appliedIndex, SnapFile("cached", store))
    <3>1. SnapFile("cached", store).data = store
      BY Zenon DEF SnapFile
    <3>2. \A i \in DOMAIN written :
            \/ i \in DOMAIN snaps /\ written[i] = snaps[i]
            \/ i = appliedIndex /\ written[i].data = store
      BY <3>1, Zenon DEF Put
    <3>3. snaps' = Cleanup(written) \/ snaps' = written
      BY <2>2, Zenon DEF SnapWrite
    <3> HIDE DEF written
    <3>4. \A i \in DOMAIN Cleanup(written) : i \in DOMAIN written /\ Cleanup(written)[i] = written[i]
      BY Zenon DEF Cleanup, Restrict
    <3>5. \A i \in DOMAIN snaps' : i \in DOMAIN written /\ snaps'[i] = written[i]
      BY <3>3, <3>4, Zenon
    <3> QED  BY <3>2, <3>5, Zenon
  <2>3. CASE SnapFails
    BY <2>3, Zenon DEF SnapFails, disk
  <2> QED  BY <2>1, <2>2, <2>3, Zenon
<1>4. FilesSaved'
  <2>1. Saved(appliedIndex)
    BY <1>0, AppliedSaved, Zenon
  <2> QED  BY <1>0, <1>1, <1>3, <2>1, NewFileSaved, Zenon DEF DiskLog, MemoryLog
<1>5. ChosenGrows
  BY <1>1, Zenon DEF ChosenGrows
<1>6. WalContents' /\ WalChosen' /\ PromisedSaved' /\ SyncedOutsideSave' /\ BootChosen'
  <2> USE <1>5 DEF DiskLog
  <2>1. WalContents' /\ WalChosen'
    BY <1>0, <1>1, KeepsWal, Zenon
  <2>2. PromisedSaved'
    BY <1>0, <1>1, KeepsPromise, Zenon
  <2>3. SyncedOutsideSave'
    BY <1>0, <1>1, KeepsSynced, Zenon
  <2>4. BootChosen'
    BY <1>0, KeepsBoot, Zenon
  <2> QED  BY <2>1, <2>2, <2>3, <2>4, Zenon
<1>7. Up' /\ status' # "failed"
  BY <1>0, <1>1, Zenon DEF Up
<1> QED  BY <1>2, <1>4, <1>6, <1>7, Zenon DEF LogFacts, DiskLog

\* The file that Compact renames into place has what it must: the last hard state,
\* and the entries past the index of the snapshot that was just written.
LEMMA ReplaceWalLog ==
  ASSUME TypeInv, TypeInv', StateRecords, PromiseSaved, MemoryFollows, LogFacts,
         Up, pc = "compact", ReplaceWal, pc' = "idle",
         fOpen' => wEntries' = Remaining(appliedIndex),
         UNCHANGED <<walEnd, snaps, status, rd, appliedIndex, store, hs, offset, ents,
                     lastIndex, raftApplied, promised, chosen, midSave>>
  PROVE  LogFacts'
<1>0. MemoryLog /\ DiskLog
  BY Zenon DEF LogFacts
<1>1. /\ compacted \in Nat /\ hs.commit \in Nat /\ lastIndex \in Nat /\ appliedIndex \in Nat
      /\ \A p \in DOMAIN walEnts : p \in Nat /\ walEnts[p].index \in Nat
      /\ \A p \in DOMAIN walHs : p \in Nat /\ walHs[p].commit \in Nat
      /\ \A i \in DOMAIN snaps : i \in Nat
      /\ \A i \in DOMAIN promised.log : i \in Nat
  BY Numbers, Zenon
<1>2. /\ Saved(appliedIndex) /\ appliedIndex <= hs.commit /\ hs.commit <= lastIndex
      /\ ReadHardState = hs /\ wHard = hs /\ walSynced = walEnd /\ Reaches(lastIndex)
      /\ DOMAIN walHs # {}
  BY <1>0, AppliedSaved, Zenon
<1>3. compacted <= appliedIndex /\ compacted' = appliedIndex
  <2>1. compacted <= appliedIndex
    BY <1>0, Zenon DEF MemoryLog, Applied
  <2> QED  BY <1>1, <2>1 DEF ReplaceWal
<1>4. walSynced' = walEnd /\ walEnd \in Nat /\ \A p \in DOMAIN walEnts : p <= walEnd
  BY DEF ReplaceWal, TypeInv, TypeOK, DiskTypeOK
<1>5. ReadHardState' = hs /\ DOMAIN walHs' = {0} /\ walHs'[0] = hs
  <2>1. ReadHardState' = wHard
    BY ReplaceWalVote, Zenon
  <2>2. wHard # EmptyHs
    BY <1>2, LastRecord, Zenon
  <2> QED  BY <1>2, <2>1, <2>2, Zenon DEF ReplaceWal
<1>6. /\ DOMAIN walEnts' = {p \in DOMAIN walEnts : walEnts[p].index > appliedIndex}
      /\ \A p \in DOMAIN walEnts' : walEnts'[p] = walEnts[p]
  <2>1. /\ DOMAIN wEntries = DOMAIN walEnts
        /\ \A p \in DOMAIN wEntries : wEntries[p] = walEnts[p]
    BY <1>0, Zenon DEF MemoryLog, CopyOfWal
  <2>2. walEnts' = Restrict(wEntries, {p \in DOMAIN wEntries : wEntries[p].index > appliedIndex})
    BY Zenon DEF ReplaceWal, Remaining
  <2> QED  BY <2>1, <2>2, Zenon DEF Restrict
<1>7. \A p \in DOMAIN walEnts : walEnts[p].index <= appliedIndex \/ p \in DOMAIN walEnts'
  BY <1>1, <1>6
<1>8. ASSUME NEW i \in Nat, Reaches(i)  PROVE Reaches(i)'
  <2>1. CASE i <= compacted
    BY <1>1, <1>3, <2>1 DEF Reaches
  <2>2. CASE ~(i <= compacted)
    <3>1. PICK p \in DOMAIN walEnts : walEnts[p].index = i
      BY <1>8, <2>2, Zenon DEF Reaches
    <3> QED  BY <1>3, <1>6, <1>7, <3>1, Zenon DEF Reaches
  <2> QED  BY <2>1, <2>2, Zenon
<1>9. WalContents'
  <2>1. \A p \in DOMAIN walEnts' : walEnts'[p].index > appliedIndex
    BY <1>6, Zenon
  <2>2. \A p, q \in DOMAIN walEnts' : p < q => walEnts'[p].index < walEnts'[q].index
    BY <1>0, <1>6, Zenon DEF DiskLog, WalContents
  <2>3. ASSUME NEW p \in DOMAIN walEnts', NEW i \in appliedIndex+1..walEnts'[p].index
        PROVE  \E q \in DOMAIN walEnts' : q <= p /\ walEnts'[q].index = i
    <3>1. p \in DOMAIN walEnts /\ i \in compacted+1..walEnts[p].index
      BY <1>1, <1>3, <1>6, <2>3
    <3>2. PICK q \in DOMAIN walEnts : q <= p /\ walEnts[q].index = i
      BY <1>0, <3>1, Zenon DEF DiskLog, WalContents
    <3>3. walEnts[q].index > appliedIndex
      BY <1>1, <2>3, <3>2
    <3> QED  BY <1>6, <3>2, <3>3, Zenon
  <2> QED  BY <1>3, <2>1, <2>2, <2>3, Zenon DEF WalContents
<1>10. WalChosen'
  BY <1>0, <1>2, <1>5, <1>6, Zenon DEF DiskLog, WalChosen, InChosen
<1>11. ASSUME NEW i \in Nat, i <= hs.commit, Reaches(i)  PROVE Saved(i)'
  <2>1. 0 <= walSynced'
    BY <1>4
  <2>2. Reaches(i)'
    BY <1>8, <1>11, Zenon
  <2>3. \A p \in DOMAIN walEnts' : p <= walSynced'
    BY <1>4, <1>6, Zenon
  <2>4. \E p \in DOMAIN walHs' : p <= walSynced' /\ i <= walHs'[p].commit
    BY <1>5, <1>11, <2>1, Zenon
  <2> QED  BY <2>2, <2>3, <2>4, Zenon DEF Saved, Reaches
<1>12. ASSUME NEW i \in Nat, Saved(i)  PROVE Saved(i)'
  <2>1. PICK p \in DOMAIN walHs : i <= walHs[p].commit
    BY <1>12, Zenon DEF Saved
  <2>2. walHs[p].commit <= hs.commit
    BY <1>2, LastRecord, Zenon DEF HsLeq
  <2>3. i <= hs.commit
    BY <1>1, <2>1, <2>2
  <2>4. Reaches(i)
    BY <1>12, Zenon DEF Saved, Reaches
  <2> QED  BY <1>11, <2>3, <2>4, Zenon
<1>13. FilesSaved'
  <2>1. Saved(compacted)'
    <3>1. Saved(appliedIndex)'
      <4>1. \E i \in Nat : i = appliedIndex /\ Saved(i)
        BY <1>1, <1>2, Zenon
      <4>2. PICK i \in Nat : i = appliedIndex /\ Saved(i)
        BY <4>1, Zenon
      <4>3. Saved(i)' /\ i = appliedIndex'
        BY <1>12, <4>2, Zenon
      <4> QED  BY <4>3, Zenon DEF Saved
    <3>2. compacted' = appliedIndex'
      BY <1>3, Zenon
    <3> QED  BY <3>1, <3>2, Zenon DEF Saved
  <2>2. \A i \in DOMAIN snaps' : Saved(i)'
    BY <1>0, <1>1, <1>12, Zenon DEF DiskLog, FilesSaved
  <2> QED  BY <1>0, <2>1, <2>2, Zenon DEF DiskLog, FilesSaved, InChosen
<1>14. PromisedSaved'
  <2> SUFFICES ASSUME NEW i \in DOMAIN promised.log
               PROVE  /\ i > 0
                      /\ IF i <= appliedIndex
                         THEN InChosen(i, promised.log[i])
                         ELSE \E p \in DOMAIN walEnts' :
                                /\ p <= walSynced' /\ walEnts'[p].index = i
                                /\ walEnts'[p] = promised.log[i]
    BY <1>3, Zenon DEF PromisedSaved, InChosen
  <2>1. i \in Nat /\ i > 0
    BY <1>0, <1>1, Zenon DEF DiskLog, PromisedSaved
  <2>2. CASE i <= compacted
    <3>1. InChosen(i, promised.log[i])
      BY <1>0, <2>2, Zenon DEF DiskLog, PromisedSaved
    <3>2. i <= appliedIndex
      BY <1>1, <1>3, <2>1, <2>2
    <3> QED  BY <2>1, <3>1, <3>2, Zenon
  <2>3. CASE ~(i <= compacted)
    <3>1. PICK p \in DOMAIN walEnts :
            p <= walSynced /\ walEnts[p].index = i /\ walEnts[p] = promised.log[i]
      BY <1>0, <2>3, Zenon DEF DiskLog, PromisedSaved
    <3>2. CASE i <= appliedIndex
      <4>1. walEnts[p].index <= ReadHardState.commit
        BY <1>1, <1>2, <2>1, <3>1, <3>2
      <4> QED  BY <1>0, <2>1, <3>1, <3>2, <4>1, Zenon DEF DiskLog, WalChosen
    <3>3. CASE ~(i <= appliedIndex)
      <4>1. p \in DOMAIN walEnts' /\ walEnts'[p] = walEnts[p] /\ p <= walSynced'
        BY <1>4, <1>6, <1>7, <3>1, <3>3, Zenon
      <4> QED  BY <2>1, <3>1, <3>3, <4>1, Zenon
    <3> QED  BY <3>2, <3>3, Zenon
  <2> QED  BY <2>2, <2>3, Zenon
<1>15. SyncedOutsideSave'
  <2>1. Reaches(hs.commit)
    BY <1>0, <1>1, <1>2, ReachesBelow, Zenon DEF DiskLog
  <2>2. \E i \in Nat : i = hs.commit /\ Reaches(i)
    BY <1>1, <2>1, Zenon
  <2>3. PICK i \in Nat : i = hs.commit /\ Reaches(i)
    BY <2>2, Zenon
  <2>4. Reaches(i)' /\ i = ReadHardState'.commit
    BY <1>5, <1>8, <2>3, Zenon
  <2>5. Reaches(ReadHardState.commit)'
    BY <2>4, Zenon DEF Reaches
  <2> QED  BY <1>4, <2>5, Zenon DEF SyncedOutsideSave
<1>16. BootChosen'
  BY <1>0, KeepsBoot, Zenon DEF DiskLog, ChosenGrows
<1>17. /\ LogEnd' = LogEnd /\ SavedLast' = lastIndex /\ SavedLast = lastIndex
       /\ \A i : LogAt(i)' = LogAt(i)
  BY Zenon DEF LogEnd, SavedLast, LogAt, Handling
<1>18. Batch' /\ Numbered'
  BY <1>0, <1>17, Zenon DEF MemoryLog, Batch, Numbered, Handling, InChosen
<1>19. Applied'
  <2>1. appliedIndex <= appliedIndex
    BY <1>1
  <2> QED  BY <1>0, <1>3, <2>1, Zenon DEF MemoryLog, Applied, InChosen
<1>20. WalIsLog'
  <2>1. \E i \in Nat : i = lastIndex /\ Reaches(i)
    BY <1>1, <1>2, Zenon
  <2>2. PICK i \in Nat : i = lastIndex /\ Reaches(i)
    BY <2>1, Zenon
  <2>3. Reaches(i)' /\ i = SavedLast'
    BY <1>8, <1>17, <2>2, Zenon
  <2>4. Reaches(SavedLast)'
    BY <2>3, Zenon DEF Reaches
  <2>5. ASSUME NEW p \in DOMAIN walEnts'
        PROVE  /\ walEnts'[p].index <= SavedLast'
               /\ IF walEnts'[p].index <= offset
                  THEN InChosen(walEnts'[p].index, walEnts'[p])
                  ELSE LogAt(walEnts'[p].index) = walEnts'[p]
    BY <1>0, <1>6, <1>17, Zenon DEF MemoryLog, WalIsLog
  <2>6. ASSUME NEW p \in DOMAIN walEnts'
        PROVE  LogAt(walEnts[p].index)' = LogAt(walEnts'[p].index)
    BY Zenon DEF LogAt
  <2> QED  BY <2>4, <2>5, <2>6, Zenon DEF WalIsLog, InChosen
<1>21. CopyOfWal'
  <2>1. fOpen' => wEntries' = walEnts'
    BY Zenon DEF ReplaceWal
  <2> QED  BY <2>1, Zenon DEF CopyOfWal
<1>22. PromisedInLog'
  BY <1>0, Zenon DEF MemoryLog, PromisedInLog, WholeLog
<1>23. Up' /\ status' # "failed"
  BY Zenon DEF Up
<1> QED
  BY <1>9, <1>10, <1>13, <1>14, <1>15, <1>16, <1>18, <1>19, <1>20, <1>21, <1>22, <1>23, Zenon
     DEF LogFacts, MemoryLog, DiskLog

\* wal.Compact keeps the facts, whether it succeeds or fails before or after the
\* rename.
LEMMA CompactLog ==
  ASSUME TypeInv, TypeInv', StateRecords, PromiseSaved, MemoryFollows, LogFacts,
         Compact \/ CompactFails
  PROVE  LogFacts'
<1>0. Up /\ pc = "compact" /\ pc' = "idle" /\ MemoryLog /\ DiskLog
  BY Zenon DEF Compact, CompactFails, LogFacts
<1>1. UNCHANGED <<walEnd, snaps, wHard, status, rd, appliedIndex, store, hs, offset, ents,
                  lastIndex, raftApplied, promised, chosen, faulty, midSave>>
  BY Zenon DEF Compact, CompactFails, raft
<1>2. CASE ReplaceWal /\ (fOpen' => wEntries' = Remaining(appliedIndex))
  BY <1>0, <1>1, <1>2, ReplaceWalLog, Zenon
<1>3. CASE UNCHANGED <<walHs, walEnts, walSynced, walTorn, compacted, fOpen, wEntries>>
  <2>1. MemoryLog'
    BY <1>0, <1>1, <1>3, KeepsMemory, Zenon DEF Handling
  <2>2. DiskLog'
    BY <1>0, <1>1, <1>3, KeepsDisk, Zenon DEF ChosenGrows
  <2>3. Up' /\ status' # "failed"
    BY <1>0, <1>1, Zenon DEF Up
  <2> QED  BY <2>1, <2>2, <2>3, Zenon DEF LogFacts
<1>4. \/ ReplaceWal /\ (fOpen' => wEntries' = Remaining(appliedIndex))
      \/ UNCHANGED <<walHs, walEnts, walSynced, walTorn, compacted, fOpen, wEntries>>
  BY Zenon DEF Compact, CompactFails
<1> QED  BY <1>2, <1>3, <1>4, Zenon

-----------------------------------------------------------------------------
(* Losing power *)

\* A snapshot file that the kernel writes back stays what it is.
LEMMA WritebackLog ==
  ASSUME TypeInv, LogFacts, Writeback
  PROVE  LogFacts'
<1>1. UNCHANGED <<walHs, walEnts, walEnd, walSynced, walTorn, fOpen, wEntries, status,
                  pc, rd, appliedIndex, store, hs, offset, ents, lastIndex,
                  raftApplied, promised, chosen, midSave, compacted>>
  BY Zenon DEF Writeback, walVars, node, raft, history
<1>2. PICK i \in DOMAIN snaps :
        snaps[i].kind = "cached" /\ snaps' = [snaps EXCEPT ![i].kind = "stable"]
  BY Zenon DEF Writeback
<1>3. \A j \in DOMAIN snaps : snaps[j] = SnapFile(snaps[j].kind, snaps[j].data)
  BY Zenon DEF TypeInv, TypeOK, DiskTypeOK, AreSnapFiles
<1>4. /\ DOMAIN snaps' = DOMAIN snaps
      /\ \A j \in DOMAIN snaps : j # i => snaps'[j] = snaps[j]
      /\ snaps'[i].kind = "stable" /\ snaps'[i].data = snaps[i].data
  BY <1>2, <1>3 DEF SnapFile
<1>5. FilesSaved'
  <2>1. \A j \in DOMAIN snaps' :
          /\ j \in DOMAIN snaps
          /\ snaps'[j].kind # "torn" =>
               snaps[j].kind # "torn" /\ snaps'[j].data = snaps[j].data
    BY <1>2, <1>4, Zenon
  <2> QED  BY <1>1, <2>1, KeepsFiles, Zenon DEF LogFacts, DiskLog, ChosenGrows
<1>6. HalfWritten => HalfWritten'
  <2>1. LatestSnapshot' = LatestSnapshot
    BY <1>4, Zenon DEF LatestSnapshot
  <2>2. ASSUME LatestSnapshot > 0, snaps[LatestSnapshot].kind = "torn"
        PROVE  snaps'[LatestSnapshot].kind = "torn"
    <3>1. LatestSnapshot \in DOMAIN snaps /\ LatestSnapshot # i
      BY <1>2, <2>2, LatestSnapshotType, Zenon
    <3> QED  BY <1>4, <2>2, <3>1, Zenon
  <2> QED  BY <1>1, <2>1, <2>2, Zenon DEF HalfWritten
<1> QED  BY <1>1, <1>5, <1>6, LeavesLog, Zenon

\* A power loss keeps the facts: every record that is saved is before the cut, and
\* outside a Save there is nothing after it.
LEMMA PowerLossLog ==
  ASSUME TypeInv, TypeInv', StateRecords, LogFacts, PowerLoss
  PROVE  LogFacts'
<1>0. DiskLog /\ ProcessGone /\ UNCHANGED <<promised, chosen, compacted>>
  BY Zenon DEF PowerLoss, LogFacts
<1>1. /\ ~Up' /\ status' # "failed" /\ DOMAIN store' = {} /\ pc' = "idle"
      /\ ~midSave' => ~midSave /\ pc # "entries"
  BY <1>0, NothingRuns, Zenon
<1>2. PICK cut \in walSynced..walEnd :
        /\ walHs' = Restrict(walHs, {p \in DOMAIN walHs : p <= cut})
        /\ walEnts' = Restrict(walEnts, {p \in DOMAIN walEnts : p <= cut})
        /\ walEnd' = cut /\ walSynced' = cut
  BY Zenon DEF PowerLoss
<1>3. /\ walEnd \in Nat /\ walSynced \in Nat /\ cut \in Nat /\ walSynced <= cut
      /\ cut <= walEnd
      /\ \A p \in DOMAIN walHs : p \in Nat /\ p <= walEnd
      /\ \A p \in DOMAIN walEnts : p \in Nat /\ p <= walEnd
  BY Positions DEF TypeInv, TypeOK, DiskTypeOK
<1>4. /\ DOMAIN walHs' = {p \in DOMAIN walHs : p <= cut}
      /\ \A p \in DOMAIN walHs' : walHs'[p] = walHs[p]
      /\ DOMAIN walEnts' = {p \in DOMAIN walEnts : p <= cut}
      /\ \A p \in DOMAIN walEnts' : walEnts'[p] = walEnts[p]
  BY <1>2, Zenon DEF Restrict
<1>5. /\ \A p \in DOMAIN walHs : p <= walSynced => p \in DOMAIN walHs' /\ p <= walSynced'
      /\ \A p \in DOMAIN walEnts : p <= walSynced => p \in DOMAIN walEnts' /\ p <= walSynced'
  BY <1>2, <1>3, <1>4
<1>6. WalContents'
  <2>1. \A p \in DOMAIN walEnts' : walEnts'[p].index > compacted
    BY <1>0, <1>4, Zenon DEF DiskLog, WalContents
  <2>2. \A p, q \in DOMAIN walEnts' : p < q => walEnts'[p].index < walEnts'[q].index
    BY <1>0, <1>4, Zenon DEF DiskLog, WalContents
  <2>3. ASSUME NEW p \in DOMAIN walEnts', NEW i \in compacted+1..walEnts'[p].index
        PROVE  \E q \in DOMAIN walEnts' : q <= p /\ walEnts'[q].index = i
    <3>1. PICK q \in DOMAIN walEnts : q <= p /\ walEnts[q].index = i
      BY <1>0, <1>4, Zenon DEF DiskLog, WalContents
    <3>2. q <= cut
      BY <1>3, <1>4, <3>1
    <3> QED  BY <1>4, <3>1, <3>2, Zenon
  <2> QED  BY <1>0, <2>1, <2>2, <2>3, Zenon DEF WalContents
<1>7. /\ ReadHardState'.commit <= ReadHardState.commit
      /\ ReadHardState'.commit \in Nat /\ ReadHardState.commit \in Nat
  <2>1. ReadHardState.commit \in Nat
    BY CommitRead, Zenon
  <2>2. CASE DOMAIN walHs' = {}
    BY <2>1, <2>2 DEF ReadHardState, EmptyHs
  <2>3. CASE DOMAIN walHs' # {}
    <3> DEFINE D == DOMAIN walHs'
    <3>1. D \in SUBSET Nat /\ \A p \in D : p <= walEnd
      BY <1>3, <1>4, Zenon
    <3>2. MaxOf(D) \in D
      <4> HIDE DEF D
      <4> QED  BY <1>3, <2>3, <3>1, MaxOfExists, Zenon DEF D
    <3>3. PICK p \in D : ReadHardState' = walHs'[p]
      BY <2>3, <3>2, Zenon DEF ReadHardState
    <3>4. p \in DOMAIN walHs /\ ReadHardState' = walHs[p] /\ walHs[p].commit \in Nat
      BY <1>4, <3>3, Numbers, Zenon
    <3>5. HsLeq(walHs[p], ReadHardState)
      BY <3>4, LastRecord, Zenon
    <3> QED  BY <2>1, <3>4, <3>5, Zenon DEF HsLeq
  <2> QED  BY <2>2, <2>3, Zenon
<1>8. WalChosen'
  <2> SUFFICES ASSUME NEW p \in DOMAIN walEnts', walEnts'[p].index <= ReadHardState'.commit
               PROVE  InChosen(walEnts'[p].index, walEnts'[p])
    BY <1>0, Zenon DEF WalChosen, InChosen
  <2>1. p \in DOMAIN walEnts /\ walEnts'[p] = walEnts[p] /\ walEnts[p].index \in Nat
    BY <1>4, Numbers, Zenon
  <2>2. walEnts[p].index <= ReadHardState.commit
    BY <1>7, <2>1
  <2> QED  BY <1>0, <2>1, <2>2, Zenon DEF DiskLog, WalChosen
<1>9. ASSUME NEW i, Saved(i)  PROVE Saved(i)'
  <2>1. \E p \in DOMAIN walHs' : p <= walSynced' /\ i <= walHs'[p].commit
    BY <1>4, <1>5, <1>9, Zenon DEF Saved
  <2>2. i <= compacted \/ \E p \in DOMAIN walEnts' : p <= walSynced' /\ walEnts'[p].index = i
    BY <1>4, <1>5, <1>9, Zenon DEF Saved
  <2> QED  BY <1>0, <2>1, <2>2, Zenon DEF Saved
<1>10. \A i \in DOMAIN snaps' :
         /\ i \in DOMAIN snaps
         /\ snaps'[i].kind # "torn" =>
              snaps[i].kind # "torn" /\ snaps'[i].data = snaps[i].data
  <2>1. /\ snaps' \in UNION {[D -> {Torn} \cup {SnapFile("stable", snaps[i].data) :
                                                i \in DOMAIN snaps}] :
                             D \in SUBSET DOMAIN snaps}
        /\ \A i \in DOMAIN snaps :
             /\ snaps[i].kind = "stable" => i \in DOMAIN snaps' /\ snaps'[i] = snaps[i]
             /\ snaps[i].kind = "torn" /\ i \in DOMAIN snaps' => snaps'[i] = Torn
             /\ snaps[i].kind = "cached" /\ i \in DOMAIN snaps' =>
                  snaps'[i] \in {Torn, SnapFile("stable", snaps[i].data)}
    BY Zenon DEF PowerLoss, SnapshotsAfterPowerLoss
  <2>2. \A i \in DOMAIN snaps' : i \in DOMAIN snaps
    BY <2>1, Zenon
  <2>3. Torn.kind = "torn" /\ \A d : SnapFile("stable", d).data = d
    BY Zenon DEF Torn, SnapFile
  <2>4. \A i \in DOMAIN snaps : snaps[i].kind \in {"torn", "cached", "stable"}
    BY Zenon DEF TypeInv, TypeOK, DiskTypeOK, AreSnapFiles
  <2> QED  BY <2>1, <2>2, <2>3, <2>4, Zenon
<1>11. FilesSaved'
  <2>1. compacted' > 0 => Saved(compacted)'
    <3>1. CASE compacted > 0
      <4>1. \E i : i = compacted /\ Saved(i)
        BY <1>0, <3>1, Zenon DEF DiskLog, FilesSaved
      <4>2. PICK i : i = compacted /\ Saved(i)
        BY <4>1, Zenon
      <4>3. Saved(i)' /\ i = compacted'
        BY <1>0, <1>9, <4>2, Zenon
      <4> QED  BY <4>3, Zenon DEF Saved
    <3> QED  BY <1>0, <3>1, Zenon
  <2>2. \A i \in DOMAIN snaps' : Saved(i)'
    BY <1>0, <1>9, <1>10, Zenon DEF DiskLog, FilesSaved
  <2>3. ASSUME NEW i \in DOMAIN snaps', snaps'[i].kind # "torn"
        PROVE  /\ DOMAIN snaps'[i].data = 1..i
               /\ \A j \in 1..i : j \in DOMAIN chosen' /\ chosen'[j] = snaps'[i].data[j]
    BY <1>0, <1>10, <2>3, Zenon DEF DiskLog, FilesSaved, InChosen
  <2> QED  BY <2>1, <2>2, <2>3, Zenon DEF FilesSaved, InChosen
<1>12. PromisedSaved'
  <2> SUFFICES ASSUME NEW i \in DOMAIN promised.log
               PROVE  /\ i > 0
                      /\ IF i <= compacted
                         THEN InChosen(i, promised.log[i])
                         ELSE \E p \in DOMAIN walEnts' :
                                /\ p <= walSynced' /\ walEnts'[p].index = i
                                /\ walEnts'[p] = promised.log[i]
    BY <1>0, Zenon DEF PromisedSaved, InChosen
  <2> QED  BY <1>0, <1>4, <1>5 DEF DiskLog, PromisedSaved
<1>13. SyncedOutsideSave'
  <2> SUFFICES ASSUME ~midSave'
               PROVE  walSynced' = walEnd' /\ Reaches(ReadHardState.commit)'
    BY Zenon DEF SyncedOutsideSave
  <2>1. walSynced = walEnd /\ Reaches(ReadHardState.commit)
    BY <1>0, <1>1, Zenon DEF DiskLog, SyncedOutsideSave
  <2>2. cut = walEnd
    BY <1>3, <2>1
  <2>3. DOMAIN walHs' = DOMAIN walHs /\ DOMAIN walEnts' = DOMAIN walEnts
    BY <1>3, <1>4, <2>2, Zenon
  <2>4. ReadHardState' = ReadHardState
    <3>1. DOMAIN walHs # {} => MaxOf(DOMAIN walHs) \in DOMAIN walHs
      BY <1>3, MaxOfExists, Zenon
    <3> QED  BY <1>4, <2>3, <3>1, Zenon DEF ReadHardState
  <2> QED  BY <1>0, <1>2, <1>4, <2>1, <2>3, <2>4, Zenon DEF Reaches
<1>14. BootChosen'
  BY <1>0, <1>1, <1>4, Zenon DEF DiskLog, BootChosen, InChosen
<1> QED
  BY <1>1, <1>6, <1>8, <1>11, <1>12, <1>13, <1>14, Zenon DEF LogFacts, DiskLog

-----------------------------------------------------------------------------
(* Start *)

\* What Start reads fits together, unless the latest snapshot file is older than the
\* compaction: the replay is the log after the snapshot, and the commit index is not
\* below the snapshot.
LEMMA StartReads ==
  ASSUME TypeInv, StateRecords, DiskLog
  PROVE  /\ LatestSnapshot \in Nat /\ WalLast \in Nat /\ compacted \in Nat
         /\ LatestSnapshot > 0 => DOMAIN walHs # {}
         /\ LatestSnapshot <= ReadHardState.commit /\ compacted <= ReadHardState.commit
         /\ LatestSnapshot <= WalLast
         /\ compacted > 0 => DOMAIN walHs # {}
         /\ compacted <= LatestSnapshot =>
              Replay(LatestSnapshot, ReadEntries) =
                [panic |-> FALSE, last |-> WalLast,
                 ents |-> [i \in LatestSnapshot+1..WalLast |-> ReadEntries[i - compacted]]]
         /\ LatestSnapshot < compacted =>
              \/ Replay(LatestSnapshot, ReadEntries).panic
              \/ Replay(LatestSnapshot, ReadEntries).last = LatestSnapshot
<1> DEFINE s == LatestSnapshot
           n == Cardinality(DOMAIN walEnts)
<1>1. s \in Nat /\ (s > 0 => s \in DOMAIN snaps)
  BY LatestSnapshotType, Zenon
<1>2. /\ compacted \in Nat /\ ReadHardState.commit \in Nat
      /\ \A p \in DOMAIN walHs : walHs[p].commit \in Nat
  BY Numbers, CommitRead, Zenon
<1>3. /\ n \in Nat /\ ReadEntries \in [1..n -> Entry]
      /\ \A k \in 1..n : ReadEntries[k].index = compacted + k
      /\ \A p \in DOMAIN walEnts : walEnts[p].index \in compacted+1..WalLast
  BY ReadEntriesNumbered, Zenon DEF DiskLog
<1> HIDE DEF n
<1>4. WalLast = compacted + n
  BY Zenon DEF WalLast, n
<1>5. ASSUME NEW i \in Nat, Saved(i)
      PROVE  i <= WalLast /\ i <= ReadHardState.commit /\ DOMAIN walHs # {}
  <2>1. PICK p \in DOMAIN walHs : i <= walHs[p].commit
    BY <1>5, Zenon DEF Saved
  <2>2. walHs[p].commit <= ReadHardState.commit
    BY LastRecord, Zenon DEF HsLeq
  <2>3. i <= compacted \/ \E q \in DOMAIN walEnts : walEnts[q].index = i
    BY <1>5, Zenon DEF Saved
  <2>4. i <= WalLast
    <3>1. CASE i <= compacted
      BY <1>2, <1>3, <1>4, <3>1
    <3>2. CASE \E q \in DOMAIN walEnts : walEnts[q].index = i
      BY <1>2, <1>3, <1>4, <3>2
    <3> QED  BY <2>3, <3>1, <3>2, Zenon
  <2> QED  BY <1>2, <2>1, <2>2, <2>4
<1>6. s > 0 => s <= WalLast /\ s <= ReadHardState.commit /\ DOMAIN walHs # {}
  <2>1. s > 0 => Saved(s)
    BY <1>1, Zenon DEF DiskLog, FilesSaved
  <2> HIDE DEF s
  <2> QED  BY <1>1, <1>5, <2>1, Zenon
<1>7. compacted > 0 => compacted <= ReadHardState.commit /\ DOMAIN walHs # {}
  <2>1. compacted > 0 => Saved(compacted)
    BY Zenon DEF DiskLog, FilesSaved
  <2> QED  BY <1>2, <1>5, <2>1, Zenon
<1> HIDE DEF s
<1>8. /\ WalLast \in Nat /\ s <= WalLast /\ s <= ReadHardState.commit
      /\ compacted <= ReadHardState.commit
  BY <1>1, <1>2, <1>3, <1>4, <1>6, <1>7
<1>9. /\ compacted <= s /\ s <= compacted + n =>
           Replay(s, ReadEntries) =
             [panic |-> FALSE, last |-> compacted + n,
              ents |-> [i \in s+1..compacted+n |-> ReadEntries[i - compacted]]]
      /\ s < compacted => Replay(s, ReadEntries).panic \/ Replay(s, ReadEntries).last = s
  BY <1>1, <1>2, <1>3, ReplayNumbered
<1>10. s <= compacted + n
  BY <1>4, <1>8, Zenon
<1>11. compacted <= s =>
         Replay(s, ReadEntries) =
           [panic |-> FALSE, last |-> WalLast,
            ents |-> [i \in s+1..WalLast |-> ReadEntries[i - compacted]]]
  BY <1>4, <1>9, <1>10, Zenon
<1> QED  BY <1>1, <1>2, <1>6, <1>7, <1>8, <1>9, <1>11, Zenon DEF s

\* Start fails only on a disk that a crash caught half-written.
LEMMA StartFailsLog ==
  ASSUME TypeInv, StateRecords, LogFacts, StartFails
  PROVE  LogFacts'
<1>0. DiskLog /\ ~Up /\ pc = "idle"
  BY Zenon DEF LogFacts, StartFails, Up
<1>1. /\ UNCHANGED <<walHs, walEnts, walEnd, walSynced, walTorn, snaps, pc, store, promised,
                     chosen, midSave, compacted>>
      /\ status' = "failed" /\ ~Up'
  BY Zenon DEF StartFails, disk, history, Up
<1>2. DiskLog'
  BY <1>0, <1>1, KeepsDisk, Zenon DEF ChosenGrows
<1> DEFINE s == LatestSnapshot
           r == Replay(s, ReadEntries)
<1>3. HalfWritten
  <2> SUFFICES ASSUME ~midSave, ~walTorn, ~(s > 0 /\ snaps[s].kind = "torn"),
                      ~(s < compacted)
               PROVE  FALSE
    BY Zenon DEF HalfWritten
  <2>1. r.panic \/ ~Loadable(ReadHardState, s, r.last)
    BY Zenon DEF StartFails
  <2>2. /\ s \in Nat /\ WalLast \in Nat /\ compacted \in Nat /\ s <= ReadHardState.commit
        /\ compacted <= s =>
             r = [panic |-> FALSE, last |-> WalLast,
                  ents |-> [i \in s+1..WalLast |-> ReadEntries[i - compacted]]]
    BY <1>0, StartReads, Zenon
  <2> HIDE DEF r, s
  <2>3. r.panic = FALSE /\ r.last = WalLast
    <3>1. compacted <= s
      BY <2>2
    <3> QED  BY <2>2, <3>1
  <2>4. Reaches(ReadHardState.commit) /\ ReadHardState.commit \in Nat
    BY <1>0, CommitRead, Zenon DEF DiskLog, SyncedOutsideSave
  <2>5. ReadHardState.commit <= WalLast
    <3>1. /\ Cardinality(DOMAIN walEnts) \in Nat
          /\ \A p \in DOMAIN walEnts : walEnts[p].index \in compacted+1..WalLast
      BY <1>0, ReadEntriesNumbered, Zenon DEF DiskLog
    <3>2. compacted <= WalLast
      BY <2>2, <3>1 DEF WalLast
    <3>3. CASE ReadHardState.commit <= compacted
      BY <2>2, <2>4, <3>2, <3>3
    <3>4. CASE \E p \in DOMAIN walEnts : walEnts[p].index = ReadHardState.commit
      BY <2>2, <2>4, <3>1, <3>4
    <3> QED  BY <2>4, <3>3, <3>4, Zenon DEF Reaches
  <2>6. ReadHardState.commit \in s..WalLast
    BY <2>2, <2>4, <2>5
  <2> QED  BY <2>1, <2>3, <2>6, Zenon DEF Loadable
<1>4. HalfWritten'
  BY <1>1, <1>3, Zenon DEF HalfWritten, LatestSnapshot
<1> QED  BY <1>0, <1>1, <1>2, <1>4, Zenon DEF LogFacts

\* Start on a machine where nothing was saved: the node bootstraps, and the entries of
\* the initial configuration are the first that the cluster commits.
LEMMA FreshStartLog ==
  ASSUME TypeInv, StateRecords, LogFacts, Start, LatestSnapshot = 0, DOMAIN walEnts = {}
  PROVE  LogFacts'
<1>0. DiskLog /\ ~Up /\ pc = "idle"
  BY Zenon DEF LogFacts, Start, Up
<1> DEFINE r == Replay(LatestSnapshot, ReadEntries)
<1>1. /\ ~r.panic /\ Loadable(ReadHardState, 0, r.last)
      /\ wEntries' = walEnts /\ store' = NoEntries /\ appliedIndex' = 0
      /\ offset' = 0 /\ lastIndex' = r.last /\ raftApplied' = 0
      /\ hs' = BootHs /\ pc' = "state"
      /\ rd' = [hs |-> BootHs, ents |-> Bootstrap, last |-> BootEntries,
                commit |-> BootEntries, next |-> 1, start |-> 0]
      /\ chosen' = IF DOMAIN chosen = {} THEN Bootstrap ELSE chosen
      /\ status' = "up"
      /\ UNCHANGED <<walHs, walEnts, walEnd, walSynced, snaps, promised, midSave, compacted>>
  <2>1. ~(0 > 0)
    OBVIOUS
  <2> QED  BY <2>1, Zenon DEF Start, disk
<1>2. r.last = 0 /\ compacted \in Nat
  <2>1. Cardinality(DOMAIN walEnts) = 0
    BY FS_EmptySet, Zenon
  <2>2. DOMAIN ReadEntries = 1..0
    BY <2>1, Zenon DEF ReadEntries
  <2>3. 1..0 = {} /\ Cardinality({}) = 0
    BY FS_EmptySet
  <2>4. Cardinality(DOMAIN ReadEntries) = 0
    BY <2>2, <2>3, Zenon
  <2> QED  BY <2>4, Numbers, Zenon DEF Replay
<1>3. DOMAIN walHs = {}
  <2>1. ReadHardState = EmptyHs \/ ReadHardState.commit \in 0..0
    BY <1>1, <1>2, Zenon DEF Loadable
  <2>2. ASSUME DOMAIN walHs # {}  PROVE FALSE
    <3>1. ReadHardState.commit > 0 /\ ReadHardState # EmptyHs
      BY <2>2, LastRecord, Zenon
    <3> QED  BY <2>1, <3>1
  <2> QED  BY <2>2, Zenon
<1>4. compacted = 0
  BY <1>0, <1>2, <1>3 DEF DiskLog, FilesSaved, Saved
<1>5. /\ BootEntries \in Nat /\ BootEntries > 0
      /\ DOMAIN Bootstrap = 1..BootEntries
      /\ \A i \in 1..BootEntries : Bootstrap[i].index = i
  BY ConstantsAssumption DEF Bootstrap
<1>6. ChosenGrows
  BY <1>1, Zenon DEF ChosenGrows
<1>7. Up' /\ status' # "failed"
  BY <1>1, Zenon DEF Up
<1>8. \A i \in 1..BootEntries : i \in DOMAIN chosen' /\ chosen'[i] = Bootstrap[i]
  <2>1. CASE DOMAIN chosen = {}
    BY <1>1, <1>5, <2>1, Zenon
  <2>2. CASE DOMAIN chosen # {}
    BY <1>0, <1>1, <2>2, Zenon DEF DiskLog, BootChosen, InChosen
  <2> QED  BY <2>1, <2>2, Zenon
<1>9. DiskLog'
  <2> USE <1>6 DEF DiskLog
  <2>1. WalContents' /\ WalChosen'
    BY <1>0, <1>1, KeepsWal, Zenon
  <2>2. FilesSaved'
    BY <1>0, <1>1, KeepsFiles, Zenon
  <2>3. PromisedSaved'
    BY <1>0, <1>1, KeepsPromise, Zenon
  <2>4. SyncedOutsideSave'
    BY <1>0, <1>1, KeepsSynced, Zenon
  <2>5. BootChosen'
    BY <1>8, Zenon DEF BootChosen, InChosen, Bootstrap
  <2> QED  BY <2>1, <2>2, <2>3, <2>4, <2>5, Zenon
<1>10. /\ Handling' /\ rd'.ents = Bootstrap /\ rd'.last = BootEntries
       /\ rd'.commit = BootEntries /\ rd'.next = 1 /\ lastIndex' = 0
       /\ hs'.commit = BootEntries
  BY <1>1, <1>2, Zenon DEF Handling, BootHs
<1>11. LogEnd' = BootEntries /\ SavedLast' = 0
  BY <1>1, <1>10, Zenon DEF LogEnd, SavedLast
<1>12. \A i \in 1..BootEntries : LogAt(i)' = Bootstrap[i]
  BY <1>5, <1>10, Zenon DEF LogAt
<1>13. Batch'
  BY <1>1, <1>5, <1>10 DEF Batch
<1>14. Numbered'
  <2>1. 0 <= 0 /\ 0 <= BootEntries /\ BootEntries <= BootEntries /\ 0 + 1 = 1
    BY <1>5
  <2>2. \A i \in offset'+1..LogEnd' : LogAt(i)'.index = i
    BY <1>1, <1>5, <1>11, <1>12, <2>1, Zenon
  <2>3. \A i \in offset'+1..hs'.commit : i \in DOMAIN chosen' /\ chosen'[i] = LogAt(i)'
    BY <1>1, <1>8, <1>10, <1>12, <2>1, Zenon
  <2> QED  BY <1>1, <1>10, <1>11, <2>1, <2>2, <2>3, Zenon DEF Numbered, InChosen
<1>15. Applied'
  <2>1. 1..0 = {} /\ 0 <= 0
    OBVIOUS
  <2> QED  BY <1>1, <1>4, <2>1, Zenon DEF Applied, NoEntries
<1>16. WalIsLog'
  BY <1>1, <1>4, <1>11 DEF WalIsLog, Reaches
<1>17. CopyOfWal'
  BY <1>1, Zenon DEF CopyOfWal
<1>18. PromisedInLog'
  <2>1. ASSUME NEW i \in DOMAIN promised.log  PROVE FALSE
    <3>1. i \in Nat /\ i > 0
      BY <1>0, Numbers, Zenon DEF DiskLog, PromisedSaved
    <3>2. ~(i <= compacted)
      BY <1>4, <3>1
    <3> QED  BY <1>0, <3>2, Zenon DEF DiskLog, PromisedSaved
  <2> QED  BY <1>1, <2>1, Zenon DEF PromisedInLog
<1> QED
  BY <1>7, <1>9, <1>13, <1>14, <1>15, <1>16, <1>17, <1>18, Zenon DEF LogFacts, MemoryLog

\* Start on what an earlier run left: the log is what wal.log holds after the
\* snapshot, the store is the snapshot, and together they have what was promised.
LEMMA RestartLog ==
  ASSUME TypeInv, StateRecords, StateFirst, LogFacts, Start,
         ~(LatestSnapshot = 0 /\ DOMAIN walEnts = {})
  PROVE  LogFacts'
<1> DEFINE s == LatestSnapshot
           r == Replay(s, ReadEntries)
           h == ReadHardState
<1>0. DiskLog /\ ~Up /\ pc = "idle"
  BY Zenon DEF LogFacts, Start, Up
<1>1. /\ s > 0 => snaps[s].kind # "torn"
      /\ ~r.panic /\ Loadable(h, s, r.last)
      /\ wEntries' = walEnts /\ store' = (IF s > 0 THEN snaps[s].data ELSE NoEntries)
      /\ appliedIndex' = s /\ offset' = s /\ ents' = r.ents /\ lastIndex' = r.last
      /\ raftApplied' = s
      /\ hs' = (IF h = EmptyHs THEN [EmptyHs EXCEPT !.commit = s] ELSE h)
      /\ rd' = NoReady /\ pc' = "idle" /\ status' = "up"
  BY Zenon DEF Start
<1>2. UNCHANGED <<walHs, walEnts, walEnd, walSynced, snaps, promised, chosen, midSave,
                  compacted>>
  BY Zenon DEF Start, disk
<1>3. /\ s \in Nat /\ WalLast \in Nat /\ compacted \in Nat
      /\ s > 0 => DOMAIN walHs # {}
      /\ s <= h.commit /\ compacted <= h.commit /\ s <= WalLast
      /\ compacted > 0 => DOMAIN walHs # {}
      /\ compacted <= s =>
           r = [panic |-> FALSE, last |-> WalLast,
                ents |-> [i \in s+1..WalLast |-> ReadEntries[i - compacted]]]
      /\ s < compacted => r.panic \/ r.last = s
  BY <1>0, StartReads, Zenon
<1>4. s > 0 => s \in DOMAIN snaps
  BY LatestSnapshotType, Zenon
<1>5. DOMAIN walHs # {}
  <2>1. CASE s > 0
    BY <1>3, <2>1, Zenon
  <2>2. CASE ~(s > 0)
    <3>1. s = 0
      BY <1>3, <2>2
    <3>2. DOMAIN walEnts # {}
      BY <3>1, Zenon
    <3> QED  BY <3>2, Zenon DEF StateFirst
  <2> QED  BY <2>1, <2>2, Zenon
<1> HIDE DEF s, r
<1>6. h # EmptyHs /\ h.commit \in Nat
  BY <1>5, LastRecord, CommitRead, Zenon
<1> HIDE DEF h
<1>7. h.commit \in s..r.last /\ hs' = h
  BY <1>1, <1>6, Zenon DEF Loadable
<1>8. compacted <= s
  <2> SUFFICES ASSUME s < compacted PROVE FALSE
    BY <1>3
  <2>1. r.last = s
    BY <1>1, <1>3, Zenon
  <2> QED  BY <1>3, <1>6, <1>7, <2>1
<1>9. /\ lastIndex' = WalLast /\ r.last = WalLast
      /\ ents' = [i \in s+1..WalLast |-> ReadEntries[i - compacted]]
  BY <1>1, <1>3, <1>8
<1>10. /\ \A k \in 1..Cardinality(DOMAIN walEnts) : ReadEntries[k].index = compacted + k
       /\ \A p \in DOMAIN walEnts :
            /\ walEnts[p].index \in compacted+1..WalLast
            /\ ReadEntries[walEnts[p].index - compacted] = walEnts[p]
       /\ \A i \in compacted+1..WalLast : \E p \in DOMAIN walEnts : walEnts[p].index = i
  BY <1>0, ReadEntriesNumbered, Zenon DEF DiskLog
<1>11. \A p \in DOMAIN walEnts :
         /\ walEnts[p].index \in Nat /\ walEnts[p].index <= WalLast
         /\ walEnts[p].index > compacted
  BY <1>3, <1>10
<1>12. ASSUME NEW i \in s+1..WalLast
       PROVE  /\ i \in Nat
              /\ \E p \in DOMAIN walEnts : walEnts[p].index = i /\ ents'[i] = walEnts[p]
  <2>1. i \in compacted+1..WalLast /\ i \in Nat
    BY <1>3, <1>8
  <2>2. PICK p \in DOMAIN walEnts : walEnts[p].index = i
    BY <1>10, <2>1, Zenon
  <2>3. ents'[i] = ReadEntries[walEnts[p].index - compacted]
    BY <1>9, <2>2, Zenon
  <2> QED  BY <1>10, <2>1, <2>2, <2>3
<1>13. \A p \in DOMAIN walEnts :
         walEnts[p].index > s => walEnts[p].index \in s+1..WalLast
                                 /\ ents'[walEnts[p].index] = walEnts[p]
  <2> SUFFICES ASSUME NEW p \in DOMAIN walEnts, walEnts[p].index > s
               PROVE  walEnts[p].index \in s+1..WalLast /\ ents'[walEnts[p].index] = walEnts[p]
    BY Zenon
  <2>1. walEnts[p].index \in s+1..WalLast
    BY <1>3, <1>11
  <2>2. ents'[walEnts[p].index] = ReadEntries[walEnts[p].index - compacted]
    BY <1>9, <2>1, Zenon
  <2> QED  BY <1>10, <2>1, <2>2, Zenon
<1>14. \A p \in DOMAIN walEnts :
         walEnts[p].index <= h.commit => InChosen(walEnts[p].index, walEnts[p])
  BY <1>0, Zenon DEF DiskLog, WalChosen, h
<1>15. DOMAIN store' = 1..s /\ \A j \in 1..s : InChosen(j, store'[j])
  <2>1. CASE s > 0
    BY <1>0, <1>1, <1>4, <2>1, Zenon DEF DiskLog, FilesSaved
  <2>2. CASE ~(s > 0)
    <3>1. 1..s = {}
      BY <1>3, <2>2
    <3> QED  BY <1>1, <2>2, <3>1, Zenon DEF NoEntries
  <2> QED  BY <2>1, <2>2, Zenon
<1>16. ChosenGrows
  BY <1>2, Zenon DEF ChosenGrows
<1>17. Up' /\ status' # "failed"
  BY <1>1, Zenon DEF Up
<1>18. DiskLog'
  <2> USE <1>16 DEF DiskLog
  <2>1. WalContents' /\ WalChosen'
    BY <1>0, <1>2, KeepsWal, Zenon
  <2>2. FilesSaved'
    BY <1>0, <1>2, KeepsFiles, Zenon
  <2>3. PromisedSaved'
    BY <1>0, <1>2, KeepsPromise, Zenon
  <2>4. SyncedOutsideSave'
    BY <1>0, <1>1, <1>2, KeepsSynced, Zenon
  <2>5. BootChosen'
    <3>1. \A i \in 1..BootEntries : InChosen(i, Bootstrap[i])
      BY <1>0, <1>5, Zenon DEF BootChosen
    <3> QED  BY <1>2, <3>1, Zenon DEF BootChosen, InChosen, Bootstrap
  <2> QED  BY <2>1, <2>2, <2>3, <2>4, <2>5, Zenon
<1>19. /\ ~Handling' /\ DOMAIN rd'.ents = {} /\ LogEnd' = WalLast /\ SavedLast' = WalLast
       /\ \A i : LogAt(i)' = ents'[i]
  BY <1>1, <1>9, Zenon DEF Handling, NoReady, NoEntries, LogEnd, SavedLast, LogAt
<1>20. Batch'
  BY <1>19, Zenon DEF Batch
<1>21. Numbered'
  <2>1. s <= s /\ s <= h.commit /\ h.commit <= WalLast
    BY <1>3, <1>6, <1>7, <1>9
  <2>2. \A i \in s+1..WalLast : LogAt(i)'.index = i
    BY <1>12, <1>19, Zenon
  <2>3. ASSUME NEW i \in s+1..h.commit
        PROVE  i \in DOMAIN chosen' /\ chosen'[i] = LogAt(i)'
    <3>1. i \in s+1..WalLast /\ i <= h.commit
      BY <1>3, <1>6, <2>1
    <3>2. PICK p \in DOMAIN walEnts : walEnts[p].index = i /\ ents'[i] = walEnts[p]
      BY <1>12, <3>1, Zenon
    <3> QED  BY <1>2, <1>14, <1>19, <3>1, <3>2, Zenon DEF InChosen
  <2> QED  BY <1>1, <1>3, <1>7, <1>9, <1>19, <2>1, <2>2, <2>3, Zenon DEF Numbered, InChosen
<1>22. Applied'
  BY <1>1, <1>2, <1>8, <1>15, Zenon DEF Applied, InChosen
<1>23. WalIsLog'
  <2>1. Reaches(SavedLast)'
    <3>1. WalLast <= compacted \/ WalLast \in compacted+1..WalLast
      BY <1>3
    <3>2. Reaches(WalLast)
      BY <1>10, <3>1, Zenon DEF Reaches
    <3> QED  BY <1>2, <1>19, <3>2, Zenon DEF Reaches
  <2>2. ASSUME NEW p \in DOMAIN walEnts
        PROVE  /\ walEnts[p].index <= WalLast
               /\ IF walEnts[p].index <= s
                  THEN InChosen(walEnts[p].index, walEnts[p])
                  ELSE ents'[walEnts[p].index] = walEnts[p]
    <3>1. walEnts[p].index <= s => walEnts[p].index <= h.commit
      BY <1>3, <1>6, <1>11
    <3>2. ~(walEnts[p].index <= s) => walEnts[p].index > s
      BY <1>3, <1>11
    <3> QED  BY <1>11, <1>13, <1>14, <3>1, <3>2, Zenon
  <2>3. \A p \in DOMAIN walEnts : LogAt(walEnts[p].index)' = ents'[walEnts[p].index]
    BY <1>2, <1>19, Zenon
  <2> QED  BY <1>1, <1>2, <1>19, <2>1, <2>2, <2>3, Zenon DEF WalIsLog, InChosen
<1>24. CopyOfWal'
  BY <1>1, <1>2, Zenon DEF CopyOfWal
<1>25. PromisedInLog'
  <2> SUFFICES ASSUME NEW i \in DOMAIN promised.log
               PROVE  i \in DOMAIN WholeLog(ents)' /\ WholeLog(ents)'[i] = promised.log[i]
    BY <1>2, Zenon DEF PromisedInLog
  <2>0. i \in Nat /\ i > 0
    BY <1>0, Numbers, Zenon DEF DiskLog, PromisedSaved
  <2>1. /\ DOMAIN WholeLog(ents)' = {j \in DOMAIN store' : j <= s} \cup (s+1..WalLast)
        /\ \A j \in DOMAIN WholeLog(ents)' :
             WholeLog(ents)'[j] = IF j \in s+1..WalLast THEN ents'[j] ELSE store'[j]
    BY <1>1, <1>9, Zenon DEF WholeLog
  <2>2. CASE i <= s
    <3>1. i \in 1..s /\ i \notin s+1..WalLast
      BY <1>3, <2>0, <2>2
    <3>2. i \in DOMAIN WholeLog(ents)' /\ WholeLog(ents)'[i] = store'[i]
      BY <1>15, <2>1, <2>2, <3>1, Zenon
    <3>3. InChosen(i, promised.log[i])
      <4>1. CASE i <= compacted
        BY <1>0, <4>1, Zenon DEF DiskLog, PromisedSaved
      <4>2. CASE ~(i <= compacted)
        <5>1. PICK p \in DOMAIN walEnts : walEnts[p].index = i /\ walEnts[p] = promised.log[i]
          BY <1>0, <4>2, Zenon DEF DiskLog, PromisedSaved
        <5>2. i <= h.commit
          BY <1>3, <1>6, <2>0, <2>2
        <5> QED  BY <1>14, <5>1, <5>2, Zenon
      <4> QED  BY <4>1, <4>2, Zenon
    <3> QED  BY <1>15, <3>1, <3>2, <3>3, Zenon DEF InChosen
  <2>3. CASE ~(i <= s)
    <3>1. ~(i <= compacted) /\ i > s
      BY <1>3, <1>8, <2>0, <2>3
    <3>2. PICK p \in DOMAIN walEnts : walEnts[p].index = i /\ walEnts[p] = promised.log[i]
      BY <1>0, <3>1, Zenon DEF DiskLog, PromisedSaved
    <3>3. i \in s+1..WalLast /\ ents'[i] = promised.log[i]
      BY <1>13, <3>1, <3>2, Zenon
    <3> QED  BY <2>1, <3>3, Zenon
  <2> QED  BY <2>2, <2>3, Zenon
<1> QED
  BY <1>17, <1>18, <1>20, <1>21, <1>22, <1>23, <1>24, <1>25, Zenon DEF LogFacts, MemoryLog

-----------------------------------------------------------------------------
(* The theorems *)

\* Every step keeps the invariant.
LEMMA LogNext == TypeInv /\ TypeInv' /\ VoteInv /\ VoteInv' /\ LogInv /\ [Next]_vars => LogInv'
<1> SUFFICES ASSUME TypeInv, TypeInv', VoteInv, VoteInv', LogInv, [Next]_vars
             PROVE  LogInv'
  BY Zenon
<1>1. FaultCounts' /\ (~faulty' => ~faulty) /\ (~Overwrote' => ~Overwrote)
  BY FaultsNext, Zenon DEF LogInv
<1> SUFFICES ASSUME ~faulty', ~Overwrote'  PROVE LogFacts'
  BY <1>1, Zenon DEF LogInv
<1>2. /\ FaultCounts /\ LogFacts
      /\ StateRecords /\ PromiseSaved /\ StateFirst /\ MemoryFollows /\ MemoryFollows'
  BY <1>1, Zenon DEF LogInv, VoteInv
<1>3. CASE Ready
  BY <1>2, <1>3, ReadyLog, Zenon
<1>4. CASE SaveState
  BY <1>2, <1>4, SaveStateLog, Zenon
<1>5. CASE SaveEntry
  BY <1>2, <1>5, SaveEntryLog, Zenon
<1>6. CASE SaveSync
  BY <1>2, <1>6, SaveSyncLog, Zenon
<1>7. CASE SaveFails
  BY <1>7, Zenon DEF SaveFails
<1>8. CASE Publish
  BY <1>2, <1>8, PublishLog, Zenon
<1>9. CASE SnapCreate \/ SnapWrite \/ SnapFails
  BY <1>2, <1>9, SnapshotLog, Zenon
<1>10. CASE Compact \/ CompactFails
  BY <1>2, <1>10, CompactLog, Zenon
<1>11. CASE Stop \/ StopClosesWal \/ UNCHANGED vars
  BY <1>2, <1>11, StopLog, Zenon
<1>12. CASE Exit \/ Crash
  BY <1>2, <1>12, CrashLog, Zenon
<1>13. CASE PowerLoss
  BY <1>2, <1>13, PowerLossLog, Zenon
<1>14. CASE Writeback
  BY <1>2, <1>14, WritebackLog, Zenon
<1>15. CASE Start
  BY <1>2, <1>15, FreshStartLog, RestartLog, Zenon
<1>16. CASE StartFails
  BY <1>2, <1>16, StartFailsLog, Zenon
<1> QED
  BY <1>3, <1>4, <1>5, <1>6, <1>7, <1>8, <1>9, <1>10, <1>11, <1>12, <1>13, <1>14, <1>15,
     <1>16, Zenon DEF Next

\* The invariant holds throughout.
LEMMA LogAlways == Spec => []LogInv
<1>1. Init => TypeInv /\ VoteInv /\ LogInv
  BY TypeInit, VoteInit, LogInit, Zenon
<1>2. TypeInv /\ VoteInv /\ LogInv /\ [Next]_vars => TypeInv' /\ VoteInv' /\ LogInv'
  BY TypeNext, VoteNext, LogNext, Zenon
<1> QED  BY <1>1, <1>2, PTL DEF Spec

\* A running node has every log entry its messages spoke for, whatever crashes, power
\* losses, compactions and restarts came between (wal.Save before
\* transport.SendMessages; wal.Compact after snap.Save), unless a Save failed or a
\* log suffix was replaced.
THEOREM LogIsDurable == Spec => []LogDurable
<1>1. LogInv => LogDurable
  BY Zenon DEF LogInv, LogFacts, LogDurable, MemoryLog, PromisedInLog
<1> QED  BY <1>1, LogAlways, PTL

\* What a node applies, before and after any restart, is what the cluster committed at
\* that index, under the same two exceptions (applyEntry, RestoreSnapshot).
THEOREM AppliesOnlyChosen == Spec => []AppliesChosen
<1>1. LogInv => AppliesChosen
  BY Zenon DEF LogInv, LogFacts, AppliesChosen, MemoryLog, Applied, InChosen
<1> QED  BY <1>1, LogAlways, PTL

\* Start fails only on a disk that a crash caught half-written (Start: snap.Load,
\* wal.ReadAll, storage.Append, raft.RestartNode).
THEOREM StartFailsOnlyThen == Spec => []StartFailsOnlyHalfWritten
<1>1. LogInv => StartFailsOnlyHalfWritten
  BY Zenon DEF LogInv, LogFacts, StartFailsOnlyHalfWritten, HalfWritten
<1> QED  BY <1>1, LogAlways, PTL
=============================================================================
