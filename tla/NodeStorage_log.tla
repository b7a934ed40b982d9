---------------------------- MODULE NodeStorage_log ----------------------------
(***************************************************************************)
(* Proofs about NodeStorage, continued: how the steps of a running node    *)
(* and of one that stops keep LogInv, the relation between the entries in  *)
(* wal.log, the snapshot files and the library's log.                      *)
(***************************************************************************)
EXTENDS NodeStorage_inv, TLAPS

-----------------------------------------------------------------------------
(* What the steps have in common *)

\* The numbers that the steps below calculate with.
LEMMA Numbers ==
  ASSUME TypeInv
  PROVE  /\ compacted \in Nat /\ hs.commit \in Nat
         /\ offset \in Nat /\ lastIndex \in Nat /\ raftApplied \in Nat
         /\ appliedIndex \in Nat /\ rd.last \in Nat /\ rd.commit \in Nat
         /\ rd.next \in Nat /\ rd.start \in Nat
         /\ \A p \in DOMAIN walEnts :
              p \in Nat /\ walEnts[p] \in Entry /\ walEnts[p].index \in Nat
                        /\ walEnts[p].index > 0
         /\ \A p \in DOMAIN walHs : p \in Nat /\ walHs[p].commit \in Nat
         /\ \A i \in DOMAIN promised.log : i \in Nat
         /\ \A i \in DOMAIN snaps : i \in Nat
         /\ \A i \in DOMAIN chosen : i \in Nat /\ chosen[i] \in Entry
<1>2. compacted \in Nat /\ hs \in HardState /\ IsPartial(promised.log, Entry)
      /\ IsPartial(chosen, Entry)
  BY Zenon DEF TypeInv, TypeOK, HistoryTypeOK, RaftTypeOK
<1>3. /\ offset \in Nat /\ lastIndex \in Nat /\ raftApplied \in Nat
      /\ appliedIndex \in Nat /\ rd.last \in Nat /\ rd.commit \in Nat
      /\ rd.next \in Nat /\ rd.start \in Nat
  BY Zenon DEF TypeInv, TypeOK, RaftTypeOK, NodeTypeOK
<1>4. IsPartial(walEnts, Entry) /\ IsPartial(walHs, HardState) /\ AreSnapFiles(snaps)
  BY Zenon DEF TypeInv, TypeOK, DiskTypeOK
<1>5. \A e \in Entry : e.index \in Nat /\ e.index > 0
  BY DEF Entry
<1>6. \A h \in HardState : h.commit \in Nat
  BY Zenon DEF HardState
<1> QED  BY <1>2, <1>3, <1>4, <1>5, <1>6, Zenon DEF IsPartial, AreSnapFiles

\* The records of wal.log have places up to its end, and what is synced is a part of it.
LEMMA Places ==
  ASSUME TypeInv
  PROVE  /\ walEnd \in Nat /\ walSynced \in Nat /\ walSynced <= walEnd
         /\ DOMAIN walHs \in SUBSET Nat /\ DOMAIN walEnts \in SUBSET Nat
         /\ \A p \in DOMAIN walHs : p <= walEnd
<1>1. /\ walEnd \in Nat /\ walSynced \in 0..walEnd
      /\ DOMAIN walHs \subseteq 0..walEnd /\ DOMAIN walEnts \subseteq 0..walEnd
  BY Zenon DEF TypeInv, TypeOK, DiskTypeOK
<1>2. walSynced \in Nat /\ walSynced <= walEnd
  BY <1>1
<1>3. \A p \in 0..walEnd : p \in Nat /\ p <= walEnd
  BY <1>1
<1> QED  BY <1>1, <1>2, <1>3, Zenon

\* The cluster never takes back an entry it committed.
ChosenGrows ==
  \A i \in DOMAIN chosen : i \in DOMAIN chosen' /\ chosen'[i] = chosen[i]

\* wal.log has no gap: it reaches every index below one that it reaches.
LEMMA ReachesBelow ==
  ASSUME TypeInv, WalContents, NEW j \in Nat, Reaches(j), NEW i \in Nat, i <= j
  PROVE  Reaches(i)
<1>1. CASE i <= compacted
  BY <1>1, Zenon DEF Reaches
<1>2. CASE ~(i <= compacted)
  <2>0. compacted \in Nat
    BY Numbers, Zenon
  <2>1. PICK p \in DOMAIN walEnts : walEnts[p].index = j
    BY <1>2, <2>0 DEF Reaches
  <2>2. i \in compacted+1..walEnts[p].index
    BY <1>2, <2>0, <2>1
  <2> QED  BY <2>2, Zenon DEF WalContents, Reaches
<1> QED  BY <1>1, <1>2, Zenon

\* A step that leaves the records alone leaves what they hold alone.
LEMMA KeepsWal ==
  ASSUME WalContents, WalChosen, ChosenGrows, UNCHANGED <<walHs, walEnts, compacted>>
  PROVE  WalContents' /\ WalChosen'
<1>1. ReadHardState' = ReadHardState
  BY Zenon DEF ReadHardState
<1>2. WalContents'
  BY DEF WalContents
<1> QED  BY <1>1, <1>2, Zenon DEF WalChosen, InChosen, ChosenGrows

\* A step that leaves the records alone, and no more than loses snapshot files,
\* keeps FilesSaved.
LEMMA KeepsFiles ==
  ASSUME FilesSaved, ChosenGrows, UNCHANGED <<walHs, walEnts, walSynced, compacted>>,
         \A i \in DOMAIN snaps' :
           /\ i \in DOMAIN snaps
           /\ snaps'[i].kind # "torn" =>
                snaps[i].kind # "torn" /\ snaps'[i].data = snaps[i].data
  PROVE  FilesSaved'
<1>1. \A i : Saved(i) => Saved(i)'
  BY Zenon DEF Saved
<1>2. compacted' > 0 => Saved(compacted)'
  BY Zenon DEF FilesSaved, Saved
<1>3. ASSUME NEW i \in DOMAIN snaps'
      PROVE  /\ Saved(i)'
             /\ snaps'[i].kind # "torn" =>
                  /\ DOMAIN snaps'[i].data = 1..i
                  /\ \A j \in 1..i :
                       j \in DOMAIN chosen' /\ chosen'[j] = snaps'[i].data[j]
  BY <1>1, <1>3, Zenon DEF FilesSaved, InChosen, ChosenGrows
<1> QED  BY <1>2, <1>3, Zenon DEF FilesSaved, InChosen

\* A step that sends nothing and leaves the entry records alone keeps PromisedSaved.
LEMMA KeepsPromise ==
  ASSUME PromisedSaved, ChosenGrows,
         UNCHANGED <<walEnts, walSynced, compacted, promised>>
  PROVE  PromisedSaved'
BY Zenon DEF PromisedSaved, InChosen, ChosenGrows

\* A step outside Save that leaves the records alone keeps SyncedOutsideSave.
LEMMA KeepsSynced ==
  ASSUME SyncedOutsideSave, UNCHANGED <<walHs, walEnts, walEnd, walSynced, compacted>>,
         ~midSave' /\ pc' # "entries" => ~midSave /\ pc # "entries"
  PROVE  SyncedOutsideSave'
BY Zenon DEF SyncedOutsideSave, Reaches, ReadHardState

\* The bootstrap entries, once committed, stay committed.
LEMMA KeepsBoot ==
  ASSUME BootChosen, ChosenGrows, Up \/ (UNCHANGED <<chosen, walHs>> /\ ~Up')
  PROVE  BootChosen'
<1>1. CASE \A i \in 1..BootEntries : InChosen(i, Bootstrap[i])
  BY <1>1, Zenon DEF BootChosen, InChosen, ChosenGrows, Bootstrap
<1>2. CASE DOMAIN chosen = {} /\ DOMAIN walHs = {} /\ ~Up
  BY <1>2, Zenon DEF BootChosen
<1> QED  BY <1>1, <1>2, Zenon DEF BootChosen

\* A step that changes no more than memory, the hard state's commit and what the
\* cluster committed keeps the facts about the disk.
LEMMA KeepsDisk ==
  ASSUME DiskLog, ChosenGrows, Up \/ (chosen' = chosen /\ ~Up'),
         UNCHANGED <<walHs, walEnts, walEnd, walSynced, snaps, promised, compacted>>,
         ~midSave' /\ pc' # "entries" => ~midSave /\ pc # "entries"
  PROVE  DiskLog'
<1> USE DEF DiskLog
<1>1. WalContents' /\ WalChosen'
  BY KeepsWal, Zenon
<1>2. FilesSaved'
  BY KeepsFiles, Zenon
<1>3. PromisedSaved'
  BY KeepsPromise, Zenon
<1>4. SyncedOutsideSave'
  BY KeepsSynced, Zenon
<1>5. BootChosen'
  BY KeepsBoot, Zenon
<1> QED  BY <1>1, <1>2, <1>3, <1>4, <1>5, Zenon

\* A step that leaves the log, the store and the entry records alone, and does not
\* enter or leave the part of the Ready branch before storage.Append, keeps the facts
\* about the running node.
LEMMA KeepsMemory ==
  ASSUME MemoryLog, pc' = pc \/ (~Handling /\ ~Handling'),
         fOpen' \/ pc' \notin {"idle", "state"} => fOpen \/ pc \notin {"idle", "state"},
         UNCHANGED <<walEnts, wEntries, compacted, rd, hs, offset, ents, lastIndex,
                     raftApplied, chosen, appliedIndex, store, promised>>
  PROVE  MemoryLog'
<1> USE DEF MemoryLog
<1>1. Handling' = Handling /\ (pc' = "entries" <=> pc = "entries")
      /\ (Handling => pc' = pc)
  BY DEF Handling
<1>2. LogEnd' = LogEnd /\ SavedLast' = SavedLast /\ \A i : LogAt(i)' = LogAt(i)
  BY <1>1, Zenon DEF LogEnd, SavedLast, LogAt, Handling
<1>3. Batch'
  BY <1>1, Zenon DEF Batch, Handling
<1>4. Numbered'
  BY <1>2, Zenon DEF Numbered, InChosen
<1>5. Applied'
  BY Zenon DEF Applied, InChosen
<1>6. WalIsLog'
  <2>1. Reaches(SavedLast)'
    BY <1>2, Zenon DEF WalIsLog, Reaches
  <2>2. \A p \in DOMAIN walEnts : LogAt(walEnts[p].index)' = LogAt(walEnts[p].index)
    BY <1>2, Zenon
  <2> QED  BY <1>2, <2>1, <2>2, Zenon DEF WalIsLog, InChosen
<1>7. CopyOfWal'
  BY <1>1, Zenon DEF CopyOfWal
<1>8. PromisedInLog'
  BY Zenon DEF PromisedInLog, WholeLog
<1> QED  BY <1>3, <1>4, <1>5, <1>6, <1>7, <1>8, Zenon

-----------------------------------------------------------------------------
(* The Ready branch, up to the sync *)

\* The entries of a batch carry their indices, and an empty batch is NoEntries.
LEMMA BatchNumbers ==
  ASSUME NEW first \in Nat, NEW last \in Nat, NEW t, NEW e \in Batches(first, last, t)
  PROVE  /\ DOMAIN e = first..last /\ \A i \in first..last : e[i].index = i
         /\ first > last => e = NoEntries
<1>1. PICK f : e = [i \in first..last |-> [index |-> i, term |-> f[i]]]
  BY Zenon DEF Batches
<1>2. DOMAIN e = first..last /\ \A i \in first..last : e[i].index = i
  BY <1>1, Zenon
<1>3. ASSUME first > last  PROVE e = NoEntries
  <2>1. first..last = {}
    BY <1>3
  <2> QED  BY <1>1, <2>1, Zenon DEF NoEntries
<1> QED  BY <1>2, <1>3, Zenon

\* A Ready that replaces nothing keeps the facts: its entries follow the log, and
\* what it commits is what the cluster commits.
LEMMA ReadyLog ==
  ASSUME TypeInv, TypeInv', FaultCounts, LogFacts, Ready, ~Overwrote'
  PROVE  LogFacts'
<1>0. Up /\ MemoryLog /\ pc = "idle" /\ DiskLog
  BY Zenon DEF Ready, LogFacts
<1>1. /\ compacted \in Nat /\ hs.commit \in Nat /\ offset \in Nat /\ lastIndex \in Nat
      /\ raftApplied \in Nat
      /\ \A p \in DOMAIN walEnts : walEnts[p].index \in Nat /\ walEnts[p].index > 0
  BY Numbers, Zenon
<1>2. UNCHANGED <<walHs, walEnts, walEnd, walSynced, walTorn, snaps, fOpen, wHard,
                  wEntries, status, stopped, appliedIndex, snapshotIndex, store,
                  offset, ents, lastIndex, raftApplied, promised, faulty, midSave,
                  compacted>>
  BY Zenon DEF Ready, disk, walVars
<1>3. PICK h \in NextHs, first \in hs.commit+1..lastIndex+1, last \in 0..MaxIndex :
        \E e \in Batches(first, last, h.term) : Emit(h, first, last, e)
  BY Zenon DEF Ready
<1>4. PICK e \in Batches(first, last, h.term) : Emit(h, first, last, e)
  BY <1>3, Zenon
<1> DEFINE newLast == IF e = NoEntries THEN lastIndex ELSE last
           log == Spliced(e, newLast)
<1>5. h.commit \in Nat /\ hs.commit <= h.commit
  <2>1. h.commit \in hs.commit..MaxIndex
    BY Zenon DEF NextHs
  <2> QED  BY <1>1, <2>1
<1>6. first \in Nat /\ last \in Nat
  <2>1. first \in hs.commit+1..lastIndex+1 /\ hs.commit+1 \in Nat
    BY <1>1
  <2> QED  BY <2>1, ConstantsAssumption
<1>7. first = lastIndex + 1
  <2>1. first > lastIndex \/ faults' = [faults EXCEPT !.over = @ + 1]
    BY <1>4, Zenon DEF Emit
  <2>2. faults' # [faults EXCEPT !.over = @ + 1]
    <3>1. faults.over \in Nat /\ [faults EXCEPT !.over = @ + 1].over = faults.over + 1
      BY Zenon DEF FaultCounts
    <3>2. ~(faults'.over > 0)
      BY Zenon DEF Overwrote
    <3>3. faults.over + 1 > 0
      BY <3>1
    <3>4. SUFFICES ASSUME faults' = [faults EXCEPT !.over = @ + 1]  PROVE FALSE
      BY Zenon
    <3>5. faults'.over = faults.over + 1
      BY <3>1, <3>4, Zenon
    <3> QED  BY <3>2, <3>3, <3>5, Zenon
  <2> QED  BY <1>1, <2>1, <2>2
<1>8. /\ DOMAIN e = lastIndex+1..newLast /\ lastIndex <= newLast /\ newLast \in Nat
      /\ \A i \in DOMAIN e : e[i].index = i
  <2>1. /\ DOMAIN e = first..last /\ \A i \in first..last : e[i].index = i
        /\ first > last => e = NoEntries
    BY <1>6, BatchNumbers
  <2>2. CASE e = NoEntries
    <3>1. DOMAIN e = {} /\ lastIndex+1..lastIndex = {}
      BY <1>1, <2>2 DEF NoEntries
    <3> QED  BY <1>1, <2>1, <2>2, <3>1
  <2>3. CASE e # NoEntries
    BY <1>1, <1>6, <1>7, <2>1, <2>3
  <2> QED  BY <2>2, <2>3, Zenon
<1>9. /\ h.commit <= newLast
      /\ \A i \in hs.commit+1..h.commit : i \in DOMAIN chosen => log[i] = chosen[i]
      /\ rd'.ents = e /\ rd'.last = newLast /\ rd'.commit = h.commit /\ rd'.next = first
      /\ hs' = h /\ pc' = "state"
      /\ chosen' = [i \in DOMAIN chosen \cup (hs.commit+1..h.commit) |->
                      IF i \in DOMAIN chosen THEN chosen[i] ELSE log[i]]
  BY <1>4, Zenon DEF Emit
<1> HIDE DEF newLast
<1>10. \A i \in offset+1..newLast : log[i] = IF i \in DOMAIN e THEN e[i] ELSE ents[i]
  BY Zenon DEF Spliced
<1> HIDE DEF log
<1>11. ChosenGrows
  BY <1>9, Zenon DEF ChosenGrows
<1>12. \A i \in hs.commit+1..h.commit : i \in DOMAIN chosen' /\ chosen'[i] = log[i]
  BY <1>9, Zenon
<1>13. DOMAIN rd.ents = {} /\ LogEnd = lastIndex /\ SavedLast = lastIndex
  BY <1>0, Zenon DEF MemoryLog, Batch, Handling, LogEnd, SavedLast
<1>14. LogEnd' = newLast /\ SavedLast' = lastIndex /\ Handling'
  BY <1>2, <1>9, Zenon DEF LogEnd, SavedLast, Handling
<1>15. \A i : LogAt(i)' = IF i \in DOMAIN e THEN e[i] ELSE ents[i]
  BY <1>2, <1>9, Zenon DEF LogAt
<1>16. \A i : LogAt(i) = ents[i]
  BY <1>13, Zenon DEF LogAt
<1>17. \A i \in 0..lastIndex : i \notin DOMAIN e
  BY <1>1, <1>8
<1>18. /\ offset <= raftApplied /\ raftApplied <= lastIndex /\ raftApplied <= hs.commit
       /\ hs.commit <= lastIndex
  BY <1>0, <1>13, Zenon DEF MemoryLog, Numbered
<1>19. DiskLog'
  BY <1>0, <1>2, <1>9, <1>11, KeepsDisk, Zenon
<1>20. Batch'
  BY <1>2, <1>7, <1>8, <1>9, <1>14, Zenon DEF Batch
<1>21. Numbered'
  <2>1. ASSUME NEW i \in offset+1..newLast  PROVE LogAt(i)'.index = i
    <3>1. CASE i \in DOMAIN e
      BY <1>8, <1>15, <3>1, Zenon
    <3>2. CASE i \notin DOMAIN e
      <4>1. i \in offset+1..LogEnd
        BY <1>1, <1>8, <1>13, <3>2
      <4> QED  BY <1>0, <1>15, <1>16, <3>2, <4>1, Zenon DEF MemoryLog, Numbered
    <3> QED  BY <3>1, <3>2, Zenon
  <2>2. ASSUME NEW i \in offset+1..h.commit
        PROVE  i \in DOMAIN chosen' /\ chosen'[i] = LogAt(i)'
    <3>1. CASE i <= hs.commit
      <4>1. i \in offset+1..hs.commit /\ i \in 0..lastIndex
        BY <1>1, <1>18, <3>1
      <4>2. i \in DOMAIN chosen /\ chosen[i] = ents[i]
        BY <1>0, <1>16, <4>1, Zenon DEF MemoryLog, Numbered, InChosen
      <4> QED  BY <1>11, <1>15, <1>17, <4>1, <4>2, Zenon DEF ChosenGrows
    <3>2. CASE ~(i <= hs.commit)
      <4>1. i \in hs.commit+1..h.commit /\ i \in offset+1..newLast
        BY <1>1, <1>5, <1>8, <1>9, <3>2
      <4> QED  BY <1>10, <1>12, <1>15, <4>1, Zenon
    <3> QED  BY <3>1, <3>2, Zenon
  <2>3. raftApplied <= h.commit
    BY <1>1, <1>5, <1>18
  <2> QED  BY <1>2, <1>9, <1>14, <1>18, <2>1, <2>2, <2>3, Zenon DEF Numbered, InChosen
<1>22. Applied'
  BY <1>0, <1>2, <1>11, Zenon DEF MemoryLog, Applied, InChosen, ChosenGrows
<1>23. WalIsLog'
  <2>1. Reaches(SavedLast)'
    BY <1>0, <1>2, <1>13, <1>14, Zenon DEF MemoryLog, WalIsLog, Reaches
  <2>2. ASSUME NEW p \in DOMAIN walEnts
        PROVE  /\ walEnts[p].index <= SavedLast'
               /\ IF walEnts[p].index <= offset
                  THEN InChosen(walEnts[p].index, walEnts[p])'
                  ELSE LogAt(walEnts[p].index)' = walEnts[p]
    <3>1. walEnts[p].index <= lastIndex /\ walEnts[p].index \in 0..lastIndex
      BY <1>0, <1>1, <1>13 DEF MemoryLog, WalIsLog
    <3>2. CASE walEnts[p].index <= offset
      BY <1>0, <1>2, <1>11, <1>14, <3>1, <3>2, Zenon
         DEF MemoryLog, WalIsLog, InChosen, ChosenGrows
    <3>3. CASE ~(walEnts[p].index <= offset)
      <4>1. ents[walEnts[p].index] = walEnts[p]
        BY <1>0, <1>16, <3>3, Zenon DEF MemoryLog, WalIsLog
      <4>2. LogAt(walEnts[p].index)' = ents[walEnts[p].index]
        BY <1>2, <1>15, <1>17, <3>1, Zenon
      <4> QED  BY <1>14, <3>1, <3>3, <4>1, <4>2, Zenon
    <3> QED  BY <3>2, <3>3, Zenon
  <2> QED  BY <1>2, <2>1, <2>2, Zenon DEF WalIsLog
<1>24. CopyOfWal'
  BY <1>0, <1>2, <1>9, Zenon DEF MemoryLog, CopyOfWal
<1>25. PromisedInLog'
  BY <1>0, <1>2, Zenon DEF MemoryLog, PromisedInLog, WholeLog
<1>26. Up' /\ status' # "failed"
  BY <1>0, <1>2, Zenon DEF Up
<1> QED
  BY <1>19, <1>20, <1>21, <1>22, <1>23, <1>24, <1>25, <1>26, Zenon DEF LogFacts, MemoryLog

\* Records that are added, and a sync that covers more of them, keep what is saved.
LEMMA GrowsFiles ==
  ASSUME TypeInv, TypeInv', FilesSaved, PromisedSaved,
         \A p \in DOMAIN walHs : p \in DOMAIN walHs' /\ walHs'[p] = walHs[p],
         \A p \in DOMAIN walEnts : p \in DOMAIN walEnts' /\ walEnts'[p] = walEnts[p],
         walSynced <= walSynced', UNCHANGED <<snaps, compacted, chosen, promised>>
  PROVE  FilesSaved' /\ PromisedSaved'
<1>1. walSynced \in Nat /\ walSynced' \in Nat
  BY Places DEF TypeInv, TypeOK, DiskTypeOK
<1>2. \A p \in DOMAIN walHs : p <= walSynced => p <= walSynced'
  BY <1>1, Numbers
<1>3. \A p \in DOMAIN walEnts : p <= walSynced => p <= walSynced'
  BY <1>1, Numbers
<1>4. ASSUME NEW i, Saved(i)  PROVE Saved(i)'
  <2>1. \E p \in DOMAIN walHs' : p <= walSynced' /\ i <= walHs'[p].commit
    BY <1>2, <1>4, Zenon DEF Saved
  <2>2. i <= compacted \/ \E p \in DOMAIN walEnts' : p <= walSynced' /\ walEnts'[p].index = i
    BY <1>3, <1>4, Zenon DEF Saved
  <2> QED  BY <2>1, <2>2, Zenon DEF Saved
<1>5. FilesSaved'
  <2>1. compacted' > 0 => Saved(compacted)'
    <3>1. CASE compacted > 0
      <4>1. Saved(compacted)
        BY <3>1, Zenon DEF FilesSaved
      <4>2. \E i : i = compacted /\ Saved(i)
        BY <4>1, Zenon
      <4>3. PICK i : i = compacted /\ Saved(i)
        BY <4>2, Zenon
      <4>4. Saved(i)' /\ i = compacted'
        BY <1>4, <4>3, Zenon
      <4> QED  BY <4>4, Zenon DEF Saved
    <3> QED  BY <3>1, Zenon
  <2> QED  BY <1>4, <2>1, Zenon DEF FilesSaved, InChosen
<1>6. PromisedSaved'
  <2> SUFFICES ASSUME NEW i \in DOMAIN promised.log
               PROVE  /\ i > 0
                      /\ IF i <= compacted
                         THEN InChosen(i, promised.log[i])
                         ELSE \E p \in DOMAIN walEnts' :
                                /\ p <= walSynced' /\ walEnts'[p].index = i
                                /\ walEnts'[p] = promised.log[i]
    BY Zenon DEF PromisedSaved, InChosen
  <2> QED  BY <1>3 DEF PromisedSaved
<1> QED  BY <1>5, <1>6, Zenon

\* Save's state record keeps the facts: the entries up to the commit index it
\* records, on disk or still to be written, are the ones the cluster committed.
LEMMA SaveStateLog ==
  ASSUME TypeInv, TypeInv', MemoryFollows', LogFacts, SaveState
  PROVE  LogFacts'
<1>0. Up /\ MemoryLog /\ pc = "state" /\ pc' = "entries" /\ DiskLog /\ fOpen
  BY Zenon DEF SaveState, LogFacts
<1>1. /\ compacted \in Nat /\ hs.commit \in Nat /\ offset \in Nat /\ lastIndex \in Nat
      /\ rd.next \in Nat /\ rd.last \in Nat
      /\ \A p \in DOMAIN walEnts : walEnts[p].index \in Nat
  BY Numbers, Zenon
<1>2. UNCHANGED <<walEnts, walSynced, walTorn, snaps, fOpen, wEntries, status, stopped,
                  appliedIndex, store, hs, offset, ents, lastIndex, raftApplied,
                  promised, chosen, faulty, midSave, compacted, faults>>
  BY Zenon DEF SaveState, raft, history
<1>3. /\ rd'.start = walEnd' /\ rd'.ents = rd.ents /\ rd'.last = rd.last
      /\ rd'.commit = rd.commit /\ rd'.next = rd.next
  BY Zenon DEF SaveState, TypeInv, TypeOK, NodeTypeOK
<1>4. /\ \A p \in DOMAIN walHs : p \in DOMAIN walHs' /\ walHs'[p] = walHs[p]
      /\ walEnd \in Nat /\ walEnd' \in Nat /\ walEnd <= walEnd'
  <2>1. walEnd \in Nat /\ \A p \in DOMAIN walHs : p \in Nat /\ p <= walEnd
    BY Places, Numbers, Zenon
  <2>2. CASE StateDue
    <3>1. walHs' = Put(walHs, walEnd + 1, rd.hs) /\ walEnd' = walEnd + 1
      BY <2>2, Zenon DEF SaveState
    <3>2. \A p \in DOMAIN walHs : p # walEnd + 1
      BY <2>1
    <3> QED  BY <2>1, <3>1, <3>2 DEF Put
  <2>3. CASE ~StateDue
    BY <2>1, <2>3 DEF SaveState
  <2> QED  BY <2>2, <2>3, Zenon
<1>5. ReadHardState' = hs
  BY <1>0, <1>2, Zenon DEF MemoryFollows, Up
<1>6. WalContents'
  BY <1>0, <1>2 DEF DiskLog, WalContents
<1>7. WalChosen'
  <2> SUFFICES ASSUME NEW p \in DOMAIN walEnts, walEnts[p].index <= hs.commit
               PROVE  InChosen(walEnts[p].index, walEnts[p])
    BY <1>2, <1>5, Zenon DEF WalChosen, InChosen
  <2>1. CASE walEnts[p].index <= offset
    BY <1>0, <2>1, Zenon DEF MemoryLog, WalIsLog
  <2>2. CASE ~(walEnts[p].index <= offset)
    <3>1. walEnts[p].index \in offset+1..hs.commit
      BY <1>1, <2>2
    <3>2. LogAt(walEnts[p].index) = walEnts[p]
      BY <1>0, <2>2, Zenon DEF MemoryLog, WalIsLog
    <3> QED  BY <1>0, <3>1, <3>2, Zenon DEF MemoryLog, Numbered
  <2> QED  BY <2>1, <2>2, Zenon
<1>8. FilesSaved' /\ PromisedSaved'
  <2>1. walSynced <= walSynced'
    BY <1>2, Places
  <2> QED  BY <1>0, <1>2, <1>4, <2>1, GrowsFiles, Zenon DEF DiskLog
<1>9. SyncedOutsideSave'
  BY <1>0, Zenon DEF SyncedOutsideSave
<1>10. BootChosen'
  BY <1>0, <1>2, KeepsBoot, Zenon DEF DiskLog, ChosenGrows
<1>11. Batch'
  BY <1>0, <1>1, <1>2, <1>3 DEF MemoryLog, Batch, Handling
<1>12. /\ LogEnd' = LogEnd /\ SavedLast = lastIndex /\ SavedLast' = rd.next - 1
       /\ \A i : LogAt(i)' = LogAt(i)
  BY <1>0, <1>2, <1>3, Zenon DEF LogEnd, SavedLast, LogAt, Handling
<1>13. Numbered'
  BY <1>0, <1>2, <1>12, Zenon DEF MemoryLog, Numbered, InChosen
<1>14. Applied'
  BY <1>0, <1>2, Zenon DEF MemoryLog, Applied, InChosen
<1>15. WalIsLog'
  <2>1. SavedLast' = SavedLast
    BY <1>0, <1>1, <1>12 DEF MemoryLog, Batch, Handling
  <2>2. Reaches(SavedLast)'
    BY <1>0, <1>2, <2>1, Zenon DEF MemoryLog, WalIsLog, Reaches
  <2>3. \A p \in DOMAIN walEnts : LogAt(walEnts[p].index)' = LogAt(walEnts[p].index)
    BY <1>2, <1>12, Zenon
  <2> QED  BY <1>0, <1>2, <2>1, <2>2, <2>3, Zenon DEF MemoryLog, WalIsLog, InChosen
<1>16. CopyOfWal'
  <2>1. \A p \in DOMAIN walEnts : p <= rd'.start
    <3>1. \A p \in DOMAIN walEnts : p \in Nat /\ p <= walEnd
      BY DEF TypeInv, TypeOK, DiskTypeOK
    <3> QED  BY <1>3, <1>4, <3>1
  <2>2. /\ DOMAIN wEntries = DOMAIN walEnts
        /\ \A p \in DOMAIN wEntries : wEntries[p] = walEnts[p]
    BY <1>0, Zenon DEF MemoryLog, CopyOfWal
  <2> QED  BY <1>0, <1>2, <2>1, <2>2, Zenon DEF CopyOfWal
<1>17. PromisedInLog'
  BY <1>0, <1>2, Zenon DEF MemoryLog, PromisedInLog, WholeLog
<1>18. Up' /\ status' # "failed"
  BY <1>0, <1>2, Zenon DEF Up
<1> QED
  BY <1>6, <1>7, <1>8, <1>9, <1>10, <1>11, <1>13, <1>14, <1>15, <1>16, <1>17, <1>18, Zenon
     DEF LogFacts, MemoryLog, DiskLog

\* Save's next entry record keeps the facts: it continues the file.
LEMMA SaveEntryLog ==
  ASSUME TypeInv, TypeInv', MemoryFollows, LogFacts, SaveEntry
  PROVE  LogFacts'
<1>0. Up /\ MemoryLog /\ pc = "entries" /\ pc' = "entries" /\ DiskLog
  BY Zenon DEF SaveEntry, LogFacts
<1> DEFINE k == walEnd + 1
           e == rd.ents[rd.next]
<1>1. /\ compacted \in Nat /\ hs.commit \in Nat /\ offset \in Nat /\ lastIndex \in Nat
      /\ rd.next \in Nat /\ rd.last \in Nat /\ raftApplied \in Nat /\ rd.start \in Nat
      /\ \A p \in DOMAIN walEnts : p \in Nat /\ walEnts[p].index \in Nat
  BY Numbers, Zenon
<1>2. UNCHANGED <<walHs, walSynced, walTorn, snaps, fOpen, wHard, wEntries, status,
                  stopped, appliedIndex, store, hs, offset, ents, lastIndex,
                  raftApplied, promised, chosen, faulty, midSave, compacted, faults>>
  BY Zenon DEF SaveEntry, raft, history, walVars
<1>3. /\ rd'.start = rd.start /\ rd'.ents = rd.ents /\ rd'.last = rd.last
      /\ rd'.commit = rd.commit /\ rd'.next = rd.next + 1
  BY Zenon DEF SaveEntry, TypeInv, TypeOK, NodeTypeOK
<1>4. walEnd \in Nat /\ \A p \in DOMAIN walEnts : p <= walEnd /\ p < k /\ p # k
  <2>1. walEnd \in Nat /\ \A p \in DOMAIN walEnts : p \in Nat /\ p <= walEnd
    BY DEF TypeInv, TypeOK, DiskTypeOK
  <2> QED  BY <2>1
<1>5. /\ DOMAIN walEnts' = DOMAIN walEnts \cup {k} /\ walEnts'[k] = e
      /\ \A p \in DOMAIN walEnts : walEnts'[p] = walEnts[p]
  BY <1>4, Zenon DEF SaveEntry, Put
<1>6. /\ DOMAIN rd.ents = lastIndex+1..rd.last /\ rd.next \in lastIndex+1..rd.last
      /\ LogEnd = rd.last /\ SavedLast = rd.next - 1
  BY <1>0, Zenon DEF MemoryLog, Batch, Handling, LogEnd, SavedLast, SaveEntry
<1>7. /\ offset <= raftApplied /\ raftApplied <= lastIndex
      /\ rd.next \in offset+1..rd.last /\ rd.next > lastIndex
  BY <1>0, <1>1, <1>6 DEF MemoryLog, Numbered
<1>8. LogAt(rd.next) = e /\ e.index = rd.next
  BY <1>0, <1>6, <1>7, Zenon DEF MemoryLog, Numbered, LogAt
<1>9. rd.next > compacted
  BY <1>0, <1>1, <1>7 DEF MemoryLog, Applied
<1>10. \A p \in DOMAIN walEnts : walEnts[p].index < rd.next
  BY <1>0, <1>1, <1>6 DEF MemoryLog, WalIsLog
<1>11. ReadHardState = hs /\ ReadHardState' = hs
  BY <1>0, <1>2, Zenon DEF MemoryFollows, ReadHardState
<1> HIDE DEF k, e
<1>12. WalContents'
  <2>1. \A p \in DOMAIN walEnts' : walEnts'[p].index > compacted
    BY <1>0, <1>5, <1>8, <1>9, Zenon DEF DiskLog, WalContents
  <2>2. ASSUME NEW p \in DOMAIN walEnts', NEW q \in DOMAIN walEnts', p < q
        PROVE  walEnts'[p].index < walEnts'[q].index
    <3>1. k \in Nat
      BY <1>4 DEF k
    <3>2. p # k
      <4> SUFFICES ASSUME p = k PROVE FALSE
        BY Zenon
      <4>1. CASE q = k
        BY <2>2, <3>1, <4>1
      <4>2. CASE q \in DOMAIN walEnts
        BY <1>1, <1>4, <2>2, <3>1, <4>2
      <4> QED  BY <1>5, <4>1, <4>2, Zenon
    <3>3. p \in DOMAIN walEnts /\ walEnts'[p] = walEnts[p]
      BY <1>5, <3>2, Zenon
    <3>4. CASE q = k
      BY <1>5, <1>8, <1>10, <3>3, <3>4, Zenon
    <3>5. CASE q \in DOMAIN walEnts
      BY <1>0, <1>5, <2>2, <3>3, <3>5, Zenon DEF DiskLog, WalContents
    <3> QED  BY <1>5, <3>4, <3>5, Zenon
  <2>3. ASSUME NEW p \in DOMAIN walEnts', NEW i \in compacted+1..walEnts'[p].index
        PROVE  \E q \in DOMAIN walEnts' : q <= p /\ walEnts'[q].index = i
    <3>1. CASE p \in DOMAIN walEnts
      <4>1. i \in compacted+1..walEnts[p].index
        BY <1>5, <2>3, <3>1, Zenon
      <4>2. PICK q \in DOMAIN walEnts : q <= p /\ walEnts[q].index = i
        BY <1>0, <3>1, <4>1, Zenon DEF DiskLog, WalContents
      <4> QED  BY <1>5, <4>2, Zenon
    <3>2. CASE p = k
      <4>0. k \in Nat /\ k <= k
        BY <1>4 DEF k
      <4>1. walEnts'[p].index = rd.next /\ i \in Nat
        BY <1>1, <1>5, <1>8, <2>3, <3>2
      <4>2. CASE i = rd.next
        BY <1>5, <3>2, <4>0, <4>1, <4>2, Zenon
      <4>3. CASE i # rd.next
        <5>1. i <= rd.next - 1 /\ rd.next - 1 \in Nat /\ i > compacted
          BY <1>1, <2>3, <4>1, <4>3
        <5>2. Reaches(rd.next - 1)
          BY <1>0, <1>6, Zenon DEF MemoryLog, WalIsLog
        <5>3. Reaches(i)
          BY <1>0, <4>1, <5>1, <5>2, ReachesBelow, Zenon DEF DiskLog
        <5>4. PICK q \in DOMAIN walEnts : walEnts[q].index = i
          BY <1>1, <4>1, <5>1, <5>3 DEF Reaches
        <5>5. q <= k
          BY <1>1, <1>4, <4>0
        <5> QED  BY <1>5, <3>2, <5>4, <5>5, Zenon
      <4> QED  BY <4>2, <4>3, Zenon
    <3> QED  BY <1>5, <3>1, <3>2, Zenon
  <2> QED  BY <1>2, <2>1, <2>2, <2>3, Zenon DEF WalContents
<1>13. WalChosen'
  <2> SUFFICES ASSUME NEW p \in DOMAIN walEnts', walEnts'[p].index <= hs.commit
               PROVE  InChosen(walEnts'[p].index, walEnts'[p])
    BY <1>2, <1>11, Zenon DEF WalChosen, InChosen
  <2>1. CASE p = k
    <3>1. rd.next \in offset+1..hs.commit
      BY <1>1, <1>5, <1>7, <1>8, <2>1
    <3>2. InChosen(rd.next, e)
      BY <1>0, <1>8, <3>1, Zenon DEF MemoryLog, Numbered
    <3> QED  BY <1>5, <1>8, <2>1, <3>2, Zenon
  <2>2. CASE p \in DOMAIN walEnts
    BY <1>0, <1>5, <1>11, <2>2, Zenon DEF DiskLog, WalChosen
  <2> QED  BY <1>5, <2>1, <2>2, Zenon
<1>14. FilesSaved' /\ PromisedSaved'
  <2>1. walSynced <= walSynced'
    BY <1>2, Places
  <2>2. \A p \in DOMAIN walEnts : p \in DOMAIN walEnts' /\ walEnts'[p] = walEnts[p]
    BY <1>5, Zenon
  <2> QED  BY <1>0, <1>2, <2>1, <2>2, GrowsFiles, Zenon DEF DiskLog
<1>15. SyncedOutsideSave'
  BY <1>0, Zenon DEF SyncedOutsideSave
<1>16. BootChosen'
  BY <1>0, <1>2, KeepsBoot, Zenon DEF DiskLog, ChosenGrows
<1>17. Batch'
  <2>1. rd.next + 1 \in lastIndex+1..rd.last+1
    BY <1>1, <1>6
  <2> QED  BY <1>0, <1>2, <1>3, <2>1, Zenon DEF MemoryLog, Batch, Handling
<1>18. LogEnd' = LogEnd /\ SavedLast' = rd.next /\ \A i : LogAt(i)' = LogAt(i)
  BY <1>0, <1>1, <1>2, <1>3 DEF LogEnd, SavedLast, LogAt, Handling
<1>19. Numbered'
  BY <1>0, <1>2, <1>18, Zenon DEF MemoryLog, Numbered, InChosen
<1>20. Applied'
  BY <1>0, <1>2, Zenon DEF MemoryLog, Applied, InChosen
<1>21. WalIsLog'
  <2>1. Reaches(SavedLast)'
    BY <1>5, <1>8, <1>18, Zenon DEF Reaches
  <2>2. ASSUME NEW p \in DOMAIN walEnts'
        PROVE  /\ walEnts'[p].index <= rd.next
               /\ IF walEnts'[p].index <= offset
                  THEN InChosen(walEnts'[p].index, walEnts'[p])
                  ELSE LogAt(walEnts'[p].index) = walEnts'[p]
    <3>1. CASE p = k
      <4>1. ~(rd.next <= offset) /\ rd.next <= rd.next
        BY <1>1, <1>7
      <4> QED  BY <1>5, <1>8, <3>1, <4>1, Zenon
    <3>2. CASE p \in DOMAIN walEnts
      <4>1. walEnts[p].index <= rd.next
        BY <1>1, <1>10, <3>2
      <4> QED  BY <1>0, <1>5, <3>2, <4>1, Zenon DEF MemoryLog, WalIsLog
    <3> QED  BY <1>5, <3>1, <3>2, Zenon
  <2>3. ASSUME NEW p \in DOMAIN walEnts'
        PROVE  LogAt(walEnts[p].index)' = LogAt(walEnts'[p].index)
    BY <1>2, <1>3, Zenon DEF LogAt
  <2> QED  BY <1>2, <1>18, <2>1, <2>2, <2>3, Zenon DEF WalIsLog, InChosen
<1>22. CopyOfWal'
  <2>1. rd.start <= walEnd /\ ~(k <= rd.start)
    BY <1>0, <1>1, <1>4 DEF TypeInv, Shape, k
  <2>2. /\ DOMAIN wEntries = {p \in DOMAIN walEnts : p <= rd.start}
        /\ \A p \in DOMAIN wEntries : wEntries[p] = walEnts[p]
    BY <1>0, Zenon DEF MemoryLog, CopyOfWal
  <2>3. {p \in DOMAIN walEnts' : p <= rd.start} = {p \in DOMAIN walEnts : p <= rd.start}
    BY <1>5, <2>1, Zenon
  <2>4. \A p \in DOMAIN wEntries : p \in DOMAIN walEnts
    BY <2>2, Zenon
  <2> QED  BY <1>0, <1>2, <1>3, <1>5, <2>2, <2>3, <2>4, Zenon DEF CopyOfWal
<1>23. PromisedInLog'
  BY <1>0, <1>2, Zenon DEF MemoryLog, PromisedInLog, WholeLog
<1>24. Up' /\ status' # "failed"
  BY <1>0, <1>2, Zenon DEF Up
<1> QED
  BY <1>12, <1>13, <1>14, <1>15, <1>16, <1>17, <1>19, <1>20, <1>21, <1>22, <1>23, <1>24, Zenon
     DEF LogFacts, MemoryLog, DiskLog

\* Save's sync keeps the facts: all of the Ready is in wal.log and on stable storage.
LEMMA SaveSyncLog ==
  ASSUME TypeInv, TypeInv', MemoryFollows, LogFacts, SaveSync
  PROVE  LogFacts'
<1>0. Up /\ MemoryLog /\ pc = "entries" /\ pc' = "publish" /\ DiskLog
  BY Zenon DEF SaveSync, LogFacts
<1>1. /\ compacted \in Nat /\ hs.commit \in Nat /\ lastIndex \in Nat
      /\ rd.next \in Nat /\ rd.last \in Nat /\ rd.start \in Nat
      /\ \A p \in DOMAIN walEnts : p \in Nat /\ walEnts[p].index \in Nat
  BY Numbers, Zenon
<1>2. UNCHANGED <<walHs, walEnts, walEnd, walTorn, snaps, fOpen, wHard, status, rd,
                  stopped, appliedIndex, store, hs, offset, ents, lastIndex,
                  raftApplied, promised, chosen, faulty, compacted, faults>>
  BY Zenon DEF SaveSync, raft
<1>3. walSynced' = walEnd
  BY Zenon DEF SaveSync
<1>4. rd.next = rd.last + 1
  <2>1. DOMAIN rd.ents = lastIndex+1..rd.last /\ rd.next \in lastIndex+1..rd.last+1
    BY <1>0, Zenon DEF MemoryLog, Batch, Handling
  <2>2. rd.next \notin lastIndex+1..rd.last
    BY <2>1, Zenon DEF SaveSync
  <2> QED  BY <1>1, <2>1, <2>2
<1>5. /\ SavedLast = rd.last /\ SavedLast' = rd.last /\ LogEnd = rd.last
      /\ LogEnd' = LogEnd /\ \A i : LogAt(i)' = LogAt(i)
  BY <1>0, <1>1, <1>2, <1>4 DEF SavedLast, LogEnd, LogAt, Handling
<1>6. ReadHardState = hs /\ ReadHardState' = hs
  BY <1>0, <1>2, Zenon DEF MemoryFollows, ReadHardState
<1>7. ChosenGrows
  BY <1>2, Zenon DEF ChosenGrows
<1>8. WalContents' /\ WalChosen'
  BY <1>0, <1>2, <1>7, KeepsWal, Zenon DEF DiskLog
<1>9. FilesSaved' /\ PromisedSaved'
  <2>1. walSynced <= walSynced'
    BY <1>3, Places, Zenon
  <2> QED  BY <1>0, <1>2, <2>1, GrowsFiles, Zenon DEF DiskLog
<1>10. SyncedOutsideSave'
  <2>1. Reaches(rd.last) /\ hs.commit <= rd.last
    BY <1>0, <1>5, Zenon DEF MemoryLog, WalIsLog, Numbered
  <2>2. Reaches(hs.commit)
    BY <1>0, <1>1, <2>1, ReachesBelow, Zenon DEF DiskLog
  <2>3. Reaches(ReadHardState.commit)'
    BY <1>2, <1>6, <2>2, Zenon DEF Reaches
  <2> QED  BY <1>2, <1>3, <2>3, Zenon DEF SyncedOutsideSave
<1>11. BootChosen'
  BY <1>0, <1>7, KeepsBoot, Zenon DEF DiskLog
<1>12. Batch'
  BY <1>0, <1>2, Zenon DEF MemoryLog, Batch, Handling
<1>13. Numbered'
  BY <1>0, <1>2, <1>5, Zenon DEF MemoryLog, Numbered, InChosen
<1>14. Applied'
  BY <1>0, <1>2, Zenon DEF MemoryLog, Applied, InChosen
<1>15. WalIsLog'
  <2>1. Reaches(SavedLast)'
    BY <1>0, <1>2, <1>5, Zenon DEF MemoryLog, WalIsLog, Reaches
  <2>2. \A p \in DOMAIN walEnts : LogAt(walEnts[p].index)' = LogAt(walEnts[p].index)
    BY <1>2, <1>5, Zenon
  <2> QED  BY <1>0, <1>2, <1>5, <2>1, <2>2, Zenon DEF MemoryLog, WalIsLog, InChosen
<1>16. CopyOfWal'
  <2>1. /\ DOMAIN wEntries = {p \in DOMAIN walEnts : p <= rd.start}
        /\ \A p \in DOMAIN wEntries : wEntries[p] = walEnts[p]
    BY <1>0, Zenon DEF MemoryLog, CopyOfWal
  <2>2. /\ walEnd \in Nat /\ \A p \in DOMAIN walEnts : p <= walEnd
        /\ \A p \in rd.start+1..walEnd : p \in DOMAIN walEnts
    BY <1>0 DEF TypeInv, TypeOK, DiskTypeOK, Shape
  <2>3. DOMAIN wEntries \cup (rd.start+1..walEnd) = DOMAIN walEnts
    <3>1. \A p \in DOMAIN walEnts : p <= rd.start \/ p \in rd.start+1..walEnd
      BY <1>1, <2>2
    <3> QED  BY <2>1, <2>2, <3>1, Zenon
  <2>4. wEntries' = [p \in DOMAIN walEnts |-> IF p \in DOMAIN wEntries THEN wEntries[p]
                                                                     ELSE walEnts[p]]
    BY <2>3, Zenon DEF SaveSync
  <2> QED  BY <1>0, <1>2, <2>1, <2>4, Zenon DEF CopyOfWal
<1>17. PromisedInLog'
  BY <1>0, <1>2, Zenon DEF MemoryLog, PromisedInLog, WholeLog
<1>18. Up' /\ status' # "failed"
  BY <1>0, <1>2, Zenon DEF Up
<1> QED
  BY <1>8, <1>9, <1>10, <1>11, <1>12, <1>13, <1>14, <1>15, <1>16, <1>17, <1>18, Zenon
     DEF LogFacts, MemoryLog, DiskLog

-----------------------------------------------------------------------------
(* The Ready branch, after the sync *)

\* Append, SendMessages and applyEntry keep the facts: what the messages speak for is
\* on stable storage, and what is applied was committed by the cluster.
LEMMA PublishLog ==
  ASSUME TypeInv, TypeInv', MemoryFollows, LogFacts, Publish
  PROVE  LogFacts'
<1>0. Up /\ MemoryLog /\ pc = "publish" /\ DiskLog /\ pc' \in {"snapcreate", "idle"}
  BY Zenon DEF Publish, LogFacts
<1>1. /\ compacted \in Nat /\ hs.commit \in Nat /\ lastIndex \in Nat /\ offset \in Nat
      /\ raftApplied \in Nat /\ appliedIndex \in Nat /\ rd.last \in Nat
      /\ \A p \in DOMAIN walEnts : walEnts[p].index \in Nat /\ walEnts[p].index > 0
  BY Numbers, Zenon
<1>2. UNCHANGED <<walHs, walEnts, walEnd, walSynced, walTorn, snaps, fOpen, wHard,
                  wEntries, status, stopped, hs, offset, chosen, faulty, midSave,
                  compacted, faults>>
  BY Zenon DEF Publish, disk, walVars
<1> DEFINE log == Spliced(rd.ents, rd.last)
           new == raftApplied+1..rd.commit
<1>3. /\ ents' = log /\ lastIndex' = rd.last /\ raftApplied' = rd.commit
      /\ store' = [i \in DOMAIN store \cup new |-> IF i \in new THEN log[i] ELSE store[i]]
      /\ appliedIndex' = IF new = {} THEN appliedIndex ELSE log[rd.commit].index
      /\ promised'.log = WholeLog(log)
      /\ rd' = NoReady
  BY Zenon DEF Publish
<1>4. DOMAIN log = offset+1..rd.last /\ \A i \in offset+1..rd.last : log[i] = LogAt(i)
  BY Zenon DEF Spliced, LogAt
<1> HIDE DEF log
<1>5. /\ LogEnd = rd.last /\ SavedLast = rd.last /\ rd.commit = hs.commit
  BY <1>0, Zenon DEF LogEnd, SavedLast, Handling, MemoryLog, Batch
<1>6. DOMAIN rd'.ents = {}
  BY <1>3, Zenon DEF NoReady, NoEntries
<1>7. /\ LogEnd' = rd.last /\ SavedLast' = rd.last /\ ~Handling'
      /\ \A i \in offset+1..rd.last : LogAt(i)' = LogAt(i)
  <2>1. \A i : LogAt(i)' = log[i]
    BY <1>3, <1>6, Zenon DEF LogAt
  <2> QED  BY <1>0, <1>3, <1>4, <2>1, Zenon DEF LogEnd, SavedLast, Handling
<1>8. /\ offset <= raftApplied /\ raftApplied <= lastIndex /\ raftApplied <= hs.commit
      /\ hs.commit <= rd.last /\ appliedIndex = raftApplied /\ compacted <= appliedIndex
  BY <1>0, <1>5, Zenon DEF MemoryLog, Numbered, Applied
<1>9. \A i \in offset+1..hs.commit : InChosen(i, LogAt(i)) /\ i \in offset+1..rd.last
  <2>1. \A i \in offset+1..hs.commit : i \in offset+1..rd.last
    BY <1>1, <1>8
  <2> QED  BY <1>0, <2>1, Zenon DEF MemoryLog, Numbered
<1>10. appliedIndex' = hs.commit
  <2>1. CASE new = {}
    <3>1. raftApplied = hs.commit
      <4>1. ~(raftApplied < hs.commit)
        BY <1>1, <1>5, <2>1
      <4> QED  BY <1>1, <1>8, <4>1
    <3> QED  BY <1>3, <1>8, <2>1, <3>1, Zenon
  <2>2. CASE new # {}
    <3>1. hs.commit \in offset+1..hs.commit
      BY <1>1, <1>5, <1>8, <2>2
    <3>2. log[hs.commit].index = hs.commit
      BY <1>0, <1>4, <1>5, <1>9, <3>1, Zenon DEF MemoryLog, Numbered
    <3> QED  BY <1>3, <1>5, <2>2, <3>2, Zenon
  <2> QED  BY <2>1, <2>2, Zenon
<1>11. /\ DOMAIN store = 1..raftApplied /\ \A i \in 1..raftApplied : InChosen(i, store[i])
  BY <1>0, <1>8, Zenon DEF MemoryLog, Applied
<1>12. /\ DOMAIN store' = 1..hs.commit
       /\ \A i \in 1..hs.commit : store'[i] = IF i <= raftApplied THEN store[i] ELSE log[i]
  <2>1. DOMAIN store \cup new = 1..hs.commit
    BY <1>1, <1>5, <1>8, <1>11
  <2>2. \A i \in 1..hs.commit : i \in new <=> ~(i <= raftApplied)
    BY <1>1, <1>5
  <2> QED  BY <1>3, <2>1, <2>2, Zenon
<1>13. Applied'
  <2>1. ASSUME NEW i \in 1..hs.commit  PROVE InChosen(i, store'[i])
    <3>1. CASE i <= raftApplied
      BY <1>1, <1>11, <1>12, <3>1
    <3>2. CASE ~(i <= raftApplied)
      <4>1. i \in offset+1..hs.commit
        BY <1>1, <1>8, <3>2
      <4> QED  BY <1>4, <1>9, <1>12, <3>2, <4>1, Zenon
    <3> QED  BY <3>1, <3>2, Zenon
  <2>2. compacted <= hs.commit
    BY <1>1, <1>8
  <2> QED  BY <1>2, <1>3, <1>5, <1>10, <1>12, <2>1, <2>2, Zenon DEF Applied, InChosen
<1>14. Batch'
  BY <1>6, <1>7, Zenon DEF Batch
<1>15. Numbered'
  <2>1. offset <= hs.commit /\ hs.commit <= hs.commit
    BY <1>1, <1>8
  <2>2. \A i \in offset+1..rd.last : LogAt(i)'.index = i
    BY <1>0, <1>5, <1>7, Zenon DEF MemoryLog, Numbered
  <2>3. \A i \in offset+1..hs.commit : i \in DOMAIN chosen /\ chosen[i] = LogAt(i)'
    BY <1>7, <1>9, Zenon DEF InChosen
  <2> QED  BY <1>2, <1>3, <1>5, <1>7, <1>8, <2>1, <2>2, <2>3, Zenon DEF Numbered, InChosen
<1>16. \A p \in DOMAIN walEnts :
         /\ walEnts[p].index <= rd.last
         /\ IF walEnts[p].index <= offset
            THEN InChosen(walEnts[p].index, walEnts[p])
            ELSE LogAt(walEnts[p].index) = walEnts[p] /\ walEnts[p].index \in offset+1..rd.last
  <2>1. \A p \in DOMAIN walEnts : walEnts[p].index <= rd.last
    BY <1>0, <1>5, Zenon DEF MemoryLog, WalIsLog
  <2>2. \A p \in DOMAIN walEnts :
          walEnts[p].index <= offset \/ walEnts[p].index \in offset+1..rd.last
    BY <1>1, <2>1
  <2> QED  BY <1>0, <2>1, <2>2, Zenon DEF MemoryLog, WalIsLog
<1>17. WalIsLog'
  <2>1. Reaches(SavedLast)'
    BY <1>0, <1>2, <1>5, <1>7, Zenon DEF MemoryLog, WalIsLog, Reaches
  <2>2. ASSUME NEW p \in DOMAIN walEnts
        PROVE  /\ walEnts[p].index <= SavedLast'
               /\ IF walEnts[p].index <= offset
                  THEN InChosen(walEnts[p].index, walEnts[p])
                  ELSE LogAt(walEnts[p].index)' = walEnts[p]
    BY <1>2, <1>7, <1>16, Zenon
  <2> QED  BY <1>2, <2>1, <2>2, Zenon DEF WalIsLog, InChosen
<1>18. CopyOfWal'
  BY <1>0, <1>2, Zenon DEF MemoryLog, CopyOfWal
<1>19. /\ DOMAIN promised'.log = (1..offset) \cup (offset+1..rd.last)
       /\ \A i \in DOMAIN promised'.log :
            promised'.log[i] = IF i \in offset+1..rd.last THEN LogAt(i) ELSE store[i]
  <2>1. {j \in DOMAIN store : j <= offset} = 1..offset
    BY <1>1, <1>8, <1>11
  <2> QED  BY <1>3, <1>4, <2>1, Zenon DEF WholeLog
<1>20. PromisedInLog'
  <2>1. DOMAIN WholeLog(ents)' = {j \in DOMAIN store' : j <= offset} \cup (offset+1..rd.last)
    BY <1>2, <1>3, <1>4, Zenon DEF WholeLog
  <2>2. \A i \in DOMAIN WholeLog(ents)' :
          WholeLog(ents)'[i] = IF i \in offset+1..rd.last THEN log[i] ELSE store'[i]
    BY <1>2, <1>3, <1>4, Zenon DEF WholeLog
  <2>3. \A i \in 1..offset : i \in DOMAIN store' /\ store'[i] = store[i]
    <3>1. \A i \in 1..offset : i \in 1..hs.commit /\ i <= raftApplied
      BY <1>1, <1>8
    <3> QED  BY <1>12, <3>1, Zenon
  <2>4. \A i \in 1..offset : i <= offset
    BY <1>1
  <2>5. ASSUME NEW i \in DOMAIN promised'.log
        PROVE  i \in DOMAIN WholeLog(ents)' /\ WholeLog(ents)'[i] = promised'.log[i]
    <3>1. i \in DOMAIN WholeLog(ents)'
      BY <1>19, <2>1, <2>3, <2>4, Zenon
    <3>2. CASE i \in offset+1..rd.last
      BY <1>4, <1>19, <2>2, <3>1, <3>2, Zenon
    <3>3. CASE i \notin offset+1..rd.last
      BY <1>19, <2>2, <2>3, <3>1, <3>3, Zenon
    <3> QED  BY <3>1, <3>2, <3>3, Zenon
  <2> QED  BY <2>5, Zenon DEF PromisedInLog
<1>21. PromisedSaved'
  <2> SUFFICES ASSUME NEW i \in DOMAIN promised'.log
               PROVE  /\ i > 0
                      /\ IF i <= compacted
                         THEN InChosen(i, promised'.log[i])
                         ELSE \E p \in DOMAIN walEnts :
                                /\ p <= walSynced /\ walEnts[p].index = i
                                /\ walEnts[p] = promised'.log[i]
    BY <1>2, Zenon DEF PromisedSaved, InChosen
  <2>1. i \in Nat /\ i > 0 /\ i <= rd.last
    BY <1>1, <1>8, <1>19
  <2>2. ASSUME i \notin offset+1..rd.last
        PROVE  i <= offset /\ InChosen(i, promised'.log[i])
    <3>1. i \in 1..offset /\ i \in 1..raftApplied
      BY <1>1, <1>8, <1>19, <2>1, <2>2
    <3> QED  BY <1>1, <1>11, <1>19, <2>2, <3>1
  <2>3. ASSUME i <= compacted  PROVE InChosen(i, promised'.log[i])
    <3>1. CASE i \in offset+1..rd.last
      <4>1. i \in offset+1..hs.commit
        BY <1>1, <1>8, <2>1, <2>3, <3>1
      <4> QED  BY <1>9, <1>19, <3>1, <4>1, Zenon
    <3> QED  BY <2>2, <3>1, Zenon
  <2>4. ASSUME ~(i <= compacted)
        PROVE  \E p \in DOMAIN walEnts :
                 /\ p <= walSynced /\ walEnts[p].index = i /\ walEnts[p] = promised'.log[i]
    <3>1. Reaches(rd.last)
      BY <1>0, <1>5, Zenon DEF MemoryLog, WalIsLog
    <3>2. Reaches(i)
      BY <1>0, <1>1, <2>1, <3>1, ReachesBelow, Zenon DEF DiskLog
    <3>3. PICK p \in DOMAIN walEnts : walEnts[p].index = i
      BY <2>4, <3>2, Zenon DEF Reaches
    <3>4. walSynced = walEnd /\ p <= walEnd
      BY <1>0 DEF MemoryFollows, TypeInv, TypeOK, DiskTypeOK
    <3>5. walEnts[p] = promised'.log[i]
      <4>1. CASE i \in offset+1..rd.last
        <5>1. ~(i <= offset)
          BY <1>1, <2>1, <4>1
        <5> QED  BY <1>16, <1>19, <3>3, <4>1, <5>1, Zenon
      <4>2. CASE i \notin offset+1..rd.last
        BY <1>16, <2>2, <3>3, <4>2, Zenon DEF InChosen
      <4> QED  BY <4>1, <4>2, Zenon
    <3> QED  BY <3>3, <3>4, <3>5, Zenon
  <2> QED  BY <2>1, <2>3, <2>4, Zenon
<1>22. ChosenGrows
  BY <1>2, Zenon DEF ChosenGrows
<1>23. WalContents' /\ WalChosen' /\ FilesSaved' /\ SyncedOutsideSave' /\ BootChosen'
  <2> USE <1>22 DEF DiskLog
  <2>1. WalContents' /\ WalChosen'
    BY <1>0, <1>2, KeepsWal, Zenon
  <2>2. FilesSaved'
    BY <1>0, <1>2, KeepsFiles, Zenon
  <2>3. SyncedOutsideSave'
    BY <1>0, <1>2, KeepsSynced, Zenon
  <2>4. BootChosen'
    BY <1>0, KeepsBoot, Zenon
  <2> QED  BY <2>1, <2>2, <2>3, <2>4, Zenon
<1>24. Up' /\ status' # "failed"
  BY <1>0, <1>2, Zenon DEF Up
<1> QED
  BY <1>13, <1>14, <1>15, <1>17, <1>18, <1>20, <1>21, <1>23, <1>24, Zenon
     DEF LogFacts, MemoryLog, DiskLog

-----------------------------------------------------------------------------
(* Stop, crashes *)

\* A step that changes nothing the facts are about, closing the WAL and writing a
\* snapshot file back aside, keeps them.
LEMMA LeavesLog ==
  ASSUME LogFacts, fOpen' => fOpen, FilesSaved', HalfWritten => HalfWritten',
         UNCHANGED <<walHs, walEnts, walEnd, walSynced, wEntries, status, pc, rd,
                     appliedIndex, store, hs, offset, ents, lastIndex, raftApplied,
                     promised, chosen, midSave, compacted>>
  PROVE  LogFacts'
<1>1. DiskLog
  BY Zenon DEF LogFacts
<1>2. Up' = Up
  BY Zenon DEF Up
<1>3. ChosenGrows
  BY Zenon DEF ChosenGrows
<1>4. WalContents' /\ WalChosen' /\ PromisedSaved' /\ SyncedOutsideSave' /\ BootChosen'
  <2> USE <1>1, <1>3 DEF DiskLog
  <2>1. WalContents' /\ WalChosen'
    BY KeepsWal, Zenon
  <2>2. PromisedSaved'
    BY KeepsPromise, Zenon
  <2>3. SyncedOutsideSave'
    BY KeepsSynced, Zenon
  <2>4. BootChosen'
    BY <1>2, KeepsBoot, Zenon
  <2> QED  BY <2>1, <2>2, <2>3, <2>4, Zenon
<1>5. Up => MemoryLog'
  <2>1. Up => MemoryLog
    BY Zenon DEF LogFacts
  <2>2. fOpen' \/ pc' \notin {"idle", "state"} => fOpen \/ pc \notin {"idle", "state"}
    BY Zenon
  <2> QED  BY <2>1, <2>2, KeepsMemory, Zenon
<1>6. ~Up => DOMAIN store' = {} /\ pc' = "idle"
  BY Zenon DEF LogFacts
<1>7. status' = "failed" => HalfWritten'
  BY Zenon DEF LogFacts
<1> QED  BY <1>2, <1>4, <1>5, <1>6, <1>7, Zenon DEF LogFacts, DiskLog

\* Stop, and a step of something else, keep the facts.
LEMMA StopLog ==
  ASSUME LogFacts, Stop \/ StopClosesWal \/ UNCHANGED vars
  PROVE  LogFacts'
<1>1. /\ UNCHANGED <<walHs, walEnts, walEnd, walSynced, walTorn, snaps, wEntries, status,
                     pc, rd, appliedIndex, store, hs, offset, ents, lastIndex,
                     raftApplied, promised, chosen, midSave, compacted>>
      /\ fOpen' => fOpen
  BY DEF Stop, StopClosesWal, vars, disk, walVars, node, raft, history
<1>2. FilesSaved'
  BY <1>1, KeepsFiles, Zenon DEF LogFacts, DiskLog, ChosenGrows
<1>3. HalfWritten' = HalfWritten
  BY <1>1, Zenon DEF HalfWritten, LatestSnapshot
<1> QED  BY <1>1, <1>2, <1>3, LeavesLog, Zenon

\* A process that is gone leaves an idle loop and an empty store.
LEMMA NothingRuns ==
  ASSUME ProcessGone
  PROVE  /\ ~Up' /\ status' # "failed" /\ DOMAIN store' = {} /\ pc' = "idle"
         /\ ~midSave' => ~midSave /\ pc # "entries"
BY Zenon DEF ProcessGone, Up, NoEntries

\* The end of the process, in an orderly way or not, leaves the disk as it is.
LEMMA CrashLog ==
  ASSUME LogFacts, Exit \/ Crash
  PROVE  LogFacts'
<1>1. /\ UNCHANGED <<walHs, walEnts, walEnd, walSynced, snaps, promised, chosen, compacted>>
      /\ ProcessGone /\ Up
  BY Zenon DEF Exit, Crash, disk
<1>2. /\ ~Up' /\ status' # "failed" /\ DOMAIN store' = {} /\ pc' = "idle"
      /\ ~midSave' => ~midSave /\ pc # "entries"
  BY <1>1, NothingRuns, Zenon
<1>3. DiskLog'
  BY <1>1, <1>2, KeepsDisk, Zenon DEF LogFacts, ChosenGrows
<1> QED  BY <1>2, <1>3, Zenon DEF LogFacts

-----------------------------------------------------------------------------
(* Init, and the faults *)

\* A machine on which the server has never run satisfies the invariant.
LEMMA LogInit == Init => LogInv
<1> SUFFICES ASSUME Init PROVE LogInv
  BY Zenon
<1>1. /\ DOMAIN walHs = {} /\ DOMAIN walEnts = {} /\ DOMAIN snaps = {}
      /\ DOMAIN promised.log = {} /\ DOMAIN chosen = {} /\ DOMAIN store = {}
      /\ walEnd = 0 /\ walSynced = 0 /\ compacted = 0 /\ status = "down" /\ pc = "idle"
  BY Zenon DEF Init, NoEntries
<1>2. FaultCounts
  BY Zenon DEF Init, FaultCounts
<1>3. ReadHardState = EmptyHs /\ ~Up
  BY <1>1, Zenon DEF ReadHardState, Up
<1>4. DiskLog
  <2>1. WalContents /\ WalChosen /\ PromisedSaved
    BY <1>1, Zenon DEF WalContents, WalChosen, PromisedSaved
  <2>2. FilesSaved
    BY <1>1 DEF FilesSaved
  <2>3. SyncedOutsideSave
    BY <1>1, <1>3 DEF SyncedOutsideSave, Reaches, EmptyHs
  <2>4. BootChosen
    BY <1>1, <1>3, Zenon DEF BootChosen
  <2> QED  BY <2>1, <2>2, <2>3, <2>4, Zenon DEF DiskLog
<1> QED  BY <1>1, <1>2, <1>3, <1>4, Zenon DEF LogInv, LogFacts

\* The counts of faults stay counts, and neither a failed Save nor a replaced suffix
\* is forgotten.
LEMMA FaultsNext ==
  ASSUME TypeInv, FaultCounts, [Next]_vars
  PROVE  /\ FaultCounts'
         /\ ~faulty' => ~faulty
         /\ ~Overwrote' => ~Overwrote
<1> DEFINE More(f) == faults' = [faults EXCEPT ![f] = @ + 1]
<1>1. \/ faults' = faults
      \/ \E f \in {"crash", "power", "io", "stop", "over"} : More(f)
  <2>1. CASE UNCHANGED vars
    BY <2>1, Zenon DEF vars, history
  <2>2. CASE Ready
    BY <2>2 DEF Ready, Emit
  <2>3. CASE SaveState \/ SaveEntry \/ SaveSync \/ Publish \/ SnapCreate \/ Compact
    BY <2>3, Zenon DEF SaveState, SaveEntry, SaveSync, Publish, SnapCreate, Compact, history
  <2>4. CASE SaveFails \/ SnapWrite \/ SnapFails \/ CompactFails
    BY <2>4, Zenon DEF SaveFails, SnapWrite, SnapFails, CompactFails, CountIOError
  <2>5. CASE Stop \/ Crash \/ PowerLoss
    BY <2>5, Zenon DEF Stop, Crash, PowerLoss
  <2>6. CASE StopClosesWal \/ Exit \/ Writeback \/ Start \/ StartFails
    BY <2>6, Zenon DEF StopClosesWal, Exit, Writeback, Start, StartFails, history
  <2> QED  BY <2>1, <2>2, <2>3, <2>4, <2>5, <2>6, Zenon DEF Next
<1>2. FaultCounts' /\ faults.over \in Nat /\ faults'.over \in Nat /\ faults.over <= faults'.over
  <2>1. CASE faults' = faults
    BY <2>1 DEF FaultCounts
  <2>2. ASSUME NEW f \in {"crash", "power", "io", "stop", "over"}, More(f)
        PROVE  /\ FaultCounts' /\ faults.over \in Nat /\ faults'.over \in Nat
               /\ faults.over <= faults'.over
    BY <2>2 DEF FaultCounts
  <2> QED  BY <1>1, <2>1, <2>2, Zenon
<1>3. ~Overwrote' => ~Overwrote
  BY <1>2 DEF Overwrote
<1>4. faulty' = faulty \/ faulty' = TRUE
  <2>1. CASE SaveFails
    BY <2>1, Zenon DEF SaveFails
  <2>2. CASE Ready \/ SaveState \/ SaveEntry \/ SaveSync \/ Publish \/ UNCHANGED vars
    BY <2>2, Zenon DEF Ready, SaveState, SaveEntry, SaveSync, Publish, vars, history
  <2>3. CASE SnapCreate \/ SnapWrite \/ SnapFails \/ Compact \/ CompactFails
    BY <2>3, Zenon DEF SnapCreate, SnapWrite, SnapFails, Compact, CompactFails, history
  <2>4. CASE Stop \/ StopClosesWal \/ Exit \/ Crash \/ PowerLoss
    BY <2>4, Zenon DEF Stop, StopClosesWal, Exit, Crash, PowerLoss, history
  <2>5. CASE Writeback \/ Start \/ StartFails
    BY <2>5, Zenon DEF Writeback, Start, StartFails, history
  <2> QED  BY <2>1, <2>2, <2>3, <2>4, <2>5, Zenon DEF Next
<1> QED  BY <1>2, <1>3, <1>4
=============================================================================
