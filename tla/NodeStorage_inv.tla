---------------------------- MODULE NodeStorage_inv ----------------------------
(***************************************************************************)
(* The inductive invariants of NodeStorage: TypeInv for its types, VoteInv *)
(* for the hard states, LogInv for the entries, on the disk and in memory. *)
(***************************************************************************)
EXTENDS NodeStorage

-----------------------------------------------------------------------------
(* Types *)

\* The domain of f, a set of numbers, is bounded.
Bounded(f) == \E n \in Nat : \A i \in DOMAIN f : i <= n

\* What the types of later steps rest on: the snapshot files are finitely many,
\* the library's log starts no later than the commit and applied indices, and
\* the Ready that is being handled fits the log and the WAL.
Shape ==
  /\ Bounded(snaps)
  /\ offset <= raftApplied /\ offset <= hs.commit
  /\ pc \in {"state", "entries", "publish"} =>
       /\ offset <= rd.commit /\ rd.commit <= rd.last
       /\ \A i \in offset+1..rd.last : i \in DOMAIN rd.ents \/ i <= lastIndex
  /\ pc = "entries" =>
       rd.start <= walEnd /\ \A p \in rd.start+1..walEnd : p \in DOMAIN walEnts

TypeInv == TypeOK /\ Shape

-----------------------------------------------------------------------------
(* Hard states *)

\* The state records of wal.log were written in order: each one is later than
\* those before it, and none is older than the bootstrap.
StateRecords ==
  /\ \A p \in DOMAIN walHs : walHs[p].commit > 0
  /\ \A p, q \in DOMAIN walHs : p <= q => HsLeq(walHs[p], walHs[q])

\* What the node's messages promised, a record that a power loss spares backs.
PromiseSaved ==
  \/ promised.hs = EmptyHs
  \/ \E p \in DOMAIN walHs : p <= walSynced /\ HsLeq(promised.hs, walHs[p])

\* No entry record comes before the first state record, and a snapshot file is
\* there only when a state record is on stable storage: Start never bootstraps,
\* or starts with an empty hard state, over either.
StateFirst ==
  /\ \A q \in DOMAIN walEnts : \E p \in DOMAIN walHs : p <= q
  /\ DOMAIN snaps # {} => \E p \in DOMAIN walHs : p <= walSynced

\* A running node's w.hardState is the last state record, and the library is
\* ahead of it only while a Ready waits for its Save.
MemoryFollows ==
  Up =>
    /\ wHard = ReadHardState
    /\ pc # "state" => hs = wHard /\ DOMAIN walHs # {}
    /\ pc = "state" =>
         /\ HsLeq(wHard, hs) /\ hs.commit > 0
         /\ \/ rd.hs = hs
            \/ rd.hs = EmptyHs /\ hs = wHard /\ DOMAIN walHs # {}
    /\ pc \in {"publish", "snapcreate", "snapwrite", "compact"} =>
         walSynced = walEnd

VoteInv ==
  ~faulty => StateRecords /\ PromiseSaved /\ StateFirst /\ MemoryFollows

-----------------------------------------------------------------------------
(* Entries *)

\* The cluster committed the entry e at index i.
InChosen(i, e) == i \in DOMAIN chosen /\ chosen[i] = e

-----------------------------------------------------------------------------
(* The disk *)

\* The entry records of wal.log are the log from the last compaction on, without
\* a gap, in order of their indices.
WalContents ==
  /\ \A p \in DOMAIN walEnts : walEnts[p].index > compacted
  /\ \A p, q \in DOMAIN walEnts : p < q => walEnts[p].index < walEnts[q].index
  /\ \A p \in DOMAIN walEnts : \A i \in compacted+1..walEnts[p].index :
       \E q \in DOMAIN walEnts : q <= p /\ walEnts[q].index = i

\* Those up to the last recorded commit index are the ones the cluster committed.
WalChosen ==
  \A p \in DOMAIN walEnts :
    walEnts[p].index <= ReadHardState.commit => InChosen(walEnts[p].index, walEnts[p])

\* wal.log has an entry for i, or was compacted past it.
Reaches(i) ==
  i <= compacted \/ \E p \in DOMAIN walEnts : walEnts[p].index = i

\* A power loss spares a state record that commits i, and the entry at i unless
\* it was compacted away.
Saved(i) ==
  /\ \E p \in DOMAIN walHs : p <= walSynced /\ i <= walHs[p].commit
  /\ i <= compacted \/ \E p \in DOMAIN walEnts : p <= walSynced /\ walEnts[p].index = i

\* wal.log is compacted, and a snapshot file made, only at an index that is saved,
\* and a snapshot file that is written holds the entries the cluster committed.
FilesSaved ==
  /\ compacted > 0 => Saved(compacted)
  /\ \A i \in DOMAIN snaps :
       /\ Saved(i)
       /\ snaps[i].kind # "torn" =>
            /\ DOMAIN snaps[i].data = 1..i
            /\ \A j \in 1..i : InChosen(j, snaps[i].data[j])

\* Every entry that messages spoke for is on stable storage, or was committed by
\* the cluster before wal.log was compacted past it.
PromisedSaved ==
  \A i \in DOMAIN promised.log :
    /\ i > 0
    /\ IF i <= compacted
       THEN InChosen(i, promised.log[i])
       ELSE \E p \in DOMAIN walEnts :
              p <= walSynced /\ walEnts[p].index = i /\ walEnts[p] = promised.log[i]

\* Outside a Save, wal.log is synced and has the entries its commit index speaks of.
SyncedOutsideSave ==
  ~midSave /\ pc # "entries" => walSynced = walEnd /\ Reaches(ReadHardState.commit)

\* The cluster committed the bootstrap entries before anything was written.
BootChosen ==
  \/ \A i \in 1..BootEntries : InChosen(i, Bootstrap[i])
  \/ DOMAIN chosen = {} /\ DOMAIN walHs = {} /\ ~Up

DiskLog ==
  /\ WalContents /\ WalChosen /\ FilesSaved /\ PromisedSaved /\ SyncedOutsideSave
  /\ BootChosen

-----------------------------------------------------------------------------
(* The running node *)

\* The run loop is in the part of the Ready branch before storage.Append.
Handling == pc \in {"state", "entries", "publish"}

\* The log with the entries of the Ready in hand, and its last index.
LogAt(i) == IF i \in DOMAIN rd.ents THEN rd.ents[i] ELSE ents[i]
LogEnd == IF Handling THEN rd.last ELSE lastIndex

\* The last index that is in wal.log.
SavedLast ==
  IF pc = "entries" THEN rd.next - 1 ELSE IF pc = "publish" THEN rd.last ELSE lastIndex

\* The Ready in hand extends the log, and Save is somewhere in its entries.
Batch ==
  IF Handling
  THEN /\ DOMAIN rd.ents = lastIndex+1..rd.last /\ lastIndex <= rd.last
       /\ rd.commit = hs.commit
       /\ pc = "state" => rd.next = lastIndex + 1
       /\ pc = "entries" => rd.next \in lastIndex+1..rd.last+1
  ELSE DOMAIN rd.ents = {}

\* The log is numbered by its indices, and agrees with the cluster up to the commit
\* index.
Numbered ==
  /\ offset <= raftApplied /\ raftApplied <= lastIndex /\ raftApplied <= hs.commit
  /\ hs.commit <= LogEnd
  /\ \A i \in offset+1..LogEnd : LogAt(i).index = i
  /\ \A i \in offset+1..hs.commit : InChosen(i, LogAt(i))

\* What was applied is what the cluster committed, up to appliedIndex.
Applied ==
  /\ appliedIndex = raftApplied /\ compacted <= appliedIndex
  /\ DOMAIN store = 1..appliedIndex
  /\ \A i \in 1..appliedIndex : InChosen(i, store[i])

\* wal.log has the log up to SavedLast.
WalIsLog ==
  /\ Reaches(SavedLast)
  /\ \A p \in DOMAIN walEnts :
       /\ walEnts[p].index <= SavedLast
       /\ IF walEnts[p].index <= offset
          THEN InChosen(walEnts[p].index, walEnts[p])
          ELSE LogAt(walEnts[p].index) = walEnts[p]

\* w.entries is what wal.log had before the Save in progress, unless the WAL is
\* closed and no Ready is past Save.
CopyOfWal ==
  fOpen \/ pc \notin {"idle", "state"} =>
    /\ DOMAIN wEntries = {p \in DOMAIN walEnts : pc = "entries" => p <= rd.start}
    /\ \A p \in DOMAIN wEntries : wEntries[p] = walEnts[p]

\* The log has every entry that messages spoke for.
PromisedInLog ==
  \A i \in DOMAIN promised.log :
    i \in DOMAIN WholeLog(ents) /\ WholeLog(ents)[i] = promised.log[i]

MemoryLog == Batch /\ Numbered /\ Applied /\ WalIsLog /\ CopyOfWal /\ PromisedInLog

\* What excuses a Start that failed.
HalfWritten ==
  \/ midSave \/ walTorn
  \/ LatestSnapshot > 0 /\ snaps[LatestSnapshot].kind = "torn"
  \/ LatestSnapshot < compacted

LogFacts ==
  /\ DiskLog
  /\ Up => MemoryLog
  /\ ~Up => DOMAIN store = {} /\ pc = "idle"
  /\ status = "failed" => HalfWritten

FaultCounts ==
  faults \in [crash : Nat, power : Nat, io : Nat, stop : Nat, over : Nat]

LogInv == FaultCounts /\ (~faulty /\ ~Overwrote => LogFacts)
=============================================================================
