------------------------------ MODULE NodeStorage ------------------------------
(***************************************************************************)
(* What one raft-kv server keeps on disk, and what it comes back with:     *)
(* the write-ahead log (server/pkg/storage/wal.go), the snapshot files     *)
(* (server/pkg/storage/snapshot.go) and the part of RaftNode that drives   *)
(* them (server/pkg/raftnode/raftnode.go: Start, Stop, the Ready branch of *)
(* run, createSnapshot).                                                   *)
(*                                                                         *)
(* The consensus library, go.etcd.io/etcd/raft v3.5, is external.  It      *)
(* appears as the action Ready, which hands the loop any batch the library *)
(* may hand it, and as Replay/Loadable, what MemoryStorage.Append and the  *)
(* library's start do with the values Start gives them.                    *)
(*                                                                         *)
(* The Ready branch is cut where a crash leaves a different disk behind:   *)
(* after each record written, after the sync, between the creation and the *)
(* writing of a snapshot file, and around the compaction.                  *)
(*                                                                         *)
(* A position in wal.log is a number that grows with every record, so that *)
(* dropping records leaves the order of the others alone; position 0 is    *)
(* the hard state that Compact writes at the head of a fresh file.         *)
(***************************************************************************)
EXTENDS Integers, FiniteSets, Functions

CONSTANTS
  Candidates,        \* the nodes a vote can go to
  NoVote,            \* HardState.Vote before the node has voted
  BootEntries,       \* peers in the initial configuration, one entry each
  SnapshotInterval,  \* rn.snapshotInterval, in applied entries
  KeepSnapshots,     \* snapshot files cleanup leaves (3 in the code)
  MaxIndex,          \* bound: highest log index
  MaxTerm,           \* bound: highest term
  MaxCrashes,        \* bound: process crashes
  MaxPowerLosses,    \* bound: machine crashes
  MaxIOErrors,       \* bound: failed writes, syncs, creates and opens
  MaxStops,          \* bound: orderly shutdowns
  MaxOverwrites,     \* bound: times a new leader replaces a log suffix
  MixFaults          \* bound: crashes may meet the three others in one behaviour

ASSUME ConstantsAssumption ==
  /\ NoVote \notin Candidates
  /\ BootEntries \in Nat \ {0}
  /\ SnapshotInterval \in Nat
  /\ KeepSnapshots \in Nat \ {0}
  /\ MaxIndex \in Nat /\ MaxTerm \in Nat
  /\ MaxCrashes \in Nat /\ MaxPowerLosses \in Nat /\ MaxIOErrors \in Nat
  /\ MaxStops \in Nat /\ MaxOverwrites \in Nat /\ MixFaults \in BOOLEAN

VARIABLES
  \* the disk
  walHs,         \* "state" records of wal.log, by position
  walEnts,       \* "entry" records of wal.log, by position
  walEnd,        \* the last position written
  walSynced,     \* the last position known to be on stable storage
  walTorn,       \* wal.log holds a record cut short
  snaps,         \* the snapshot files, by index
  \* the WAL object
  fOpen,         \* w.f is an open file
  wHard,         \* w.hardState
  wEntries,      \* w.entries, by position in the file
  \* the RaftNode
  status,        \* of the process: "down", "up", "failed"
  pc,            \* where the run loop stands in the Ready it handles
  rd,            \* that Ready
  stopped,       \* rn.stopped: "no", "yes", or "closed" when Stop closed the WAL
  appliedIndex,  \* rn.appliedIndex
  snapshotIndex, \* rn.snapshotIndex
  store,         \* the entries the KV store's contents come from, by index
  \* the consensus library
  hs,            \* its hard state
  offset,        \* index of the snapshot its log starts after
  ents,          \* its log after offset (MemoryStorage), by index
  lastIndex,     \* the last index of that log
  raftApplied,   \* the last index it handed over as committed
  \* history
  promised,      \* the hard state and log behind the last messages sent
  chosen,        \* the entries the cluster committed, by index
  faulty,        \* a Save has failed
  midSave,       \* the process died inside a Save, and no later one has synced
  compacted,     \* the highest index wal.log was compacted to
  faults         \* crashes, power losses, I/O errors, stops and overwrites so far

disk    == <<walHs, walEnts, walEnd, walSynced, walTorn, snaps>>
walVars == <<fOpen, wHard, wEntries>>
node    == <<status, pc, rd, stopped, appliedIndex, snapshotIndex, store>>
raft    == <<hs, offset, ents, lastIndex, raftApplied>>
history == <<promised, chosen, faulty, midSave, compacted, faults>>
vars    == <<disk, walVars, node, raft, history>>

-----------------------------------------------------------------------------
(* Values *)

Votes == Candidates \cup {NoVote}

HardState == [term : Nat, vote : Votes, commit : Nat]

EmptyHs == [term |-> 0, vote |-> NoVote, commit |-> 0]

Entry == [index : Nat \ {0}, term : Nat]

\* f is a function from some natural numbers to S.
IsPartial(f, S) ==
  /\ f = [i \in DOMAIN f |-> f[i]]
  /\ \A i \in DOMAIN f : i \in Nat /\ f[i] \in S

NoEntries == [i \in {} |-> [index |-> 1, term |-> 0]]

\* rd.HardState (empty when unchanged), rd.Entries by index, the last index of
\* the log they leave, the last of rd.CommittedEntries; and, for Save, the next
\* entry to write and the position its entries come after.
NoReady ==
  [hs |-> EmptyHs, ents |-> NoEntries, last |-> 0, commit |-> 0, next |-> 0,
   start |-> 0]

\* A snapshot file: torn (created, not written), in the page cache, or on
\* stable storage.
Torn == [kind |-> "torn", data |-> NoEntries]

SnapFile(kind, data) == [kind |-> kind, data |-> data]

\* f with k mapped to v.
Put(f, k, v) == [x \in DOMAIN f \cup {k} |-> IF x = k THEN v ELSE f[x]]

\* The whole log: the part the snapshot replaced, then the entries after it.
WholeLog(log) ==
  [i \in {j \in DOMAIN store : j <= offset} \cup DOMAIN log |->
     IF i \in DOMAIN log THEN log[i] ELSE store[i]]

MaxOf(S) == CHOOSE i \in S : \A j \in S : j <= i

\* b is a later hard state than a, or the same: what a node may replace a by
\* without going back on a term, a vote or a commit.
HsLeq(a, b) ==
  /\ a.commit <= b.commit
  /\ \/ a.term < b.term
     \/ a.term = b.term /\ a.vote \in {NoVote, b.vote}

Up == status = "up"

CrashesMayCome == MixFaults \/ faults.io + faults.stop + faults.over = 0
OthersMayCome == MixFaults \/ faults.crash + faults.power = 0

IOErrorLeft == faults.io < MaxIOErrors /\ OthersMayCome
CountIOError == faults' = [faults EXCEPT !.io = @ + 1]

\* Some Ready has replaced log entries that an earlier one had saved.
Overwrote == faults.over > 0

-----------------------------------------------------------------------------
(* The consensus library hands over a Ready *)

\* The log after the entries e from index first on: MemoryStorage.Append of a
\* batch that starts inside the log or right after it.
Spliced(e, last) ==
  [i \in offset+1..last |-> IF i \in DOMAIN e THEN e[i] ELSE ents[i]]

\* Hard states the library may move to: terms and commits never go back, and
\* a vote, once given, stands for its term.
NextHs ==
  {h \in [term : hs.term..MaxTerm, vote : Votes, commit : hs.commit..MaxIndex] :
     HsLeq(hs, h)}

\* Entries for the indices first..last, all but the first of a term no lower
\* than that of the entry before, none above term t.
Batches(first, last, t) ==
  {[i \in first..last |-> [index |-> i, term |-> f[i]]] :
     f \in {g \in [first..last -> 1..t] :
             \A i \in first..last : i > first => g[i] >= g[i-1]}}

\* The library moves to the hard state h and hands over the entries e.
Emit(h, first, last, e) ==
  LET newLast == IF e = NoEntries THEN lastIndex ELSE last
      log     == Spliced(e, newLast)
  IN  /\ e = NoEntries => first = lastIndex + 1 /\ last = 0
      /\ \/ first > lastIndex /\ UNCHANGED faults
         \/ /\ first <= lastIndex /\ e[first] # ents[first]
            /\ faults.over < MaxOverwrites /\ OthersMayCome
            /\ faults' = [faults EXCEPT !.over = @ + 1]
      /\ h.commit <= newLast
      /\ \A i \in hs.commit+1..h.commit :
           i \in DOMAIN chosen => log[i] = chosen[i]
      /\ h # hs \/ e # NoEntries \/ h.commit > raftApplied
      /\ rd' = [hs     |-> IF h = hs THEN EmptyHs ELSE h,
                ents   |-> e,
                last   |-> newLast,
                commit |-> h.commit,
                next   |-> first,
                start  |-> 0]
      /\ hs' = h
      /\ chosen' = [i \in DOMAIN chosen \cup (hs.commit+1..h.commit) |->
                      IF i \in DOMAIN chosen THEN chosen[i] ELSE log[i]]
      /\ pc' = "state"

\* The library emits its next Ready: a new hard state, entries to save (which
\* replace a conflicting suffix above the commit index, or extend the log), and
\* the entries up to the commit index to apply.  Entries become committed only
\* in agreement with what the cluster committed before.
Ready ==
  /\ Up /\ pc = "idle" /\ stopped = "no"
  /\ \E h \in NextHs, first \in hs.commit+1..lastIndex+1, last \in 0..MaxIndex :
     \E e \in Batches(first, last, h.term) : Emit(h, first, last, e)
  /\ UNCHANGED <<disk, walVars, status, stopped, appliedIndex, snapshotIndex,
                 store, offset, ents, lastIndex, raftApplied, promised, faulty,
                 midSave, compacted>>

-----------------------------------------------------------------------------
(* wal.Save *)

\* Save has a hard state to write: it is not empty and differs from the last.
StateDue == rd.hs # EmptyHs /\ rd.hs # wHard

SaveState ==
  /\ Up /\ pc = "state" /\ fOpen
  /\ pc' = "entries"
  /\ \/ /\ StateDue
        /\ walHs' = Put(walHs, walEnd + 1, rd.hs)
        /\ walEnd' = walEnd + 1
        /\ wHard' = rd.hs
     \/ ~StateDue /\ UNCHANGED <<walHs, walEnd, wHard>>
  /\ rd' = [rd EXCEPT !.start = walEnd']
  /\ UNCHANGED <<walEnts, walSynced, walTorn, snaps, fOpen, wEntries, status,
                 stopped, appliedIndex, snapshotIndex, store, raft, history>>

SaveEntry ==
  /\ Up /\ pc = "entries" /\ rd.next \in DOMAIN rd.ents
  /\ walEnts' = Put(walEnts, walEnd + 1, rd.ents[rd.next])
  /\ walEnd' = walEnd + 1
  /\ rd' = [rd EXCEPT !.next = @ + 1]
  /\ UNCHANGED <<walHs, walSynced, walTorn, snaps, walVars, status, pc, stopped,
                 appliedIndex, snapshotIndex, store, raft, history>>

\* Mutant: Save returns without calling Sync.
SaveSyncSkipsSync ==
  /\ Up /\ pc = "entries" /\ rd.next \notin DOMAIN rd.ents
  /\ wEntries' = [p \in DOMAIN wEntries \cup (rd.start+1..walEnd) |->
                    IF p \in DOMAIN wEntries THEN wEntries[p] ELSE walEnts[p]]
  /\ midSave' = FALSE
  /\ pc' = "publish"
  /\ UNCHANGED <<walHs, walEnts, walEnd, walSynced, walTorn, snaps, fOpen, wHard,
                 status, rd, stopped, appliedIndex, snapshotIndex, store, raft,
                 promised, chosen, faulty, compacted, faults>>

\* The sync succeeds, and the entries join w.entries.
SaveSync ==
  /\ Up /\ pc = "entries" /\ rd.next \notin DOMAIN rd.ents
  /\ walSynced' = walEnd
  /\ wEntries' = [p \in DOMAIN wEntries \cup (rd.start+1..walEnd) |->
                    IF p \in DOMAIN wEntries THEN wEntries[p] ELSE walEnts[p]]
  /\ midSave' = FALSE
  /\ pc' = "publish"
  /\ UNCHANGED <<walHs, walEnts, walEnd, walTorn, snaps, fOpen, wHard, status, rd,
                 stopped, appliedIndex, snapshotIndex, store, raft, promised,
                 chosen, faulty, compacted, faults>>

\* Save returns an error, which run only logs: the file is closed, or a write
\* fails (perhaps with part of the record in the file), or the sync fails.
SaveFails ==
  /\ Up
  /\ \/ /\ pc = "state" /\ ~fOpen
        /\ UNCHANGED <<walTorn, faults>>
     \/ /\ IOErrorLeft /\ CountIOError
        /\ \/ pc = "state" /\ fOpen /\ StateDue
           \/ pc = "entries" /\ rd.next \in DOMAIN rd.ents
        /\ walTorn' \in {walTorn, TRUE}
     \/ /\ IOErrorLeft /\ CountIOError
        /\ pc = "entries" /\ rd.next \notin DOMAIN rd.ents
        /\ UNCHANGED walTorn
  /\ faulty' = TRUE
  /\ pc' = "publish"
  /\ UNCHANGED <<walHs, walEnts, walEnd, walSynced, snaps, walVars, status, rd,
                 stopped, appliedIndex, snapshotIndex, store, raft, promised,
                 chosen, midSave, compacted>>

-----------------------------------------------------------------------------
(* The rest of the Ready branch *)

\* appliedIndex - snapshotIndex is a difference of uint64s: when it would be
\* negative it wraps to a number above every interval.
SnapshotDue(applied, snap) ==
  applied < snap \/ applied - snap >= SnapshotInterval

\* Mutant: rd.Entries is applied in place of rd.CommittedEntries.
PublishUncommitted ==
  /\ Up /\ pc = "publish"
  /\ LET log == Spliced(rd.ents, rd.last)
         new == raftApplied+1..rd.last
     IN  /\ ents' = log
         /\ lastIndex' = rd.last
         /\ store' = [i \in DOMAIN store \cup new |->
                        IF i \in new THEN log[i] ELSE store[i]]
         /\ appliedIndex' = IF new = {} THEN appliedIndex ELSE log[rd.last].index
         /\ promised' = [hs |-> hs, log |-> WholeLog(log)]
  /\ raftApplied' = rd.commit
  /\ pc' = IF SnapshotDue(appliedIndex', snapshotIndex) THEN "snapcreate"
                                                         ELSE "idle"
  /\ rd' = NoReady
  /\ UNCHANGED <<disk, walVars, status, stopped, snapshotIndex, hs, offset,
                 chosen, faulty, midSave, compacted, faults>>

\* Mutant: storage.Append(rd.Entries) is left out, so that the log the library takes
\* for stable has a gap.
PublishSkipsAppend ==
  /\ Up /\ pc = "publish"
  /\ LET log == Spliced(rd.ents, rd.last)
         new == raftApplied+1..rd.commit
     IN  /\ lastIndex' = rd.last
         /\ store' = [i \in DOMAIN store \cup new |->
                        IF i \in new THEN log[i] ELSE store[i]]
         /\ appliedIndex' = IF new = {} THEN appliedIndex ELSE log[rd.commit].index
         /\ promised' = [hs |-> hs, log |-> WholeLog(log)]
  /\ raftApplied' = rd.commit
  /\ pc' = IF SnapshotDue(appliedIndex', snapshotIndex) THEN "snapcreate"
                                                         ELSE "idle"
  /\ rd' = NoReady
  /\ UNCHANGED <<disk, walVars, status, stopped, snapshotIndex, hs, offset, ents,
                 chosen, faulty, midSave, compacted, faults>>

\* storage.Append(rd.Entries), transport.SendMessages(rd.Messages), then
\* applyEntry for every committed entry.  The messages speak for the hard state
\* and the log of this Ready, whether or not Save wrote them.  (After a replay
\* that misnumbered the log, the library may also panic in Advance or hand an
\* entry over again; the model goes on by place in the log.)
Publish ==
  /\ Up /\ pc = "publish"
  /\ LET log == Spliced(rd.ents, rd.last)
         new == raftApplied+1..rd.commit
     IN  /\ ents' = log
         /\ lastIndex' = rd.last
         /\ store' = [i \in DOMAIN store \cup new |->
                        IF i \in new THEN log[i] ELSE store[i]]
         /\ appliedIndex' = IF new = {} THEN appliedIndex ELSE log[rd.commit].index
         /\ promised' = [hs |-> hs, log |-> WholeLog(log)]
  /\ raftApplied' = rd.commit
  /\ pc' = IF SnapshotDue(appliedIndex', snapshotIndex) THEN "snapcreate"
                                                         ELSE "idle"
  /\ rd' = NoReady
  /\ UNCHANGED <<disk, walVars, status, stopped, snapshotIndex, hs, offset,
                 chosen, faulty, midSave, compacted, faults>>

\* os.WriteFile creates or truncates snapshot-<appliedIndex>.json ...
SnapCreate ==
  /\ Up /\ pc = "snapcreate"
  /\ snaps' = Put(snaps, appliedIndex, Torn)
  /\ pc' = "snapwrite"
  /\ UNCHANGED <<walHs, walEnts, walEnd, walSynced, walTorn, walVars, status, rd,
                 stopped, appliedIndex, snapshotIndex, store, raft, history>>

\* The files cleanup leaves: those with fewer than KeepSnapshots newer ones.
Cleanup(f) ==
  Restrict(f, {i \in DOMAIN f :
                 Cardinality({j \in DOMAIN f : j > i}) < KeepSnapshots})

\* ... and writes the contents, without a sync; cleanup then removes old files,
\* or fails, which Save only reports.
SnapWrite ==
  /\ Up /\ pc = "snapwrite"
  /\ LET written == Put(snaps, appliedIndex, SnapFile("cached", store))
     IN  \/ snaps' = Cleanup(written) /\ UNCHANGED faults
         \/ IOErrorLeft /\ CountIOError /\ snaps' = written
  /\ pc' = "compact"
  /\ UNCHANGED <<walHs, walEnts, walEnd, walSynced, walTorn, walVars, status, rd,
                 stopped, appliedIndex, snapshotIndex, store, raft, promised,
                 chosen, faulty, midSave, compacted>>

\* snap.Save fails, at the creation or at the write: createSnapshot returns.
SnapFails ==
  /\ Up /\ pc \in {"snapcreate", "snapwrite"}
  /\ IOErrorLeft /\ CountIOError
  /\ pc' = "idle"
  /\ UNCHANGED <<disk, walVars, status, rd, stopped, appliedIndex, snapshotIndex,
                 store, raft, promised, chosen, faulty, midSave, compacted>>

\* Mutant: Compact drops one entry too many.
RemainingOffByOne(index) ==
  Restrict(wEntries, {p \in DOMAIN wEntries : wEntries[p].index > index + 1})

\* What Compact(index) keeps of w.entries.
Remaining(index) ==
  Restrict(wEntries, {p \in DOMAIN wEntries : wEntries[p].index > index})

\* The rename puts a synced file with the hard state and the remaining entries
\* in the place of wal.log.
ReplaceWal ==
  /\ walHs' = IF wHard = EmptyHs THEN [p \in {} |-> EmptyHs]
                                 ELSE [p \in {0} |-> wHard]
  /\ walEnts' = Remaining(appliedIndex)
  /\ walSynced' = walEnd
  /\ walTorn' = FALSE
  /\ compacted' = IF appliedIndex > compacted THEN appliedIndex ELSE compacted

Compact ==
  /\ Up /\ pc = "compact"
  /\ ReplaceWal
  /\ fOpen' = TRUE
  /\ wEntries' = Remaining(appliedIndex)
  /\ snapshotIndex' = appliedIndex
  /\ pc' = "idle"
  /\ UNCHANGED <<walEnd, snaps, wHard, status, rd, stopped, appliedIndex, store,
                 raft, promised, chosen, faulty, midSave, faults>>

\* Compact returns an error: before the rename, when wal.log is untouched, or at
\* the reopen, when it is replaced, w.f is closed and w.entries is as before.
CompactFails ==
  /\ Up /\ pc = "compact"
  /\ IOErrorLeft /\ CountIOError
  /\ \/ UNCHANGED <<walHs, walEnts, walSynced, walTorn, compacted, fOpen>>
     \/ ReplaceWal /\ fOpen' = FALSE
  /\ pc' = "idle"
  /\ UNCHANGED <<walEnd, snaps, wHard, wEntries, status, rd, stopped, appliedIndex,
                 snapshotIndex, store, raft, promised, chosen, faulty, midSave>>

-----------------------------------------------------------------------------
(* Stop, crashes *)

\* Stop sets rn.stopped and stops the library: no Ready follows.
Stop ==
  /\ Up /\ stopped = "no" /\ faults.stop < MaxStops /\ OthersMayCome
  /\ faults' = [faults EXCEPT !.stop = @ + 1]
  /\ stopped' = "yes"
  /\ UNCHANGED <<disk, walVars, status, pc, rd, appliedIndex, snapshotIndex,
                 store, raft, promised, chosen, faulty, midSave, compacted>>

\* Stop closes the WAL, taking turns with Save and Compact on w.mu.  The run
\* loop may still be inside a Ready: nobody waits for it.
StopClosesWal ==
  /\ Up /\ stopped = "yes" /\ pc # "entries"
  /\ stopped' = "closed"
  /\ fOpen' = FALSE
  /\ UNCHANGED <<disk, wHard, wEntries, status, pc, rd, appliedIndex,
                 snapshotIndex, store, raft, history>>

\* Everything in memory is gone.
ProcessGone ==
  /\ status' = "down" /\ pc' = "idle" /\ rd' = NoReady /\ stopped' = "no"
  /\ fOpen' = FALSE /\ wHard' = EmptyHs /\ wEntries' = NoEntries
  /\ appliedIndex' = 0 /\ snapshotIndex' = 0 /\ store' = NoEntries
  /\ hs' = EmptyHs /\ offset' = 0 /\ ents' = NoEntries /\ lastIndex' = 0
  /\ raftApplied' = 0
  /\ midSave' = (midSave \/ pc = "entries")

\* main returns some time after Stop has.
Exit ==
  /\ Up /\ stopped = "closed"
  /\ ProcessGone
  /\ UNCHANGED <<disk, promised, chosen, faulty, compacted, faults>>

\* The process is killed; the page cache survives.
Crash ==
  /\ Up /\ faults.crash < MaxCrashes /\ CrashesMayCome
  /\ faults' = [faults EXCEPT !.crash = @ + 1]
  /\ ProcessGone
  /\ UNCHANGED <<disk, promised, chosen, faulty, compacted>>

\* What a power loss may leave of the snapshot files: one that was in the page
\* cache is on disk, empty or not there.
SnapshotsAfterPowerLoss ==
  {f \in UNION {[D -> {Torn} \cup {SnapFile("stable", snaps[i].data) :
                                    i \in DOMAIN snaps}] :
                D \in SUBSET DOMAIN snaps} :
     \A i \in DOMAIN snaps :
       /\ snaps[i].kind = "stable" => i \in DOMAIN f /\ f[i] = snaps[i]
       /\ snaps[i].kind = "torn" /\ i \in DOMAIN f => f[i] = Torn
       /\ snaps[i].kind = "cached" /\ i \in DOMAIN f =>
            f[i] \in {Torn, SnapFile("stable", snaps[i].data)}}

\* The machine goes down, with the process or after it: of the records past the
\* last sync a prefix is on disk, and the next one may be there in part.
PowerLoss ==
  /\ faults.power < MaxPowerLosses /\ CrashesMayCome
  /\ status # "failed"
  /\ faults' = [faults EXCEPT !.power = @ + 1]
  /\ ProcessGone
  /\ \E cut \in walSynced..walEnd :
       /\ walHs' = Restrict(walHs, {p \in DOMAIN walHs : p <= cut})
       /\ walEnts' = Restrict(walEnts, {p \in DOMAIN walEnts : p <= cut})
       /\ walEnd' = cut
       /\ walSynced' = cut
       /\ walTorn' \in {walTorn, walTorn \/ cut < walEnd}
  /\ snaps' \in SnapshotsAfterPowerLoss
  /\ UNCHANGED <<promised, chosen, faulty, compacted>>

\* The kernel writes a snapshot file back.
Writeback ==
  /\ \E i \in DOMAIN snaps :
       /\ snaps[i].kind = "cached"
       /\ snaps' = [snaps EXCEPT ![i].kind = "stable"]
  /\ UNCHANGED <<walHs, walEnts, walEnd, walSynced, walTorn, walVars, node, raft,
                 history>>

-----------------------------------------------------------------------------
(* Start *)

\* snap.Load: the file with the highest index above 0 (0 if there is none).
LatestSnapshot ==
  IF DOMAIN snaps \subseteq {0} THEN 0 ELSE MaxOf(DOMAIN snaps)

\* wal.ReadAll: the last state record, and every entry record in file order.
ReadHardState ==
  IF DOMAIN walHs = {} THEN EmptyHs ELSE walHs[MaxOf(DOMAIN walHs)]

ReadEntries ==
  [k \in 1..Cardinality(DOMAIN walEnts) |->
     walEnts[CHOOSE p \in DOMAIN walEnts :
               Cardinality({q \in DOMAIN walEnts : q <= p}) = k]]

\* MemoryStorage.Append(entries) on a storage that holds the snapshot s only.
\* It takes the slice for consecutive entries: it drops those up to s by their
\* number, panics unless the next one connects, and numbers the rest by place.
Replay(s, entries) ==
  LET n    == Cardinality(DOMAIN entries)
      drop == IF s + 1 > entries[1].index THEN s + 1 - entries[1].index ELSE 0
      next == entries[drop + 1].index
      skip == IF next = s THEN drop + 1 ELSE drop
  IN  IF n = 0 \/ entries[1].index + n - 1 < s + 1
      THEN [panic |-> FALSE, last |-> s, ents |-> NoEntries]
      ELSE IF next \notin {s, s + 1}
      THEN [panic |-> TRUE, last |-> s, ents |-> NoEntries]
      ELSE [panic |-> FALSE, last |-> s + n - skip,
            ents |-> [i \in s+1..s+n-skip |-> entries[i - s + skip]]]

\* raft.loadState panics on a commit index outside the log.
Loadable(h, s, last) == h = EmptyHs \/ h.commit \in s..last

Bootstrap == [i \in 1..BootEntries |-> [index |-> i, term |-> 1]]
BootHs == [term |-> 1, vote |-> NoVote, commit |-> BootEntries]

\* Start returns an error or panics; main exits, and the next attempt meets the
\* same disk.
StartFails ==
  /\ status = "down"
  /\ LET s == LatestSnapshot
         r == Replay(s, ReadEntries)
     IN  \/ s > 0 /\ snaps[s].kind = "torn"
         \/ walTorn
         \/ r.panic
         \/ ~Loadable(ReadHardState, s, r.last)
  /\ status' = "failed"
  /\ UNCHANGED <<disk, walVars, pc, rd, stopped, appliedIndex, snapshotIndex,
                 store, raft, history>>

\* NewRaftNode and Start: open the WAL, load the latest snapshot, replay the
\* WAL, and restart the library on both; with neither, bootstrap it.
Start ==
  /\ status = "down"
  /\ ~walTorn
  /\ LET s     == LatestSnapshot
         h     == ReadHardState
         r     == Replay(s, ReadEntries)
         fresh == s = 0 /\ DOMAIN walEnts = {}
     IN  /\ s > 0 => snaps[s].kind # "torn"
         /\ ~r.panic /\ Loadable(h, s, r.last)
         /\ wHard' = h /\ wEntries' = walEnts
         /\ store' = IF s > 0 THEN snaps[s].data ELSE NoEntries
         /\ appliedIndex' = s /\ snapshotIndex' = s
         /\ offset' = s /\ ents' = r.ents /\ lastIndex' = r.last
         /\ raftApplied' = s
         /\ IF fresh
            THEN /\ hs' = BootHs
                 /\ rd' = [hs |-> BootHs, ents |-> Bootstrap, last |-> BootEntries,
                           commit |-> BootEntries, next |-> 1, start |-> 0]
                 /\ chosen' = IF DOMAIN chosen = {} THEN Bootstrap ELSE chosen
                 /\ pc' = "state"
            ELSE /\ hs' = IF h = EmptyHs THEN [EmptyHs EXCEPT !.commit = s] ELSE h
                 /\ rd' = NoReady
                 /\ chosen' = chosen
                 /\ pc' = "idle"
  /\ fOpen' = TRUE /\ status' = "up" /\ stopped' = "no"
  /\ UNCHANGED <<disk, promised, faulty, midSave, compacted, faults>>

-----------------------------------------------------------------------------
Init ==
  /\ walHs = [p \in {} |-> EmptyHs] /\ walEnts = NoEntries
  /\ walEnd = 0 /\ walSynced = 0 /\ walTorn = FALSE
  /\ snaps = [i \in {} |-> Torn]
  /\ fOpen = FALSE /\ wHard = EmptyHs /\ wEntries = NoEntries
  /\ status = "down" /\ pc = "idle" /\ rd = NoReady /\ stopped = "no"
  /\ appliedIndex = 0 /\ snapshotIndex = 0 /\ store = NoEntries
  /\ hs = EmptyHs /\ offset = 0 /\ ents = NoEntries /\ lastIndex = 0
  /\ raftApplied = 0
  /\ promised = [hs |-> EmptyHs, log |-> NoEntries] /\ chosen = NoEntries
  /\ faulty = FALSE /\ midSave = FALSE /\ compacted = 0
  /\ faults = [crash |-> 0, power |-> 0, io |-> 0, stop |-> 0, over |-> 0]

Next ==
  \/ Ready \/ SaveState \/ SaveEntry \/ SaveSync \/ SaveFails
  \/ Publish \/ SnapCreate \/ SnapWrite \/ SnapFails \/ Compact \/ CompactFails
  \/ Stop \/ StopClosesWal \/ Exit \/ Crash \/ PowerLoss \/ Writeback
  \/ Start \/ StartFails

Spec == Init /\ [][Next]_vars

-----------------------------------------------------------------------------
(* Properties *)

AreSnapFiles(f) ==
  /\ f = [i \in DOMAIN f |-> f[i]]
  /\ \A i \in DOMAIN f :
       /\ i \in Nat /\ f[i] = SnapFile(f[i].kind, f[i].data)
       /\ f[i].kind \in {"torn", "cached", "stable"}
       /\ IsPartial(f[i].data, Entry)

DiskTypeOK ==
  /\ IsPartial(walHs, HardState) /\ DOMAIN walHs \subseteq 0..walEnd
  /\ IsPartial(walEnts, Entry) /\ DOMAIN walEnts \subseteq 0..walEnd
  /\ walEnd \in Nat /\ walSynced \in 0..walEnd /\ walTorn \in BOOLEAN
  /\ AreSnapFiles(snaps)

WalTypeOK ==
  /\ fOpen \in BOOLEAN /\ wHard \in HardState
  /\ IsPartial(wEntries, Entry) /\ DOMAIN wEntries \subseteq 0..walEnd

NodeTypeOK ==
  /\ status \in {"down", "up", "failed"}
  /\ pc \in {"idle", "state", "entries", "publish", "snapcreate", "snapwrite",
             "compact"}
  /\ rd.hs \in HardState /\ IsPartial(rd.ents, Entry)
  /\ rd.last \in Nat /\ rd.commit \in Nat /\ rd.next \in Nat /\ rd.start \in Nat
  /\ rd = [hs |-> rd.hs, ents |-> rd.ents, last |-> rd.last,
           commit |-> rd.commit, next |-> rd.next, start |-> rd.start]
  /\ stopped \in {"no", "yes", "closed"}
  /\ appliedIndex \in Nat /\ snapshotIndex \in Nat /\ IsPartial(store, Entry)

RaftTypeOK ==
  /\ hs \in HardState /\ raftApplied \in Nat /\ offset \in Nat /\ lastIndex \in Nat
  /\ ents \in [offset+1..lastIndex -> Entry]

HistoryTypeOK ==
  /\ promised.hs \in HardState /\ IsPartial(promised.log, Entry)
  /\ IsPartial(chosen, Entry)
  /\ faulty \in BOOLEAN /\ midSave \in BOOLEAN /\ compacted \in Nat

\* Every variable holds a value of its kind: the records of wal.log and the snapshot
\* files, the fields of WAL and RaftNode, and a library log that is contiguous from
\* the snapshot's index to its last one, after every replay.
TypeOK == DiskTypeOK /\ WalTypeOK /\ NodeTypeOK /\ RaftTypeOK /\ HistoryTypeOK

\* A node that is running holds a hard state no older than the one behind the
\* messages it has sent: run saves and syncs before it sends, so no crash, power
\* loss, compaction or restart takes a term, a vote or a commit index back.  The
\* exception the code leaves is a Save that failed.
VoteDurable == Up /\ ~faulty => HsLeq(promised.hs, hs)

\* A node that is running holds every log entry its messages spoke for, in the
\* WAL or in the snapshot it started from: compaction, the loss of a snapshot
\* file that was never synced, and crashes in the middle of a save included.
\* The exceptions the code leaves are a Save that failed and a log suffix that
\* was replaced, whose old entries stay in the file.
LogDurable ==
  Up /\ ~faulty /\ ~Overwrote =>
    \A i \in DOMAIN promised.log :
      i \in DOMAIN WholeLog(ents) /\ WholeLog(ents)[i] = promised.log[i]

\* Every entry applied to the KV store, before or after a restart, is the one
\* the cluster committed at that index, under the same two exceptions.
AppliesChosen ==
  ~faulty /\ ~Overwrote =>
    \A i \in DOMAIN store : i \in DOMAIN chosen /\ store[i] = chosen[i]

\* Start fails or panics only on a disk that a crash caught half-written: inside
\* a Save, inside the writing of the latest snapshot file, or with that file
\* not yet on stable storage when wal.log was already compacted.  After every
\* other crash the snapshot and the WAL fit together: the replayed entries
\* connect to the snapshot and the commit index lies within the log.
StartFailsOnlyHalfWritten ==
  status = "failed" /\ ~faulty /\ ~Overwrote =>
    \/ midSave \/ walTorn
    \/ LatestSnapshot > 0 /\ snaps[LatestSnapshot].kind = "torn"
    \/ LatestSnapshot < compacted

-----------------------------------------------------------------------------
(* What the documentation says, and the code does not do *)

\* "Restore state from WAL + snapshot" on restart (docs/PROGRESS.md): a node
\* that stopped can start again.
StartSucceeds == status # "failed"

\* "Durable persistence" (docs/PROGRESS.md): a node never goes back on a term or
\* a vote that its messages carried.
VoteKept == Up => HsLeq(promised.hs, hs)

\* "No conflicting values at same index" (README.md): what a node applies at an
\* index is what the cluster committed there, whatever its log held before (here
\* of a node whose saves all succeeded).
StateMachineSafety == ~faulty => \A i \in DOMAIN store : store[i] = chosen[i]
=============================================================================
