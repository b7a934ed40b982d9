# raft-kv and its operator: specifications and proofs

The repository holds a replicated key-value server (`server/`), a Kubernetes operator
that runs clusters of it (`operator/`) and tools that test both (`test/`). This directory
models the parts whose correctness depends on the order in which things happen, checks
them with TLC and proves the most important of their properties with TLAPS.

```
tlc -workers 2 -config MCNodeStorage.cfg MCNodeStorage   # a run
tlapm NodeStorage_proofs.tla                             # the proofs of one module
```

`PROJECT.json` lists the components, the runs, the source lines behind every definition,
the hazards, the findings and the theorems.

## Inventory

| Part | State | Operations | Where it is hard |
|---|---|---|---|
| WAL (`storage/wal.go`) | `wal.log`, `w.f`, `w.hardState`, `w.entries` | Save, ReadAll, Compact, Close | crash between records, torn tail, replaced suffix, failed reopen |
| Snapshots (`storage/snapshot.go`) | `snapshot-<n>.json` files | Save, Load, cleanup | in-place write without sync, WAL compacted right after |
| Ready loop (`raftnode/raftnode.go`) | `appliedIndex`, `snapshotIndex`, `stopped`, `isLeader` | Start, Stop, run, applyEntry, createSnapshot | errors only logged, Stop does not wait for run |
| Proposals (`raftnode.go`, `server/api.go`) | `rn.proposals`, the store, the history | GET, PUT, DELETE, ProposeAndWait, notifyProposal | guessed index, shared map, timeouts, leader changes |
| KV store (`kvstore/kvstore.go`) | `data`, `history` | Put, Get, Snapshot, Restore, RecordOperation | read between two applies |
| Consensus library (`go.etcd.io/etcd/raft`) | log, hard state | Ready, Append, Propose | external |
| Transport (`transport/transport.go`) | peer map | AddPeer, RemovePeer, SendMessages, handleRaftMessage | sends block the run loop; conf changes carry a name for an address |
| Admin service (`server/admin.go`) | none of its own | AddLearner, Promote, RemoveNode, TransferLeader, CaughtUp | answers before commit, no catch-up check |
| Controller (`controllers/raftcluster_controller.go`) | RaftCluster, StatefulSet, Service, caches | Reconcile and the three safety modes | stale caches, conflicts, lost answers, several controllers |
| Admin client (`pkg/adminclient`) | connections | RPC wrappers | no caller |
| Linearizability checker (`test/correctness/porcupine`) | none | conversion of a history, model | order of the events |
| Node IDs, configuration (`config/config.go`) | none | hash of a name, parsing of peers | two formats, collisions |

The server's parts meet in the Ready loop: it saves to the WAL, sends, applies to the
store, answers the waiting proposals and takes snapshots. The operator and the server meet
only through the StatefulSet: the controller makes no call of the admin service.

## Modules

| Module | Models |
|---|---|
| `NodeStorage` | WAL, snapshot files, Start, Stop and the Ready loop of one server |
| `KVService` | abstract: what the service promises its clients |
| `Proposals` | requests from the HTTP handler to the run loops and stores of all nodes |
| `Checker` | `Proposals` and the linearizability checker that reads its histories |
| `PeerConfig`, `RaftID` | the `-peers` flag and the Raft IDs, as operators |
| `Membership` | admin service, conf changes, configurations, transport, restarts |
| `Reconciler` | the controller, its caches and the API server |
| `NodeStorage_inv`, `Membership_inv` | the inductive invariants of the modules they name |
| `NodeStorage_proofs`, `NodeStorage_log`, `NodeStorage_restart` | theorems about `NodeStorage`: types and hard states, then the entries while a node runs, then compactions, power losses, restarts and the theorems about entries |
| `ProposalLemmas`, `Proposals_proofs` | theorems about `Proposals` and `Checker`: types, waiters and logs, then stores, the refinement and the recorded histories |
| `MembershipLemmas`, `Membership_proofs` | theorems about `Membership`: majorities, configurations, the loop over committed entries and elections, then every action and the theorems |
| `Reconciler_proofs` | theorems about `Reconciler` |
| `MC*` | instances, symmetry sets and bounds for TLC; one `.cfg` per run |

### NodeStorage

One server. `walHs` and `walEnts` are the records of `wal.log` by position, `snaps` the
snapshot files (torn, in the page cache, or stable), `wHard` and `wEntries` the fields of
`WAL`, `hs`, `ents`, `offset` the library's state. An iteration of the loop on a Ready is
cut wherever a crash leaves a different disk: `SaveState`, `SaveEntry` (one record each),
`SaveSync`, `Publish` (append, send, apply), `SnapCreate`, `SnapWrite` (with `Cleanup`),
`Compact`. `SaveFails`, `SnapFails` and `CompactFails` are the error returns, which the
loop only logs. `Stop`, `StopClosesWal` and `Exit` are the orderly shutdown, which does not
wait for the loop. `Crash` loses memory; `PowerLoss` also loses any suffix of what was not
synced and may leave a torn record. `Start` and `StartFails` are `NewRaftNode` and `Start`:
`ReadHardState` and `ReadEntries` are `ReadAll`, and `Replay` is what
`MemoryStorage.Append` does with the slice it is given.

The library is the action `Ready`: any batch with a hard state that does not go back,
entries that extend the log or replace a suffix above the commit index, and commits that
agree with what the cluster committed (`chosen`). `promised` records the hard state and the
log behind the last messages sent.

### Proposals

All nodes. A request's goroutine is cut at each use of shared state: `CheckLeader`,
`Propose` or `ProposeFails`, `ReadApplied` (`expectedIndex := rn.appliedIndex + 1`),
`Register`, `Receive` or `Timeout`, `Reply`; a GET is `GetStart`, `GetRead`, `GetReply`. A
run loop does `ApplyEntry`, `SetApplied`, `NotifyProposal` for each committed entry, and
`UpdateSoftState`. Consensus is what it promises: one log with a committed prefix; an
`Election` may replace the rest by any part of a log that lost before; a proposal at a node
that no longer leads arrives at the leader late or never. The key-value store is seen at
one key. The race on `appliedIndex` is on one machine word: the read yields a value the
loop stored. `InitAt(k, knows)` is a start with the first leader's empty entry committed or
not (`k`), and the leader aware of its role or not; `Init` is the earliest of them.

`KVService` is what a client can count on: the writes fall into one order that only grows,
each at most once and only if somebody asked; every server applies that order from the
front; a GET answers with the value of a front part its server has applied; a request ends
once. `Service` maps the committed log, `InStore`, the requests and their answers to it, and
`ServiceKept` says that `Proposals` implements it. Two promises are left out because the
code does not keep them: that an acknowledged write has its place (`AckedIsNotLost`) and that
a GET sees it (`ReadsAreLinearizable`).

`Checker` adds to `Proposals` the verdict of `test/correctness/porcupine`: the conversion
puts call and return of each record side by side, so Porcupine has one order to try
(`Accepts`). `Linearizable` is the definition to compare it with, over all orders that
respect which request ended before which began (`before`, a history variable).

### PeerConfig and Membership

`GetPeers` and `ParsePeerEntry` work on declarations already cut into host and port; the
flag of the instance has both formats, a blank piece, a piece without an ID and a repeated
one. `NodeIDToRaftID` is the hash over character codes; `MCMembership` evaluates it for the
names of a hundred pods.

`Membership` has all servers, each with its library (`recv`, `known`, `voters`, `learners`),
disk (`held`, `saved`, `snap`), run loop and transport (`applied`, `peers`). `HandleReady` is
an iteration of `run`: save, send, apply entry by entry, snapshot if due, Advance; applying a
conf change changes the library's configuration and the transport's peers, and ends the
process when it leaves no voters. The library takes messages and proposals between the
iterations (`SendAppend`, `ProposeConfChange`), so what it has received and what is saved
differ. A message is delivered only if the address in the sender's `peers` is where the
other listens, and may be lost. `AddLearner`, `Promote`, `RemoveNode` and `TransferLeader`
may be called for any node at any time; the Context of a change is the node's name, which as
an address lacks the port. `Restart` starts with the snapshot's configuration, which is
empty, the peers of the flag, and the entries above the snapshot to apply again. Elections
and commits are the library's: quorums of the configuration a node has applied.

### Reconciler

One RaftCluster, any number of controllers. `Reconcile` is cut at every API call: `Fetch`,
`InitStatus`, `EnsureService`, `CreateOrUpdate`, `NeedsReconfiguration`, `Reconfigure`,
`MarkDegraded`, `MarkReady`. Reads come from a cache that `RefreshCluster` and `RefreshSts`
bring up to date. `StatusUpdate` is the API server's answer to a status update: done, done
with the answer lost, failed, or refused because the copy is behind. Time appears only as
the end of a cooldown (`CooldownEnds`).

## What the runs check

Passing runs. States and minutes are those of two workers on a small machine.

| Run | Bounds | Checks | States |
|---|---|---|---|
| `storage` | 2 indices, 2 terms, a snapshot at every applied entry; either 2 crashes and 1 power loss, or 1 I/O error, 1 stop and 1 replaced suffix | `TypeOK`, `VoteDurable`, `LogDurable`, `AppliesChosen`, `StartFailsOnlyHalfWritten` | 1.0M, 1 min |
| `proposals` | 2 nodes, any 2 of two PUTs and a GET, 1 election | `TypeOK`, `WaitersAreWaiting`, `QuietAckIsSound`, `StoreFollowsLog`, `ServiceKept` | 0.7M, 2 min |
| `proposals_live` | 1 node, a PUT, a DELETE, a GET, no election | `EveryRequestEnds`, `AckComesTrue`, `AcceptedIsLinearizable` | 0.1M, 2 min |
| `reconciler` | 1 controller, sizes 3 and 5, all safety modes, 6 edits, 1 fault | `TypeOK`, `JointFollowsStep`, `ReconfigurationsFollowEdits`, `WorkflowInOrder`, `IndexCountsCommits`, `CooldownRespected`, `ReadyMeansScaled`, `Converges` | 0.8M, 2 min |
| `membership` | 3 servers; changes, elections and a crash, 5 in sum with a change or a crash counting 2; no snapshot; `maxLag` 0 | `TypeOK`, `ElectionSafety`, `CaughtUpIsDurable`, `ConfigsAgree`, `MembersArePeers`, `InitialPeersReachable` | 0.7M, 3 min |

What they show, in short:

- A server whose saves succeed never goes back on a term, a vote, a commit index or an
  entry its messages spoke for, as long as no suffix of its log was replaced; it applies
  what the cluster committed. A start fails only on a disk caught half-written.
- The map of waiters holds exactly requests that wait, whatever overwrites, answers and
  timeouts cross. A write proposed on a leader with nothing outstanding is answered only
  after its index is applied there. Every request ends, and with a lasting leader an
  acknowledged write comes true, if not at once. The servers implement `KVService`; in
  `Proposals` no server crashes or restarts, so this says nothing of what a disk brings back
  (`NodeStorage` does, and `storage_overwrite` shows it can be wrong).
- The checker never passes a history that is not linearizable. It may reject one that is:
  overlapping requests are tried in one order only, and DELETEs and PUTs that timed out are
  not recorded although they change the store.
- Promotion without a catch-up check does not endanger committed entries, against what the
  documents say of it (see below), since a voter with a short log only makes quorums harder
  to reach; until a server restarts from a snapshot,
  winners of elections have every committed entry. A catch-up that is reported is on disk.
  Servers agree on the configuration though each bootstraps in its own order, and the
  transport has a peer for each member; initial peers keep the address of the flag.
- The stored status walks the workflow in order, counts each committed configuration once
  and respects the cooldown, for any staleness of the copies decided on, because the API
  server refuses stale updates. (Only the status waits for the cooldown: the StatefulSet is
  scaled before it is looked at.) For the same reason a change of the spec is not taken for
  two, and Ready is reported only of a StatefulSet with the replicas of the spec, as long as
  one controller runs. The cluster converges once its spec rests.

Bounds. Two indices and two terms are enough for a change of term and for a snapshot with an
entry at and above it (the one at 1) or below and at it (the one at 2); two crashes and a
power loss reach a crash during the recovery from another. `MixFaults` says whether crashes
and power losses meet the other faults in one behaviour; the run `storage` keeps them apart,
the proofs do not. Two writes are the fewest that can share an index. The run `proposals`
starts with the first leader established (`StartedSpec`); every election brings the states
of a start back. Six edits are enough for the safe workflow, which gets to one more step
with an edit (see `reconciler_workflow`), to go all the way round; an unsafe mode reaches a
second reconfiguration, and so the cooldown, within two. A cluster may be created in any
mode and edited to the modes of `EditModes`: the mode without joint consensus has one
transition, which comes before the first edit. Several controllers are left to the proofs,
which cover any number. Two changes are enough to remove a node and add it again, or to have
one wait for another, and leave room for an election: among the elections of the run are
some in which a promoted learner votes that does not have the entry that promoted it. Two
elections and a crash let a leader fall and return. `maxLag` is 0 rather than 10, so that it
matters within logs of a few entries. Deadlock is not checked where a bound stops the system
or the requests are used up.

Fairness. `Proposals!Fairness`: goroutines and run loops are scheduled by the Go runtime, a
context expires after five seconds, and a connected majority commits what a lasting leader
holds; the arrival of a forwarded proposal is not assumed. `Reconciler!FairSpec`: the work
queue runs Reconcile again after every event, error and requeue, and watches deliver.

### Where the code and its documents disagree

Each of these runs states one sentence of the documents, and TLC finds a behaviour of the
code that contradicts it. `PROJECT.json` quotes the sentence and the line.

| Run | Property | What happens |
|---|---|---|
| `storage_start` | `StartSucceeds` | a kill between the state record and the entries of a Save leaves a commit index past the log, and every start panics; a kill inside the write of a snapshot file leaves a latest file that cannot be read |
| `storage_stop` | `VoteKept` | Stop closes the WAL under the loop, the failed Save is logged, the vote is sent and forgotten |
| `storage_overwrite` | `StateMachineSafety` | both versions of a replaced suffix are replayed by place; an uncommitted entry is applied |
| `proposals_lost` | `AckedIsNotLost` | a write is acknowledged by the entry a new leader committed in its place |
| `proposals_read` | `ReadsAreLinearizable` | a GET at a follower misses an acknowledged write |
| `reconciler_workflow` | `ScaleWalksWorkflow` | a scale-up completes without the workflow reaching its end |
| `membership_restart` | `ElectionSafety` | a server restarted from a snapshot has no configuration; the next AddNode makes it a majority of one, it commits alone, and the others elect a leader without that entry |

One disagreement is the other way round: the documents claim a failure that the code does not
have. README.md:43-46 says of voters added before they have caught up that this "Demonstrates
Election Safety violation" and that a "Stale node can win election with incomplete log";
demo/ARCHITECTURE.md:185-208 has kv-3 "become leader with STALE LOG" by the vote of kv-2, with
"COMMITTED ENTRIES LOST"; test/fault-injection/bug1-reproduce.sh:46-47, docs/PROGRESS.md:21, 37,
261 and 340-344 and the comment in raftcluster_controller.go:391-392 say the same. In
`Membership`, `Promote` is what the code does, an AddNode without any catch-up check, and
`ElectionSafety` holds in the run `membership` and, by `ElectionsAreSafe`, for any number of
changes: kv-2 has the longer log and refuses its vote, and a stale voter that votes for
somebody else completes only majorities that share a node with those that committed. The
same goes for the "Two conflicting commits possible at same log index" of the mode without
joint consensus (README.md:48-51): a server proposes one node at a time, and the library
refuses a second change before the first is applied. What does lose committed entries is a
restart from a snapshot (`membership_restart`), which none of these documents mentions. Neither
unsafe mode gets as far in any case: the operator sets its status and calls no server.

## What is proved

`NodeStorage_proofs` proves, for every number of candidates, every snapshot interval and
number of kept files, every bound and every number of faults:

- `TypeCorrect`: `Spec => []TypeOK`. `TypeInv` adds to `TypeOK` that the indices of the
  snapshot files are bounded and how the Ready under way fits the library's log; the
  first makes `MaxOf` (the latest snapshot) exist, the second makes the log after
  `Publish` contiguous. `ReadEntriesType` and `ReplayType` are the lemmas about recovery.
- `VotesAreDurable`: `Spec => []VoteDurable`. `VoteDurable` speaks of a running node, so it
  says nothing of the disk a crash leaves. `VoteInv` does, in four parts: the state records
  grow along the file (`StateRecords`); a synced state record covers the promise
  (`PromiseSaved`); no entry record and no snapshot is there without a state record before
  it, so `Start` never bootstraps over either (`StateFirst`); and a running node's `wHard`
  is the last record, with the library ahead of it only while a Ready waits for its Save
  (`MemoryFollows`). A power loss keeps a prefix that
  includes the sync, a compaction moves `wHard` to the head of a synced file, and a restart
  reads the last record: each keeps the promise covered.

`NodeStorage_log` and `NodeStorage_restart` add, under the same generality:

- `LogIsDurable`, `AppliesOnlyChosen` and `StartFailsOnlyThen`: `LogDurable`,
  `AppliesChosen` and `StartFailsOnlyHalfWritten` always hold. The three speak of a running
  node's log and store, or of a Start that failed, and a crash replaces all of these by what
  is read from the disk, so `LogInv` has two halves. `DiskLog`: the entry records of
  `wal.log` are the log from the last compaction on, without a gap (`WalContents`), and up to
  the recorded commit index they are the cluster's (`WalChosen`); compactions and snapshot
  files are only at indices that a power loss spares (`FilesSaved`); so is every entry a
  message spoke for, or it is compacted and the cluster's (`PromisedSaved`); outside a Save,
  the file is synced and reaches its commit index (`SyncedOutsideSave`). `MemoryLog`: the
  Ready in hand extends the log (`Batch`), the log is numbered by index and the cluster's up
  to the commit index (`Numbered`), so is the store (`Applied`), and `wal.log`, its copy in
  `w.entries` and the promise are parts of that log (`WalIsLog`, `CopyOfWal`,
  `PromisedInLog`). `ReadEntriesNumbered` and `ReplayNumbered` then show that what `ReadAll`
  and `MemoryStorage.Append` make of such a file is the log again: the place of a record
  among the records is its index minus the compacted ones. All of it is claimed only while no
  Save has failed and no suffix was replaced, which are the exceptions the properties make.

`Reconciler_proofs` proves, for every number of controllers, every set of sizes, any of the
safety modes and any number of edits and faults: `JointStateFollowsStep`,
`WorkflowStaysInOrder`, `IndexIsExact`, `CooldownIsRespected` and `TypesAreCorrect`, that
is `JointFollowsStep`, `WorkflowInOrder`, `IndexCountsCommits`, `CooldownRespected` and
`TypeOK` of the runs. None of them is inductive, because the server's object is overwritten
with a controller's copy. `StatusInv` adds what makes a copy safe to store: a fresh copy in
a cache is the server's object (`CacheInv`); so is the copy Reconcile works on, except after
an error, when it is the next step of the server's object and the cooldown is over
(`ObjInv`); and a status nobody initialized is empty (`NewInv`). `StatusUpdateKeeps` then
shows once, for all four outcomes of an update, that a `Storable` status keeps `StatusInv`
and is a step the properties allow; each writing action only has to show that its status
is `Storable` when the copy is fresh (`ReconfiguredStorable` for the three modes). The bound
`MaxAdvances` plays no part.

Two more theorems are about one controller, which is what leader election provides. (With two
they are false: one that works on an old spec scales the StatefulSet back, and the same edit
is carried out again.)

- `ReconfigurationsArePaidFor` proves `ReconfigurationsFollowEdits`. The invariant `Budget`
  counts what may still become a step of the workflow: the places where the replicas differ on
  the way from the server's object through the cache and the object in hand to the
  StatefulSet, and a step already decided on (`Owed`). An edit adds one; fetching, refreshing a
  cache or updating the StatefulSet moves a difference along, and can only lose some
  (`Detour`); a step that is stored spends one. A completed reconfiguration is one of these
  steps (`Counted`).
- `ReadyIsScaled` proves `ReadyMeansScaled`. From its update of the StatefulSet on, the
  controller holds the spec that it gave it (`Scaled`), and the server takes Ready from it
  only if its copy, spec included, is still the current one (`ObjInv`).

`ProposalLemmas` and `Proposals_proofs` prove, for any number of servers,
requests and elections and from each of the starts `InitAt`:

- `Safety`: `TypeOK`, `WaitersAreWaiting`, `QuietAckIsSound` and `StoreFollowsLog`.
- `Refinement`: `ServiceKept`, that is, every step is a step of `KVService` or none.
- `Correct`: both for `Spec`; `TypesAreCorrect` and `WaitersStayWaiting` state the two
  invariants of `Safety` that the runs check by themselves.
- `AcceptedHistories`: a history the checker accepts is linearizable. `RecordOrder` ties the
  histories to the requests: what is recorded has ended, a request saw only ended requests end
  before it began, and no record follows the record of a request that saw it end. The order
  of the records is then itself the order that linearizability asks for.

The inductive invariant is `Typed /\ Waiters /\ AtMostOnce /\ QuietGuess /\
StoreFollowsLog`. `Waiters` adds that only a waiting request is signalled. `AtMostOnce` is
what the refinement rests on: in the log, and in every log that lost an election and may come
back, a write has one place at most, none before it is proposed and none while its proposal is
still on its way to a leader; without the lost logs it would not survive an election.
`QuietGuess` relates the guessed index to the entry's own at each place of `ProposeAndWait`.
`CommittedKept` (no step changes what is committed) carries the stores over elections, and
`CommitDecides` shows that a commit is one `Decide`.

`MembershipLemmas` and `Membership_proofs` prove, for any servers, flags, intervals and
numbers of changes, elections and crashes:

- `CaughtUpHolds`: `Spec => []CaughtUpIsDurable`. What the leader believes a node has is on
  its disk, what is on its disk its library has, and that is part of the leader's log
  (`Inv`). `run` keeps this because the answer leaves with the Ready that saves.
- `ElectionsAreSafe`: `Spec /\ NoSnapshotRestored => ElectionSafety`, and under the same
  condition `TypeCorrect`, `ConfigsDoAgree`, `MembersHavePeers` and
  `InitialPeersAreReachable`, that is `TypeOK`, `ConfigsAgree`, `MembersArePeers` and
  `InitialPeersReachable` of the run. The last one also assumes `FlagsNameListeners`: the
  flags give the addresses where the initial peers listen.

`NoSnapshotRestored` says that no server starts with a snapshot on its disk. Snapshots may be
taken, in any number. The condition is needed: the snapshot has no configuration, and the run
`membership_restart` shows an unsafe election without it. Every behaviour of the run
`membership` meets it.

`ElectionSafety` speaks of one step, so its invariant `ElectInv` has to say why a majority of
the *winner's* configuration, which may be old or not yet committed, meets the majority that
committed an entry:

- `Chosen`: the committed entries are on the disks of a majority of a configuration at most
  one change older than the commit index, and each committed change was on a majority of the
  configuration before it.
- `KnowsEarlier`: who has a conf change in its log, or on its disk, knows that the change
  before it is committed, since the leader had applied it and an append carries the commit
  index. So a server with no committed change left to apply (what the library asks of a
  candidate) is at most one change behind its own log.
- `Leading`: at most one change of the leader's log is not applied at the leader; this is
  what the library's refusal of a second pending change comes to.
- `Config` and `Peers`: the configuration of a server is the one that the entries it has
  applied make (`VotersAt`, `LearnersAt`: for each node the last entry that names it), and so
  are the peers of its transport (`InTouch`). `LoopResult` shows it of the loop in
  `HandleReady`, which applies entries one by one and, after a restart, all of them again.
- `Indices` and `Types`: what is known to be committed is, and what is saved is on disk.

`CloseMajorities` is the heart: majorities of two configurations of one log with at most one
change between them have a voter in common. `WinnerHasCommitted` applies it to the winner's
configuration and that of `Chosen`: the common voter has the committed entries and no more
log than the winner. Suppose two committed changes are above what the winner has applied.
The second was committed on a majority of the configuration before it, one change from the
winner's, so the winner has it in its log, knows that the first is committed, and still has
it to apply: but then the library does not let it campaign.

The only assumptions on the constants are the `ConstantsAssumption` of the modules, which TLC
evaluates in the runs. Every safety property of a passing run is a theorem, under the
conditions named here. Only model-checked: liveness (`AckComesTrue`, `EveryRequestEnds` and
`Converges`), which is out of reach of the prover, and what `NodeIDToRaftID` computes.

Leaves that need no arithmetic name `Zenon`, which is quicker on them than the SMT solver.

## Assumptions of the models

- A rename is atomic and durable once Compact has returned (the code does not sync the
  directory); records reach the disk in order; a torn record is recognised as one.
- After a replay that misnumbered the log, the library may panic later or hand an entry
  over again; the model goes on by place in the log.
- The `rd.Snapshot` branch of the loop is left out. A leader that was itself restarted from a
  snapshot may send it to a follower that needs older entries; but the snapshot has an empty
  ConfState, and the receiving library ignores a snapshot whose configuration does not name
  it, so the branch is never reached. That such a follower then stays behind is left out too.
- The library counts a leader's own entries when it appends them, `Membership` when they are
  saved. Appends leave after the Save of their Ready, so an answer to them implies it; a
  leader that is its only voter hands over commit index and entries in the same Ready.
- `CreateOrUpdate` always sends an update, since the server's defaults differ from the
  object built by the controller; a copy that is behind is refused.
- The storage size of a cluster does not change.
- In `Membership` disks are sound (`NodeStorage` has their faults), an uncommitted suffix
  that loses an election is forgotten at once (`Proposals` has its return), a server is
  restarted with a flag that names at least the initial peers, and pods have different Raft
  IDs. There is one leader at a time: a deposed one that still answers CaughtUp is left out.

## Plan

Done: every component with state of its own, the refinement of `KVService` and the theorems
above. What would come next:

1. `Cluster`: several `NodeStorage` servers under `Membership`, so that torn disks and
   elections meet; one leader per term as long as no Save fails.
2. Liveness of `Membership`: a learner catches up once it is reachable.

## Not modelled

- The admin client (`pkg/adminclient`) has no caller: the controller never talks to the
  servers, so `Reconciler` and `Membership` do not interact.
- Servers that the operator adds later bootstrap on their own, with a longer flag than the
  servers before them; their logs have other first entries, and the library's reaction to
  that is not specified by anything in the repository. The term 0 of a snapshot, which the
  library reads when it matches logs at the snapshot's index, is left out likewise.
- `Transport.Stop` only happens as the process ends, which is a crash; `handleSnapshot`
  hands a message to the library that the library ignores (see the assumptions). How long a
  send holds up the run loop is a matter of time, which no module has.
- Malformed requests, health and history endpoints, flags, logging, metrics, the load
  generator and the scripts change no state that a property speaks of; generated code
  (`admin.pb.go`, `zz_generated.deepcopy.go`) is not modelled.
