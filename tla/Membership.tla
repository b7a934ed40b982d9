------------------------------ MODULE Membership ------------------------------
(***************************************************************************)
(* Who belongs to the cluster and how the servers reach each other: the    *)
(* admin service (server/pkg/server/admin.go), the conf changes it puts    *)
(* into the log and applyEntry takes out of it, the peers every server     *)
(* starts with and the transport between them (raftnode.go: Start, run,    *)
(* applyEntry, createSnapshot; transport/transport.go; config/config.go).  *)
(*                                                                         *)
(* A server's run loop handles one Ready at a time: it saves, sends the    *)
(* messages one after another, applies what is committed, entry by entry,  *)
(* takes a snapshot if one is due and calls Advance.  The library works    *)
(* beside it, in a goroutine of its own: it takes messages and proposals   *)
(* at any time.                                                            *)
(*                                                                         *)
(* The library (go.etcd.io/etcd/raft v3.5) is external: entries of the     *)
(* first configuration at bootstrap, one change of the configuration at a  *)
(* time, quorums of the configuration a node has applied.  An uncommitted  *)
(* end of a log that loses an election is forgotten at once (Proposals     *)
(* models its return).  Nodes stand for the Raft IDs of their names.       *)
(***************************************************************************)
EXTENDS PeerConfig, FiniteSets, Functions

CONSTANTS
  Nodes,             \* the servers, by name
  None,              \* no server
  InitialPeers,      \* the -peers flag of a server's first start
  BootOrder,         \* the order in which each server took the peers from its map then
  LaterPeers,        \* the flags a server may be restarted with
  SnapshotInterval,  \* entries applied between two snapshots
  MaxLag,            \* maxLag in IsNodeCaughtUp: 10
  MaxChanges,        \* bound: conf changes proposed
  MaxElections,      \* bound: elections
  MaxCrashes,        \* bound: crashes
  MaxEvents          \* bound: the three in sum, changes and crashes counting 2

\* The voters of the first configuration, and how many entries name them.
Initial == DOMAIN GetPeers(InitialPeers)
Boot == Cardinality(Initial)

ASSUME ConstantsAssumption ==
  /\ IsFiniteSet(Nodes) /\ Initial \subseteq Nodes /\ Initial # {} /\ None \notin Nodes
  /\ \A flag \in LaterPeers :
       Initial \subseteq DOMAIN GetPeers(flag) /\ DOMAIN GetPeers(flag) \subseteq Nodes
  /\ BootOrder \in [Nodes -> Bijection(1 .. Boot, Initial)]
  /\ SnapshotInterval \in Nat \ {0} /\ MaxLag \in Nat
  /\ MaxChanges \in Nat /\ MaxElections \in Nat /\ MaxCrashes \in Nat /\ MaxEvents \in Nat

VARIABLES
  \* the cluster's log and its leader
  log,         \* the leader's log after the Boot entries
  commit,      \* the highest index a leader has found committed
  leader,      \* the leading server, None when it is gone
  term,        \* elections since the first
  termStart,   \* the index of the leader's first entry
  pendingConf, \* r.pendingConfIndex of the leader
  match,       \* Match of each node, as the leader knows it
  changes,     \* conf changes proposed so far
  \* the library in each server
  recv,        \* the length of its log
  known,       \* its commit index
  voters, learners, \* its configuration
  owes,        \* its next Ready has an answer for the leader
  \* each server's disk
  held,        \* the length of the log in the WAL
  saved,       \* the commit index in the WAL
  snap,        \* the index of the latest snapshot, 0 without one
  \* each RaftNode and its Transport
  up,          \* it runs
  applied,     \* rn.appliedIndex
  peers,       \* transport.peers: a map to addresses
  crashes      \* crashes so far

cluster == <<log, commit, leader, term, termStart, pendingConf, match, changes>>
library == <<recv, known, voters, learners, owes>>
disk == <<held, saved, snap>>
server == <<up, applied, peers>>
vars == <<cluster, library, disk, server, crashes>>

EventsLeft == MaxEvents - (2 * changes + term + 2 * crashes)

Set(f, n, x) == [f EXCEPT ![n] = x]
Larger(a, b) == IF a > b THEN a ELSE b
Smaller(a, b) == IF a < b THEN a ELSE b
----------------------------------------------------------------------------
(* Entries and configurations. *)

\* raftpb.ConfChange, and an entry that is none.
Change(type, node, context) == [type |-> type, node |-> node, context |-> context]
Normal == Change("Normal", None, NoAddress)

\* The last index of the leader's log, and what a node's log has at an index: the
\* entries of the initial peers are its own, in the order its map gave them.
LastIndex == Boot + Len(log)
EntryAt(n, i) ==
  IF i <= Boot THEN Change("AddNode", BootOrder[n][i], NoAddress) ELSE log[i - Boot]

Members(n) == voters[n] \cup learners[n]
Majority(q, v) == q \subseteq v /\ 2 * Cardinality(q) > Cardinality(v)

\* ApplyConfChange.
VotersAfter(v, e) ==
  CASE e.type = "AddNode" -> v \cup {e.node}
    [] e.type \in {"AddLearner", "RemoveNode"} -> v \ {e.node}
    [] OTHER -> v
LearnersAfter(l, e) ==
  CASE e.type = "AddLearner" -> l \cup {e.node}
    [] e.type \in {"AddNode", "RemoveNode"} -> l \ {e.node}
    [] OTHER -> l
----------------------------------------------------------------------------
(* The transport. *)

RaftPort == 9000
HttpPort == 80

\* Mutant: AddPeer replaces the address it has.
AddPeerReplaces(map, id, addr) ==
  [x \in DOMAIN map \cup {id} |-> IF x = id THEN addr ELSE map[x]]

\* AddPeer: a peer that is there already keeps its address.
AddPeer(map, id, addr) ==
  [x \in DOMAIN map \cup {id} |-> IF x \in DOMAIN map THEN map[x] ELSE addr]

RemovePeer(map, id) == [x \in DOMAIN map \ {id} |-> map[x]]

\* The address that n has for m is where m's transport listens.
Reaches(n, m) == m \in DOMAIN peers[n] /\ peers[n][m] = Address(m, RaftPort)

\* Mutant: m answers at once, before its run loop has saved anything.
SendAppendUnsaved(m) ==
  /\ leader # None /\ m \in Members(leader) \ {leader}
  /\ Reaches(leader, m) /\ up[m]
  /\ ~ (recv[m] >= held[leader] /\ known[m] >= saved[leader] /\ match[m] >= held[m])
  /\ recv' = Set(recv, m, Larger(recv[m], held[leader]))
  /\ known' = Set(known, m, Larger(known[m], saved[leader]))
  /\ match' = Set(match, m, Larger(recv[m], held[leader]))
  /\ UNCHANGED <<log, commit, leader, term, termStart, pendingConf, changes, voters, learners,
                 owes, disk, server, crashes>>

\* SendMessages at the leader, Peer.Send and handleRaftMessage on the other side: m's
\* library takes what the leader's last Ready had saved and owes an answer.  An append
\* that brings nothing new and asks nothing is left out, as is one that is lost.
SendAppend(m) ==
  /\ leader # None /\ m \in Members(leader) \ {leader}
  /\ Reaches(leader, m) /\ up[m]
  /\ ~ (recv[m] >= held[leader] /\ known[m] >= saved[leader] /\ match[m] >= held[m])
  /\ recv' = Set(recv, m, Larger(recv[m], held[leader]))
  /\ known' = Set(known, m, Larger(known[m], saved[leader]))
  /\ owes' = Set(owes, m, TRUE)
  /\ UNCHANGED <<cluster, voters, learners, disk, server, crashes>>

\* The same way back: the leader's library takes an answer for the log up to i, or
\* the answer is lost (SendMessages logs the error).
SendAnswer(n, i) ==
  /\ owes' = Set(owes, n, FALSE)
  /\ match' \in {match} \cup
       (IF owes[n] /\ leader # None /\ n \in Members(leader) /\ Reaches(n, leader)
        THEN {Set(match, n, Larger(match[n], i))} ELSE {})
----------------------------------------------------------------------------
(* The run loop. *)

\* The Ready has something to save or a committed entry to apply.
HasReady(n) ==
  /\ up[n]
  /\ ~ (~ owes[n] /\ recv[n] = held[n] /\ known[n] = saved[n] /\ applied[n] >= known[n])

\* applyEntry: ApplyConfChange, which panics when it leaves no voters, then the peers;
\* an address comes from the Context.
ApplyEntry(s, e) ==
  IF e.type = "Normal" THEN s
  ELSE [voters |-> VotersAfter(s.voters, e),
        learners |-> LearnersAfter(s.learners, e),
        peers |-> CASE e.type = "RemoveNode" -> RemovePeer(s.peers, e.node)
                    [] e.context # NoAddress -> AddPeer(s.peers, e.node, e.context)
                    [] OTHER -> s.peers,
        panics |-> s.panics \/ VotersAfter(s.voters, e) = {}]

\* The loop over rd.CommittedEntries: all that is committed and not yet applied.
Committed(n) == applied[n] + 1 .. known[n]
ApplyCommitted(n) ==
  LET after[i \in applied[n] .. known[n]] ==
        IF i = applied[n]
        THEN [voters |-> voters[n], learners |-> learners[n], peers |-> peers[n],
              panics |-> FALSE]
        ELSE ApplyEntry(after[i - 1], EntryAt(n, i))
  IN  after[known[n]]

\* Mutant: the hard state of a Ready is not saved.
SaveEntriesOnly(n) == held' = Set(held, n, recv[n]) /\ UNCHANGED saved

\* wal.Save(rd.HardState, rd.Entries)
Save(n) == saved' = Set(saved, n, known[n]) /\ held' = Set(held, n, recv[n])

\* SendMessages, and at a leader ApplyConfChange, which drops the progress of a node.
SendAndForget(n) ==
  IF n = leader
  THEN LET removed == {m \in Nodes : \E i \in Committed(n) :
                     EntryAt(n, i).type = "RemoveNode" /\ EntryAt(n, i).node = m}
       IN  /\ match' = [m \in Nodes |-> IF m \in removed THEN 0 ELSE match[m]]
           /\ UNCHANGED owes
  ELSE SendAnswer(n, recv[n])

\* A majority of the leader's voters has saved its log up to k, as far as it knows.  The
\* library counts the leader's own entries when it appends them.  Nobody can tell: the
\* appends, and a commit of a leader that is its only voter, leave with the Ready whose
\* Save writes those entries.
OnMajority(k) ==
  Majority({m \in voters[leader] : (IF m = leader THEN held[m] ELSE match[m]) >= k},
           voters[leader])

\* maybeCommit, after an answer, a save of the leader or a change of its configuration:
\* an entry of the leader's term, and so all before it, is committed.
MaybeCommit ==
  LET ks == {k \in termStart .. LastIndex : leader # None /\ OnMajority(k)'}
  IN  IF \E k \in ks : k > known[leader]
      THEN \E k \in ks :
             /\ \A j \in ks : j <= k
             /\ known' = Set(known, leader, k) /\ commit' = Larger(commit, k)
      ELSE UNCHANGED <<known, commit>>

\* The latest snapshot once the entries up to i are applied: createSnapshot when the
\* one at s is SnapshotInterval entries back.  It has no configuration in it.
SnapshotDue(s, i) == IF i - s >= SnapshotInterval THEN i ELSE s

\* The rest of an iteration: what is committed is applied, a snapshot is taken if one
\* is due, Advance.
Advance(n, s) ==
  /\ voters' = Set(voters, n, s.voters)
  /\ learners' = Set(learners, n, s.learners)
  /\ peers' = Set(peers, n, s.peers)
  /\ applied' = Set(applied, n, known[n])
  /\ snap' = Set(snap, n, SnapshotDue(snap[n], known[n]))
  /\ UNCHANGED <<log, leader, term, termStart, pendingConf, changes, recv, up>>
  /\ MaybeCommit

\* A server's memory is gone; its disk keeps the log up to h and the commit index c.
ProcessGone(n, h, c) ==
  /\ up' = Set(up, n, FALSE)
  /\ applied' = Set(applied, n, 0) /\ peers' = Set(peers, n, << >>)
  /\ recv' = Set(recv, n, h) /\ known' = Set(known, n, c)
  /\ voters' = Set(voters, n, {}) /\ learners' = Set(learners, n, {})
  /\ leader' = IF n = leader THEN None ELSE leader
  /\ UNCHANGED <<log, commit, term, termStart, pendingConf, changes, snap>>

\* An iteration on a Ready: save, send, apply.  ApplyConfChange may end the process.
HandleReady(n) ==
  LET s == ApplyCommitted(n) IN
  /\ HasReady(n)
  /\ Save(n)
  /\ SendAndForget(n)
  /\ IF s.panics THEN ProcessGone(n, recv[n], known[n]) ELSE Advance(n, s)
  /\ UNCHANGED crashes
----------------------------------------------------------------------------
(* The library: elections. *)

\* The servers whose vote n can ask for and get.
Electors(n) ==
  {m \in voters[n] : m = n \/ (up[m] /\ Reaches(n, m) /\ Reaches(m, n) /\ recv[m] <= recv[n])}

\* n wins a term: it is a voter of its own configuration, has no committed change
\* left to apply, and a majority of its voters has no more than its log.
Election(n) ==
  /\ term < MaxElections /\ EventsLeft >= 1
  /\ up[n] /\ n # leader /\ n \in voters[n]
  /\ \A i \in applied[n] + 1 .. known[n] : EntryAt(n, i).type = "Normal"
  /\ Majority(Electors(n), voters[n])
  /\ term' = term + 1 /\ leader' = n
  /\ log' = Append(SubSeq(log, 1, recv[n] - Boot), Normal)
  /\ termStart' = recv[n] + 1 /\ pendingConf' = recv[n]
  /\ match' = [m \in Nodes |-> 0]
  /\ recv' = [m \in Nodes |-> IF m = n THEN recv[n] + 1 ELSE Smaller(recv[m], recv[n])]
  /\ held' = [m \in Nodes |-> Smaller(held[m], recv[n])]
  /\ owes' = [m \in Nodes |-> FALSE]
  /\ UNCHANGED <<commit, changes, known, voters, learners, saved, snap, server,
                 crashes>>
----------------------------------------------------------------------------
(* The admin service.  A call answers as soon as the library has the         *)
(* proposal: that it is then lost, refused or left uncommitted is a call     *)
(* that changes nothing, or nothing yet.                                     *)

\* The proposal reaches the leader, from the server called or by way of it.  While
\* an earlier change may be unapplied, an empty entry takes the place of this one.
ProposeConfChange(cc) ==
  /\ changes < MaxChanges /\ EventsLeft >= 2
  /\ leader # None /\ {n \in Nodes : up[n] /\ (n = leader \/ Reaches(n, leader))} # {}
  /\ leader \in Members(leader)
  /\ log' = Append(log, IF pendingConf > applied[leader] THEN Normal ELSE cc)
  /\ pendingConf' = IF pendingConf > applied[leader] THEN pendingConf ELSE LastIndex + 1
  /\ recv' = Set(recv, leader, LastIndex + 1)
  /\ changes' = changes + 1
  /\ UNCHANGED <<commit, leader, term, termStart, match, known, voters,
                 learners, owes, disk, server, crashes>>

\* The Context is the node's name, whatever address the request carries: read as an
\* address, it names the host and the port of plain HTTP.
AsAddress(m) == Address(m, HttpPort)

AddLearner(m) == ProposeConfChange(Change("AddLearner", m, AsAddress(m)))

\* The catch-up check is a comment.
Promote(m) == ProposeConfChange(Change("AddNode", m, AsAddress(m)))

RemoveNode(m) == ProposeConfChange(Change("RemoveNode", m, NoAddress))

\* The leader tells a voter whose log is as long as its own to campaign at once.  (A
\* call at a server that only believes it leads is forwarded to the leader.)
TransferLeader(m) ==
  /\ leader # None /\ m \in voters[leader] \ {leader}
  /\ Reaches(leader, m) /\ match[m] = LastIndex
  /\ Election(m)

\* IsNodeCaughtUp at the leader, from its progress of m; CaughtUp says no elsewhere.
IsNodeCaughtUp(m) == m \in Members(leader) /\ known[leader] <= match[m] + MaxLag
CaughtUp(n, m) == n = leader /\ IsNodeCaughtUp(m)
----------------------------------------------------------------------------
(* Crashes and starts. *)

Crash(n) ==
  /\ crashes < MaxCrashes /\ EventsLeft >= 2
  /\ up[n]
  /\ ProcessGone(n, held[n], saved[n])
  /\ owes' = Set(owes, n, FALSE)
  /\ crashes' = crashes + 1
  /\ UNCHANGED <<match, held, saved>>

\* transport.AddPeer for every peer of the flag but the server itself.
StartPeers(n, flag) == RemovePeer(GetPeers(flag), n)

\* Mutant: the peers of the flag are not added on a restart.
RestartWithoutPeers(n, flag) ==
  /\ ~ up[n]
  /\ flag \in LaterPeers
  /\ up' = Set(up, n, TRUE)
  /\ applied' = Set(applied, n, snap[n])
  /\ UNCHANGED <<cluster, recv, known, voters, learners, owes, disk, peers, crashes>>

\* Mutant: the entries applied before the crash are not applied again.
RestartAtCommit(n, flag) ==
  /\ ~ up[n]
  /\ flag \in LaterPeers
  /\ up' = Set(up, n, TRUE)
  /\ applied' = Set(applied, n, saved[n])
  /\ peers' = Set(peers, n, StartPeers(n, flag))
  /\ UNCHANGED <<cluster, recv, known, voters, learners, owes, disk, crashes>>

\* Start with something on disk: RestartNode.  The library's configuration is the
\* snapshot's, which is empty; the entries above the snapshot are replayed.
Restart(n, flag) ==
  /\ ~ up[n]
  /\ flag \in LaterPeers
  /\ up' = Set(up, n, TRUE)
  /\ applied' = Set(applied, n, snap[n])
  /\ peers' = Set(peers, n, StartPeers(n, flag))
  /\ UNCHANGED <<cluster, recv, known, voters, learners, owes, disk, crashes>>
----------------------------------------------------------------------------
\* Every server was started on an empty disk (StartNode, with the initial peers in any
\* order) and has applied the entries that this made; a first leader has been elected
\* and the voters have applied its empty entry.
FirstIndex(n) == IF n \in Initial THEN Boot + 1 ELSE Boot
Init ==
  /\ log = << Normal >> /\ commit = Boot + 1 /\ leader \in Initial /\ term = 0
  /\ termStart = Boot + 1 /\ pendingConf = Boot /\ changes = 0
  /\ match = [n \in Nodes |-> IF n \in Initial \ {leader} THEN Boot + 1 ELSE 0]
  /\ recv = [n \in Nodes |-> FirstIndex(n)] /\ known = [n \in Nodes |-> FirstIndex(n)]
  /\ owes = [n \in Nodes |-> FALSE]
  /\ voters = [n \in Nodes |-> Initial] /\ learners = [n \in Nodes |-> {}]
  /\ held = [n \in Nodes |-> FirstIndex(n)] /\ saved = [n \in Nodes |-> FirstIndex(n)]
  /\ snap = [n \in Nodes |-> SnapshotDue(SnapshotDue(0, Boot), FirstIndex(n))]
  /\ up = [n \in Nodes |-> TRUE]
  /\ applied = [n \in Nodes |-> FirstIndex(n)]
  /\ peers = [n \in Nodes |-> StartPeers(n, InitialPeers)]
  /\ crashes = 0

Admin == \E m \in Nodes : AddLearner(m) \/ Promote(m) \/ RemoveNode(m) \/ TransferLeader(m)

Next ==
  \/ \E n \in Nodes : HandleReady(n) \/ SendAppend(n) \/ Election(n) \/ Crash(n)
  \/ \E n \in Nodes, flag \in LaterPeers : Restart(n, flag)
  \/ Admin

Spec == Init /\ [][Next]_vars
----------------------------------------------------------------------------
(* Properties. *)

\* Every variable holds a value of its kind: the fields of RaftNode, Transport and
\* the library, and an index a node has applied, saved or learned lies in its log.
TypeOK ==
  /\ \A i \in DOMAIN log : log[i].type \in {"Normal", "AddNode", "AddLearner", "RemoveNode"}
  /\ leader \in Nodes \cup {None}
  /\ commit \in Boot .. LastIndex /\ pendingConf \in 0 .. LastIndex
  /\ \A n \in Nodes :
       /\ match[n] \in 0 .. LastIndex
       /\ applied[n] <= saved[n] /\ saved[n] <= known[n] /\ known[n] <= recv[n]
       /\ snap[n] <= saved[n] /\ saved[n] <= held[n]
       /\ held[n] <= recv[n] /\ recv[n] <= LastIndex /\ known[n] <= commit
       /\ Members(n) \subseteq Nodes /\ voters[n] \cap learners[n] = {}
       /\ DOMAIN peers[n] \subseteq Nodes

\* README.md:293, "Election Safety - Only up-to-date candidates win elections": the log
\* of a server that wins an election has every committed entry, whatever changes of the
\* configuration, promotions without catch-up, crashes and restarts came before.
\* README.md:45-46 and demo/ARCHITECTURE.md:203-206 expect a voter that was added before
\* it caught up to break this.  It does not: with a short log it gets no vote from a
\* node with a longer one, and each change is of one node, so that a majority before it
\* and a majority after it have a node in common.
ElectionSafety == [][term' # term => termStart' > commit]_vars

\* When CaughtUp says yes of another node, its disk holds all but MaxLag of the entries the
\* leader knows to be committed: run answers an append only after it has saved it.
CaughtUpIsDurable ==
  \A n, m \in Nodes : n # m /\ CaughtUp(n, m) => held[m] + MaxLag >= known[n]

\* Servers that applied the same entries agree on the configuration, though each
\* wrote the initial peers in the random order of a Go map (no snapshot restored).
ConfigsAgree ==
  \A n, m \in Nodes :
    up[n] /\ up[m] /\ applied[n] = applied[m] /\ applied[n] >= Boot
      => voters[n] = voters[m] /\ learners[n] = learners[m]

\* A server has a peer for every other member of its configuration: Start and
\* applyEntry keep the transport in step with the library.
MembersArePeers == \A n \in Nodes : up[n] => Members(n) \ {n} \subseteq DOMAIN peers[n]

\* A peer of the -peers flag keeps its address unless a removal of it has been applied:
\* AddPeer does not replace it by the name that conf changes carry.
InitialPeersReachable ==
  \A n \in Nodes, m \in Initial :
    up[n] /\ n # m /\ ~ Reaches(n, m) =>
      \E i \in 1 .. applied[n] : EntryAt(n, i).type = "RemoveNode" /\ EntryAt(n, i).node = m
=============================================================================
