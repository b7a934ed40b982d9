------------------------------- MODULE Proposals -------------------------------
(***************************************************************************)
(* How a client's request travels through the servers: the HTTP handlers   *)
(* (server/pkg/server/api.go: handleGet, handlePut, handleDelete), the     *)
(* wait for a proposal (server/pkg/raftnode/raftnode.go: ProposeAndWait    *)
(* and notifyProposal), the loop that applies what is committed (run,      *)
(* applyEntry) and the store (server/pkg/kvstore/kvstore.go).              *)
(*                                                                         *)
(* Every request runs in a goroutine of its own; every node has one run    *)
(* loop.  Both are cut where another goroutine can get in: a request at    *)
(* each use of state it shares with the loop, the loop around the store,   *)
(* appliedIndex and the map of waiters.                                    *)
(*                                                                         *)
(* Consensus is external and appears as what it promises: one log, of      *)
(* which a prefix is committed and never changes; an election may replace  *)
(* what is not.  The log starts after the entries of the initial           *)
(* configuration.  The store is seen at one key: a PUT is told apart by    *)
(* its request, a DELETE is the PUT of an empty value it is in the code.   *)
(***************************************************************************)
EXTENDS Integers, Sequences, FiniteSets

CONSTANTS
  Nodes,         \* the servers
  Puts,          \* PUT requests, each with a value of its own
  Deletes,       \* DELETE requests
  Gets,          \* GET requests
  MaxElections,  \* bound: leader changes
  MaxRequests    \* bound: requests that come

ASSUME ConstantsAssumption ==
  /\ Nodes # {} /\ MaxElections \in Nat /\ MaxRequests \in Nat
  /\ "noop" \notin Puts \cup Deletes
  /\ Puts \cap Deletes = {} /\ (Puts \cup Deletes) \cap Gets = {}

VARIABLES
  \* consensus
  log,          \* the leader's log
  commit,       \* length of its committed prefix
  leader,       \* the node leading the current term
  term,         \* the current term
  abandoned,    \* logs that lost an election: a later leader may hold one
  forwarded,    \* proposals made at a node that is not the leader
  \* each RaftNode and its KVStore
  isLeader,     \* rn.isLeader
  appliedIndex, \* rn.appliedIndex
  proposals,    \* rn.proposals: pairs of an index and the request waiting there
  loop,         \* where the run loop stands: "ready", "applied", "counted"
  data,         \* the key's value in s.data, "absent" when it has none
  history,      \* s.history: the requests recorded, in order
  \* each request
  pc,           \* where its goroutine stands
  at,           \* the node that serves it, "none" before one does
  expected,     \* expectedIndex in ProposeAndWait
  signalled,    \* its waitCh holds an answer
  got,          \* what a GET answered
  \* history variables
  own,          \* the index its entry was first given in the log, or 0
  quiet,        \* its leader had applied its whole log when it proposed
  floor,        \* for a GET: the newest write acknowledged before it began
  seen          \* for a GET: the index its answer reflects

consensus == <<log, commit, leader, term, abandoned, forwarded>>
servers == <<isLeader, appliedIndex, proposals, loop, data, history>>
requests == <<pc, at, expected, signalled, got>>
marks == <<own, quiet, floor, seen>>
vars == <<consensus, servers, requests, marks>>

Writes == Puts \cup Deletes
Requests == Writes \cup Gets

\* The entry a request proposes, or the one a new leader adds to its log.
Ops == Writes \cup {"noop"}
Entry == [term : Nat, op : Ops]

\* raftnode.Entry's Value, as the handlers fill it in.
Value(op) == IF op \in Deletes THEN "" ELSE op

MayCome == Cardinality({r \in Requests : pc[r] # "new"}) < MaxRequests

Goto(r, place) == pc' = [pc EXCEPT ![r] = place]

\* ProposeAndWait returns: its locals are gone.
Return(r, place) ==
  /\ Goto(r, place)
  /\ expected' = [expected EXCEPT ![r] = 0]
  /\ signalled' = [signalled EXCEPT ![r] = FALSE]
----------------------------------------------------------------------------
(* Consensus (external). *)

AddToLog(r) == log' = log \o << [term |-> term, op |-> r] >>

\* A majority holds more of the leader's log.
CommitEntries ==
  /\ commit < Len(log)
  /\ commit' \in commit + 1 .. Len(log)
  /\ UNCHANGED <<log, leader, term, abandoned, forwarded, servers, requests, marks>>

\* A node wins a term.  Its log holds what is committed and any part of what
\* some earlier leader left uncommitted; it adds an empty entry.
Election ==
  /\ term <= MaxElections
  /\ \E n \in Nodes, l \in abandoned \cup {log} :
       \E k \in commit .. Len(l) :
         /\ SubSeq(l, 1, commit) = SubSeq(log, 1, commit)
         /\ leader' = n
         /\ log' = SubSeq(l, 1, k) \o << [term |-> term + 1, op |-> "noop"] >>
  /\ term' = term + 1
  /\ abandoned' = abandoned \cup {log}
  /\ UNCHANGED <<commit, forwarded, servers, requests, marks>>

\* A proposal made at a node that no longer leads reaches the leader.
ForwardArrives(r) ==
  /\ r \in forwarded
  /\ forwarded' = forwarded \ {r}
  /\ AddToLog(r)
  /\ own' = [own EXCEPT ![r] = Len(log) + 1]
  /\ UNCHANGED <<commit, leader, term, abandoned, servers, requests, quiet, floor, seen>>
----------------------------------------------------------------------------
(* ProposeAndWait, called by handlePut and handleDelete. *)

\* The request reaches a node.  A node that believes it does not lead refuses.
CheckLeader(r, n) ==
  /\ pc[r] = "new" /\ MayCome
  /\ IF isLeader[n]
     THEN at' = [at EXCEPT ![r] = n] /\ Goto(r, "propose")
     ELSE UNCHANGED at /\ Goto(r, "failed")
  /\ UNCHANGED <<consensus, servers, expected, signalled, got, marks>>

\* rn.node.Propose returns nil.  At the leader the entry is in the log by then;
\* elsewhere it is on its way, or in a log that will lose.
Propose(r) ==
  /\ pc[r] = "propose"
  /\ IF at[r] = leader
     THEN /\ AddToLog(r)
          /\ own' = [own EXCEPT ![r] = Len(log) + 1]
          /\ quiet' = [quiet EXCEPT ![r] = appliedIndex[leader] = Len(log)]
          /\ UNCHANGED forwarded
     ELSE /\ forwarded' = forwarded \cup {r}
          /\ UNCHANGED <<log, own, quiet>>
  /\ Goto(r, "proposed")
  /\ UNCHANGED <<commit, leader, term, abandoned, servers, at, expected, signalled,
                 got, floor, seen>>

\* Mutant: the error of Propose is not looked at.
ProposeFailsUnheeded(r) ==
  /\ pc[r] = "propose"
  /\ Goto(r, "proposed")
  /\ UNCHANGED <<consensus, servers, at, expected, signalled, got, marks>>

\* rn.node.Propose returns an error: the library drops the proposal, or no
\* leader is known until the context expires.  (A context that expires after the
\* library has the proposal ends in the same answer as Timeout.)
ProposeFails(r) ==
  /\ pc[r] = "propose"
  /\ Goto(r, "failed")
  /\ UNCHANGED <<consensus, servers, at, expected, signalled, got, marks>>

\* Mutant: the index waited for is the last one applied.
ReadAppliedNoNext(r) ==
  /\ pc[r] = "proposed"
  /\ expected' = [expected EXCEPT ![r] = appliedIndex[at[r]]]
  /\ Goto(r, "register")
  /\ UNCHANGED <<consensus, servers, at, signalled, got, marks>>

\* expectedIndex := rn.appliedIndex + 1.  No lock is held; the field is one
\* word, so the read yields what the run loop last stored.
ReadApplied(r) ==
  /\ pc[r] = "proposed"
  /\ expected' = [expected EXCEPT ![r] = appliedIndex[at[r]] + 1]
  /\ Goto(r, "register")
  /\ UNCHANGED <<consensus, servers, at, signalled, got, marks>>

\* rn.proposals without the key i.
Without(n, i) == {p \in proposals[n] : p[1] # i}

\* rn.proposals[expectedIndex] = waitCh
Register(r) ==
  /\ pc[r] = "register"
  /\ proposals' = [proposals EXCEPT ![at[r]] =
                     Without(at[r], expected[r]) \cup {<<expected[r], r>>}]
  /\ Goto(r, "waiting")
  /\ UNCHANGED <<consensus, isLeader, appliedIndex, loop, data, history, at, expected,
                 signalled, got, marks>>

\* The select takes the answer from waitCh.
Receive(r) ==
  /\ pc[r] = "waiting"
  /\ signalled[r]
  /\ Return(r, "answered")
  /\ UNCHANGED <<consensus, servers, at, got, marks>>

\* Mutant: the channel stays in rn.proposals.
TimeoutLeavesWaiter(r) ==
  /\ pc[r] = "waiting"
  /\ Return(r, "failed")
  /\ UNCHANGED <<consensus, servers, at, got, marks>>

\* Mutant: only a request still in rn.proposals times out.
TimeoutIfRegistered(r) ==
  /\ pc[r] = "waiting"
  /\ <<expected[r], r>> \in proposals[at[r]]
  /\ proposals' = [proposals EXCEPT ![at[r]] = Without(at[r], expected[r])]
  /\ Return(r, "failed")
  /\ UNCHANGED <<consensus, isLeader, appliedIndex, loop, data, history, at, got, marks>>

\* Mutant: a request that times out is proposed once more.
TimeoutProposesAgain(r) ==
  /\ pc[r] = "waiting"
  /\ proposals' = [proposals EXCEPT ![at[r]] = Without(at[r], expected[r])]
  /\ Return(r, "propose")
  /\ UNCHANGED <<consensus, isLeader, appliedIndex, loop, data, history, at, got, marks>>

\* The select takes ctx.Done(), whether or not an answer is there too.
Timeout(r) ==
  /\ pc[r] = "waiting"
  /\ proposals' = [proposals EXCEPT ![at[r]] = Without(at[r], expected[r])]
  /\ Return(r, "failed")
  /\ UNCHANGED <<consensus, isLeader, appliedIndex, loop, data, history, at, got, marks>>

\* Mutant: the newest operation comes first.
RecordFirst(r) == history' = [history EXCEPT ![at[r]] = << r >> \o @]

\* RecordOperation
Record(r) == history' = [history EXCEPT ![at[r]] = Append(@, r)]

\* The handler answers 200; handlePut records the operation first.
Reply(r) ==
  /\ pc[r] = "answered"
  /\ IF r \in Puts THEN Record(r) ELSE UNCHANGED history
  /\ Goto(r, "ok")
  /\ UNCHANGED <<consensus, isLeader, appliedIndex, proposals, loop, data, at, expected,
                 signalled, got, marks>>
----------------------------------------------------------------------------
(* handleGet. *)

\* The last place in the log that an acknowledged write has.
NewestAcknowledged ==
  LET acked == {i \in 1 .. commit : log[i].op \in Writes /\ pc[log[i].op] = "ok"}
  IN  IF acked = {} THEN 0 ELSE CHOOSE i \in acked : \A j \in acked : j <= i

\* startTime := time.Now()
GetStart(r, n) ==
  /\ pc[r] = "new" /\ MayCome
  /\ at' = [at EXCEPT ![r] = n]
  /\ floor' = [floor EXCEPT ![r] = NewestAcknowledged]
  /\ Goto(r, "get")
  /\ UNCHANGED <<consensus, servers, expected, signalled, got, own, quiet, seen>>

\* The entries a node's store reflects.
InStore(n) == appliedIndex[n] + (IF loop[n] = "applied" THEN 1 ELSE 0)

\* value, exists := a.store.Get(key)
GetRead(r) ==
  /\ pc[r] = "get"
  /\ got' = [got EXCEPT ![r] = data[at[r]]]
  /\ seen' = [seen EXCEPT ![r] = InStore(at[r])]
  /\ Goto(r, "record")
  /\ UNCHANGED <<consensus, servers, at, expected, signalled, own, quiet, floor>>

\* RecordOperation, whether or not the key was there, and the answer.
GetReply(r) ==
  /\ pc[r] = "record"
  /\ Record(r)
  /\ Goto(r, IF got[r] = "absent" THEN "failed" ELSE "ok")
  /\ UNCHANGED <<consensus, isLeader, appliedIndex, proposals, loop, data, at, expected,
                 signalled, got, marks>>
----------------------------------------------------------------------------
(* The run loop, for each entry of rd.CommittedEntries. *)

\* Mutant: an empty entry is taken for a PUT.
ApplyEntryKeepsEmpty(n) ==
  /\ loop[n] = "ready"
  /\ appliedIndex[n] < commit
  /\ data' = [data EXCEPT ![n] = Value(log[appliedIndex[n] + 1].op)]
  /\ loop' = [loop EXCEPT ![n] = "applied"]
  /\ UNCHANGED <<consensus, isLeader, appliedIndex, proposals, history, requests, marks>>

\* Mutant: entries are applied before they are committed.
ApplyEntryEager(n) ==
  /\ loop[n] = "ready"
  /\ appliedIndex[n] < Len(log)
  /\ LET op == log[appliedIndex[n] + 1].op
     IN  data' = IF op = "noop" THEN data ELSE [data EXCEPT ![n] = Value(op)]
  /\ loop' = [loop EXCEPT ![n] = "applied"]
  /\ UNCHANGED <<consensus, isLeader, appliedIndex, proposals, history, requests, marks>>

\* applyEntry: an empty entry changes nothing.
ApplyEntry(n) ==
  /\ loop[n] = "ready"
  /\ appliedIndex[n] < commit
  /\ LET op == log[appliedIndex[n] + 1].op
     IN  data' = IF op = "noop" THEN data ELSE [data EXCEPT ![n] = Value(op)]
  /\ loop' = [loop EXCEPT ![n] = "applied"]
  /\ UNCHANGED <<consensus, isLeader, appliedIndex, proposals, history, requests, marks>>

\* rn.appliedIndex = entry.Index
SetApplied(n) ==
  /\ loop[n] = "applied"
  /\ appliedIndex' = [appliedIndex EXCEPT ![n] = @ + 1]
  /\ loop' = [loop EXCEPT ![n] = "counted"]
  /\ UNCHANGED <<consensus, isLeader, proposals, data, history, requests, marks>>

\* notifyProposal: whoever waits at i is answered, and forgotten.
Notify(n, i) ==
  /\ signalled' = [r \in Requests |-> signalled[r] \/ <<i, r>> \in proposals[n]]
  /\ proposals' = [proposals EXCEPT ![n] = Without(n, i)]

\* rn.notifyProposal(entry.Index, nil)
NotifyProposal(n) ==
  /\ loop[n] = "counted"
  /\ Notify(n, appliedIndex[n])
  /\ loop' = [loop EXCEPT ![n] = "ready"]
  /\ UNCHANGED <<consensus, isLeader, appliedIndex, data, history, pc, at, expected, got,
                 marks>>

\* rd.SoftState says whether the node leads.
UpdateSoftState(n) ==
  /\ loop[n] = "ready"
  /\ isLeader[n] # (n = leader)
  /\ isLeader' = [isLeader EXCEPT ![n] = n = leader]
  /\ UNCHANGED <<consensus, appliedIndex, proposals, loop, data, history, requests, marks>>
----------------------------------------------------------------------------
\* The first leader's empty entry is committed and applied everywhere, or not yet; and
\* the leader knows that it leads, or not yet.
InitAt(k, knows) ==
  /\ leader \in Nodes
  /\ term = 1
  /\ log = << [term |-> 1, op |-> "noop"] >>
  /\ commit = k
  /\ abandoned = {} /\ forwarded = {}
  /\ isLeader = [n \in Nodes |-> knows /\ n = leader]
  /\ appliedIndex = [n \in Nodes |-> k]
  /\ proposals = [n \in Nodes |-> {}]
  /\ loop = [n \in Nodes |-> "ready"]
  /\ data = [n \in Nodes |-> "absent"]
  /\ history = [n \in Nodes |-> << >>]
  /\ pc = [r \in Requests |-> "new"]
  /\ at = [r \in Requests |-> "none"]
  /\ expected = [r \in Requests |-> 0]
  /\ signalled = [r \in Requests |-> FALSE]
  /\ got = [r \in Requests |-> "absent"]
  /\ own = [r \in Requests |-> 0]
  /\ quiet = [r \in Requests |-> FALSE]
  /\ floor = [r \in Requests |-> 0]
  /\ seen = [r \in Requests |-> 0]

Init == InitAt(0, FALSE)

\* A goroutine serving a request takes a step.
WriteStep(r) ==
  \/ \E n \in Nodes : CheckLeader(r, n)
  \/ Propose(r) \/ ProposeFails(r)
  \/ ReadApplied(r) \/ Register(r)
  \/ Receive(r) \/ Timeout(r) \/ Reply(r)

GetStep(r) ==
  \/ \E n \in Nodes : GetStart(r, n)
  \/ GetRead(r) \/ GetReply(r)

RunStep(n) == ApplyEntry(n) \/ SetApplied(n) \/ NotifyProposal(n) \/ UpdateSoftState(n)

Next ==
  \/ CommitEntries
  \/ Election
  \/ \E r \in Writes : ForwardArrives(r) \/ WriteStep(r)
  \/ \E r \in Gets : GetStep(r)
  \/ \E n \in Nodes : RunStep(n)

Spec == Init /\ [][Next]_vars

\* Goroutines and run loops are scheduled; a request started is carried on and
\* its context expires after five seconds; a majority of the nodes is up and
\* connected, so what a lasting leader holds is committed.
Fairness ==
  /\ \A r \in Writes : WF_vars(WriteStep(r) /\ pc[r] # "new")
  /\ \A r \in Gets : WF_vars(GetStep(r) /\ pc[r] # "new")
  /\ \A n \in Nodes : WF_vars(RunStep(n))
  /\ WF_vars(CommitEntries)

FairSpec == Spec /\ Fairness
----------------------------------------------------------------------------
(* The service that clients see. *)

\* What is committed, and how a request stands.
Decided == [i \in 1 .. commit |-> log[i].op]
Outcome(r) == IF pc[r] \in {"new", "ok", "failed"} THEN pc[r] ELSE "pending"

Service ==
  INSTANCE KVService WITH
    decided <- Decided,
    applied <- [n \in Nodes |-> InStore(n)],
    outcome <- [r \in Requests |-> Outcome(r)],
    answer <- got
----------------------------------------------------------------------------
(* Properties. *)

Places == {"new", "propose", "proposed", "register", "waiting", "answered", "ok",
           "failed", "get", "record"}
Values == Puts \cup {"", "absent"}

\* Every variable holds a value of its kind: the shapes of the fields of RaftNode
\* and KVStore, and of the locals of ProposeAndWait and the handlers.
TypeOK ==
  /\ log \in Seq(Entry) /\ abandoned \subseteq Seq(Entry)
  /\ commit \in 0 .. Len(log) /\ leader \in Nodes /\ term \in Nat
  /\ forwarded \subseteq Writes
  /\ isLeader \in [Nodes -> BOOLEAN]
  /\ appliedIndex \in [Nodes -> Nat]
  /\ DOMAIN proposals = Nodes /\ \A n \in Nodes : proposals[n] \subseteq Nat \X Writes
  /\ loop \in [Nodes -> {"ready", "applied", "counted"}]
  /\ data \in [Nodes -> Values]
  /\ history \in [Nodes -> Seq(Requests)]
  /\ pc \in [Requests -> Places] /\ at \in [Requests -> Nodes \cup {"none"}]
  /\ expected \in [Requests -> Nat] /\ signalled \in [Requests -> BOOLEAN]
  /\ got \in [Requests -> Values]
  /\ own \in [Requests -> Nat] /\ quiet \in [Requests -> BOOLEAN]
  /\ floor \in [Requests -> Nat] /\ seen \in [Requests -> Nat]

\* rn.proposals holds nobody but the requests still waiting in ProposeAndWait, at
\* the index they computed: whatever answers, overwrites and timeouts came in
\* between, no channel is left behind and none is answered after its request left.
WaitersAreWaiting ==
  \A n \in Nodes : \A p \in proposals[n] :
    pc[p[2]] = "waiting" /\ at[p[2]] = n /\ expected[p[2]] = p[1] /\ ~signalled[p[2]]

\* A write proposed at a leader that had applied its whole log is answered with
\* success only after that leader applied the index the write was given: the
\* guess appliedIndex + 1, taken after Propose, is then never too low.
QuietAckIsSound ==
  \A r \in Writes :
    quiet[r] /\ pc[r] \in {"answered", "ok"} => appliedIndex[at[r]] >= own[r]

\* State machine safety: a node's store is what the committed log's first entries
\* make it, in whatever order elections, commits and run loops interleave.
StoreFollowsLog ==
  \A n \in Nodes : InStore(n) <= commit /\ data[n] = Service!ValueOf(Decided, InStore(n))

\* Every request served comes to an answer: no interleaving of registrations,
\* answers and timeouts leaves a goroutine in ProposeAndWait for ever.
EveryRequestEnds ==
  \A r \in Requests : pc[r] # "new" ~> pc[r] \in {"ok", "failed"}

\* While the leader lasts, a write answered with success is applied at the node
\* that answered, if not by then then later.
AckComesTrue ==
  \A r \in Writes : pc[r] = "ok" ~>
    own[r] # 0 /\ log[own[r]].op = r /\ InStore(at[r]) >= own[r]

\* demo/ARCHITECTURE.md:284, "Durability: Entry is on majority before response": once
\* a write is answered with success, no other entry is committed in its place.
AckedIsNotLost ==
  \A r \in Writes : pc[r] = "ok" /\ own[r] \in 1 .. commit => log[own[r]].op = r

\* docs/PROGRESS.md:236, "from any replica - linearizable!": a GET reflects every
\* write committed and acknowledged before it began.
ReadsAreLinearizable ==
  \A r \in Gets : pc[r] \in {"record", "ok", "failed"} => seen[r] >= floor[r]

\* The servers keep the promises of KVService: whatever elections, forwarded proposals,
\* commits, timeouts and run loops do, applyEntry applies one growing order of the
\* writes, no write twice and none nobody asked for, and handleGet answers from it.
ServiceKept == Service!Spec
============================================================================
