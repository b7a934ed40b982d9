--------------------------- MODULE ProposalLemmas --------------------------
(***************************************************************************)
(* Lemmas for the proofs about Proposals: its logs, that every variable    *)
(* keeps its type, who waits in rn.proposals, where a write stands in the  *)
(* logs, and which index it waits for.                                     *)
(***************************************************************************)
EXTENDS Proposals, SequenceTheorems, WellFoundedInduction, TLAPS

\* A non-empty, bounded set of log indices has a greatest one.
LEMMA GreatestExists ==
  ASSUME NEW S \in SUBSET Nat, S # {}, NEW n \in Nat, \A i \in S : i <= n
  PROVE  \E i \in S : \A j \in S : j <= i
<1> DEFINE T == {m \in Nat : \E i \in S : m = n - i}
           R == {p \in Nat \X Nat : p[1] < p[2]}
<1>1. T \in SUBSET Nat /\ \A i \in S : n - i \in T
  OBVIOUS
<1>2. IsWellFoundedOn(R, Nat)
  BY NatLessThanWellFounded, Zenon DEF OpToRel
<1>3. \E t \in T : \A u \in T : ~ (<<u, t>> \in R)
  <2> HIDE DEF R, T
  <2> QED  BY <1>1, <1>2, WFMin, Zenon
<1>4. PICK t \in T : \A u \in T : ~ (<<u, t>> \in R)
  BY <1>3, Zenon
<1>5. PICK i \in S : t = n - i
  BY Zenon
<1>6. ASSUME NEW j \in S  PROVE j <= i
  <2>1. n - j \in T /\ n - j \in Nat /\ t \in Nat
    BY <1>1, Zenon
  <2>2. ~ (n - j < t)
    BY <1>4, <2>1, Zenon
  <2> QED  BY <1>5, <2>1, <2>2
<1> QED  BY <1>6, Zenon
----------------------------------------------------------------------------
(* Logs. *)

\* An entry at the end of a log.
LEMMA Added ==
  ASSUME NEW l \in Seq(Entry), NEW e \in Entry
  PROVE  /\ l \o << e >> \in Seq(Entry)
         /\ Len(l \o << e >>) = Len(l) + 1
         /\ \A i \in 1 .. Len(l) : (l \o << e >>)[i] = l[i]
         /\ (l \o << e >>)[Len(l) + 1] = e
<1>1. << e >> \in Seq(Entry) /\ Len(<< e >>) = 1 /\ << e >>[1] = e
  OBVIOUS
<1>2. Len(l) \in Nat
  BY LenProperties, Zenon
<1> HIDE DEF Entry
<1>3. /\ l \o << e >> \in Seq(Entry)
      /\ Len(l \o << e >>) = Len(l) + Len(<< e >>)
      /\ \A i \in 1 .. Len(l) + Len(<< e >>) :
           (l \o << e >>)[i] = IF i <= Len(l) THEN l[i] ELSE << e >>[i - Len(l)]
  BY <1>1, ConcatProperties, Zenon
<1>4. Len(l) + 1 \in 1 .. Len(l) + Len(<< e >>) /\ Len(l) + 1 - Len(l) = 1
  BY <1>1, <1>2
<1>5. (l \o << e >>)[Len(l) + 1] = e
  BY <1>1, <1>2, <1>3, <1>4
<1> QED  BY <1>1, <1>2, <1>3, <1>5

\* The front of a log.
LEMMA Front ==
  ASSUME NEW l \in Seq(Entry), NEW k \in 0 .. Len(l)
  PROVE  /\ SubSeq(l, 1, k) \in Seq(Entry)
         /\ Len(SubSeq(l, 1, k)) = k
         /\ \A i \in 1 .. k : SubSeq(l, 1, k)[i] = l[i]
<1>1. Len(l) \in Nat /\ \A i \in 1 .. k : l[i] \in Entry
  BY ElementOfSeq, LenProperties
<1> HIDE DEF Entry
<1>2. /\ SubSeq(l, 1, k) \in Seq(Entry)
      /\ Len(SubSeq(l, 1, k)) = IF 1 <= k THEN k - 1 + 1 ELSE 0
      /\ \A i \in 1 .. k - 1 + 1 : SubSeq(l, 1, k)[i] = l[1 + i - 1]
  BY <1>1, SubSeqProperties
<1> QED  BY <1>1, <1>2

\* The log of a new leader.
LEMMA NewLog ==
  ASSUME NEW l \in Seq(Entry), NEW k \in 0 .. Len(l), NEW e \in Entry
  PROVE  /\ SubSeq(l, 1, k) \o << e >> \in Seq(Entry)
         /\ Len(SubSeq(l, 1, k) \o << e >>) = k + 1
         /\ \A i \in 1 .. k : (SubSeq(l, 1, k) \o << e >>)[i] = l[i]
         /\ (SubSeq(l, 1, k) \o << e >>)[k + 1] = e
<1>1. /\ SubSeq(l, 1, k) \in Seq(Entry)
      /\ Len(SubSeq(l, 1, k)) = k
      /\ \A i \in 1 .. k : SubSeq(l, 1, k)[i] = l[i]
  BY Front, Zenon
<1> HIDE DEF Entry
<1> QED  BY <1>1, Added
----------------------------------------------------------------------------
(* Types. *)

\* A request that is being served, or was served with success, has a server.
Serving == {"propose", "proposed", "register", "waiting", "answered", "ok", "get", "record"}
Served == \A r \in Requests : pc[r] \in Serving => at[r] \in Nodes

\* What applyEntry puts into the store is a value.
LEMMA ValueType ==
  ASSUME NEW op \in Ops, op # "noop"
  PROVE  Value(op) \in Values
BY Zenon DEF Ops, Writes, Value, Values

\* The logs and what is committed keep their types.
LogTyped ==
  /\ log \in Seq(Entry) /\ abandoned \subseteq Seq(Entry)
  /\ commit \in 0 .. Len(log) /\ leader \in Nodes /\ term \in Nat

\* Proposals, elections and commits keep the log a sequence of entries.
LEMMA LogType ==
  ASSUME LogTyped, [Next]_vars
  PROVE  LogTyped'
<1> USE DEF LogTyped
<1>0. Len(log) \in Nat /\ commit \in 0 .. Len(log) /\ term \in Nat
  BY LenProperties, Zenon
<1>1. ASSUME NEW r \in Writes, AddToLog(r)
      PROVE  log' \in Seq(Entry) /\ Len(log') = Len(log) + 1
  <2>1. [term |-> term, op |-> r] \in Entry
    BY Zenon DEF Entry, Ops
  <2> QED  BY <1>1, <2>1, Added, Zenon DEF AddToLog
<1>2. CASE Election
  <2>1. PICK n \in Nodes, l \in abandoned \cup {log} :
          \E k \in commit .. Len(l) :
            /\ leader' = n
            /\ log' = SubSeq(l, 1, k) \o << [term |-> term + 1, op |-> "noop"] >>
    BY <1>2, Zenon DEF Election
  <2>2. PICK k \in commit .. Len(l) :
          log' = SubSeq(l, 1, k) \o << [term |-> term + 1, op |-> "noop"] >>
    BY <2>1, Zenon
  <2>3. l \in Seq(Entry) /\ Len(l) \in Nat
    BY LenProperties, Zenon
  <2>4. k \in 0 .. Len(l) /\ commit <= k
    BY <1>0, <2>3
  <2>5. [term |-> term + 1, op |-> "noop"] \in Entry
    BY <1>0 DEF Entry, Ops
  <2>6. log' \in Seq(Entry) /\ Len(log') = k + 1
    <3> HIDE DEF LogTyped, Entry
    <3> QED  BY <2>2, <2>3, <2>4, <2>5, NewLog
  <2>7. abandoned' = abandoned \cup {log} /\ term' = term + 1 /\ commit' = commit
    BY <1>2, Zenon DEF Election
  <2> QED  BY <1>0, <2>1, <2>4, <2>6, <2>7
<1>3. CASE CommitEntries
  BY <1>0, <1>3 DEF CommitEntries
<1>4. ASSUME NEW r \in Writes, ForwardArrives(r)
      PROVE  LogTyped'
  BY <1>0, <1>1, <1>4 DEF ForwardArrives
<1>5. ASSUME NEW r \in Writes, WriteStep(r)
      PROVE  LogTyped'
  BY <1>0, <1>1, <1>5 DEF WriteStep, CheckLeader, Propose, ProposeFails, ReadApplied,
       Register, Receive, Timeout, Reply, consensus
<1>6. ASSUME NEW r \in Gets, GetStep(r)
      PROVE  LogTyped'
  BY <1>0, <1>6, Zenon DEF GetStep, GetStart, GetRead, GetReply, consensus
<1>7. ASSUME NEW n \in Nodes, RunStep(n)
      PROVE  LogTyped'
  BY <1>0, <1>7, Zenon DEF RunStep, ApplyEntry, SetApplied, NotifyProposal, UpdateSoftState,
     consensus
<1>8. CASE UNCHANGED vars
  BY <1>0, <1>8, Zenon DEF vars, consensus
<1> QED  BY <1>2, <1>3, <1>4, <1>5, <1>6, <1>7, <1>8, Zenon DEF Next

\* What the servers hold keeps its type.
ServersTyped ==
  /\ isLeader \in [Nodes -> BOOLEAN]
  /\ appliedIndex \in [Nodes -> Nat]
  /\ DOMAIN proposals = Nodes /\ \A n \in Nodes : proposals[n] \subseteq Nat \X Writes
  /\ loop \in [Nodes -> {"ready", "applied", "counted"}]
  /\ data \in [Nodes -> Values]
  /\ history \in [Nodes -> Seq(Requests)]

\* What the requests hold keeps its type.
RequestsTyped ==
  /\ pc \in [Requests -> Places] /\ at \in [Requests -> Nodes \cup {"none"}]
  /\ expected \in [Requests -> Nat] /\ signalled \in [Requests -> BOOLEAN]
  /\ got \in [Requests -> Values]
  /\ Served

\* So do the history variables, and the proposals under way.
MarksTyped ==
  /\ forwarded \subseteq Writes
  /\ own \in [Requests -> Nat] /\ quiet \in [Requests -> BOOLEAN]
  /\ floor \in [Requests -> Nat] /\ seen \in [Requests -> Nat]

\* The handlers keep the types of their locals, and a request that is served has a server.
LEMMA RequestsType ==
  ASSUME ServersTyped, RequestsTyped, [Next]_vars
  PROVE  RequestsTyped'
<1> USE DEF RequestsTyped, Served
<1>0. Writes \subseteq Requests /\ Gets \subseteq Requests
  BY Zenon DEF Requests
<1>1. CASE CommitEntries \/ Election \/ (\E r \in Writes : ForwardArrives(r))
  BY <1>1, Zenon DEF CommitEntries, Election, ForwardArrives, requests
<1>2. ASSUME NEW r \in Requests, NEW place \in Places, Goto(r, place),
             UNCHANGED at, place \in Serving => pc[r] \in Serving
      PROVE  pc' \in [Requests -> Places] /\ Served'
  BY <1>2, Zenon DEF Goto
<1>3. ASSUME NEW r \in Requests, NEW place \in Places, NEW n \in Nodes, Goto(r, place),
             at' = [at EXCEPT ![r] = n]
      PROVE  pc' \in [Requests -> Places] /\ Served' /\ at' \in [Requests -> Nodes \cup {"none"}]
  BY <1>3, Zenon DEF Goto
<1>4. ASSUME NEW r \in Requests, NEW place \in {"answered", "failed"}, Return(r, place),
             UNCHANGED at, pc[r] = "waiting"
      PROVE  /\ pc' \in [Requests -> Places] /\ Served'
             /\ expected' \in [Requests -> Nat] /\ signalled' \in [Requests -> BOOLEAN]
  BY <1>2, <1>4, Zenon DEF Return, Places, Serving
<1>5. ASSUME NEW r \in Writes, WriteStep(r)
      PROVE  RequestsTyped'
  <2>1. ASSUME NEW n \in Nodes, CheckLeader(r, n)
        PROVE  RequestsTyped'
    <3>1. pc' \in [Requests -> Places] /\ Served' /\ at' \in [Requests -> Nodes \cup {"none"}]
      BY <1>0, <1>2, <1>3, <2>1, Zenon DEF CheckLeader, Places, Serving
    <3> QED  BY <2>1, <3>1, Zenon DEF CheckLeader
  <2>2. CASE Propose(r) \/ ProposeFails(r)
    <3>1. pc' \in [Requests -> Places] /\ Served'
      BY <1>0, <1>2, <2>2, Zenon DEF Propose, ProposeFails, Places, Serving
    <3> QED  BY <2>2, <3>1, Zenon DEF Propose, ProposeFails
  <2>3. CASE ReadApplied(r)
    <3>1. pc' \in [Requests -> Places] /\ Served' /\ at[r] \in Nodes
      BY <1>0, <1>2, <2>3, Zenon DEF ReadApplied, Places, Serving
    <3>2. appliedIndex[at[r]] + 1 \in Nat
      BY <3>1 DEF ServersTyped
    <3> QED  BY <2>3, <3>1, <3>2, Zenon DEF ReadApplied
  <2>4. CASE Register(r)
    <3>1. pc' \in [Requests -> Places] /\ Served'
      BY <1>0, <1>2, <2>4, Zenon DEF Register, Places, Serving
    <3> QED  BY <2>4, <3>1, Zenon DEF Register
  <2>5. CASE Receive(r) \/ Timeout(r)
    BY <1>0, <1>4, <2>5, Zenon DEF Receive, Timeout
  <2>6. CASE Reply(r)
    <3>1. pc' \in [Requests -> Places] /\ Served'
      BY <1>0, <1>2, <2>6, Zenon DEF Reply, Places, Serving
    <3> QED  BY <2>6, <3>1, Zenon DEF Reply
  <2> QED  BY <1>5, <2>1, <2>2, <2>3, <2>4, <2>5, <2>6, Zenon DEF WriteStep
<1>6. ASSUME NEW r \in Gets, GetStep(r)
      PROVE  RequestsTyped'
  <2>1. ASSUME NEW n \in Nodes, GetStart(r, n)
        PROVE  RequestsTyped'
    <3>1. pc' \in [Requests -> Places] /\ Served' /\ at' \in [Requests -> Nodes \cup {"none"}]
      BY <1>0, <1>3, <2>1, Zenon DEF GetStart, Places
    <3> QED  BY <2>1, <3>1, Zenon DEF GetStart
  <2>2. CASE GetRead(r)
    <3>1. pc' \in [Requests -> Places] /\ Served' /\ at[r] \in Nodes
      BY <1>0, <1>2, <2>2, Zenon DEF GetRead, Places, Serving
    <3>2. data[at[r]] \in Values
      BY <3>1, Zenon DEF ServersTyped
    <3> QED  BY <2>2, <3>1, <3>2, Zenon DEF GetRead
  <2>3. CASE GetReply(r)
    <3>1. pc' \in [Requests -> Places] /\ Served'
      BY <1>0, <1>2, <2>3, Zenon DEF GetReply, Places, Serving
    <3> QED  BY <2>3, <3>1, Zenon DEF GetReply
  <2> QED  BY <1>6, <2>1, <2>2, <2>3, Zenon DEF GetStep
<1>7. ASSUME NEW n \in Nodes, RunStep(n)
      PROVE  RequestsTyped'
  BY <1>7, Zenon DEF RunStep, ApplyEntry, SetApplied, NotifyProposal, Notify, UpdateSoftState,
     requests
<1>8. CASE UNCHANGED vars
  BY <1>8, Zenon DEF vars, requests
<1> QED  BY <1>1, <1>5, <1>6, <1>7, <1>8, Zenon DEF Next

\* The handlers and run loops keep the types of the fields of RaftNode and KVStore.
LEMMA ServersType ==
  ASSUME LogTyped, ServersTyped, RequestsTyped, [Next]_vars
  PROVE  ServersTyped'
<1> USE DEF ServersTyped
<1>0. Writes \subseteq Requests /\ Gets \subseteq Requests
  BY Zenon DEF Requests
<1>1. CASE CommitEntries \/ Election \/ (\E r \in Writes : ForwardArrives(r))
  BY <1>1, Zenon DEF CommitEntries, Election, ForwardArrives, servers
<1>2. ASSUME NEW r \in Requests, at[r] \in Nodes, Record(r)
      PROVE  history' \in [Nodes -> Seq(Requests)]
  <2>1. Append(history[at[r]], r) \in Seq(Requests)
    BY <1>2, AppendProperties, Zenon
  <2> QED  BY <1>2, <2>1, Zenon DEF Record
<1>3. ASSUME NEW r \in Writes, WriteStep(r)
      PROVE  ServersTyped'
  <2>1. CASE \/ \E n \in Nodes : CheckLeader(r, n)
             \/ Propose(r) \/ ProposeFails(r) \/ ReadApplied(r) \/ Receive(r)
    BY <2>1, Zenon DEF CheckLeader, Propose, ProposeFails, ReadApplied, Receive, servers
  <2>2. ASSUME pc[r] \in Serving
        PROVE  at[r] \in Nodes /\ expected[r] \in Nat
    BY <1>0, <2>2, Zenon DEF RequestsTyped, Served
  <2>3. CASE Register(r)
    <3>1. at[r] \in Nodes /\ <<expected[r], r>> \in Nat \X Writes
      BY <2>2, <2>3, Zenon DEF Register, Serving
    <3>2. DOMAIN proposals' = Nodes /\ \A n \in Nodes : proposals'[n] \subseteq Nat \X Writes
      BY <2>3, <3>1, Zenon DEF Register, Without
    <3> QED  BY <2>3, <3>2, Zenon DEF Register
  <2>4. CASE Timeout(r)
    <3>1. DOMAIN proposals' = Nodes /\ \A n \in Nodes : proposals'[n] \subseteq Nat \X Writes
      BY <2>4, Zenon DEF Timeout, Without
    <3> QED  BY <2>4, <3>1, Zenon DEF Timeout
  <2>5. CASE Reply(r)
    <3>1. history' \in [Nodes -> Seq(Requests)]
      BY <1>0, <1>2, <2>2, <2>5, Zenon DEF Reply, Serving
    <3> QED  BY <2>5, <3>1, Zenon DEF Reply
  <2> QED  BY <1>3, <2>1, <2>3, <2>4, <2>5, Zenon DEF WriteStep
<1>4. ASSUME NEW r \in Gets, GetStep(r)
      PROVE  ServersTyped'
  <2>1. CASE (\E n \in Nodes : GetStart(r, n)) \/ GetRead(r)
    BY <2>1, Zenon DEF GetStart, GetRead, servers
  <2>2. CASE GetReply(r)
    <3>1. at[r] \in Nodes
      BY <1>0, <2>2, Zenon DEF GetReply, RequestsTyped, Served, Serving
    <3>2. history' \in [Nodes -> Seq(Requests)]
      BY <1>0, <1>2, <2>2, <3>1, Zenon DEF GetReply
    <3> QED  BY <2>2, <3>2, Zenon DEF GetReply
  <2> QED  BY <1>4, <2>1, <2>2, Zenon DEF GetStep
<1>5. ASSUME NEW n \in Nodes, RunStep(n)
      PROVE  ServersTyped'
  <2>1. CASE ApplyEntry(n)
    <3>1. appliedIndex[n] + 1 \in 1 .. Len(log) /\ log \in Seq(Entry)
      BY <2>1, LenProperties DEF ApplyEntry, LogTyped
    <3>2. log[appliedIndex[n] + 1] \in Entry
      BY <3>1, ElementOfSeq, Zenon
    <3>3. log[appliedIndex[n] + 1].op \in Ops
      BY <3>2, Zenon DEF Entry
    <3>4. data' \in [Nodes -> Values]
      BY <2>1, <3>3, ValueType, Zenon DEF ApplyEntry
    <3> QED  BY <2>1, <3>4, Zenon DEF ApplyEntry
  <2>2. CASE SetApplied(n)
    BY <2>2 DEF SetApplied
  <2>3. CASE NotifyProposal(n)
    <3>1. DOMAIN proposals' = Nodes /\ \A m \in Nodes : proposals'[m] \subseteq Nat \X Writes
      BY <2>3, Zenon DEF NotifyProposal, Notify, Without
    <3> QED  BY <2>3, <3>1, Zenon DEF NotifyProposal
  <2>4. CASE UpdateSoftState(n)
    BY <2>4, Zenon DEF UpdateSoftState
  <2> QED  BY <1>5, <2>1, <2>2, <2>3, <2>4, Zenon DEF RunStep
<1>6. CASE UNCHANGED vars
  BY <1>6, Zenon DEF vars, servers
<1> QED  BY <1>1, <1>3, <1>4, <1>5, <1>6, Zenon DEF Next

\* The newest acknowledged write of a committed prefix exists.
LEMMA AcknowledgedType ==
  ASSUME commit \in Nat
  PROVE  NewestAcknowledged \in Nat
<1> DEFINE acked == {i \in 1 .. commit : log[i].op \in Writes /\ pc[log[i].op] = "ok"}
<1>1. ASSUME acked # {}
      PROVE  (CHOOSE i \in acked : \A j \in acked : j <= i) \in Nat
  <2>1. acked \subseteq Nat /\ \A i \in acked : i <= commit
    OBVIOUS
  <2> HIDE DEF acked
  <2>2. \E i \in acked : \A j \in acked : j <= i
    BY <1>1, <2>1, GreatestExists, Zenon
  <2> QED  BY <2>1, <2>2, Zenon
<1> QED  BY <1>1, Zenon DEF NewestAcknowledged

\* Every step keeps the types of the history variables.
LEMMA MarksType ==
  ASSUME LogTyped, ServersTyped, RequestsTyped, MarksTyped, [Next]_vars
  PROVE  MarksTyped'
<1> USE DEF MarksTyped
<1>0. /\ Writes \subseteq Requests /\ Gets \subseteq Requests
      /\ Len(log) + 1 \in Nat /\ commit \in Nat
  BY LenProperties DEF Requests, LogTyped
<1>1. CASE CommitEntries \/ Election
  BY <1>1, Zenon DEF CommitEntries, Election, marks
<1>2. ASSUME NEW r \in Writes, ForwardArrives(r)
      PROVE  MarksTyped'
  BY <1>0, <1>2, Zenon DEF ForwardArrives
<1>3. ASSUME NEW r \in Writes, WriteStep(r)
      PROVE  MarksTyped'
  <2>1. CASE Propose(r)
    BY <1>0, <2>1 DEF Propose
  <2>2. CASE \/ \E n \in Nodes : CheckLeader(r, n)
             \/ ProposeFails(r) \/ ReadApplied(r) \/ Register(r)
             \/ Receive(r) \/ Timeout(r) \/ Reply(r)
    BY <2>2, Zenon DEF CheckLeader, ProposeFails, ReadApplied, Register, Receive, Timeout, Reply,
         consensus, marks
  <2> QED  BY <1>3, <2>1, <2>2, Zenon DEF WriteStep
<1>4. ASSUME NEW r \in Gets, GetStep(r)
      PROVE  MarksTyped'
  <2>1. ASSUME NEW n \in Nodes, GetStart(r, n)
        PROVE  MarksTyped'
    BY <1>0, <2>1, AcknowledgedType, Zenon DEF GetStart, consensus
  <2>2. CASE GetRead(r)
    <3>1. at[r] \in Nodes
      BY <1>0, <2>2, Zenon DEF GetRead, RequestsTyped, Served, Serving
    <3>2. InStore(at[r]) \in Nat
      BY <3>1 DEF InStore, ServersTyped
    <3> QED  BY <1>0, <2>2, <3>2, Zenon DEF GetRead, consensus
  <2>3. CASE GetReply(r)
    BY <2>3, Zenon DEF GetReply, consensus, marks
  <2> QED  BY <1>4, <2>1, <2>2, <2>3, Zenon DEF GetStep
<1>5. ASSUME NEW n \in Nodes, RunStep(n)
      PROVE  MarksTyped'
  BY <1>5, Zenon DEF RunStep, ApplyEntry, SetApplied, NotifyProposal, UpdateSoftState,
     consensus, marks
<1>6. CASE UNCHANGED vars
  BY <1>6, Zenon DEF vars, consensus, marks
<1> QED  BY <1>1, <1>2, <1>3, <1>4, <1>5, <1>6, Zenon DEF Next

Typed == LogTyped /\ ServersTyped /\ RequestsTyped /\ MarksTyped

\* The servers start with fields of their types.
LEMMA TypedInit ==
  ASSUME NEW k \in 0 .. 1, NEW knows \in BOOLEAN, InitAt(k, knows)
  PROVE  Typed
<1>1. LogTyped
  <2>1. [term |-> 1, op |-> "noop"] \in Entry
    BY Zenon DEF Entry, Ops
  <2>2. log \in Seq(Entry) /\ Len(log) = 1
    BY <2>1 DEF InitAt
  <2> QED  BY <2>2, Zenon DEF LogTyped, InitAt
<1>2. ServersTyped
  <2>1. "absent" \in Values /\ << >> \in Seq(Requests)
    BY EmptySeq, Zenon DEF Values
  <2> QED  BY <2>1 DEF ServersTyped, InitAt
<1>3. RequestsTyped
  <2>1. "absent" \in Values
    BY Zenon DEF Values
  <2> QED  BY <2>1, Zenon DEF RequestsTyped, Served, Serving, Places, InitAt
<1>4. MarksTyped
  BY Zenon DEF MarksTyped, InitAt
<1> QED  BY <1>1, <1>2, <1>3, <1>4, Zenon DEF Typed

\* Every step keeps all types.
LEMMA TypedNext ==
  ASSUME Typed, [Next]_vars
  PROVE  Typed'
BY LogType, ServersType, RequestsType, MarksType, Zenon DEF Typed
----------------------------------------------------------------------------
(* Waiters. *)

\* Only a request that waits is signalled.
Waiters == WaitersAreWaiting /\ \A r \in Requests : signalled[r] => pc[r] = "waiting"

\* rn.proposals and the requests waiting in ProposeAndWait stay in step.
LEMMA WaitersNext ==
  ASSUME Typed, Waiters, [Next]_vars
  PROVE  Waiters'
<1> USE DEF Waiters, WaitersAreWaiting
<1>0. /\ Writes \subseteq Requests /\ Gets \subseteq Requests
      /\ \A n \in Nodes : \A p \in proposals[n] : p[1] \in Nat /\ p[2] \in Writes
      /\ DOMAIN proposals = Nodes /\ DOMAIN pc = Requests
  BY DEF Typed, ServersTyped, RequestsTyped, Requests
<1>1. CASE CommitEntries \/ Election \/ (\E r \in Writes : ForwardArrives(r))
  BY <1>1 DEF CommitEntries, Election, ForwardArrives, servers, requests
<1>2. ASSUME NEW r \in Writes, WriteStep(r)
      PROVE  Waiters'
  <2>1. CASE \/ \E n \in Nodes : CheckLeader(r, n)
             \/ Propose(r) \/ ProposeFails(r) \/ Reply(r)
    <3>1. /\ UNCHANGED <<proposals, expected, signalled>>
          /\ pc[r] # "waiting" /\ \A q \in Requests : q # r => pc'[q] = pc[q] /\ at'[q] = at[q]
      BY <1>0, <2>1 DEF CheckLeader, Propose, ProposeFails, Reply, Goto, servers,
           Typed, RequestsTyped
    <3> QED  BY <1>0, <3>1
  <2>2. CASE ReadApplied(r)
    <3>1. /\ UNCHANGED <<proposals, signalled, at>>
          /\ pc[r] # "waiting"
          /\ \A q \in Requests : q # r => pc'[q] = pc[q] /\ expected'[q] = expected[q]
      BY <1>0, <2>2, Zenon DEF ReadApplied, Goto, servers, Typed, RequestsTyped
    <3> QED  BY <1>0, <3>1
  <2>3. CASE Register(r)
    <3>1. /\ UNCHANGED <<expected, signalled, at>> /\ at[r] \in Nodes
          /\ pc'[r] = "waiting" /\ ~ signalled[r]
          /\ \A q \in Requests : q # r => pc'[q] = pc[q]
      BY <1>0, <2>3, Zenon DEF Register, Goto, Typed, RequestsTyped, Served, Serving
    <3>2. \A n \in Nodes : \A p \in proposals'[n] :
            p \in proposals[n] \/ (n = at[r] /\ p = <<expected[r], r>>)
      BY <1>0, <2>3, <3>1, Zenon DEF Register, Without
    <3> QED  BY <1>0, <3>1, <3>2
  <2>4. CASE Receive(r) \/ Timeout(r)
    <3>1. /\ UNCHANGED at /\ ~ signalled'[r]
          /\ \A q \in Requests : q # r => /\ pc'[q] = pc[q] /\ expected'[q] = expected[q]
                                          /\ signalled'[q] = signalled[q]
      BY <1>0, <2>4 DEF Receive, Timeout, Return, Goto, Typed, RequestsTyped
    <3>2. \A n \in Nodes : \A p \in proposals'[n] : p \in proposals[n] /\ p[2] # r
      BY <1>0, <2>4 DEF Receive, Timeout, Without, servers
    <3> QED  BY <1>0, <3>1, <3>2
  <2> QED  BY <1>2, <2>1, <2>2, <2>3, <2>4, Zenon DEF WriteStep
<1>3. ASSUME NEW r \in Gets, GetStep(r)
      PROVE  Waiters'
  <2>1. /\ UNCHANGED <<proposals, expected, signalled>>
        /\ pc[r] # "waiting" /\ \A q \in Requests : q # r => pc'[q] = pc[q] /\ at'[q] = at[q]
    BY <1>0, <1>3 DEF GetStep, GetStart, GetRead, GetReply, Goto, servers, Typed, RequestsTyped
  <2> QED  BY <1>0, <2>1
<1>4. ASSUME NEW n \in Nodes, RunStep(n)
      PROVE  Waiters'
  <2>1. CASE ApplyEntry(n) \/ SetApplied(n) \/ UpdateSoftState(n)
    BY <2>1 DEF ApplyEntry, SetApplied, UpdateSoftState, requests
  <2>2. CASE NotifyProposal(n)
    <3> DEFINE i == appliedIndex[n]
    <3>1. /\ UNCHANGED <<pc, at, expected>>
          /\ \A r \in Requests : signalled'[r] = (signalled[r] \/ <<i, r>> \in proposals[n])
      BY <2>2, Zenon DEF NotifyProposal, Notify
    <3>2. \A m \in Nodes : \A p \in proposals'[m] :
            p \in proposals[m] /\ ~ (m = n /\ p[1] = i)
      BY <1>0, <2>2, Zenon DEF NotifyProposal, Notify, Without
    <3>3. \A r \in Requests : <<i, r>> \in proposals[n] =>
            pc[r] = "waiting" /\ at[r] = n /\ expected[r] = i
      OBVIOUS
    <3> HIDE DEF i
    <3>4. ASSUME NEW m \in Nodes, NEW p \in proposals'[m]
          PROVE  /\ pc'[p[2]] = "waiting" /\ at'[p[2]] = m /\ expected'[p[2]] = p[1]
                 /\ ~ signalled'[p[2]]
      <4>1. p \in proposals[m] /\ ~ (m = n /\ p[1] = i) /\ p[2] \in Requests
        BY <1>0, <3>2, Zenon
      <4>2. ~ (<<i, p[2]>> \in proposals[n])
        BY <3>3, <4>1
      <4> QED  BY <3>1, <4>1, <4>2
    <3>5. \A r \in Requests : signalled'[r] => pc'[r] = "waiting"
      BY <3>1, <3>3, Zenon
    <3> QED  BY <3>4, <3>5, Zenon
  <2> QED  BY <1>4, <2>1, <2>2, Zenon DEF RunStep
<1>5. CASE UNCHANGED vars
  BY <1>5, Zenon DEF vars, servers, requests
<1> QED  BY <1>1, <1>2, <1>3, <1>4, <1>5, Zenon DEF Next
----------------------------------------------------------------------------
(* Writes, in the logs and on their way. *)

\* A goroutine that has left Propose does not come back to it.
Proposed(r) == pc[r] \notin {"new", "propose"}

\* ProposeAndWait proposes once, and its request stays with its server.
LEMMA ProposedStays ==
  ASSUME Typed, [Next]_vars, NEW r \in Requests, Proposed(r)
  PROVE  Proposed(r)' /\ at'[r] = at[r]
<1>0. Writes \subseteq Requests /\ Gets \subseteq Requests
  BY Zenon DEF Requests
<1> USE DEF Typed, RequestsTyped, Proposed
<1>1. CASE CommitEntries \/ Election \/ (\E q \in Writes : ForwardArrives(q))
  BY <1>1, Zenon DEF CommitEntries, Election, ForwardArrives, requests
<1>2. ASSUME NEW q \in Writes, WriteStep(q)
      PROVE  Proposed(r)' /\ at'[r] = at[r]
  BY <1>0, <1>2 DEF WriteStep, CheckLeader, Propose, ProposeFails, ReadApplied, Register,
       Receive, Timeout, Reply, Return, Goto
<1>3. ASSUME NEW q \in Gets, GetStep(q)
      PROVE  Proposed(r)' /\ at'[r] = at[r]
  BY <1>0, <1>3, Zenon DEF GetStep, GetStart, GetRead, GetReply, Goto
<1>4. ASSUME NEW n \in Nodes, RunStep(n)
      PROVE  Proposed(r)' /\ at'[r] = at[r]
  BY <1>4, Zenon DEF RunStep, ApplyEntry, SetApplied, NotifyProposal, UpdateSoftState, requests
<1>5. CASE UNCHANGED vars
  BY <1>5, Zenon DEF vars, requests
<1> QED  BY <1>1, <1>2, <1>3, <1>4, <1>5, Zenon DEF Next

\* In a log no write has two places; a write in a log, or on its way to the leader, has
\* left Propose, and no write is both.
Once(l) ==
  /\ \A i \in 1 .. Len(l) : l[i].op \in Writes => Proposed(l[i].op) /\ l[i].op \notin forwarded
  /\ \A i, j \in 1 .. Len(l) : l[i].op \in Writes /\ l[i].op = l[j].op => i = j
AtMostOnce ==
  /\ \A l \in abandoned \cup {log} : Once(l)
  /\ \A r \in forwarded : Proposed(r)

\* A log stays such a log while no write in it is forwarded anew.
LEMMA OnceStays ==
  ASSUME Typed, [Next]_vars, NEW l \in abandoned \cup {log}, Once(l),
         \A r \in forwarded' : r \in forwarded \/ ~ Proposed(r)
  PROVE  Once(l)'
<1>1. \A r \in Writes : Proposed(r) => Proposed(r)'
  BY ProposedStays, Zenon DEF Requests
<1>2. \A i \in 1 .. Len(l) : l[i].op \in Writes => Proposed(l[i].op)' /\ l[i].op \notin forwarded'
  BY <1>1, Zenon DEF Once
<1> QED  BY <1>2, Zenon DEF Once

\* The leader takes a write that has no place in its log.
LEMMA OnceAdded ==
  ASSUME LogTyped, NEW r \in Writes, AddToLog(r), Once(log),
         \A q \in Writes : Proposed(q) => Proposed(q)',
         \A q \in forwarded' : q \in forwarded,
         ~ Proposed(r) \/ r \in forwarded,
         Proposed(r)', r \notin forwarded'
  PROVE  Once(log)'
<1>1. [term |-> term, op |-> r] \in Entry /\ [term |-> term, op |-> r].op = r
  BY Zenon DEF LogTyped, Entry, Ops
<1>2. /\ Len(log') = Len(log) + 1 /\ Len(log) \in Nat
      /\ \A i \in 1 .. Len(log) : log'[i] = log[i]
      /\ log'[Len(log) + 1].op = r
  BY <1>1, Added, LenProperties, Zenon DEF AddToLog, LogTyped
<1>3. \A i \in 1 .. Len(log) : log[i].op # r
  BY Zenon DEF Once
<1>4. ASSUME NEW i \in 1 .. Len(log'), NEW j \in 1 .. Len(log'), log'[i].op \in Writes
      PROVE  /\ pc'[log'[i].op] \notin {"new", "propose"} /\ log'[i].op \notin forwarded'
             /\ log'[i].op = log'[j].op => i = j
  <2>1. i \in 1 .. Len(log) \/ i = Len(log) + 1
    BY <1>2
  <2>2. j \in 1 .. Len(log) \/ j = Len(log) + 1
    BY <1>2
  <2>3. pc'[log'[i].op] \notin {"new", "propose"} /\ log'[i].op \notin forwarded'
    <3>1. CASE i \in 1 .. Len(log)
      <4>1. log'[i].op = log[i].op
        BY <1>2, <3>1, Zenon
      <4>2. Proposed(log[i].op) /\ log[i].op \notin forwarded /\ log[i].op \in Writes
        BY <1>4, <3>1, <4>1, Zenon DEF Once
      <4> QED  BY <4>1, <4>2, Zenon DEF Proposed
    <3>2. CASE i = Len(log) + 1
      BY <1>2, <3>2, Zenon DEF Proposed
    <3> QED  BY <2>1, <3>1, <3>2, Zenon
  <2>4. ASSUME log'[i].op = log'[j].op
        PROVE  i = j
    <3>1. CASE i \in 1 .. Len(log) /\ j \in 1 .. Len(log)
      BY <1>2, <1>4, <2>4, <3>1, Zenon DEF Once
    <3>2. CASE i \in 1 .. Len(log) /\ j = Len(log) + 1
      BY <1>2, <1>3, <2>4, <3>2, Zenon
    <3>3. CASE i = Len(log) + 1 /\ j \in 1 .. Len(log)
      BY <1>2, <1>3, <2>4, <3>3, Zenon
    <3> QED  BY <2>1, <2>2, <3>1, <3>2, <3>3, Zenon
  <2> QED  BY <2>3, <2>4, Zenon
<1> QED  BY <1>4, Zenon DEF Once, Proposed

\* No handler, forwarded proposal or election puts a write into a log twice.
LEMMA AtMostOnceNext ==
  ASSUME Typed, AtMostOnce, [Next]_vars
  PROVE  AtMostOnce'
<1>0. \A r \in Writes : Proposed(r) => Proposed(r)'
  BY ProposedStays, Zenon DEF Requests
<1>1. ASSUME UNCHANGED <<log, abandoned, forwarded>>
      PROVE  AtMostOnce'
  <2>1. \A l \in abandoned \cup {log} : Once(l)'
    BY <1>1, OnceStays, Zenon DEF AtMostOnce
  <2>2. \A r \in forwarded' : Proposed(r)'
    BY <1>0, <1>1, Zenon DEF AtMostOnce, Typed, MarksTyped
  <2> QED  BY <1>1, <2>1, <2>2, Zenon DEF AtMostOnce
<1>2. ASSUME NEW r \in Writes, AddToLog(r), UNCHANGED abandoned,
             \A q \in forwarded' : q \in forwarded,
             ~ Proposed(r) \/ r \in forwarded, Proposed(r)', r \notin forwarded'
      PROVE  AtMostOnce'
  <2>1. \A l \in abandoned' : Once(l)'
    BY <1>2, OnceStays, Zenon DEF AtMostOnce
  <2>3. Once(log)'
    BY <1>0, <1>2, OnceAdded, Zenon DEF AtMostOnce, Typed
  <2>4. \A q \in forwarded' : Proposed(q)'
    BY <1>0, <1>2, Zenon DEF AtMostOnce, Typed, MarksTyped
  <2> QED  BY <2>1, <2>3, <2>4, Zenon DEF AtMostOnce
<1>3. CASE Election
  <2>1. /\ abandoned' = abandoned \cup {log} /\ UNCHANGED <<forwarded, pc>>
    BY <1>3, Zenon DEF Election, requests
  <2>2. \A l \in abandoned' : Once(l)'
    BY <2>1, OnceStays, Zenon DEF AtMostOnce
  <2>a. PICK l \in abandoned \cup {log} : \E k \in commit .. Len(l) :
          log' = SubSeq(l, 1, k) \o << [term |-> term + 1, op |-> "noop"] >>
    BY <1>3, Zenon DEF Election
  <2>3. PICK k \in commit .. Len(l) :
          log' = SubSeq(l, 1, k) \o << [term |-> term + 1, op |-> "noop"] >>
    BY <2>a, Zenon
  <2>4. l \in Seq(Entry) /\ Len(l) \in Nat /\ commit \in Nat
    BY LenProperties DEF Typed, LogTyped
  <2>5. k \in 0 .. Len(l) /\ [term |-> term + 1, op |-> "noop"] \in Entry
    BY <2>4 DEF Typed, LogTyped, Entry, Ops
  <2>6. /\ Len(log') = k + 1 /\ log'[k + 1] = [term |-> term + 1, op |-> "noop"]
        /\ \A i \in 1 .. k : log'[i] = l[i]
    <3> HIDE DEF Entry
    <3> QED  BY <2>3, <2>4, <2>5, NewLog
  <2>7. \A i \in 1 .. Len(log') : log'[i].op \in Writes => i \in 1 .. k /\ log'[i] = l[i]
    <3>1. log'[k + 1].op = "noop" /\ "noop" \notin Writes
      BY <2>6, ConstantsAssumption DEF Writes
    <3> QED  BY <2>5, <2>6, <3>1
  <2>8. Once(l)'
    BY <2>1, <2>2, Zenon
  <2>9. 1 .. k \subseteq 1 .. Len(l)
    BY <2>5
  <2>10. Once(log)'
    BY <2>7, <2>8, <2>9, Zenon DEF Once
  <2>11. \A r \in forwarded' : Proposed(r)'
    BY <2>1, Zenon DEF AtMostOnce, Proposed
  <2> QED  BY <2>2, <2>10, <2>11, Zenon DEF AtMostOnce
<1>4. CASE CommitEntries
  BY <1>1, <1>4, Zenon DEF CommitEntries
<1>5. ASSUME NEW r \in Writes, ForwardArrives(r)
      PROVE  AtMostOnce'
  BY <1>0, <1>2, <1>5, Zenon DEF ForwardArrives, AtMostOnce
<1>6. ASSUME NEW r \in Writes, WriteStep(r)
      PROVE  AtMostOnce'
  <2>1. CASE Propose(r)
    <3>1. ~ Proposed(r) /\ Proposed(r)' /\ r \notin forwarded
      BY <2>1, Zenon DEF Propose, Proposed, Goto, AtMostOnce, Typed, RequestsTyped, Requests
    <3>2. CASE at[r] = leader
      BY <1>2, <2>1, <3>1, <3>2, Zenon DEF Propose
    <3>3. CASE at[r] # leader
      <4>1. UNCHANGED <<log, abandoned>> /\ forwarded' = forwarded \cup {r}
        BY <2>1, <3>3, Zenon DEF Propose
      <4>2. \A l \in abandoned \cup {log} : Once(l)'
        BY <3>1, <4>1, OnceStays, Zenon DEF AtMostOnce
      <4>3. \A q \in forwarded' : Proposed(q)'
        BY <1>0, <3>1, <4>1, Zenon DEF AtMostOnce, Typed, MarksTyped
      <4> QED  BY <4>1, <4>2, <4>3, Zenon DEF AtMostOnce
    <3> QED  BY <3>2, <3>3, Zenon
  <2>2. CASE \/ \E n \in Nodes : CheckLeader(r, n)
             \/ ProposeFails(r) \/ ReadApplied(r) \/ Register(r)
             \/ Receive(r) \/ Timeout(r) \/ Reply(r)
    BY <1>1, <2>2, Zenon DEF CheckLeader, ProposeFails, ReadApplied, Register, Receive, Timeout,
         Reply, consensus
  <2> QED  BY <1>6, <2>1, <2>2, Zenon DEF WriteStep
<1>7. ASSUME NEW r \in Gets, GetStep(r)
      PROVE  AtMostOnce'
  BY <1>1, <1>7, Zenon DEF GetStep, GetStart, GetRead, GetReply, consensus
<1>8. ASSUME NEW n \in Nodes, RunStep(n)
      PROVE  AtMostOnce'
  BY <1>1, <1>8, Zenon DEF RunStep, ApplyEntry, SetApplied, NotifyProposal, UpdateSoftState,
     consensus
<1>9. CASE UNCHANGED vars
  BY <1>1, <1>9, Zenon DEF vars, consensus
<1> QED  BY <1>3, <1>4, <1>5, <1>6, <1>7, <1>8, <1>9, Zenon DEF Next
----------------------------------------------------------------------------
(* Acknowledgements of a quiet leader. *)

\* What makes QuietAckIsSound inductive: the index guessed for a quiet write is not
\* below its own, from Propose to the answer, and its own index is given once.
Guessed(r) ==
  /\ Proposed(r) /\ r \notin forwarded
  /\ pc[r] \in {"proposed", "register", "waiting"} => own[r] <= appliedIndex[at[r]] + 1
  /\ pc[r] \in {"register", "waiting"} => own[r] <= expected[r]
  /\ signalled[r] \/ pc[r] \in {"answered", "ok"} => own[r] <= appliedIndex[at[r]]
QuietGuess == \A r \in Writes : quiet[r] => Guessed(r)

\* The index guessed in ProposeAndWait stays an upper bound of the entry's own.
LEMMA QuietNext ==
  ASSUME Typed, Waiters, AtMostOnce, QuietGuess, [Next]_vars
  PROVE  QuietGuess'
<1> DEFINE Same(q) == /\ quiet'[q] = quiet[q] /\ own'[q] = own[q] /\ pc'[q] = pc[q]
                      /\ expected'[q] = expected[q] /\ signalled'[q] = signalled[q]
<1>0. /\ Writes \subseteq Requests /\ Gets \subseteq Requests /\ Writes \cap Gets = {}
      /\ \A q \in Writes : quiet[q] => Proposed(q) /\ Proposed(q)' /\ at'[q] = at[q]
      /\ \A q \in Writes : own[q] \in Nat /\ expected[q] \in Nat
      /\ \A q \in Writes : pc[q] \in Serving => at[q] \in Nodes
      /\ \A n \in Nodes : appliedIndex[n] \in Nat
      /\ \A q \in Writes : signalled[q] => pc[q] = "waiting"
  BY ProposedStays, ConstantsAssumption, Zenon
     DEF Writes, Requests, QuietGuess, Guessed, Typed, RequestsTyped, Served, ServersTyped,
         MarksTyped, Waiters
<1>1. ASSUME NEW q \in Writes, Same(q), q \in forwarded' => q \in forwarded,
             UNCHANGED appliedIndex
      PROVE  quiet'[q] => Guessed(q)'
  BY <1>0, <1>1, Zenon DEF QuietGuess, Guessed
<1>2. CASE CommitEntries \/ Election
  BY <1>1, <1>2, Zenon DEF CommitEntries, Election, servers, requests, marks, QuietGuess
<1>3. ASSUME NEW r \in Writes, ForwardArrives(r)
      PROVE  QuietGuess'
  <2>1. ~ quiet[r] /\ UNCHANGED <<quiet, pc, expected, signalled, appliedIndex>>
    BY <1>3, Zenon DEF ForwardArrives, QuietGuess, Guessed, servers, requests
  <2>2. \A q \in Writes : q # r => Same(q)
    BY <1>0, <1>3, <2>1, Zenon DEF ForwardArrives, Typed, MarksTyped
  <2>3. \A q \in forwarded' : q \in forwarded
    BY <1>3, Zenon DEF ForwardArrives
  <2> QED  BY <1>1, <2>1, <2>2, <2>3, Zenon DEF QuietGuess
<1>4. ASSUME NEW r \in Writes, WriteStep(r)
      PROVE  QuietGuess'
  <2>0. r \in Requests /\ UNCHANGED appliedIndex
    BY <1>0, <1>4, Zenon DEF WriteStep, CheckLeader, Propose, ProposeFails, ReadApplied, Register,
         Receive, Timeout, Reply, servers
  <2>1. ASSUME NEW q \in Writes, q # r
        PROVE  quiet'[q] => Guessed(q)'
    <3> USE <1>0, <2>1 DEF Typed, RequestsTyped, MarksTyped, Goto, Return, consensus, marks
    <3>1. Same(q) /\ (q \in forwarded' => q \in forwarded)
      <4>1. ASSUME NEW n \in Nodes, CheckLeader(r, n)
            PROVE  Same(q) /\ UNCHANGED forwarded
        BY <4>1, Zenon DEF CheckLeader
      <4>2. CASE Propose(r)
        BY <4>2, Zenon DEF Propose
      <4>3. CASE ProposeFails(r) \/ Register(r)
        BY <4>3, Zenon DEF ProposeFails, Register
      <4>4. CASE ReadApplied(r)
        BY <4>4, Zenon DEF ReadApplied
      <4>5. CASE Receive(r)
        BY <4>5, Zenon DEF Receive
      <4>6. CASE Timeout(r)
        BY <4>6, Zenon DEF Timeout
      <4>7. CASE Reply(r)
        BY <4>7, Zenon DEF Reply
      <4> QED  BY <1>4, <4>1, <4>2, <4>3, <4>4, <4>5, <4>6, <4>7, Zenon DEF WriteStep
    <3> QED  BY <1>1, <2>0, <3>1, Zenon
  <2>2. ASSUME NEW n \in Nodes, CheckLeader(r, n)
        PROVE  ~ quiet'[r]
    BY <1>0, <2>2, Zenon DEF CheckLeader, marks, Proposed
  <2>3. ASSUME Propose(r), quiet'[r]
        PROVE  Guessed(r)'
    <3>1. ~ quiet[r] /\ at[r] \in Nodes /\ r \notin forwarded /\ ~ signalled[r]
      BY <1>0, <2>3, Zenon DEF Propose, Proposed, Serving, AtMostOnce
    <3>2. CASE at[r] # leader
      BY <2>3, <3>1, <3>2, Zenon DEF Propose
    <3>3. CASE at[r] = leader
      <4>1. own'[r] = Len(log) + 1 /\ appliedIndex[at[r]] = Len(log)
        BY <2>0, <2>3, <3>3, Zenon DEF Propose, Typed, MarksTyped
      <4>2. UNCHANGED <<at, forwarded, signalled>> /\ pc'[r] = "proposed"
        BY <2>0, <2>3, <3>3, Zenon DEF Propose, Goto, Typed, RequestsTyped
      <4>3. own'[r] = appliedIndex'[at'[r]] + 1 /\ appliedIndex'[at'[r]] = Len(log)
        BY <2>0, <4>1, <4>2, Zenon
      <4>6. Len(log) \in Nat
        BY LenProperties, Zenon DEF Typed, LogTyped
      <4>4. own'[r] <= appliedIndex'[at'[r]] + 1
        BY <4>3, <4>6
      <4>5. ~ signalled'[r] /\ r \notin forwarded'
        BY <3>1, <4>2, Zenon
      <4> QED  BY <4>2, <4>4, <4>5, Zenon DEF Guessed, Proposed
    <3> QED  BY <3>2, <3>3, Zenon
  <2>4. ASSUME quiet'[r], ~ (\E n \in Nodes : CheckLeader(r, n)), ~ Propose(r)
        PROVE  Guessed(r)'
    <3>1. CASE ProposeFails(r)
      BY <1>0, <2>4, <3>1, Zenon DEF ProposeFails, marks, Proposed
    <3>2. CASE ReadApplied(r)
      <4>1. /\ quiet[r] /\ own'[r] = own[r] /\ pc'[r] = "register" /\ pc[r] = "proposed"
            /\ expected'[r] = appliedIndex[at[r]] + 1 /\ UNCHANGED <<at, forwarded, signalled>>
        BY <2>0, <2>4, <3>2, Zenon DEF ReadApplied, Goto, marks, consensus, Typed, RequestsTyped
      <4> QED  BY <1>0, <2>0, <4>1, Zenon DEF QuietGuess, Guessed, Proposed
    <3>3. CASE Register(r)
      <4>1. /\ quiet[r] /\ own'[r] = own[r] /\ pc'[r] = "waiting" /\ pc[r] = "register"
            /\ UNCHANGED <<at, forwarded, signalled, expected>>
        BY <2>0, <2>4, <3>3, Zenon DEF Register, Goto, marks, consensus, Typed, RequestsTyped
      <4> QED  BY <1>0, <2>0, <4>1, Zenon DEF QuietGuess, Guessed, Proposed
    <3>4. CASE Receive(r)
      <4>1. /\ quiet[r] /\ own'[r] = own[r] /\ pc'[r] = "answered" /\ signalled[r]
            /\ UNCHANGED <<at, forwarded>>
        BY <2>0, <2>4, <3>4, Zenon DEF Receive, Return, Goto, marks, consensus, Typed, RequestsTyped
      <4> QED  BY <1>0, <2>0, <4>1, Zenon DEF QuietGuess, Guessed, Proposed
    <3>5. CASE Timeout(r)
      <4>1. /\ quiet[r] /\ pc'[r] = "failed" /\ ~ signalled'[r] /\ UNCHANGED forwarded
        BY <2>0, <2>4, <3>5, Zenon DEF Timeout, Return, Goto, marks, consensus, Typed, RequestsTyped
      <4> QED  BY <4>1, Zenon DEF QuietGuess, Guessed, Proposed
    <3>6. CASE Reply(r)
      <4>1. /\ quiet[r] /\ own'[r] = own[r] /\ pc'[r] = "ok" /\ pc[r] = "answered"
            /\ UNCHANGED <<at, forwarded, signalled>>
        BY <2>0, <2>4, <3>6, Zenon DEF Reply, Goto, marks, consensus, Typed, RequestsTyped
      <4> QED  BY <1>0, <2>0, <4>1, Zenon DEF QuietGuess, Guessed, Proposed
    <3> QED  BY <1>4, <2>4, <3>1, <3>2, <3>3, <3>4, <3>5, <3>6, Zenon DEF WriteStep
  <2> QED  BY <2>1, <2>2, <2>3, <2>4, Zenon DEF QuietGuess
<1>5. ASSUME NEW r \in Gets, GetStep(r)
      PROVE  QuietGuess'
  <2>1. ASSUME NEW q \in Writes
        PROVE  Same(q) /\ UNCHANGED <<forwarded, appliedIndex>>
    BY <1>0, <1>5, Zenon DEF GetStep, GetStart, GetRead, GetReply, Goto, consensus, servers, marks,
         Typed, RequestsTyped
  <2> QED  BY <1>1, <2>1, Zenon DEF QuietGuess
<1>6. ASSUME NEW n \in Nodes, RunStep(n)
      PROVE  QuietGuess'
  <2>1. CASE ApplyEntry(n) \/ UpdateSoftState(n)
    BY <1>1, <2>1, Zenon DEF ApplyEntry, UpdateSoftState, requests, marks, consensus, QuietGuess
  <2>2. CASE SetApplied(n)
    <3>1. /\ UNCHANGED <<forwarded, quiet, own, pc, at, expected, signalled>>
          /\ \A m \in Nodes : appliedIndex'[m] \in Nat /\ appliedIndex[m] <= appliedIndex'[m]
      <4>1. UNCHANGED <<forwarded, quiet, own, pc, at, expected, signalled>>
        BY <2>2, Zenon DEF SetApplied, requests, marks, consensus
      <4>2. appliedIndex' = [appliedIndex EXCEPT ![n] = @ + 1]
        BY <2>2, Zenon DEF SetApplied
      <4>3. appliedIndex \in [Nodes -> Nat]
        BY Zenon DEF Typed, ServersTyped
      <4> QED  BY <4>1, <4>2, <4>3
    <3>2. ASSUME NEW q \in Writes, quiet'[q]
          PROVE  Guessed(q)'
      <4>1. Guessed(q)
        BY <3>1, <3>2, Zenon DEF QuietGuess
      <4>2. CASE pc[q] \in Serving
        <5>1. at[q] \in Nodes
          BY <1>0, <4>2, Zenon
        <5>2. appliedIndex[at[q]] <= appliedIndex'[at[q]] /\ appliedIndex'[at[q]] \in Nat
          BY <3>1, <5>1, Zenon
        <5>3. appliedIndex[at[q]] \in Nat /\ own[q] \in Nat
          BY <1>0, <5>1, Zenon
        <5>4. own[q] <= appliedIndex[at[q]] + 1 => own[q] <= appliedIndex'[at[q]] + 1
          BY <5>2, <5>3
        <5>5. own[q] <= appliedIndex[at[q]] => own[q] <= appliedIndex'[at[q]]
          BY <5>2, <5>3
        <5> QED  BY <3>1, <4>1, <5>4, <5>5, Zenon DEF Guessed, Proposed
      <4>3. CASE pc[q] \notin Serving
        BY <1>0, <3>1, <4>1, <4>3, Zenon DEF Guessed, Proposed, Serving
      <4> QED  BY <4>2, <4>3, Zenon
    <3> QED  BY <3>2, Zenon DEF QuietGuess
  <2>3. CASE NotifyProposal(n)
    <3>1. /\ UNCHANGED <<forwarded, quiet, own, pc, at, expected, appliedIndex>>
          /\ \A q \in Writes : signalled'[q] =
                (signalled[q] \/ <<appliedIndex[n], q>> \in proposals[n])
      BY <1>0, <2>3, Zenon DEF NotifyProposal, Notify, marks, consensus
    <3>2. \A q \in Writes : <<appliedIndex[n], q>> \in proposals[n] =>
            pc[q] = "waiting" /\ at[q] = n /\ expected[q] = appliedIndex[n]
      <4> SUFFICES ASSUME NEW q \in Writes, <<appliedIndex[n], q>> \in proposals[n]
                   PROVE  pc[q] = "waiting" /\ at[q] = n /\ expected[q] = appliedIndex[n]
        BY Zenon
      <4> DEFINE p == <<appliedIndex[n], q>>
      <4>1. p \in proposals[n] /\ p[1] = appliedIndex[n] /\ p[2] = q
        BY Zenon
      <4> HIDE DEF p
      <4>2. pc[p[2]] = "waiting" /\ at[p[2]] = n /\ expected[p[2]] = p[1]
        BY <4>1, Zenon DEF Waiters, WaitersAreWaiting
      <4> QED  BY <4>1, <4>2, Zenon
    <3> QED  BY <3>1, <3>2, Zenon DEF QuietGuess, Guessed, Proposed
  <2> QED  BY <1>6, <2>1, <2>2, <2>3, Zenon DEF RunStep
<1>7. CASE UNCHANGED vars
  BY <1>1, <1>7, Zenon DEF vars, consensus, servers, requests, marks, QuietGuess
<1> QED  BY <1>2, <1>3, <1>4, <1>5, <1>6, <1>7, Zenon DEF Next
============================================================================
