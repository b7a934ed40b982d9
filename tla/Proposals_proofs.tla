------------------------- MODULE Proposals_proofs --------------------------
(***************************************************************************)
(* Proofs about Proposals and Checker: the waiters, the store, that the    *)
(* servers implement KVService, and that a history which the checker       *)
(* accepts is linearizable.                                                *)
(***************************************************************************)
EXTENDS Checker, ProposalLemmas
----------------------------------------------------------------------------
(* The store. *)

\* The value after i operations depends on these operations alone.
LEMMA ValueOfSame ==
  ASSUME NEW d, NEW e, NEW i \in Nat, \A j \in 1 .. i : d[j] = e[j]
  PROVE  Service!ValueOf(d, i) = Service!ValueOf(e, i)
<1> DEFINE w(f) == {j \in 1 .. i : f[j] # "noop"}
<1> DEFINE last(f) == CHOOSE j \in w(f) : \A k \in w(f) : k <= j
<1>1. \A f : Service!ValueOf(f, i) =
        IF w(f) = {} THEN "absent"
        ELSE IF f[last(f)] \in Deletes THEN "" ELSE f[last(f)]
  BY Zenon DEF Service!ValueOf
<1>2. w(d) = w(e)
  BY Zenon
<1>3. last(d) = last(e)
  BY <1>2, Zenon
<1>4. w(d) # {} => d[last(d)] = e[last(d)]
  <2>1. w(d) \in SUBSET Nat /\ \A j \in w(d) : j <= i
    OBVIOUS
  <2>2. w(d) # {} => \E j \in w(d) : \A k \in w(d) : k <= j
    <3> HIDE DEF w
    <3> QED  BY <2>1, GreatestExists, Zenon
  <2>3. w(d) # {} => last(d) \in w(d)
    BY <2>2, Zenon
  <2> QED  BY <2>3, Zenon
<1> HIDE DEF w, last
<1>5. CASE w(d) = {}
  BY <1>1, <1>2, <1>5, Zenon
<1>6. CASE w(d) # {}
  <2>1. w(e) # {} /\ d[last(d)] = e[last(e)]
    BY <1>2, <1>3, <1>4, <1>6, Zenon
  <2> QED  BY <1>1, <1>6, <2>1, Zenon
<1> QED  BY <1>5, <1>6, Zenon

\* One operation more.
LEMMA ValueOfNext ==
  ASSUME NEW d, NEW i \in Nat
  PROVE  Service!ValueOf(d, i + 1) =
           IF d[i + 1] = "noop" THEN Service!ValueOf(d, i) ELSE Value(d[i + 1])
<1> DEFINE w(n) == {j \in 1 .. n : d[j] # "noop"}
<1> DEFINE last(n) == CHOOSE j \in w(n) : \A k \in w(n) : k <= j
<1>1. \A n : Service!ValueOf(d, n) =
        IF w(n) = {} THEN "absent"
        ELSE IF d[last(n)] \in Deletes THEN "" ELSE d[last(n)]
  BY Zenon DEF Service!ValueOf
<1>2. CASE d[i + 1] = "noop"
  <2>1. w(i + 1) = w(i)
    BY <1>2
  <2>2. Service!ValueOf(d, i + 1) = Service!ValueOf(d, i)
    <3> HIDE DEF w
    <3> QED  BY <1>1, <2>1, Zenon
  <2> QED  BY <1>2, <2>2, Zenon
<1>3. CASE d[i + 1] # "noop"
  <2>1. i + 1 \in w(i + 1) /\ \A k \in w(i + 1) : k <= i + 1 /\ k \in Nat
    BY <1>3
  <2>2. last(i + 1) = i + 1
    <3>1. \A j \in w(i + 1) : (\A k \in w(i + 1) : k <= j) => j = i + 1
      <4> HIDE DEF w
      <4> QED  BY <2>1
    <3> HIDE DEF w
    <3> QED  BY <2>1, <3>1, Zenon
  <2>3. w(i + 1) # {}
    <3> HIDE DEF w
    <3> QED  BY <2>1, Zenon
  <2> HIDE DEF w, last
  <2> QED  BY <1>1, <1>3, <2>2, <2>3, Zenon DEF Value
<1> QED  BY <1>2, <1>3, Zenon

\* What is committed stays, in its place.
CommittedStays ==
  /\ commit \in Nat /\ commit' \in Nat /\ commit <= commit'
  /\ \A i \in 1 .. commit : log'[i] = log[i]

\* No step takes back or changes what is committed.
LEMMA CommittedKept ==
  ASSUME Typed, [Next]_vars
  PROVE  CommittedStays
<1>0. /\ log \in Seq(Entry) /\ Len(log) \in Nat /\ commit \in 0 .. Len(log)
      /\ abandoned \subseteq Seq(Entry) /\ term \in Nat
  BY LenProperties, Zenon DEF Typed, LogTyped
<1>1. ASSUME UNCHANGED <<log, commit>>
      PROVE  CommittedStays
  BY <1>0, <1>1 DEF CommittedStays
<1>2. ASSUME NEW r \in Writes, AddToLog(r), UNCHANGED commit
      PROVE  CommittedStays
  <2>1. [term |-> term, op |-> r] \in Entry
    BY <1>0, Zenon DEF Entry, Ops
  <2>2. \A i \in 1 .. Len(log) : log'[i] = log[i]
    <3> HIDE DEF Entry
    <3> QED  BY <1>0, <1>2, <2>1, Added, Zenon DEF AddToLog
  <2> QED  BY <1>0, <1>2, <2>2 DEF CommittedStays
<1>3. CASE CommitEntries
  BY <1>0, <1>3 DEF CommitEntries, CommittedStays
<1>4. CASE Election
  <2>1. PICK l \in abandoned \cup {log} : \E k \in commit .. Len(l) :
          /\ SubSeq(l, 1, commit) = SubSeq(log, 1, commit)
          /\ log' = SubSeq(l, 1, k) \o << [term |-> term + 1, op |-> "noop"] >>
    BY <1>4, Zenon DEF Election
  <2>2. PICK k \in commit .. Len(l) :
          /\ SubSeq(l, 1, commit) = SubSeq(log, 1, commit)
          /\ log' = SubSeq(l, 1, k) \o << [term |-> term + 1, op |-> "noop"] >>
    BY <2>1, Zenon
  <2>3. l \in Seq(Entry) /\ Len(l) \in Nat
    BY <1>0, LenProperties, Zenon
  <2>4. /\ k \in 0 .. Len(l) /\ commit \in 0 .. Len(l)
        /\ [term |-> term + 1, op |-> "noop"] \in Entry
    BY <1>0, <2>3 DEF Entry, Ops
  <2>5. \A i \in 1 .. k : log'[i] = l[i]
    <3> HIDE DEF Entry
    <3> QED  BY <2>2, <2>3, <2>4, NewLog, Zenon
  <2>6. \A i \in 1 .. commit : SubSeq(l, 1, commit)[i] = l[i]
    BY <2>3, <2>4, Front, Zenon
  <2>7. \A i \in 1 .. commit : SubSeq(log, 1, commit)[i] = log[i]
    BY <1>0, Front, Zenon
  <2>8. \A i \in 1 .. commit : i \in 1 .. k
    BY <1>0, <2>4
  <2>9. commit' = commit
    BY <1>4, Zenon DEF Election
  <2> QED  BY <1>0, <2>2, <2>5, <2>6, <2>7, <2>8, <2>9 DEF CommittedStays
<1>5. ASSUME NEW r \in Writes, ForwardArrives(r)
      PROVE  CommittedStays
  BY <1>2, <1>5, Zenon DEF ForwardArrives
<1>6. ASSUME NEW r \in Writes, WriteStep(r)
      PROVE  CommittedStays
  BY <1>1, <1>2, <1>6, Zenon DEF WriteStep, CheckLeader, Propose, ProposeFails, ReadApplied,
       Register, Receive, Timeout, Reply, consensus
<1>7. ASSUME NEW r \in Gets, GetStep(r)
      PROVE  CommittedStays
  BY <1>1, <1>7, Zenon DEF GetStep, GetStart, GetRead, GetReply, consensus
<1>8. ASSUME NEW n \in Nodes, RunStep(n)
      PROVE  CommittedStays
  BY <1>1, <1>8, Zenon DEF RunStep, ApplyEntry, SetApplied, NotifyProposal, UpdateSoftState,
     consensus
<1>9. CASE UNCHANGED vars
  BY <1>1, <1>9, Zenon DEF vars, consensus
<1> QED  BY <1>3, <1>4, <1>5, <1>6, <1>7, <1>8, <1>9, Zenon DEF Next

\* A store changes only where its run loop applies the next entry.
StoreStays(n) == data'[n] = data[n] /\ InStore(n)' = InStore(n)

\* Only applyEntry changes what a store reflects.
LEMMA StoreSteps ==
  ASSUME Typed, [Next]_vars, NEW n \in Nodes, ~ ApplyEntry(n)
  PROVE  StoreStays(n)
<1> USE DEF StoreStays, InStore
<1>1. ASSUME UNCHANGED <<appliedIndex, loop, data>>
      PROVE  StoreStays(n)
  BY <1>1, Zenon
<1>2. ASSUME NEW m \in Nodes, RunStep(m)
      PROVE  StoreStays(n)
  <2> USE DEF Typed, ServersTyped
  <2>1. CASE ApplyEntry(m)
    <3>1. m # n
      BY <2>1, Zenon
    <3>2. UNCHANGED appliedIndex /\ loop'[n] = loop[n] /\ data'[n] = data[n]
      BY <2>1, <3>1, Zenon DEF ApplyEntry
    <3> QED  BY <3>2, Zenon
  <2>2. CASE SetApplied(m)
    <3>1. m # n => appliedIndex'[n] = appliedIndex[n] /\ loop'[n] = loop[n]
      BY <2>2, Zenon DEF SetApplied
    <3>2. m = n => /\ appliedIndex'[n] = appliedIndex[n] + 1 /\ appliedIndex[n] \in Nat
                   /\ loop[n] = "applied" /\ loop'[n] = "counted"
      BY <2>2, Zenon DEF SetApplied
    <3>3. UNCHANGED data
      BY <2>2, Zenon DEF SetApplied
    <3> QED  BY <3>1, <3>2, <3>3
  <2>3. CASE NotifyProposal(m)
    <3>1. UNCHANGED <<appliedIndex, data>> /\ (loop'[n] = "applied" <=> loop[n] = "applied")
      BY <2>3, Zenon DEF NotifyProposal
    <3> QED  BY <3>1, Zenon
  <2>4. CASE UpdateSoftState(m)
    BY <1>1, <2>4, Zenon DEF UpdateSoftState
  <2> QED  BY <1>2, <2>1, <2>2, <2>3, <2>4, Zenon DEF RunStep
<1>3. CASE \/ CommitEntries \/ Election \/ (\E r \in Writes : ForwardArrives(r) \/ WriteStep(r))
           \/ (\E r \in Gets : GetStep(r)) \/ UNCHANGED vars
  <2>1. UNCHANGED <<appliedIndex, loop, data>>
    BY <1>3, Zenon DEF CommitEntries, Election, ForwardArrives, WriteStep, CheckLeader, Propose,
         ProposeFails, ReadApplied, Register, Receive, Timeout, Reply, GetStep, GetStart,
         GetRead, GetReply, vars, servers
  <2> QED  BY <1>1, <2>1, Zenon
<1> QED  BY <1>2, <1>3, Zenon DEF Next

\* applyEntry brings a store to the value of one committed entry more.
LEMMA StoreNext ==
  ASSUME Typed, StoreFollowsLog, [Next]_vars
  PROVE  StoreFollowsLog'
<1> SUFFICES ASSUME NEW n \in Nodes
             PROVE  /\ InStore(n)' <= commit'
                    /\ data'[n] = Service!ValueOf(Decided', InStore(n)')
  BY Zenon DEF StoreFollowsLog
<1>0. /\ InStore(n) \in Nat /\ InStore(n) <= commit /\ appliedIndex[n] \in Nat
      /\ data[n] = Service!ValueOf(Decided, InStore(n))
  BY DEF StoreFollowsLog, InStore, Typed, ServersTyped
<1>1. /\ commit \in Nat /\ commit' \in Nat /\ commit <= commit'
      /\ \A i \in 1 .. commit : Decided'[i] = Decided[i]
  BY CommittedKept DEF CommittedStays, Decided
<1>2. Service!ValueOf(Decided', InStore(n)) = Service!ValueOf(Decided, InStore(n))
  BY <1>0, <1>1, ValueOfSame
<1>3. CASE ~ ApplyEntry(n)
  BY <1>0, <1>1, <1>2, <1>3, StoreSteps DEF StoreStays
<1>4. CASE ApplyEntry(n)
  <2>1. /\ InStore(n) = appliedIndex[n] /\ InStore(n)' = appliedIndex[n] + 1
        /\ appliedIndex[n] + 1 \in 1 .. commit /\ UNCHANGED <<log, commit>>
    BY <1>0, <1>1, <1>4 DEF ApplyEntry, InStore, consensus, Typed, ServersTyped
  <2>2. Decided[appliedIndex[n] + 1] = log[appliedIndex[n] + 1].op /\ Decided' = Decided
    BY <2>1, Zenon DEF Decided
  <2>3. data'[n] = IF Decided[appliedIndex[n] + 1] = "noop" THEN data[n]
                   ELSE Value(Decided[appliedIndex[n] + 1])
    BY <1>4, <2>2, Zenon DEF ApplyEntry, Typed, ServersTyped
  <2> QED  BY <1>0, <1>1, <2>1, <2>2, <2>3, ValueOfNext
<1> QED  BY <1>3, <1>4, Zenon
----------------------------------------------------------------------------
(* The servers implement KVService. *)

Applied == [n \in Nodes |-> InStore(n)]
Outcomes == [r \in Requests |-> Outcome(r)]
OutcomeAt(place) == IF place \in {"new", "ok", "failed"} THEN place ELSE "pending"

\* An interval from 1 has one upper end.
LEMMA SameLength ==
  ASSUME NEW m \in Nat, NEW n \in Nat, 1 .. m = 1 .. n
  PROVE  m = n
<1>1. m <= n
  <2>1. CASE m = 0
    BY <2>1
  <2>2. CASE m # 0
    <3>1. m \in 1 .. m
      BY <2>2
    <3>2. m \in 1 .. n
      BY <3>1, Zenon
    <3> QED  BY <3>2
  <2> QED  BY <2>1, <2>2, Zenon
<1>2. n <= m
  <2>1. CASE n = 0
    BY <2>1
  <2>2. CASE n # 0
    <3>1. n \in 1 .. n
      BY <2>2
    <3>2. n \in 1 .. m
      BY <3>1, Zenon
    <3> QED  BY <3>2
  <2> QED  BY <2>1, <2>2, Zenon
<1> QED  BY <1>1, <1>2

\* The operations of a committed prefix, and how many they are.
LEMMA OpsOfLog ==
  ASSUME NEW l \in Seq(Entry), NEW c \in 0 .. Len(l)
  PROVE  /\ [i \in 1 .. c |-> l[i].op] \in Seq(Ops)
         /\ Len([i \in 1 .. c |-> l[i].op]) = c
<1> DEFINE ops == [i \in 1 .. c |-> l[i].op]
<1>1. c \in Nat /\ Len(l) \in Nat
  BY LenProperties
<1>2. \A i \in 1 .. c : l[i] \in Entry
  BY <1>1, ElementOfSeq
<1>3. \A i \in 1 .. c : l[i].op \in Ops
  BY <1>2, Zenon DEF Entry
<1>4. ops \in [1 .. c -> Ops] /\ DOMAIN ops = 1 .. c
  BY <1>3, Zenon
<1> HIDE DEF ops
<1>5. ops \in Seq(Ops)
  BY <1>1, <1>4, SeqDef, Zenon
<1>6. Len(ops) \in Nat /\ DOMAIN ops = 1 .. Len(ops)
  BY <1>5, LenProperties, Zenon
<1>7. Len(ops) = c
  BY <1>1, <1>4, <1>6, SameLength, Zenon
<1> QED  BY <1>5, <1>7, Zenon DEF ops

\* The operations that a commit adds are writes begun and not decided before, or empty.
LEMMA CommitDecides ==
  ASSUME Typed, AtMostOnce, CommitEntries
  PROVE  Service!Decide
<1>1. /\ Len(Decided) = commit /\ Len(Decided') = commit'
      /\ commit \in Nat /\ commit' \in commit + 1 .. Len(log) /\ Len(log) \in Nat
      /\ UNCHANGED <<log, appliedIndex, loop, pc, got>>
  <2>1. commit \in 0 .. Len(log) /\ log \in Seq(Entry) /\ Len(log) \in Nat
    BY LenProperties, Zenon DEF Typed, LogTyped
  <2>2. commit' \in 0 .. Len(log) /\ log' = log
    BY <2>1 DEF CommitEntries
  <2>3. Len(Decided) = commit
    BY <2>1, OpsOfLog, Zenon DEF Decided
  <2>4. Len(Decided') = commit'
    BY <2>1, <2>2, OpsOfLog, Zenon DEF Decided
  <2> QED  BY <2>1, <2>3, <2>4 DEF CommitEntries, servers, requests
<1>2. \A i \in 1 .. commit : Decided'[i] = Decided[i]
  BY <1>1 DEF Decided
<1>3. ASSUME NEW i \in commit + 1 .. commit'
      PROVE  \/ Decided'[i] = "noop"
             \/ /\ Decided'[i] \in Writes /\ Outcomes[Decided'[i]] # "new"
                /\ \A j \in 1 .. i - 1 : Decided'[j] # Decided'[i]
  <2>1. i \in 1 .. Len(log) /\ i \in 1 .. commit' /\ \A j \in 1 .. i - 1 : j \in 1 .. commit'
    BY <1>1
  <2>2. Decided'[i] = log[i].op /\ \A j \in 1 .. i - 1 : Decided'[j] = log[j].op
    BY <1>1, <2>1, Zenon DEF Decided
  <2>3. log[i].op \in Ops
    <3>1. log[i] \in Entry
      BY <2>1, ElementOfSeq, Zenon DEF Typed, LogTyped
    <3> QED  BY <3>1, Zenon DEF Entry
  <2>4. CASE log[i].op \in Writes
    <3>1. Outcomes[log[i].op] # "new"
      BY <2>1, <2>4, Zenon DEF Outcomes, Outcome, AtMostOnce, Once, Proposed, Requests
    <3>2. \A j \in 1 .. i - 1 : log[j].op # log[i].op
      <4>1. \A j \in 1 .. i - 1 : j \in 1 .. Len(log) /\ j # i
        BY <1>1, <2>1
      <4> QED  BY <2>1, <2>4, <4>1, Zenon DEF AtMostOnce, Once
    <3> QED  BY <2>2, <2>4, <3>1, <3>2, Zenon
  <2> QED  BY <2>2, <2>3, <2>4, Zenon DEF Ops
<1>4. Applied' = Applied /\ Outcomes' = Outcomes
  BY <1>1, Zenon DEF Applied, InStore, Outcomes, Outcome
<1> QED  BY <1>1, <1>2, <1>3, <1>4 DEF Service!Decide, Service!Writes, Writes, Applied, Outcomes

\* Each step of handlers, run loops and consensus is a step of the service or none.
LEMMA StepImplements ==
  ASSUME Typed, AtMostOnce, StoreFollowsLog, [Next]_vars
  PROVE  [Service!Next]_(Service!vars)
<1>0. Writes \subseteq Requests /\ Gets \subseteq Requests
  BY Zenon DEF Requests
<1>1. ASSUME UNCHANGED commit
      PROVE  Decided' = Decided
  BY <1>1, CommittedKept, Zenon DEF Decided, CommittedStays
<1>2. ASSUME UNCHANGED <<appliedIndex, loop>>
      PROVE  Applied' = Applied
  BY <1>2, Zenon DEF Applied, InStore
<1>3. ASSUME UNCHANGED pc
      PROVE  Outcomes' = Outcomes
  BY <1>3, Zenon DEF Outcomes, Outcome
<1>4. ASSUME NEW r \in Requests, NEW place, Goto(r, place)
      PROVE  Outcomes' = [Outcomes EXCEPT ![r] = OutcomeAt(place)]
  BY <1>4, Zenon DEF Outcomes, Outcome, OutcomeAt, Goto, Typed, RequestsTyped
<1>5. ASSUME Decided' = Decided, Applied' = Applied, Outcomes' = Outcomes, UNCHANGED got
      PROVE  UNCHANGED Service!vars
  BY <1>5, Zenon DEF Service!vars, Applied, Outcomes
<1>6. ASSUME NEW r \in Requests, NEW place, Goto(r, place),
             UNCHANGED <<commit, appliedIndex, loop, got>>
      PROVE  /\ OutcomeAt(place) = Outcome(r) => UNCHANGED Service!vars
             /\ Outcome(r) = "new" /\ OutcomeAt(place) = "pending" => Service!Begin(r)
             /\ Outcome(r) = "new" /\ OutcomeAt(place) = "failed" => Service!Refuse(r)
             /\ Outcome(r) = "pending" /\ OutcomeAt(place) \in {"ok", "failed"}
                  => Service!Answer(r)
  <2>1. /\ Decided' = Decided /\ Applied' = Applied /\ UNCHANGED got
        /\ Outcomes' = [Outcomes EXCEPT ![r] = OutcomeAt(place)] /\ Outcomes[r] = Outcome(r)
    BY <1>1, <1>2, <1>4, <1>6, Zenon DEF Outcomes
  <2>2. ASSUME OutcomeAt(place) = Outcome(r)
        PROVE  UNCHANGED Service!vars
    <3>1. Outcomes' = Outcomes
      BY <2>1, <2>2, Zenon DEF Outcomes
    <3> QED  BY <1>5, <2>1, <3>1, Zenon
  <2>3. ASSUME Outcome(r) = "new", OutcomeAt(place) = "pending"
        PROVE  Service!Begin(r)
    BY <2>1, <2>3, Zenon DEF Service!Begin, Applied, Outcomes
  <2>4. ASSUME Outcome(r) = "new", OutcomeAt(place) = "failed"
        PROVE  Service!Refuse(r)
    BY <2>1, <2>4, Zenon DEF Service!Refuse, Applied, Outcomes
  <2>5. ASSUME Outcome(r) = "pending", OutcomeAt(place) \in {"ok", "failed"}
        PROVE  Service!Answer(r)
    BY <2>1, <2>5, Zenon DEF Service!Answer, Applied, Outcomes
  <2> QED  BY <2>2, <2>3, <2>4, <2>5, Zenon
<1>7. CASE CommitEntries
  BY <1>7, CommitDecides, Zenon DEF Service!Next
<1>8. CASE Election \/ (\E r \in Writes : ForwardArrives(r))
  <2>1. UNCHANGED <<commit, appliedIndex, loop, pc, got>>
    BY <1>8, Zenon DEF Election, ForwardArrives, servers, requests
  <2> QED  BY <1>1, <1>2, <1>3, <1>5, <2>1, Zenon
<1>9. ASSUME NEW r \in Writes, WriteStep(r)
      PROVE  [Service!Next]_(Service!vars)
  <2>1. UNCHANGED <<commit, appliedIndex, loop, got>>
    BY <1>9, Zenon DEF WriteStep, CheckLeader, Propose, ProposeFails, ReadApplied, Register,
         Receive, Timeout, Reply, consensus, servers
  <2>2. \A place : Goto(r, place) =>
          /\ OutcomeAt(place) = Outcome(r) => UNCHANGED Service!vars
          /\ Outcome(r) = "new" /\ OutcomeAt(place) = "pending" => Service!Begin(r)
          /\ Outcome(r) = "new" /\ OutcomeAt(place) = "failed" => Service!Refuse(r)
          /\ Outcome(r) = "pending" /\ OutcomeAt(place) \in {"ok", "failed"}
               => Service!Answer(r)
    BY <1>0, <1>6, <2>1, Zenon
  <2>3. /\ OutcomeAt("propose") = "pending" /\ OutcomeAt("proposed") = "pending"
        /\ OutcomeAt("register") = "pending" /\ OutcomeAt("waiting") = "pending"
        /\ OutcomeAt("answered") = "pending" /\ OutcomeAt("ok") = "ok"
        /\ OutcomeAt("failed") = "failed" /\ OutcomeAt("new") = "new"
        /\ Outcome(r) = OutcomeAt(pc[r])
    BY Zenon DEF OutcomeAt, Outcome
  <2>4. UNCHANGED Service!vars \/ Service!Begin(r) \/ Service!Refuse(r) \/ Service!Answer(r)
    <3>1. ASSUME NEW n \in Nodes, CheckLeader(r, n)
          PROVE  Service!Begin(r) \/ Service!Refuse(r)
      BY <2>2, <2>3, <3>1, Zenon DEF CheckLeader
    <3>2. CASE Propose(r)
      BY <2>2, <2>3, <3>2, Zenon DEF Propose
    <3>3. CASE ProposeFails(r)
      BY <2>2, <2>3, <3>3, Zenon DEF ProposeFails
    <3>4. CASE ReadApplied(r) \/ Register(r)
      <4>1. \/ Goto(r, "register") /\ pc[r] = "proposed"
            \/ Goto(r, "waiting") /\ pc[r] = "register"
        BY <3>4, Zenon DEF ReadApplied, Register
      <4> QED  BY <2>2, <2>3, <4>1, Zenon
    <3>5. CASE Receive(r)
      BY <2>2, <2>3, <3>5, Zenon DEF Receive, Return
    <3>6. CASE Timeout(r)
      <4>1. Goto(r, "failed") /\ pc[r] = "waiting"
        BY <3>6, Zenon DEF Timeout, Return
      <4> QED  BY <2>2, <2>3, <4>1, Zenon
    <3>7. CASE Reply(r)
      BY <2>2, <2>3, <3>7, Zenon DEF Reply
    <3> QED  BY <1>9, <3>1, <3>2, <3>3, <3>4, <3>5, <3>6, <3>7, Zenon DEF WriteStep
  <2> QED  BY <1>0, <2>4, Zenon DEF Service!Next, Service!Requests, Service!Writes, Requests, Writes
<1>10. ASSUME NEW r \in Gets, GetStep(r)
       PROVE  [Service!Next]_(Service!vars)
  <2>1. CASE GetRead(r)
    <3>1. /\ UNCHANGED <<commit, appliedIndex, loop>> /\ Goto(r, "record") /\ pc[r] = "get"
          /\ at[r] \in Nodes /\ got' = [got EXCEPT ![r] = data[at[r]]]
      BY <1>0, <2>1, Zenon DEF GetRead, consensus, servers, Typed, RequestsTyped, Served, Serving
    <3>2. /\ Decided' = Decided /\ Applied' = Applied
          /\ Outcomes' = [Outcomes EXCEPT ![r] = "pending"] /\ Outcomes[r] = "pending"
      BY <1>0, <1>1, <1>2, <1>4, <3>1 DEF OutcomeAt, Outcomes, Outcome
    <3>3. Outcomes' = Outcomes
      BY <1>0, <3>2, Zenon DEF Outcomes
    <3>4. data[at[r]] = Service!ValueOf(Decided, Applied[at[r]])
      BY <3>1, Zenon DEF StoreFollowsLog, Applied
    <3>5. Service!Read(r, at[r])
      BY <3>1, <3>2, <3>3, <3>4, Zenon DEF Service!Read, Applied, Outcomes
    <3> QED  BY <3>1, <3>5, Zenon DEF Service!Next
  <2>2. CASE (\E n \in Nodes : GetStart(r, n)) \/ GetReply(r)
    <3>1. UNCHANGED <<commit, appliedIndex, loop, got>>
      BY <2>2, Zenon DEF GetStart, GetReply, consensus, servers
    <3>2. \/ Goto(r, "get") /\ Outcome(r) = "new"
          \/ (Goto(r, "ok") \/ Goto(r, "failed")) /\ Outcome(r) = "pending"
      BY <2>2, Zenon DEF GetStart, GetReply, Outcome
    <3>3. OutcomeAt("get") = "pending" /\ OutcomeAt("ok") = "ok" /\ OutcomeAt("failed") = "failed"
      BY Zenon DEF OutcomeAt
    <3>4. Service!Begin(r) \/ Service!Answer(r)
      BY <1>0, <1>6, <3>1, <3>2, <3>3, Zenon
    <3> QED  BY <3>4, Zenon DEF Service!Next, Service!Requests
  <2> QED  BY <1>10, <2>1, <2>2, Zenon DEF GetStep
<1>11. ASSUME NEW n \in Nodes, RunStep(n)
       PROVE  [Service!Next]_(Service!vars)
  <2>1. UNCHANGED <<commit, pc, got>>
    BY <1>11, Zenon DEF RunStep, ApplyEntry, SetApplied, NotifyProposal, UpdateSoftState, consensus,
         requests
  <2>2. Decided' = Decided /\ Outcomes' = Outcomes /\ UNCHANGED got
    BY <1>1, <1>3, <2>1, Zenon
  <2>3. CASE ApplyEntry(n)
    <3>1. \A m \in Nodes : m # n => ~ ApplyEntry(m)
      BY <2>3, Zenon DEF ApplyEntry, Typed, ServersTyped
    <3>2. \A m \in Nodes : m # n => InStore(m)' = InStore(m)
      BY <3>1, StoreSteps, Zenon DEF StoreStays
    <3>3. /\ InStore(n) = appliedIndex[n] /\ InStore(n)' = appliedIndex[n] + 1
          /\ appliedIndex[n] < commit
      <4>1. /\ loop[n] = "ready" /\ loop'[n] = "applied" /\ appliedIndex' = appliedIndex
            /\ appliedIndex[n] \in Nat /\ appliedIndex[n] < commit
        BY <2>3, Zenon DEF ApplyEntry, Typed, ServersTyped
      <4> QED  BY <4>1 DEF InStore
    <3>4. Applied' = [Applied EXCEPT ![n] = @ + 1]
      BY <3>2, <3>3, Zenon DEF Applied
    <3>5. Len(Decided) = commit
      BY OpsOfLog, Zenon DEF Decided, Typed, LogTyped
    <3>6. Applied[n] < Len(Decided)
      BY <3>3, <3>5, Zenon DEF Applied
    <3>7. Service!Apply(n)
      BY <2>2, <3>4, <3>6, Zenon DEF Service!Apply, Applied, Outcomes
    <3> QED  BY <3>7, Zenon DEF Service!Next
  <2>4. CASE ~ ApplyEntry(n)
    <3>1. \A m \in Nodes : ~ ApplyEntry(m)
      BY <1>11, <2>4, Zenon DEF RunStep, ApplyEntry, SetApplied, NotifyProposal, UpdateSoftState,
           Typed, ServersTyped
    <3>2. Applied' = Applied
      BY <3>1, StoreSteps, Zenon DEF StoreStays, Applied
    <3> QED  BY <1>5, <2>2, <3>2, Zenon
  <2> QED  BY <2>3, <2>4, Zenon
<1>12. CASE UNCHANGED vars
  <2>1. UNCHANGED <<commit, appliedIndex, loop, pc, got>>
    BY <1>12, Zenon DEF vars, consensus, servers, requests
  <2> QED  BY <1>1, <1>2, <1>3, <1>5, <2>1, Zenon
<1> QED  BY <1>7, <1>8, <1>9, <1>10, <1>11, <1>12, Zenon DEF Next
----------------------------------------------------------------------------
(* The theorems, from the start of the cluster (Init) and from any of the states that   *)
(* InitAt describes: the first leader's entry applied or not, the leader aware or not.  *)

Inv == Typed /\ Waiters /\ AtMostOnce /\ QuietGuess /\ StoreFollowsLog

\* The start satisfies the invariant and is a start of the service.
LEMMA InvInit ==
  ASSUME NEW k \in 0 .. 1, NEW knows \in BOOLEAN, InitAt(k, knows)
  PROVE  Inv /\ Service!Init
<1>1. Typed
  BY TypedInit, Zenon
<1>2. Waiters
  BY Zenon DEF Waiters, WaitersAreWaiting, InitAt
<1>3. AtMostOnce
  <2>1. Len(log) = 1 /\ log[1].op = "noop" /\ abandoned = {} /\ forwarded = {}
    BY Zenon DEF InitAt
  <2>2. \A i \in 1 .. Len(log) : log[i].op \notin Writes
    BY <2>1, ConstantsAssumption DEF Writes
  <2>3. Once(log)
    BY <2>2, Zenon DEF Once
  <2> QED  BY <2>1, <2>3, Zenon DEF AtMostOnce
<1>4. QuietGuess
  BY Zenon DEF QuietGuess, InitAt, Requests
<1>5. /\ commit = k /\ \A i \in 1 .. k : Decided[i] = "noop"
      /\ \A n \in Nodes : InStore(n) = k /\ data[n] = "absent"
  BY DEF Decided, InStore, InitAt
<1>6. StoreFollowsLog
  <2>1. {j \in 1 .. k : Decided[j] # "noop"} = {}
    BY <1>5, Zenon
  <2>2. Service!ValueOf(Decided, k) = "absent"
    BY <2>1, Zenon DEF Service!ValueOf
  <2> QED  BY <1>5, <2>2 DEF StoreFollowsLog
<1>7. Service!Init
  <2>1. Len(Decided) = k
    BY <1>1, <1>5, OpsOfLog, Zenon DEF Decided, Typed, LogTyped
  <2>2. Decided \in Seq({"noop"})
    <3>1. Decided \in [1 .. k -> {"noop"}] /\ k \in Nat
      BY <1>5 DEF Decided
    <3> QED  BY <3>1, SeqDef, Zenon
  <2>3. Applied \in [Nodes -> 0 .. Len(Decided)]
    BY <1>5, <2>1 DEF Applied
  <2>4. Outcomes = [r \in Requests |-> "new"] /\ got = [r \in Requests |-> "absent"]
    BY Zenon DEF Outcomes, Outcome, InitAt
  <2> QED  BY <2>2, <2>3, <2>4, Zenon
    DEF Service!Init, Service!Requests, Service!Writes, Requests, Writes,
             Applied, Outcomes
<1> QED  BY <1>1, <1>2, <1>3, <1>4, <1>6, <1>7, Zenon DEF Inv

\* Every step keeps the invariant.
LEMMA InvNext ==
  ASSUME Inv, [Next]_vars
  PROVE  Inv'
BY TypedNext, WaitersNext, AtMostOnceNext, QuietNext, StoreNext, Zenon DEF Inv

\* The invariant implies the properties that the runs check.
LEMMA InvImplies ==
  ASSUME Inv
  PROVE  TypeOK /\ WaitersAreWaiting /\ QuietAckIsSound /\ StoreFollowsLog
<1>1. TypeOK
  BY Zenon DEF Inv, Typed, LogTyped, ServersTyped, RequestsTyped, MarksTyped, TypeOK
<1>2. QuietAckIsSound
  <2> SUFFICES ASSUME NEW r \in Writes, quiet[r], pc[r] \in {"answered", "ok"}
               PROVE  appliedIndex[at[r]] >= own[r]
    BY Zenon DEF QuietAckIsSound
  <2>1. own[r] <= appliedIndex[at[r]]
    BY Zenon DEF Inv, QuietGuess, Guessed
  <2>2. own[r] \in Nat /\ appliedIndex[at[r]] \in Nat
    BY Zenon DEF Inv, Typed, ServersTyped, RequestsTyped, MarksTyped, Served, Serving, Requests
  <2> QED  BY <2>1, <2>2, Zenon
<1> QED  BY <1>1, <1>2, Zenon DEF Inv, Waiters

\* Whatever handlers, run loops, elections and commits interleave, for any number of
\* servers and requests: the fields keep their types, rn.proposals holds only requests
\* that still wait in ProposeAndWait, an acknowledgement given by a leader that had
\* applied its log is sound, and every store is what the committed log makes it.
THEOREM Safety ==
  ASSUME NEW CONSTANT k \in 0 .. 1, NEW CONSTANT knows \in BOOLEAN
  PROVE  InitAt(k, knows) /\ [][Next]_vars =>
           [](TypeOK /\ WaitersAreWaiting /\ QuietAckIsSound /\ StoreFollowsLog)
<1>1. InitAt(k, knows) => Inv
  BY InvInit, Zenon
<1>2. Inv /\ [Next]_vars => Inv'
  BY InvNext, Zenon
<1>3. Inv => TypeOK /\ WaitersAreWaiting /\ QuietAckIsSound /\ StoreFollowsLog
  BY InvImplies, Zenon
<1> QED  BY <1>1, <1>2, <1>3, PTL

\* The servers implement the service: what ProposeAndWait, the run loops, elections and
\* forwarded proposals do is, step by step, what KVService allows.
THEOREM Refinement ==
  ASSUME NEW CONSTANT k \in 0 .. 1, NEW CONSTANT knows \in BOOLEAN
  PROVE  InitAt(k, knows) /\ [][Next]_vars => ServiceKept
<1>1. InitAt(k, knows) => Inv /\ Service!Init
  BY InvInit, Zenon
<1>2. Inv /\ [Next]_vars => Inv'
  BY InvNext, Zenon
<1>3. Inv /\ [Next]_vars => [Service!Next]_(Service!vars)
  BY StepImplements, Zenon DEF Inv
<1> QED  BY <1>1, <1>2, <1>3, PTL DEF ServiceKept, Service!Spec

\* Both hold of the specification: for every behaviour of the program that starts
\* with the leader's empty entry not yet committed.
THEOREM Correct == Spec => [](WaitersAreWaiting /\ StoreFollowsLog) /\ ServiceKept
<1>1. 0 \in 0 .. 1 /\ FALSE \in BOOLEAN
  OBVIOUS
<1>2. InitAt(0, FALSE) /\ [][Next]_vars =>
        [](TypeOK /\ WaitersAreWaiting /\ QuietAckIsSound /\ StoreFollowsLog)
  BY <1>1, Safety, Zenon
<1>3. InitAt(0, FALSE) /\ [][Next]_vars => ServiceKept
  BY <1>1, Refinement, Zenon
<1> QED  BY <1>2, <1>3, PTL DEF Spec, Init

\* Whatever handlers, run loops, elections and commits interleave, the fields of
\* RaftNode and KVStore and the locals of ProposeAndWait and the handlers keep their
\* types.
THEOREM TypesAreCorrect == Spec => []TypeOK
<1>1. 0 \in 0 .. 1 /\ FALSE \in BOOLEAN
  OBVIOUS
<1>2. InitAt(0, FALSE) /\ [][Next]_vars =>
        [](TypeOK /\ WaitersAreWaiting /\ QuietAckIsSound /\ StoreFollowsLog)
  BY <1>1, Safety, Zenon
<1> QED  BY <1>2, PTL DEF Spec, Init

\* No registration, answer, overwrite or timeout leaves a channel in rn.proposals whose
\* request has left ProposeAndWait, at any number of servers and requests.
THEOREM WaitersStayWaiting == Spec => []WaitersAreWaiting
<1>1. 0 \in 0 .. 1 /\ FALSE \in BOOLEAN
  OBVIOUS
<1>2. InitAt(0, FALSE) /\ [][Next]_vars =>
        [](TypeOK /\ WaitersAreWaiting /\ QuietAckIsSound /\ StoreFollowsLog)
  BY <1>1, Safety, Zenon
<1> QED  BY <1>2, PTL DEF Spec, Init
----------------------------------------------------------------------------
(* The recorded histories. *)

Ended(r) == pc[r] \in {"ok", "failed"}

\* A recorded operation has been answered, the operations answered before a request
\* began have ended, and none of them is recorded after that request.
RecordOrder ==
  /\ \A r \in Recorded : before[r] \subseteq {q \in Recorded : Ended(q)}
  /\ \A n \in Nodes : \A i \in 1 .. Len(history[n]) :
       history[n][i] \in Recorded /\ Ended(history[n][i])
  /\ \A n \in Nodes : \A i, j \in 1 .. Len(history[n]) :
       i < j => history[n][j] \notin before[history[n][i]]

\* Handlers never take back an answer.
LEMMA EndedStays ==
  ASSUME Inv, [Next]_vars, NEW q \in Requests, Ended(q)
  PROVE  Ended(q)'
<1>0. pc \in [Requests -> Places]
  BY Zenon DEF Inv, Typed, RequestsTyped
<1> USE DEF Ended, Goto, Return
<1>1. CASE CommitEntries
  BY <1>1, Zenon DEF CommitEntries, requests
<1>2. CASE Election
  BY <1>2, Zenon DEF Election, requests
<1>3. ASSUME NEW r \in Writes, ForwardArrives(r)
      PROVE  Ended(q)'
  BY <1>3, Zenon DEF ForwardArrives, requests
<1>4. ASSUME NEW r \in Writes, WriteStep(r)
      PROVE  Ended(q)'
  BY <1>0, <1>4, Zenon DEF WriteStep, CheckLeader, Propose, ProposeFails, ReadApplied,
       Register, Receive, Timeout, Reply
<1>5. ASSUME NEW r \in Gets, GetStep(r)
      PROVE  Ended(q)'
  BY <1>0, <1>5, Zenon DEF GetStep, GetStart, GetRead, GetReply
<1>6. ASSUME NEW n \in Nodes, RunStep(n)
      PROVE  Ended(q)'
  BY <1>6, Zenon DEF RunStep, ApplyEntry, SetApplied, NotifyProposal, UpdateSoftState, requests
<1>7. CASE UNCHANGED vars
  BY <1>7, Zenon DEF vars, requests
<1> QED  BY <1>1, <1>2, <1>3, <1>4, <1>5, <1>6, <1>7, Zenon DEF Next

\* An operation is recorded at the end of one history, by the step that ends it.
LEMMA RecordedWhenEnding ==
  ASSUME Inv, [Next]_vars
  PROVE  \/ UNCHANGED history
         \/ \E r \in Recorded :
              /\ at[r] \in Nodes /\ ~ Ended(r) /\ pc[r] # "new" /\ Ended(r)'
              /\ history' = [history EXCEPT ![at[r]] = Append(@, r)]
<1>0. /\ pc \in [Requests -> Places]
      /\ \A r \in Requests : pc[r] \in {"answered", "record"} => at[r] \in Nodes
  BY Zenon DEF Inv, Typed, RequestsTyped, Served, Serving
<1>1. CASE CommitEntries
  BY <1>1, Zenon DEF CommitEntries, servers
<1>2. CASE Election
  BY <1>2, Zenon DEF Election, servers
<1>3. ASSUME NEW r \in Writes, ForwardArrives(r)
      PROVE  UNCHANGED history
  BY <1>3, Zenon DEF ForwardArrives, servers
<1>4. ASSUME NEW r \in Writes, WriteStep(r), ~ Reply(r)
      PROVE  UNCHANGED history
  BY <1>4, Zenon DEF WriteStep, CheckLeader, Propose, ProposeFails, ReadApplied,
       Register, Receive, Timeout, servers
<1>5. ASSUME NEW r \in Writes, Reply(r), history' # history
      PROVE  /\ r \in Recorded /\ at[r] \in Nodes
             /\ ~ Ended(r) /\ pc[r] # "new" /\ Ended(r)'
             /\ history' = [history EXCEPT ![at[r]] = Append(@, r)]
  BY <1>0, <1>5, Zenon DEF Reply, Record, Goto, Recorded, Ended, Requests
<1>6. ASSUME NEW r \in Gets, GetStep(r), ~ GetReply(r)
      PROVE  UNCHANGED history
  BY <1>6, Zenon DEF GetStep, GetStart, GetRead, servers
<1>7. ASSUME NEW r \in Gets, GetReply(r)
      PROVE  /\ r \in Recorded /\ at[r] \in Nodes
             /\ ~ Ended(r) /\ pc[r] # "new" /\ Ended(r)'
             /\ history' = [history EXCEPT ![at[r]] = Append(@, r)]
  BY <1>0, <1>7, Zenon DEF GetReply, Record, Goto, Recorded, Ended, Requests
<1>8. ASSUME NEW n \in Nodes, RunStep(n)
      PROVE  UNCHANGED history
  BY <1>8, Zenon DEF RunStep, ApplyEntry, SetApplied, NotifyProposal, UpdateSoftState
<1>9. CASE UNCHANGED vars
  BY <1>9, Zenon DEF vars, servers
<1> QED  BY <1>1, <1>2, <1>3, <1>4, <1>5, <1>6, <1>7, <1>8, <1>9, Zenon DEF Next

\* Every step keeps the order of the records in line with the answers.
LEMMA RecordOrderNext ==
  ASSUME Inv, RecordOrder, [Next /\ Note]_<<vars, before>>
  PROVE  RecordOrder'
<1>0. [Next]_vars
  BY Zenon
<1>1. /\ pc \in [Requests -> Places] /\ history \in [Nodes -> Seq(Requests)]
      /\ Recorded \subseteq Requests
  BY Zenon DEF Inv, Typed, RequestsTyped, ServersTyped, Recorded, Requests, Writes
<1>2. \A q \in Recorded : Ended(q) => Ended(q)'
  BY <1>0, <1>1, EndedStays, Zenon
<1>3. ASSUME NEW r \in Recorded
      PROVE  /\ before'[r] \subseteq {q \in Recorded : Ended(q)}
             /\ pc[r] # "new" => before'[r] = before[r]
  BY Zenon DEF Note, vars, RecordOrder, Ended
<1>4. \A r \in Recorded : before'[r] \subseteq {q \in Recorded : Ended(q)'}
  BY <1>2, <1>3, Zenon
<1>5. \A r \in Recorded : Ended(r) => pc[r] # "new"
  BY Zenon DEF Ended
<1>6. CASE UNCHANGED history
  BY <1>2, <1>3, <1>4, <1>5, <1>6, Zenon DEF RecordOrder
<1>7. ASSUME NEW r \in Recorded, at[r] \in Nodes, ~ Ended(r), pc[r] # "new", Ended(r)',
             history' = [history EXCEPT ![at[r]] = Append(@, r)]
      PROVE  RecordOrder'
  <2> DEFINE m == at[r]  h == history[m]
  <2>1. /\ history'[m] = Append(h, r)
        /\ \A n \in Nodes : n # m => history'[n] = history[n]
    BY <1>1, <1>7, Zenon
  <2>2. /\ Len(h) \in Nat /\ Len(Append(h, r)) = Len(h) + 1
        /\ \A i \in 1 .. Len(h) : Append(h, r)[i] = h[i]
        /\ Append(h, r)[Len(h) + 1] = r
    <3>1. h \in Seq(Requests) /\ r \in Requests
      BY <1>1, <1>7, Zenon
    <3> QED  BY <3>1, AppendProperties, LenProperties
  <2>3. \A n \in Nodes : \A i \in 1 .. Len(history[n]) :
          history[n][i] \in Recorded /\ Ended(history[n][i])
    BY Zenon DEF RecordOrder
  <2>4. \A n \in Nodes : \A i, j \in 1 .. Len(history[n]) :
          i < j => history[n][j] \notin before[history[n][i]]
    BY Zenon DEF RecordOrder
  <2>5. \A n \in Nodes : \A i \in 1 .. Len(history[n]) :
          before'[history[n][i]] = before[history[n][i]]
    BY <1>3, <1>5, <2>3, Zenon
  <2>6. \A q \in Recorded : r \notin before'[q]
    BY <1>3, <1>7, Zenon
  <2>7. ASSUME NEW n \in Nodes, NEW i \in 1 .. Len(history'[n])
        PROVE  history'[n][i] \in Recorded /\ pc'[history'[n][i]] \in {"ok", "failed"}
    <3>0. \A q \in Recorded : Ended(q) => pc'[q] \in {"ok", "failed"}
      BY <1>2, Zenon DEF Ended
    <3>1. CASE n # m
      <4>1. history'[n] = history[n]
        BY <2>1, <3>1, Zenon
      <4> QED  BY <2>3, <3>0, <4>1, Zenon
    <3>2. CASE n = m
      <4>1. i \in 1 .. Len(h) \/ i = Len(h) + 1
        BY <2>1, <2>2, <3>2
      <4>2. CASE i \in 1 .. Len(h)
        <5>1. history'[n][i] = history[n][i]
          BY <2>1, <2>2, <3>2, <4>2, Zenon
        <5> QED  BY <2>3, <3>0, <3>2, <4>2, <5>1, Zenon
      <4>3. CASE i = Len(h) + 1
        <5>1. history'[n][i] = r
          BY <2>1, <2>2, <3>2, <4>3, Zenon
        <5> QED  BY <1>7, <5>1, Zenon DEF Ended
      <4> QED  BY <4>1, <4>2, <4>3, Zenon
    <3> QED  BY <3>1, <3>2, Zenon
  <2>8. ASSUME NEW n \in Nodes, NEW i \in 1 .. Len(history'[n]),
               NEW j \in 1 .. Len(history'[n]), i < j
        PROVE  history'[n][j] \notin before'[history'[n][i]]
    <3>1. CASE n # m
      BY <2>1, <2>4, <2>5, <2>8, <3>1
    <3>2. CASE n = m
      <4>1. i \in 1 .. Len(h) /\ (j \in 1 .. Len(h) \/ j = Len(h) + 1)
        BY <2>1, <2>2, <2>8, <3>2
      <4>2. CASE j \in 1 .. Len(h)
        <5>1. history'[n][i] = history[n][i] /\ history'[n][j] = history[n][j]
          BY <2>1, <2>2, <3>2, <4>1, <4>2, Zenon
        <5>2. history[n][j] \notin before'[history[n][i]]
          BY <2>4, <2>5, <2>8, <3>2, <4>1, <4>2, Zenon
        <5> QED  BY <5>1, <5>2, Zenon
      <4>3. CASE j = Len(h) + 1
        <5>1. history'[n][i] = history[n][i] /\ history'[n][j] = r
          BY <2>1, <2>2, <3>2, <4>1, <4>3, Zenon
        <5>2. history[n][i] \in Recorded
          BY <2>3, <3>2, <4>1, Zenon
        <5> QED  BY <2>6, <5>1, <5>2, Zenon
      <4> QED  BY <4>1, <4>2, <4>3, Zenon
    <3> QED  BY <3>1, <3>2, Zenon
  <2> QED  BY <1>4, <2>7, <2>8, Zenon DEF RecordOrder, Ended
<1> QED  BY <1>0, <1>6, <1>7, RecordedWhenEnding, Zenon

\* A history in that order is its own witness: what checker.go tries is an order that
\* linearizability allows.
LEMMA RecordOrderImplies ==
  ASSUME Inv, RecordOrder
  PROVE  AcceptedIsLinearizable
<1> SUFFICES ASSUME NEW n \in Nodes, Legal(history[n])
             PROVE  Linearizable(history[n])
  BY Zenon DEF AcceptedIsLinearizable, Accepts
<1>1. history[n] \in Seq(Requests)
  BY Zenon DEF Inv, Typed, ServersTyped
<1>2. DOMAIN history[n] = 1 .. Len(history[n])
  BY <1>1, LenProperties, Zenon
<1>3. history[n] \in [DOMAIN history[n] -> Range(history[n])]
  BY <1>1 DEF Range
<1>4. \A i, j \in DOMAIN history[n] : i < j => history[n][j] \notin before[history[n][i]]
  BY <1>2, Zenon DEF RecordOrder
<1> QED  BY <1>3, <1>4, Zenon DEF Linearizable

\* Whenever CheckEventsVerbose accepts the history of a server, that history is
\* linearizable, for any number of servers, clients and operations: handlePut and
\* handleGet record an operation before they answer it.
THEOREM AcceptedHistories == CheckerFairSpec => []AcceptedIsLinearizable
<1>1. CheckerInit => Inv /\ RecordOrder
  <2> SUFFICES ASSUME CheckerInit  PROVE Inv /\ RecordOrder
    BY Zenon
  <2>1. 0 \in 0 .. 1 /\ FALSE \in BOOLEAN
    OBVIOUS
  <2>2. Inv
    BY <2>1, InvInit, Zenon DEF CheckerInit, Init
  <2>3. before = [r \in Recorded |-> {}] /\ history = [n \in Nodes |-> << >>]
    BY Zenon DEF CheckerInit, Init, InitAt
  <2> QED  BY <2>2, <2>3 DEF RecordOrder
<1>2. Inv /\ RecordOrder /\ [Next /\ Note]_<<vars, before>> => (Inv /\ RecordOrder)'
  <2> SUFFICES ASSUME Inv, RecordOrder, [Next /\ Note]_<<vars, before>>
               PROVE  (Inv /\ RecordOrder)'
    BY Zenon
  <2>1. [Next]_vars
    BY Zenon
  <2> QED  BY <2>1, InvNext, RecordOrderNext, Zenon
<1>3. Inv /\ RecordOrder => AcceptedIsLinearizable
  BY RecordOrderImplies, Zenon
<1> QED  BY <1>1, <1>2, <1>3, PTL DEF CheckerFairSpec
=============================================================================
