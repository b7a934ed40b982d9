------------------------------- MODULE KVService -------------------------------
(***************************************************************************)
(* What the key-value service promises its clients, whatever its servers   *)
(* do: the writes fall into one order that only grows, every write has at  *)
(* most one place in it and none that nobody asked for; every server       *)
(* applies that order from the front; a GET answers with the value of a    *)
(* front part that its server has applied; a request ends once.            *)
(*                                                                         *)
(* It does not promise that a write answered with success has its place by *)
(* then, nor that a GET sees it: the servers do not keep that (see         *)
(* AckedIsNotLost and ReadsAreLinearizable in Proposals).                  *)
(***************************************************************************)
EXTENDS Integers, Sequences

CONSTANTS
  Nodes,    \* the servers
  Puts,     \* PUT requests
  Deletes,  \* DELETE requests
  Gets      \* GET requests

VARIABLES
  decided,  \* the order of the writes; "noop" is an entry that writes nothing
  applied,  \* how much of it each server has applied
  outcome,  \* of each request: "new", "pending", "ok", "failed"
  answer    \* the value a GET has read

vars == <<decided, applied, outcome, answer>>

Writes == Puts \cup Deletes
Requests == Writes \cup Gets

\* The value of the key after the first i of some operations.
ValueOf(ops, i) ==
  LET w == {j \in 1 .. i : ops[j] # "noop"}
      last == CHOOSE j \in w : \A k \in w : k <= j
  IN  IF w = {} THEN "absent" ELSE IF ops[last] \in Deletes THEN "" ELSE ops[last]

Begin(r) ==
  /\ outcome[r] = "new"
  /\ outcome' = [outcome EXCEPT ![r] = "pending"]
  /\ UNCHANGED <<decided, applied, answer>>

Refuse(r) ==
  /\ outcome[r] = "new"
  /\ outcome' = [outcome EXCEPT ![r] = "failed"]
  /\ UNCHANGED <<decided, applied, answer>>

\* The order grows by writes that were begun and have no place in it yet.
Decide ==
  /\ Len(decided') > Len(decided)
  /\ \A i \in 1 .. Len(decided) : decided'[i] = decided[i]
  /\ \A i \in Len(decided) + 1 .. Len(decided') :
       \/ decided'[i] = "noop"
       \/ /\ decided'[i] \in Writes /\ outcome[decided'[i]] # "new"
          /\ \A j \in 1 .. i - 1 : decided'[j] # decided'[i]
  /\ UNCHANGED <<applied, outcome, answer>>

Apply(n) ==
  /\ applied[n] < Len(decided)
  /\ applied' = [applied EXCEPT ![n] = @ + 1]
  /\ UNCHANGED <<decided, outcome, answer>>

\* A write may be answered either way before it has its place, and get it later.
Answer(r) ==
  /\ outcome[r] = "pending"
  /\ \E o \in {"ok", "failed"} : outcome' = [outcome EXCEPT ![r] = o]
  /\ UNCHANGED <<decided, applied, answer>>

Read(r, n) ==
  /\ outcome[r] = "pending"
  /\ answer' = [answer EXCEPT ![r] = ValueOf(decided, applied[n])]
  /\ UNCHANGED <<decided, applied, outcome>>

\* Nothing has been written.
Init ==
  /\ decided \in Seq({"noop"})
  /\ applied \in [Nodes -> 0 .. Len(decided)]
  /\ outcome = [r \in Requests |-> "new"]
  /\ answer = [r \in Requests |-> "absent"]

Next ==
  \/ \E r \in Requests : Begin(r) \/ Answer(r)
  \/ \E r \in Writes : Refuse(r)
  \/ Decide
  \/ \E n \in Nodes : Apply(n)
  \/ \E r \in Gets, n \in Nodes : Read(r, n)

Spec == Init /\ [][Next]_vars
=============================================================================
