------------------------------- MODULE Checker --------------------------------
(***************************************************************************)
(* The linearizability check of test/correctness/porcupine: what it makes  *)
(* of the history that a server's handlers recorded.  checker.go turns     *)
(* every recorded operation into a call and a return that follow each      *)
(* other at once, so Porcupine (external) sees operations that never       *)
(* overlap, in the order in which they were recorded, and tries KVModel on *)
(* that order alone.  The times the handlers took are not used.            *)
(***************************************************************************)
EXTENDS Proposals, Functions

VARIABLE before   \* history variable: the requests answered when a request began

Recorded == Puts \cup Gets

CheckerInit == Init /\ before = [r \in Recorded |-> {}]

\* A request begins.
Note ==
  before' = [r \in Recorded |->
               IF pc[r] = "new" /\ pc'[r] # "new"
               THEN {q \in Recorded : pc[q] \in {"ok", "failed"}} ELSE before[r]]

CheckerFairSpec ==
  CheckerInit /\ [][Next /\ Note]_<<vars, before>> /\ Fairness
----------------------------------------------------------------------------
\* KVModel.Step: whether the model allows the operation in a state of the key, and the
\* state after it.  The output's Ok is false for a GET that found nothing.
Allows(state, r) == r \in Puts \/ got[r] = state
After(state, r) == IF r \in Puts THEN r ELSE state

\* The model allows the operations one after another.
Legal(ops) ==
  LET state[i \in 0 .. Len(ops)] == IF i = 0 THEN "absent" ELSE After(state[i - 1], ops[i])
  IN  \A i \in DOMAIN ops : Allows(state[i - 1], ops[i])

\* convertToPorcupineEvents and CheckEventsVerbose.
Accepts(n) == Legal(history[n])

\* What linearizability asks: some order of the operations that the model allows and
\* that puts one that was answered before another began in front of it.
Linearizable(ops) ==
  \E order \in [DOMAIN ops -> Range(ops)] :
    /\ Range(order) = Range(ops) /\ Legal(order)
    /\ \A i, j \in DOMAIN ops : i < j => order[j] \notin before[order[i]]

\* A history that the checker accepts is linearizable: handlePut and handleGet record
\* an operation before they answer it, so the order of the records never contradicts
\* the order in which clients saw their requests begin and end.
AcceptedIsLinearizable == \A n \in Nodes : Accepts(n) => Linearizable(history[n])
=============================================================================
