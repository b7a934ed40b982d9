-------------------------- MODULE Reconciler_proofs --------------------------
(***************************************************************************)
(* Proofs about Reconciler: for any number of controllers, and whatever    *)
(* faults and edits, the stored status follows the workflow.               *)
(***************************************************************************)
EXTENDS Reconciler, TLAPS

\* The places where obj still holds what Reconcile fetched or last stored.
Holding == {"init", "service", "sts", "needs", "reconfigure", "ready"}

\* The joint state of s belongs to its step.
JointOK(s) ==
  /\ s.step \in {"AddLearner", "CatchUp"} => s.joint = "none"
  /\ s.step = "EnterJoint" => s.joint = "entering"
  /\ s.step = "CommitNew" => s.joint = "committed"
  /\ s.step = "LeaveJoint" => s.joint = "leaving"

\* A cached copy that is fresh is the server's object.
CacheInv == \A c \in Controllers : clusterFresh[c] => clusterCache[c] = cluster

\* So is the copy Reconcile works on, until it goes on after an error with the
\* step it could not store: then the cooldown is over, and that step is the next
\* one of what the server holds.
ObjOK(c) ==
  /\ objFresh[c] /\ pc[c] \in Holding => obj[c] = cluster
  /\ objFresh[c] /\ pc[c] = "degraded" =>
       obj[c] = Reconfigured(cluster) /\ cluster.last <= cooled
  /\ pc[c] = "init" => obj[c].phase = Unset

ObjInv == \A c \in Controllers : ObjOK(c)

\* A status nobody has initialized is empty.
NewInv == cluster.phase = Unset => cluster.step = Unset /\ cluster.index = 0

StatusInv == TypeOK /\ CacheInv /\ ObjInv /\ NewInv /\ JointOK(cluster)

\* s advances the workflow of the stored status.
Advances(s) ==
  \/ s.index # cluster.index \/ s.last # cluster.last
  \/ s.step # cluster.step /\ s.step # Unset

\* What a controller may store over the server's object.
Storable(s) ==
  /\ s \in RaftCluster
  /\ s.phase # Unset /\ JointOK(s)
  /\ s.step # cluster.step =>
       s.step = Unset \/ <<cluster.step, s.step>> \in WorkflowEdges
  /\ s.index = cluster.index +
       (IF cluster.step = "EnterJoint" /\ s.step = "CommitNew" THEN 1 ELSE 0)
  /\ Advances(s) => cluster.last <= cooled

\* What every step of the system does to the stored status.
StatusStep ==
  /\ cluster'.step # cluster.step =>
       cluster'.step = Unset \/ <<cluster.step, cluster'.step>> \in WorkflowEdges
  /\ cluster'.index = cluster.index +
       (IF cluster.step = "EnterJoint" /\ cluster'.step = "CommitNew" THEN 1 ELSE 0)
  /\ advances' # advances => cluster.last <= cooled

USE ConstantsAssumption

-----------------------------------------------------------------------------
(* The status reconcileReconfiguration computes *)

\* The values the controller writes are in the ranges of their fields.
LEMMA Ranges ==
  /\ "Pending" \in Phases /\ "Ready" \in Phases
  /\ "Reconfiguring" \in Phases /\ "Degraded" \in Phases
  /\ Unset \in Steps /\ "AddLearner" \in Steps /\ "CatchUp" \in Steps
  /\ "EnterJoint" \in Steps /\ "CommitNew" \in Steps /\ "LeaveJoint" \in Steps
  /\ "none" \in JointStates /\ "entering" \in JointStates
  /\ "committed" \in JointStates /\ "leaving" \in JointStates
BY Zenon DEF Phases, Steps, JointStates

\* So are the counters it increments.
LEMMA Counters ==
  ASSUME NEW s \in RaftCluster
  PROVE  s.index + 1 \in Nat /\ s.last + 1 \in Nat
BY DEF RaftCluster

\* An empty step or phase is none of the named ones.
LEMMA UnsetIsNoName ==
  /\ Unset # "AddLearner" /\ Unset # "CatchUp" /\ Unset # "EnterJoint"
  /\ Unset # "CommitNew" /\ Unset # "LeaveJoint" /\ Unset # "Pending"
  /\ Unset # "Ready" /\ Unset # "Reconfiguring" /\ Unset # "Degraded"
BY Zenon DEF Unset

\* t is one step of the workflow after s.
NextOf(s, t) ==
  /\ t \in RaftCluster /\ JointOK(t)
  /\ <<s.step, t.step>> \in WorkflowEdges /\ t.step # s.step
  /\ t.phase \in {s.phase, "Ready"}
  /\ t.index = s.index +
       (IF s.step = "EnterJoint" /\ t.step = "CommitNew" THEN 1 ELSE 0)

\* reconfigureSafe keeps the fields in their ranges.
LEMMA SafeType ==
  ASSUME NEW s \in RaftCluster
  PROVE  Safe(s) \in RaftCluster
<1>1. CASE s.step = Unset
  <2>1. Safe(s) = [s EXCEPT !.step = "AddLearner", !.joint = "none"]
    BY <1>1, UnsetIsNoName, Zenon DEF Safe
  <2> QED  BY <2>1, Ranges, Counters, Zenon DEF RaftCluster
<1>2. CASE s.step = "AddLearner"
  <2>1. Safe(s) = [s EXCEPT !.step = "CatchUp"]
    BY <1>2, UnsetIsNoName, Zenon DEF Safe
  <2> QED  BY <2>1, Ranges, Counters, Zenon DEF RaftCluster
<1>3. CASE s.step = "CatchUp"
  <2>1. Safe(s) = [s EXCEPT !.step = "EnterJoint", !.joint = "entering"]
    BY <1>3, UnsetIsNoName, Zenon DEF Safe
  <2> QED  BY <2>1, Ranges, Counters, Zenon DEF RaftCluster
<1>4. CASE s.step = "EnterJoint"
  <2>1. Safe(s) = [s EXCEPT !.step = "CommitNew", !.joint = "committed",
                                !.index = @ + 1]
    BY <1>4, UnsetIsNoName, Zenon DEF Safe
  <2>2. s.index + 1 \in Nat
    BY Counters, Zenon
  <2>3. "CommitNew" \in Steps /\ "committed" \in JointStates
    BY Ranges, Zenon
  <2> QED  BY <2>1, <2>2, <2>3, Zenon DEF RaftCluster
<1>5. CASE s.step = "CommitNew"
  <2>1. Safe(s) = [s EXCEPT !.step = "LeaveJoint", !.joint = "leaving"]
    BY <1>5, UnsetIsNoName, Zenon DEF Safe
  <2> QED  BY <2>1, Ranges, Counters, Zenon DEF RaftCluster
<1>6. CASE s.step = "LeaveJoint"
  <2>1. Safe(s) = [s EXCEPT !.step = Unset, !.joint = "none", !.phase = "Ready",
                                !.last = @ + 1]
    BY <1>6, UnsetIsNoName, Zenon DEF Safe
  <2>2. s.last + 1 \in Nat
    BY Counters, Zenon
  <2>3. Unset \in Steps /\ "none" \in JointStates /\ "Ready" \in Phases
    BY Ranges, Zenon
  <2> QED  BY <2>1, <2>2, <2>3, Zenon DEF RaftCluster
<1> QED  BY <1>1, <1>2, <1>3, <1>4, <1>5, <1>6, Zenon DEF RaftCluster, Steps

\* It keeps the joint state with its step, and moves along one edge of the workflow.
LEMMA SafeStatus ==
  ASSUME NEW s \in RaftCluster, JointOK(s)
  PROVE  NextOf(s, Safe(s))
<1>1. CASE s.step = Unset
  <2>1. Safe(s) = [s EXCEPT !.step = "AddLearner", !.joint = "none"]
    BY <1>1, UnsetIsNoName, Zenon DEF Safe
  <2>2. Safe(s) \in RaftCluster
    BY SafeType, Zenon
  <2> QED
    <3>1. Safe(s).step = "AddLearner" /\ Safe(s).joint = "none"
      BY <2>1, Zenon DEF RaftCluster
    <3>2. Safe(s).phase = s.phase /\ Safe(s).index = s.index /\ s.index \in Nat
      BY <2>1, Zenon DEF RaftCluster
    <3> QED
      BY <1>1, <2>2, <3>1, <3>2, UnsetIsNoName DEF NextOf, JointOK, WorkflowEdges
<1>2. CASE s.step = "AddLearner"
  <2>1. Safe(s) = [s EXCEPT !.step = "CatchUp"]
    BY <1>2, UnsetIsNoName, Zenon DEF Safe
  <2>2. Safe(s) \in RaftCluster
    BY SafeType, Zenon
  <2> QED
    BY <1>2, <2>1, <2>2, UnsetIsNoName DEF NextOf, RaftCluster, JointOK, WorkflowEdges
<1>3. CASE s.step = "CatchUp"
  <2>1. Safe(s) = [s EXCEPT !.step = "EnterJoint", !.joint = "entering"]
    BY <1>3, UnsetIsNoName, Zenon DEF Safe
  <2>2. Safe(s) \in RaftCluster
    BY SafeType, Zenon
  <2> QED
    BY <1>3, <2>1, <2>2, UnsetIsNoName DEF NextOf, RaftCluster, JointOK, WorkflowEdges
<1>4. CASE s.step = "EnterJoint"
  <2>1. Safe(s) = [s EXCEPT !.step = "CommitNew", !.joint = "committed",
                                !.index = @ + 1]
    BY <1>4, UnsetIsNoName, Zenon DEF Safe
  <2>2. Safe(s) \in RaftCluster
    BY SafeType, Zenon
  <2> QED
    BY <1>4, <2>1, <2>2, UnsetIsNoName, Zenon DEF NextOf, RaftCluster, JointOK, WorkflowEdges
<1>5. CASE s.step = "CommitNew"
  <2>1. Safe(s) = [s EXCEPT !.step = "LeaveJoint", !.joint = "leaving"]
    BY <1>5, UnsetIsNoName, Zenon DEF Safe
  <2>2. Safe(s) \in RaftCluster
    BY SafeType, Zenon
  <2> QED
    BY <1>5, <2>1, <2>2, UnsetIsNoName DEF NextOf, RaftCluster, JointOK, WorkflowEdges
<1>6. CASE s.step = "LeaveJoint"
  <2>1. Safe(s) = [s EXCEPT !.step = Unset, !.joint = "none", !.phase = "Ready",
                                !.last = @ + 1]
    BY <1>6, UnsetIsNoName, Zenon DEF Safe
  <2>2. Safe(s) \in RaftCluster
    BY SafeType, Zenon
  <2> QED
    BY <1>6, <2>1, <2>2, UnsetIsNoName DEF NextOf, RaftCluster, JointOK, WorkflowEdges
<1> QED  BY <1>1, <1>2, <1>3, <1>4, <1>5, <1>6, Zenon DEF RaftCluster, Steps

\* The status computed in any safety mode is a status.
LEMMA ReconfiguredType ==
  ASSUME NEW s \in RaftCluster
  PROVE  Reconfigured(s) \in RaftCluster
<1> DEFINE t == [s EXCEPT !.phase = "Reconfiguring"]
<1>1. t \in RaftCluster
  BY Ranges, Zenon DEF RaftCluster
<1>2. UnsafeEarlyVote(t) \in RaftCluster /\ UnsafeNoJoint(t) \in RaftCluster
  <2> HIDE DEF t
  <2>1. t.last + 1 \in Nat
    BY <1>1, Counters, Zenon
  <2> QED  BY <1>1, <2>1, Ranges, Zenon DEF UnsafeEarlyVote, UnsafeNoJoint, RaftCluster
<1>3. Safe(t) \in RaftCluster
  BY <1>1, SafeType, Zenon
<1>4. s.mode \in {"safe", "unsafe-early-vote", "unsafe-no-joint"}
  BY Zenon DEF RaftCluster
<1> QED  BY <1>2, <1>3, <1>4, Zenon DEF Reconfigured

\* A reconfiguration that ends at once may be stored once the cooldown is over.
LEMMA FinishedStorable ==
  ASSUME NEW u \in RaftCluster, cluster \in RaftCluster, cluster.last <= cooled,
         u.phase = "Ready", u.step = Unset,
         u.index = cluster.index, u.last = cluster.last + 1
  PROVE  Storable(u) /\ u # cluster
<1>1. cluster.last \in Nat /\ cluster.index \in Nat
  BY Zenon DEF RaftCluster
<1>2. JointOK(u)
  BY UnsetIsNoName, Zenon DEF JointOK
<1> QED  BY <1>1, <1>2, UnsetIsNoName DEF Storable

\* In every safety mode the status computed from the stored one may be stored
\* once the cooldown is over, and differs from it.
LEMMA ReconfiguredStorable ==
  ASSUME TypeOK, JointOK(cluster), cluster.last <= cooled
  PROVE  Storable(Reconfigured(cluster)) /\ Reconfigured(cluster) # cluster
<1> DEFINE t == [cluster EXCEPT !.phase = "Reconfiguring"]
<1>1. cluster \in RaftCluster
  BY Zenon DEF TypeOK
<1>2. /\ t \in RaftCluster /\ JointOK(t) /\ t.phase = "Reconfiguring"
      /\ t.step = cluster.step /\ t.index = cluster.index /\ t.last = cluster.last
      /\ t.joint = cluster.joint /\ t.mode = cluster.mode
  BY <1>1, Ranges, Zenon DEF RaftCluster, JointOK
<1>3. cluster.mode \in {"safe", "unsafe-early-vote", "unsafe-no-joint"}
  BY <1>1, Zenon DEF RaftCluster
<1>4. CASE cluster.mode = "safe"
  <2>1. Reconfigured(cluster) = Safe(t)
    BY <1>4, Zenon DEF Reconfigured
  <2> HIDE DEF t
  <2>2. NextOf(t, Safe(t))
    BY <1>2, SafeStatus, Zenon
  <2> QED  BY <1>2, <2>1, <2>2, UnsetIsNoName, Zenon DEF Storable, NextOf
<1>5. CASE cluster.mode = "unsafe-early-vote"
  <2> DEFINE u == Reconfigured(cluster)
  <2>1. u = [t EXCEPT !.phase = "Ready", !.step = Unset, !.last = @ + 1]
    BY <1>5, Zenon DEF Reconfigured, UnsafeEarlyVote
  <2> HIDE DEF t, u
  <2>2. t.last + 1 \in Nat
    BY <1>2, Counters, Zenon
  <2>3. u \in RaftCluster
    BY <1>2, <2>1, <2>2, Ranges, Zenon DEF RaftCluster
  <2>4. /\ u.phase = "Ready" /\ u.step = Unset
        /\ u.index = cluster.index /\ u.last = cluster.last + 1
    BY <1>2, <2>1, Zenon DEF RaftCluster
  <2>5. Storable(u) /\ u # cluster
    BY <1>1, <2>3, <2>4, FinishedStorable, Zenon
  <2> QED  BY <2>5, Zenon DEF u
<1>6. CASE cluster.mode = "unsafe-no-joint"
  <2> DEFINE u == Reconfigured(cluster)
  <2>1. u =
          [t EXCEPT !.phase = "Ready", !.step = Unset, !.joint = "none", !.last = @ + 1]
    BY <1>6, Zenon DEF Reconfigured, UnsafeNoJoint
  <2> HIDE DEF t, u
  <2>2. t.last + 1 \in Nat
    BY <1>2, Counters, Zenon
  <2>3. u \in RaftCluster
    BY <1>2, <2>1, <2>2, Ranges, Zenon DEF RaftCluster
  <2>4. /\ u.phase = "Ready" /\ u.step = Unset
        /\ u.index = cluster.index /\ u.last = cluster.last + 1
    BY <1>2, <2>1, Zenon DEF RaftCluster
  <2>5. Storable(u) /\ u # cluster
    BY <1>1, <2>3, <2>4, FinishedStorable, Zenon
  <2> QED  BY <2>5, Zenon DEF u
<1> QED  BY <1>3, <1>4, <1>5, <1>6, Zenon

-----------------------------------------------------------------------------
(* Steps *)

\* Which copies are fresh stays a choice of yes or no for each controller.
LEMMA StoreClusterType ==
  ASSUME TypeOK, NEW s, NEW current, StoreCluster(s, current)
  PROVE  /\ clusterFresh' \in [Controllers -> BOOLEAN]
         /\ objFresh' \in [Controllers -> BOOLEAN]
<1>1. CASE s = cluster
  BY <1>1, Zenon DEF TypeOK, StoreCluster
<1>2. CASE s # cluster
  <2>1. clusterFresh' = [d \in Controllers |-> FALSE]
    BY <1>2, Zenon DEF StoreCluster
  <2>2. objFresh' = [d \in Controllers |-> d \in current]
    BY <1>2, Zenon DEF StoreCluster
  <2>3. \A d \in Controllers : (d \in current) \in BOOLEAN
    OBVIOUS
  <2> QED  BY <2>1, <2>2, <2>3, Zenon
<1> QED  BY <1>1, <1>2, Zenon

\* A status update keeps every variable in its range.
LEMMA StatusUpdateType ==
  ASSUME TypeOK, NEW c \in Controllers, NEW s \in RaftCluster,
         NEW ok \in {"service", "idle"}, NEW bad \in {"idle", "degraded"},
         StatusUpdate(c, s, ok, bad)
  PROVE  TypeOK'
<1>1. cluster' \in RaftCluster
  BY Zenon DEF TypeOK, StatusUpdate, StoreCluster
<1>2. /\ clusterFresh' \in [Controllers -> BOOLEAN]
      /\ objFresh' \in [Controllers -> BOOLEAN]
  BY StoreClusterType, Zenon DEF TypeOK, StatusUpdate
<1>3. pc' \in [Controllers -> {"idle", "init", "service", "sts", "needs",
                               "reconfigure", "degraded", "ready"}]
  BY Zenon DEF TypeOK, StatusUpdate, Goto
<1>4. obj' \in [Controllers -> RaftCluster]
  BY Zenon DEF TypeOK, StatusUpdate
<1>5. edits' \in Nat /\ faults' \in Nat /\ advances' \in Nat
  BY DEF TypeOK, StatusUpdate, CountAdvance, Fault
<1> QED
  BY <1>1, <1>2, <1>3, <1>4, <1>5, Zenon DEF TypeOK, StatusUpdate

\* A controller that does not move keeps its copy as it has to be when a store
\* makes the copy stale or changes nothing.
LEMMA OthersKept ==
  ASSUME ObjInv, NEW d \in Controllers,
         obj'[d] = obj[d], pc'[d] = pc[d], cooled' = cooled,
         \/ ~ objFresh'[d]
         \/ cluster' = cluster /\ objFresh'[d] = objFresh[d]
  PROVE  ObjOK(d)'
<1>1. ObjOK(d)
  BY Zenon DEF ObjInv
<1>2. CASE ~ objFresh'[d]
  BY <1>1, <1>2, Zenon DEF ObjOK
<1>3. CASE cluster' = cluster /\ objFresh'[d] = objFresh[d]
  BY <1>1, <1>3, Zenon DEF ObjOK, Reconfigured, Safe, UnsafeEarlyVote, UnsafeNoJoint
<1> QED  BY <1>2, <1>3, Zenon

\* A store keeps the caches as they have to be ...
LEMMA StoreKeepsCaches ==
  ASSUME CacheInv, NEW s, NEW current, StoreCluster(s, current),
         clusterCache' = clusterCache
  PROVE  CacheInv'
<1>1. CASE s = cluster
  BY <1>1, Zenon DEF StoreCluster, CacheInv
<1>2. CASE s # cluster
  BY <1>2, Zenon DEF StoreCluster, CacheInv
<1> QED  BY <1>1, <1>2, Zenon

\* ... and leaves a copy that it did not make stale, or changes nothing.
LEMMA StoreLeaves ==
  ASSUME NEW s, NEW current, StoreCluster(s, current),
         NEW d \in Controllers, d \notin current
  PROVE  \/ ~ objFresh'[d]
         \/ cluster' = cluster /\ objFresh'[d] = objFresh[d]
<1>1. CASE s = cluster
  BY <1>1, Zenon DEF StoreCluster
<1>2. CASE s # cluster
  BY <1>2, Zenon DEF StoreCluster
<1> QED  BY <1>1, <1>2, Zenon

\* A status update with a status that may be stored keeps the invariant, whether
\* it is carried out, lost, failed or refused, and is a step the properties allow.
LEMMA StatusUpdateKeeps ==
  ASSUME StatusInv, NEW c \in Controllers, NEW s \in RaftCluster,
         NEW ok \in {"service", "idle"}, NEW bad \in {"idle", "degraded"},
         objFresh[c] => Storable(s),
         objFresh[c] /\ bad = "degraded" =>
           s = Reconfigured(cluster) /\ s # cluster /\ cluster.last <= cooled,
         StatusUpdate(c, s, ok, bad)
  PROVE  StatusInv' /\ StatusStep
<1> USE DEF StatusInv
<1>1. TypeOK'
  BY StatusUpdateType, Zenon
<1>2. /\ obj' = [obj EXCEPT ![c] = s] /\ obj \in [Controllers -> RaftCluster]
      /\ pc \in [Controllers -> {"idle", "init", "service", "sts", "needs",
                                 "reconfigure", "degraded", "ready"}]
      /\ cooled' = cooled /\ clusterCache' = clusterCache
  BY Zenon DEF StatusUpdate, TypeOK
<1>3. CASE objFresh[c] /\ StoreCluster(s, {c}) /\ CountAdvance(s) /\ Goto(c, ok)
  <2>1. cluster' = s /\ Storable(s)
    BY <1>3, Zenon DEF StoreCluster
  <2>2. CacheInv'
    BY <1>2, <1>3, StoreKeepsCaches, Zenon
  <2>3. ObjOK(c)'
    <3>1. obj'[c] = s /\ pc'[c] = ok
      BY <1>2, <1>3, Zenon DEF Goto
    <3> QED  BY <2>1, <3>1, Zenon DEF ObjOK
  <2>4. ASSUME NEW d \in Controllers, d # c PROVE ObjOK(d)'
    <3>1. obj'[d] = obj[d] /\ pc'[d] = pc[d]
      BY <1>2, <1>3, <2>4, Zenon DEF Goto
    <3> QED  BY <1>2, <1>3, <2>4, <3>1, StoreLeaves, OthersKept
  <2>5. NewInv' /\ JointOK(cluster)'
    BY <2>1, Zenon DEF Storable, NewInv, JointOK
  <2>6. StatusStep
    BY <1>3, <2>1, Zenon DEF Storable, StatusStep, CountAdvance, Advances
  <2> QED  BY <1>1, <2>2, <2>3, <2>4, <2>5, <2>6, Zenon DEF ObjInv
<1>4. CASE objFresh[c] /\ StoreCluster(s, {}) /\ CountAdvance(s) /\ Goto(c, bad)
  <2>1. cluster' = s /\ Storable(s)
    BY <1>4, Zenon DEF StoreCluster
  <2>2. CacheInv'
    BY <1>2, <1>4, StoreKeepsCaches, Zenon
  <2>3. ObjOK(c)'
    <3>1. obj'[c] = s /\ pc'[c] = bad
      BY <1>2, <1>4, Zenon DEF Goto
    <3>2. ~ objFresh'[c] \/ cluster' = cluster
      BY <1>4, StoreLeaves
    <3>3. CASE ~ objFresh'[c]
      BY <3>1, <3>3, Zenon DEF ObjOK
    <3>4. CASE cluster' = cluster
      <4>1. bad = "idle"
        BY <1>4, <2>1, <3>4, Zenon
      <4> QED  BY <3>1, <4>1, Zenon DEF ObjOK, Holding
    <3> QED  BY <3>2, <3>3, <3>4, Zenon
  <2>4. ASSUME NEW d \in Controllers, d # c PROVE ObjOK(d)'
    <3>1. obj'[d] = obj[d] /\ pc'[d] = pc[d]
      BY <1>2, <1>4, <2>4, Zenon DEF Goto
    <3> QED  BY <1>2, <1>4, <2>4, <3>1, StoreLeaves, OthersKept
  <2>5. NewInv' /\ JointOK(cluster)'
    BY <2>1, Zenon DEF Storable, NewInv, JointOK
  <2>6. StatusStep
    BY <1>4, <2>1, Zenon DEF Storable, StatusStep, CountAdvance, Advances
  <2> QED  BY <1>1, <2>2, <2>3, <2>4, <2>5, <2>6, Zenon DEF ObjInv
<1>5. CASE /\ Goto(c, bad)
           /\ UNCHANGED <<cluster, clusterFresh, objFresh, advances>>
  <2>1. CacheInv' /\ NewInv' /\ JointOK(cluster)'
    BY <1>2, <1>5, Zenon DEF CacheInv, NewInv, JointOK
  <2>2. ObjOK(c)'
    <3>1. obj'[c] = s /\ pc'[c] = bad /\ cluster' = cluster /\ objFresh' = objFresh
      BY <1>2, <1>5, Zenon DEF Goto
    <3>2. CASE bad = "idle"
      BY <3>1, <3>2, Zenon DEF ObjOK, Holding
    <3>3. CASE bad = "degraded"
      <4>1. Reconfigured(cluster)' = Reconfigured(cluster)
        BY <3>1, Zenon DEF Reconfigured, Safe, UnsafeEarlyVote, UnsafeNoJoint
      <4> QED  BY <1>2, <3>1, <3>3, <4>1, Zenon DEF ObjOK, Holding
    <3> QED  BY <3>2, <3>3, Zenon
  <2>3. ASSUME NEW d \in Controllers, d # c PROVE ObjOK(d)'
    <3>1. obj'[d] = obj[d] /\ pc'[d] = pc[d]
      BY <1>2, <1>5, <2>3, Zenon DEF Goto
    <3> QED  BY <1>2, <1>5, <2>3, <3>1, OthersKept, Zenon
  <2>4. StatusStep
    BY <1>5 DEF StatusStep, TypeOK, RaftCluster
  <2> QED  BY <1>1, <2>1, <2>2, <2>3, <2>4, Zenon DEF ObjInv
<1> QED  BY <1>3, <1>4, <1>5, Zenon DEF StatusUpdate

\* The status of a new cluster may be stored.
LEMMA InitStatusKeeps ==
  ASSUME StatusInv, NEW c \in Controllers, InitStatus(c)
  PROVE  StatusInv' /\ StatusStep
<1> DEFINE s == [obj[c] EXCEPT !.phase = "Pending", !.joint = "none", !.index = 0]
<1>1. obj[c] \in RaftCluster /\ ObjOK(c) /\ pc[c] = "init"
  BY Zenon DEF StatusInv, TypeOK, ObjInv, InitStatus
<1>2. s \in RaftCluster
  BY <1>1, Ranges, Zenon DEF RaftCluster
<1>3. ASSUME objFresh[c] PROVE Storable(s)
  <2>1. obj[c] = cluster /\ cluster.phase = Unset
    BY <1>1, <1>3, Zenon DEF ObjOK, Holding
  <2>2. cluster.step = Unset /\ cluster.index = 0
    BY <2>1, Zenon DEF StatusInv, NewInv
  <2>3. /\ s.phase = "Pending" /\ s.step = cluster.step /\ s.index = 0
        /\ s.last = cluster.last
    BY <1>1, <2>1, Zenon DEF RaftCluster
  <2> HIDE DEF s
  <2> QED  BY <1>2, <2>2, <2>3, UnsetIsNoName DEF Storable, JointOK, Advances
<1>4. StatusUpdate(c, s, "service", "idle")
  BY Zenon DEF InitStatus
<1> HIDE DEF s
<1> QED  BY <1>2, <1>3, <1>4, StatusUpdateKeeps, Zenon

\* So may the next status of the workflow, once the cooldown is over.
LEMMA ReconfigureKeeps ==
  ASSUME StatusInv, NEW c \in Controllers, Reconfigure(c), obj[c].last <= cooled
  PROVE  StatusInv' /\ StatusStep
<1> DEFINE s == Reconfigured(obj[c])
<1>1. obj[c] \in RaftCluster /\ ObjOK(c) /\ pc[c] = "reconfigure"
  BY Zenon DEF StatusInv, TypeOK, ObjInv, Reconfigure
<1>2. s \in RaftCluster
  BY <1>1, ReconfiguredType, Zenon
<1>3. ASSUME objFresh[c]
      PROVE  /\ Storable(s)
             /\ s = Reconfigured(cluster) /\ s # cluster /\ cluster.last <= cooled
  <2>1. obj[c] = cluster
    BY <1>1, <1>3, Zenon DEF ObjOK, Holding
  <2> QED  BY <2>1, ReconfiguredStorable, Zenon DEF StatusInv
<1>4. StatusUpdate(c, s, "idle", "degraded")
  <2>1. obj[c].last \in Nat /\ cooled \in Nat
    BY <1>1, Zenon DEF StatusInv, TypeOK, RaftCluster
  <2>2. ~ (obj[c].last > cooled)
    BY <2>1
  <2> QED  BY <2>2, Zenon DEF Reconfigure
<1> HIDE DEF s
<1> QED  BY <1>2, <1>3, <1>4, StatusUpdateKeeps, Zenon

\* So may, after an error, the status that could not be stored.
LEMMA MarkDegradedKeeps ==
  ASSUME StatusInv, NEW c \in Controllers, MarkDegraded(c)
  PROVE  StatusInv' /\ StatusStep
<1> DEFINE s == [obj[c] EXCEPT !.phase = "Degraded"]
<1>1. obj[c] \in RaftCluster /\ ObjOK(c) /\ pc[c] = "degraded"
  BY Zenon DEF StatusInv, TypeOK, ObjInv, MarkDegraded
<1>2. s \in RaftCluster
  BY <1>1, Ranges, Zenon DEF RaftCluster
<1>3. ASSUME objFresh[c] PROVE Storable(s)
  <2>1. obj[c] = Reconfigured(cluster) /\ cluster.last <= cooled
    BY <1>1, <1>3, Zenon DEF ObjOK
  <2>2. Storable(obj[c])
    BY <2>1, ReconfiguredStorable, Zenon DEF StatusInv
  <2>3. /\ s.phase = "Degraded" /\ s.step = obj[c].step /\ s.index = obj[c].index
        /\ s.joint = obj[c].joint
    BY <1>1, Zenon DEF RaftCluster
  <2> HIDE DEF s
  <2> QED  BY <1>2, <2>1, <2>2, <2>3, UnsetIsNoName, Zenon DEF Storable, JointOK
<1>4. StatusUpdate(c, s, "idle", "idle")
  BY Zenon DEF MarkDegraded
<1> HIDE DEF s
<1> QED  BY <1>2, <1>3, <1>4, StatusUpdateKeeps, Zenon

\* So may the status of a cluster whose replicas agree.
LEMMA MarkReadyKeeps ==
  ASSUME StatusInv, NEW c \in Controllers, MarkReady(c), obj[c].phase # "Ready"
  PROVE  StatusInv' /\ StatusStep
<1> DEFINE s == [obj[c] EXCEPT !.phase = "Ready", !.step = Unset]
<1>1. obj[c] \in RaftCluster /\ ObjOK(c) /\ pc[c] = "ready"
  BY Zenon DEF StatusInv, TypeOK, ObjInv, MarkReady
<1>2. s \in RaftCluster
  BY <1>1, Ranges, Zenon DEF RaftCluster
<1>3. ASSUME objFresh[c] PROVE Storable(s)
  <2>1. obj[c] = cluster
    BY <1>1, <1>3, Zenon DEF ObjOK, Holding
  <2>2. /\ s.phase = "Ready" /\ s.step = Unset /\ s.index = cluster.index
        /\ s.last = cluster.last /\ cluster.index \in Nat
    BY <1>1, <2>1, Zenon DEF RaftCluster
  <2> HIDE DEF s
  <2> QED  BY <1>2, <2>2, UnsetIsNoName DEF Storable, JointOK, Advances
<1>4. StatusUpdate(c, s, "idle", "idle")
  BY Zenon DEF MarkReady
<1> HIDE DEF s
<1> QED  BY <1>2, <1>3, <1>4, StatusUpdateKeeps, Zenon

\* A step that leaves the RaftCluster alone keeps the invariant when it keeps the
\* types and the copies, and it is a step the properties allow.
LEMMA StatusLeftAlone ==
  ASSUME StatusInv, cluster' = cluster, advances' = advances,
         TypeOK', CacheInv', ObjInv'
  PROVE  StatusInv' /\ StatusStep
<1>1. cluster.index \in Nat
  BY Zenon DEF StatusInv, TypeOK, RaftCluster
<1> QED  BY <1>1 DEF StatusInv, StatusStep, NewInv, JointOK

\* A step of Reconcile that reads nothing new and stores no status: it goes on at
\* a place where obj is held as before, or ends.
LEMMA MovesOn ==
  ASSUME StatusInv, NEW c \in Controllers, NEW place \in Holding \cup {"idle"},
         pc[c] \in Holding, place # "init", Goto(c, place),
         UNCHANGED <<cluster, cooled, clusterCache, clusterFresh, obj, objFresh,
                     advances>>,
         TypeOK'
  PROVE  StatusInv' /\ StatusStep
<1>1. CacheInv'
  BY Zenon DEF StatusInv, CacheInv
<1>2. pc \in [Controllers -> {"idle", "init", "service", "sts", "needs",
                             "reconfigure", "degraded", "ready"}]
  BY Zenon DEF StatusInv, TypeOK
<1>3. ObjOK(c)'
  <2>1. ObjOK(c) /\ pc'[c] = place
    BY <1>2, Zenon DEF StatusInv, ObjInv, Goto
  <2> QED  BY <2>1, Zenon DEF ObjOK, Holding
<1>4. ASSUME NEW d \in Controllers, d # c PROVE ObjOK(d)'
  <2>1. pc'[d] = pc[d]
    BY <1>2, <1>4, Zenon DEF Goto
  <2> QED  BY <2>1, OthersKept, Zenon DEF StatusInv
<1>5. ObjInv'
  BY <1>3, <1>4, Zenon DEF ObjInv
<1> QED  BY <1>1, <1>5, StatusLeftAlone, Zenon

\* Reading the RaftCluster from the cache keeps the invariant.
LEMMA FetchKeeps ==
  ASSUME StatusInv, NEW c \in Controllers, Fetch(c)
  PROVE  StatusInv' /\ StatusStep
<1>1. TypeOK'
  BY Zenon DEF StatusInv, TypeOK, Fetch, Goto, server, caches, local, counts
<1>2. CacheInv'
  BY Zenon DEF StatusInv, CacheInv, Fetch, server, caches, local, counts
<1>3. ObjOK(c)'
  <2>1. /\ obj'[c] = clusterCache[c] /\ objFresh'[c] = clusterFresh[c]
        /\ pc'[c] = IF clusterCache[c].phase = Unset THEN "init" ELSE "service"
    BY Zenon DEF StatusInv, TypeOK, Fetch, Goto, server, caches, local, counts
  <2>2. clusterFresh[c] => clusterCache[c] = cluster
    BY Zenon DEF StatusInv, CacheInv
  <2>3. cluster' = cluster
    BY Zenon DEF Fetch, server, caches, local, counts
  <2> QED  BY <2>1, <2>2, <2>3, Zenon DEF ObjOK
<1>4. ASSUME NEW d \in Controllers, d # c PROVE ObjOK(d)'
  <2>1. pc'[d] = pc[d] /\ obj'[d] = obj[d] /\ objFresh'[d] = objFresh[d]
    BY <1>4, Zenon DEF StatusInv, TypeOK, Fetch, Goto, server, caches, local, counts
  <2> QED  BY <2>1, OthersKept, Zenon DEF StatusInv, Fetch, server, caches, local, counts
<1>5. ObjInv'
  BY <1>3, <1>4, Zenon DEF ObjInv
<1> QED  BY <1>1, <1>2, <1>5, StatusLeftAlone, Zenon DEF Fetch, server, caches, local, counts

\* So do a cache that catches up and an operator that starts anew.
LEMMA CachesKeep ==
  ASSUME StatusInv, NEW c \in Controllers,
         RefreshCluster(c) \/ RefreshSts(c) \/ Restart(c)
  PROVE  StatusInv' /\ StatusStep
<1>1. TypeOK'
  <2>1. CASE RefreshCluster(c)
    BY <2>1, Zenon DEF StatusInv, TypeOK, RefreshCluster, server, local, counts
  <2>2. CASE RefreshSts(c)
    BY <2>2, Zenon DEF StatusInv, TypeOK, RefreshSts, server, local, counts
  <2>3. CASE Restart(c)
    BY <2>3 DEF StatusInv, TypeOK, Restart, Goto, Fault, server
  <2> QED  BY <2>1, <2>2, <2>3, Zenon
<1>2. CacheInv'
  BY DEF StatusInv, TypeOK, CacheInv, RefreshCluster, RefreshSts, Restart,
       server, caches, local, counts
<1>3. ASSUME NEW d \in Controllers PROVE ObjOK(d)'
  <2>1. /\ obj'[d] = obj[d] /\ objFresh'[d] = objFresh[d]
        /\ cluster' = cluster /\ cooled' = cooled
        /\ pc'[d] = pc[d] \/ pc'[d] = "idle"
    BY DEF StatusInv, TypeOK, RefreshCluster, RefreshSts, Restart, Goto,
         server, caches, local, counts
  <2>2. CASE pc'[d] = pc[d]
    BY <2>1, <2>2, OthersKept, Zenon DEF StatusInv
  <2>3. CASE pc'[d] = "idle"
    BY <2>3, Zenon DEF ObjOK, Holding
  <2> QED  BY <2>1, <2>2, <2>3, Zenon
<1>4. ObjInv'
  BY <1>3, Zenon DEF ObjInv
<1> QED  BY <1>1, <1>2, <1>4, StatusLeftAlone, Zenon DEF RefreshCluster, RefreshSts, Restart,
     server, caches, local, counts

\* So do a change of the spec and the end of a cooldown.
LEMMA EnvironmentKeeps ==
  ASSUME StatusInv, Edit \/ CooldownEnds
  PROVE  StatusInv' /\ StatusStep
<1>1. CASE Edit
  <2>1. PICK n \in Sizes, m \in Modes :
          StoreCluster([cluster EXCEPT !.replicas = n, !.mode = m], {})
    BY <1>1, Zenon DEF Edit
  <2>0. /\ edits' = edits + 1
         /\ UNCHANGED <<service, sts, cooled, clusterCache, stsCache, stsFresh, pc, obj,
                        faults, advances>>
    BY <1>1, Zenon DEF Edit
  <2> DEFINE s == [cluster EXCEPT !.replicas = n, !.mode = m]
  <2>2. cluster \in RaftCluster
    BY Zenon DEF StatusInv, TypeOK
  <2>3. /\ s \in RaftCluster /\ s.phase = cluster.phase /\ s.step = cluster.step
        /\ s.joint = cluster.joint /\ s.index = cluster.index /\ s.index \in Nat
    BY <2>2, Zenon DEF RaftCluster
  <2>4. cluster' = s /\ StoreCluster(s, {})
    BY <2>1, Zenon DEF StoreCluster
  <2> HIDE DEF s
  <2>5. TypeOK'
    <3>1. /\ clusterFresh' \in [Controllers -> BOOLEAN]
          /\ objFresh' \in [Controllers -> BOOLEAN]
      BY <2>4, StoreClusterType, Zenon DEF StatusInv
    <3> QED  BY <2>3, <2>4, <2>0, <3>1 DEF StatusInv, TypeOK
  <2>6. CacheInv'
    BY <2>4, <2>0, StoreKeepsCaches, Zenon DEF StatusInv
  <2>7. ASSUME NEW d \in Controllers PROVE ObjOK(d)'
    BY <2>4, <2>0, StoreLeaves, OthersKept DEF StatusInv
  <2>8. NewInv' /\ JointOK(cluster)'
    BY <2>3, <2>4, Zenon DEF StatusInv, NewInv, JointOK
  <2>9. StatusStep
    BY <2>3, <2>4, <2>0 DEF StatusStep
  <2> QED  BY <2>5, <2>6, <2>7, <2>8, <2>9, Zenon DEF StatusInv, ObjInv
<1>2. CASE CooldownEnds
  <2>1. TypeOK'
    BY <1>2, Zenon DEF StatusInv, TypeOK, CooldownEnds, RaftCluster,
         server, caches, local, counts
  <2>2. CacheInv'
    BY <1>2, Zenon DEF StatusInv, CacheInv, CooldownEnds, server, caches, local, counts
  <2>3. ASSUME NEW d \in Controllers PROVE ObjOK(d)'
    <3>1. cluster.last \in Nat
      BY Zenon DEF StatusInv, TypeOK, RaftCluster
    <3>2. /\ UNCHANGED <<cluster, obj, objFresh, pc>>
          /\ cooled' = cluster.last
      BY <1>2, Zenon DEF CooldownEnds, server, caches, local, counts
    <3>3. Reconfigured(cluster)' = Reconfigured(cluster)
      BY <3>2, Zenon DEF Reconfigured, Safe, UnsafeEarlyVote, UnsafeNoJoint
    <3>4. ObjOK(d)
      BY Zenon DEF StatusInv, ObjInv
    <3> QED  BY <3>1, <3>2, <3>3, <3>4 DEF ObjOK
  <2>4. ObjInv'
    BY <2>3, Zenon DEF ObjInv
  <2> QED  BY <1>2, <2>1, <2>2, <2>4, StatusLeftAlone, Zenon DEF CooldownEnds,
       server, caches, local, counts
<1> QED  BY <1>1, <1>2, Zenon

-----------------------------------------------------------------------------
(* Theorems *)

\* A cluster that nobody has reconciled satisfies the invariant.
LEMMA StatusInit == Init => StatusInv
<1> SUFFICES ASSUME Init PROVE StatusInv
  BY Zenon
<1>1. /\ cluster \in RaftCluster /\ cluster.phase = Unset /\ cluster.step = Unset
      /\ cluster.index = 0
  BY DEF Init, RaftCluster, Phases, Steps, JointStates
<1>2. TypeOK
  BY <1>1, Zenon DEF Init, TypeOK
<1>3. CacheInv /\ ObjInv
  BY Zenon DEF Init, CacheInv, ObjInv, ObjOK, Holding
<1>4. NewInv /\ JointOK(cluster)
  BY <1>1, UnsetIsNoName, Zenon DEF NewInv, JointOK
<1> QED  BY <1>2, <1>3, <1>4, Zenon DEF StatusInv

\* Every step keeps the invariant and is one the properties allow.
LEMMA StatusNext == StatusInv /\ [Next]_vars => StatusInv' /\ StatusStep
<1> SUFFICES ASSUME StatusInv, [Next]_vars PROVE StatusInv' /\ StatusStep
  BY Zenon
<1>1. CASE Edit \/ CooldownEnds
  BY <1>1, EnvironmentKeeps, Zenon
<1>2. ASSUME NEW c \in Controllers,
             Restart(c) \/ RefreshCluster(c) \/ RefreshSts(c)
      PROVE  StatusInv' /\ StatusStep
  BY <1>2, CachesKeep, Zenon
<1>3. ASSUME NEW c \in Controllers, Reconcile(c)
      PROVE  StatusInv' /\ StatusStep
  <2>1. CASE Fetch(c)
    BY <2>1, FetchKeeps, Zenon
  <2>2. CASE InitStatus(c)
    BY <2>2, InitStatusKeeps, Zenon
  <2>3. CASE EnsureService(c)
    <3>1. TypeOK'
      BY <2>3, Zenon DEF StatusInv, TypeOK, EnsureService, Goto, caches, counts
    <3> QED
      BY <2>3, <3>1, MovesOn, Zenon DEF EnsureService, Holding, caches, counts
  <2>4. CASE CreateOrUpdate(c)
    <3>1. TypeOK'
      <4>1. sts' \in Sizes \cup {0}
        BY <2>4 DEF StatusInv, TypeOK, CreateOrUpdate, RaftCluster
      <4>2. stsFresh' = stsFresh \/ stsFresh' = [d \in Controllers |-> FALSE]
        BY <2>4, Zenon DEF CreateOrUpdate
      <4>3. stsFresh' \in [Controllers -> BOOLEAN]
        BY <4>2, Zenon DEF StatusInv, TypeOK
      <4>4. pc' \in [Controllers -> {"idle", "init", "service", "sts", "needs",
                                     "reconfigure", "degraded", "ready"}]
        BY <2>4 DEF StatusInv, TypeOK, CreateOrUpdate, Goto
      <4> QED
        BY <2>4, <4>1, <4>3, <4>4, Zenon DEF StatusInv, TypeOK, CreateOrUpdate, counts
    <3> QED
      BY <2>4, <3>1, MovesOn, Zenon DEF CreateOrUpdate, Holding, counts
  <2>5. CASE NeedsReconfiguration(c)
    <3>1. TypeOK'
      BY <2>5, Zenon DEF StatusInv, TypeOK, NeedsReconfiguration, Goto, server, caches, counts
    <3> QED
      BY <2>5, <3>1, MovesOn, Zenon DEF NeedsReconfiguration, Holding, server, caches, counts
  <2>6. CASE Reconfigure(c)
    <3>1. CASE obj[c].last <= cooled
      BY <2>6, <3>1, ReconfigureKeeps, Zenon
    <3>2. CASE ~ (obj[c].last <= cooled)
      <4>1. /\ pc[c] = "reconfigure" /\ Goto(c, "idle")
            /\ UNCHANGED <<server, caches, obj, objFresh, counts>>
        BY <2>6, <3>2, Zenon DEF Reconfigure
      <4>2. TypeOK'
        BY <4>1, Zenon DEF StatusInv, TypeOK, Goto, server, caches, counts
      <4> QED
        BY <4>1, <4>2, MovesOn, Zenon DEF Holding, server, caches, counts
    <3> QED  BY <3>1, <3>2, Zenon
  <2>7. CASE MarkDegraded(c)
    BY <2>7, MarkDegradedKeeps, Zenon
  <2>8. CASE MarkReady(c)
    <3>1. CASE obj[c].phase # "Ready"
      BY <2>8, <3>1, MarkReadyKeeps, Zenon
    <3>2. CASE obj[c].phase = "Ready"
      <4>1. /\ pc[c] = "ready" /\ Goto(c, "idle")
            /\ UNCHANGED <<server, caches, obj, objFresh, counts>>
        BY <2>8, <3>2, Zenon DEF MarkReady
      <4>2. TypeOK'
        BY <4>1, Zenon DEF StatusInv, TypeOK, Goto, server, caches, counts
      <4> QED
        BY <4>1, <4>2, MovesOn, Zenon DEF Holding, server, caches, counts
    <3> QED  BY <3>1, <3>2, Zenon
  <2>9. CASE RequestFails(c)
    <3>1. TypeOK'
      BY <2>9 DEF StatusInv, TypeOK, RequestFails, Goto, Fault, server, caches
    <3> QED
      BY <2>9, <3>1, MovesOn, Zenon DEF RequestFails, Holding, server, caches
  <2> QED
    BY <1>3, <2>1, <2>2, <2>3, <2>4, <2>5, <2>6, <2>7, <2>8, <2>9, Zenon DEF Reconcile
<1>4. CASE UNCHANGED vars
  <2>1. UNCHANGED <<cluster, cooled, clusterCache, clusterFresh, pc, obj, objFresh,
                    advances>>
    BY <1>4, Zenon DEF vars, server, caches, local, counts
  <2>2. TypeOK'
    BY <1>4, Zenon DEF StatusInv, TypeOK, vars, server, caches, local, counts
  <2>3. CacheInv'
    BY <2>1, Zenon DEF StatusInv, CacheInv
  <2>4. ASSUME NEW d \in Controllers PROVE ObjOK(d)'
    BY <2>1, OthersKept, Zenon DEF StatusInv
  <2>5. ObjInv'
    BY <2>4, Zenon DEF ObjInv
  <2> QED  BY <2>1, <2>2, <2>3, <2>5, StatusLeftAlone, Zenon
<1> QED  BY <1>1, <1>2, <1>3, <1>4, Zenon DEF Next

\* The invariant holds in every reachable state.
LEMMA StatusAlways == Spec => []StatusInv
<1> QED  BY StatusInit, StatusNext, PTL DEF Spec

\* Every variable keeps its type, whatever the controllers and the API server do.
THEOREM TypesAreCorrect == Spec => []TypeOK
<1>1. StatusInv => TypeOK
  BY Zenon DEF StatusInv
<1> QED  BY <1>1, StatusAlways, PTL

\* For any number of controllers and in any mix of safety modes, faults, conflicts
\* and edits, the joint state in the stored status belongs to its step.
THEOREM JointStateFollowsStep == Spec => []JointFollowsStep
<1>1. StatusInv => JointFollowsStep
  BY Zenon DEF StatusInv, JointOK, JointFollowsStep
<1> QED  BY <1>1, StatusAlways, PTL

\* The stored step moves along the workflow, one step at a time, or back to its start.
THEOREM WorkflowStaysInOrder == Spec => WorkflowInOrder
<1>1. StatusInv /\ [Next]_vars =>
        [cluster'.step # cluster.step =>
           cluster'.step = Unset \/ <<cluster.step, cluster'.step>> \in WorkflowEdges]_vars
  BY StatusNext, Zenon DEF StatusStep
<1> QED  BY <1>1, StatusAlways, PTL DEF Spec, WorkflowInOrder

\* ConfigurationIndex counts each configuration that is committed, once.
THEOREM IndexIsExact == Spec => IndexCountsCommits
<1>1. StatusInv /\ [Next]_vars =>
        [cluster'.index = cluster.index +
           (IF cluster.step = "EnterJoint" /\ cluster'.step = "CommitNew"
            THEN 1 ELSE 0)]_vars
  BY StatusNext, Zenon DEF StatusStep
<1> QED  BY <1>1, StatusAlways, PTL DEF Spec, IndexCountsCommits

\* No step is stored before the cooldown of the last reconfiguration is over, however
\* old the copy a controller decides on.
THEOREM CooldownIsRespected == Spec => CooldownRespected
<1>1. StatusInv /\ [Next]_vars => [advances' # advances => cluster.last <= cooled]_vars
  BY StatusNext, Zenon DEF StatusStep
<1> QED  BY <1>1, StatusAlways, PTL DEF Spec, CooldownRespected
-----------------------------------------------------------------------------
(* What a step of Reconcile stores *)

\* A status update stores the status it is given and counts it, or stores nothing.
LEMMA UpdateStores ==
  ASSUME NEW c \in Controllers, NEW s, NEW ok, NEW bad, StatusUpdate(c, s, ok, bad)
  PROVE  /\ UNCHANGED <<sts, edits>>
         /\ \/ UNCHANGED <<cluster, advances>>
            \/ objFresh[c] /\ cluster' = s /\ CountAdvance(s)
BY Zenon DEF StatusUpdate, StoreCluster

\* A workflow of either kind completes at most one reconfiguration at a time.
LEMMA OneReconfiguration ==
  ASSUME NEW s \in RaftCluster
  PROVE  Reconfigured(s).last = s.last \/ Reconfigured(s).last = s.last + 1
<1> DEFINE t == [s EXCEPT !.phase = "Reconfiguring"]
<1>1. t \in RaftCluster /\ t.last = s.last
  BY Ranges, Zenon DEF RaftCluster
<1>2. s.mode \in {"safe", "unsafe-early-vote", "unsafe-no-joint"}
  BY ConstantsAssumption, Zenon DEF RaftCluster
<1>3. /\ s.mode = "safe" => Reconfigured(s) = Safe(t)
      /\ s.mode = "unsafe-early-vote" => Reconfigured(s) = UnsafeEarlyVote(t)
      /\ s.mode = "unsafe-no-joint" => Reconfigured(s) = UnsafeNoJoint(t)
  BY Zenon DEF Reconfigured
<1> HIDE DEF t
<1>4. UnsafeEarlyVote(t).last = t.last + 1 /\ UnsafeNoJoint(t).last = t.last + 1
  BY <1>1, Zenon DEF UnsafeEarlyVote, UnsafeNoJoint, RaftCluster
<1>5. Safe(t).last = t.last \/ Safe(t).last = t.last + 1
  <2>1. t.step \in Steps
    BY <1>1, Zenon DEF RaftCluster
  <2>2. CASE t.step = Unset
    BY <1>1, <2>2, UnsetIsNoName, Zenon DEF Safe, RaftCluster
  <2>3. CASE t.step = "AddLearner"
    BY <1>1, <2>3, UnsetIsNoName, Zenon DEF Safe, RaftCluster
  <2>4. CASE t.step = "CatchUp"
    BY <1>1, <2>4, UnsetIsNoName, Zenon DEF Safe, RaftCluster
  <2>5. CASE t.step = "EnterJoint"
    BY <1>1, <2>5, UnsetIsNoName, Zenon DEF Safe, RaftCluster
  <2>6. CASE t.step = "CommitNew"
    BY <1>1, <2>6, UnsetIsNoName, Zenon DEF Safe, RaftCluster
  <2>7. CASE t.step = "LeaveJoint"
    BY <1>1, <2>7, UnsetIsNoName, Zenon DEF Safe, RaftCluster
  <2> QED  BY <2>1, <2>2, <2>3, <2>4, <2>5, <2>6, <2>7, Zenon DEF Steps
<1> QED  BY <1>1, <1>2, <1>3, <1>4, <1>5, Zenon

\* A step of Reconcile that changes the stored status completes one reconfiguration at
\* most, which is counted; it comes to Ready from two places, with a fresh copy in hand.
Stores(c) ==
  \/ UNCHANGED <<cluster, advances>>
  \/ /\ CountAdvance(cluster')
     /\ cluster'.last = cluster.last \/ cluster'.last = cluster.last + 1
     /\ cluster'.phase = "Ready" => obj[c] = cluster /\ pc[c] \in {"reconfigure", "ready"}

\* Each place where Reconcile writes the status is such a step.
LEMMA ReconcileStores ==
  ASSUME StatusInv, NEW c \in Controllers, Reconcile(c)
  PROVE  Stores(c) /\ UNCHANGED edits
<1>1. obj[c] \in RaftCluster /\ cluster \in RaftCluster /\ ObjOK(c)
  BY Zenon DEF StatusInv, TypeOK, ObjInv
<1>2. CASE InitStatus(c)
  <2> DEFINE s == [obj[c] EXCEPT !.phase = "Pending", !.joint = "none", !.index = 0]
  <2>1. StatusUpdate(c, s, "service", "idle") /\ pc[c] = "init"
    BY <1>2, Zenon DEF InitStatus
  <2>2. s.last = obj[c].last /\ s.phase = "Pending"
    BY <1>1, Zenon DEF RaftCluster
  <2>3. objFresh[c] => obj[c] = cluster
    BY <1>1, <2>1, Zenon DEF ObjOK, Holding
  <2> HIDE DEF s
  <2> QED  BY <2>1, <2>2, <2>3, UpdateStores, Zenon DEF Stores
<1>3. CASE Reconfigure(c)
  <2>1. CASE UNCHANGED <<server, caches, obj, objFresh, counts>>
    BY <2>1, Zenon DEF Stores, server, counts
  <2>2. CASE StatusUpdate(c, Reconfigured(obj[c]), "idle", "degraded")
    <3>1. pc[c] = "reconfigure"
      BY <1>3, Zenon DEF Reconfigure
    <3>2. objFresh[c] => obj[c] = cluster
      BY <1>1, <3>1, Zenon DEF ObjOK, Holding
    <3>3. \/ Reconfigured(obj[c]).last = obj[c].last
          \/ Reconfigured(obj[c]).last = obj[c].last + 1
      BY <1>1, OneReconfiguration, Zenon
    <3> QED  BY <2>2, <3>1, <3>2, <3>3, UpdateStores, Zenon DEF Stores
  <2> QED  BY <1>3, <2>1, <2>2, Zenon DEF Reconfigure
<1>4. CASE MarkDegraded(c)
  <2> DEFINE s == [obj[c] EXCEPT !.phase = "Degraded"]
  <2>1. StatusUpdate(c, s, "idle", "idle") /\ pc[c] = "degraded"
    BY <1>4, Zenon DEF MarkDegraded
  <2>2. s.last = obj[c].last /\ s.phase = "Degraded"
    BY <1>1, Zenon DEF RaftCluster
  <2>3. objFresh[c] => obj[c] = Reconfigured(cluster)
    BY <1>1, <2>1, Zenon DEF ObjOK
  <2>4. Reconfigured(cluster).last \in {cluster.last, cluster.last + 1}
    BY <1>1, OneReconfiguration, Zenon
  <2> HIDE DEF s
  <2> QED  BY <2>1, <2>2, <2>3, <2>4, UpdateStores, Zenon DEF Stores
<1>5. CASE MarkReady(c)
  <2> DEFINE s == [obj[c] EXCEPT !.phase = "Ready", !.step = Unset]
  <2>1. CASE UNCHANGED <<server, caches, obj, objFresh, counts>>
    BY <2>1, Zenon DEF Stores, server, counts
  <2>2. CASE StatusUpdate(c, s, "idle", "idle")
    <3>1. pc[c] = "ready"
      BY <1>5, Zenon DEF MarkReady
    <3>2. objFresh[c] => obj[c] = cluster
      BY <1>1, <3>1, Zenon DEF ObjOK, Holding
    <3>3. s.last = obj[c].last
      BY <1>1, Zenon DEF RaftCluster
    <3> HIDE DEF s
    <3> QED  BY <2>2, <3>1, <3>2, <3>3, UpdateStores, Zenon DEF Stores
  <2> QED  BY <1>5, <2>1, <2>2, Zenon DEF MarkReady
<1>6. CASE \/ Fetch(c) \/ EnsureService(c) \/ CreateOrUpdate(c) \/ NeedsReconfiguration(c)
           \/ RequestFails(c)
  BY <1>6, Zenon DEF Fetch, EnsureService, CreateOrUpdate, NeedsReconfiguration,
       RequestFails, Stores, server, counts
<1> QED  BY <1>2, <1>3, <1>4, <1>5, <1>6, Zenon DEF Reconcile

-----------------------------------------------------------------------------
(* One controller *)

\* How often the replicas change on the way from a to b; 0 is no StatefulSet.
Differ(a, b) == IF a = 0 \/ a = b THEN 0 ELSE 1

\* An advance that Reconcile is about to store, or may yet store.
Pending(c) ==
  IF pc[c] = "needs" THEN Differ(stsCache[c], obj[c].replicas)
  ELSE IF pc[c] = "reconfigure" \/ (pc[c] = "degraded" /\ objFresh[c]) THEN 1 ELSE 0

\* The changes of the replicas between the StatefulSet and the cached spec.
Ahead(c) ==
  IF pc[c] \in {"init", "service", "sts"}
  THEN Differ(sts, obj[c].replicas) + Differ(obj[c].replicas, clusterCache[c].replicas)
  ELSE Differ(sts, clusterCache[c].replicas)

\* The changes that may still become advances.
Owed(c) ==
  Pending(c) + Ahead(c) + Differ(clusterCache[c].replicas, cluster.replicas)

\* Every advance made, pending or still to come is paid for by an edit.
Budget(c) ==
  /\ stsFresh[c] => stsCache[c] = sts
  /\ pc[c] = "needs" => sts = obj[c].replicas
  /\ advances + Owed(c) <= edits

\* What is owed is a number, before a step and after it.
LEMMA OwedType ==
  ASSUME NEW c
  PROVE  /\ Pending(c) \in Nat /\ Ahead(c) \in Nat /\ Owed(c) \in Nat
         /\ Pending(c)' \in Nat /\ Ahead(c)' \in Nat /\ Owed(c)' \in Nat
<1>1. \A a, b : Differ(a, b) \in Nat
  BY Zenon DEF Differ
<1>2. Pending(c) \in Nat /\ Ahead(c) \in Nat
  BY <1>1 DEF Pending, Ahead
<1>3. Differ(clusterCache[c].replicas, cluster.replicas) \in Nat
  BY <1>1, Zenon
<1>4. Pending(c)' \in Nat /\ Ahead(c)' \in Nat
  BY <1>1 DEF Pending, Ahead, Differ
<1>5. Differ(clusterCache[c].replicas, cluster.replicas)' \in Nat
  BY Zenon DEF Differ
<1>6. Owed(c) \in Nat
  BY <1>2, <1>3 DEF Owed
<1>7. Owed(c)' \in Nat
  BY <1>4, <1>5 DEF Owed
<1> QED  BY <1>2, <1>4, <1>6, <1>7, Zenon

\* A detour changes the replicas no less often than the direct way.
LEMMA Detour ==
  ASSUME NEW a, NEW b, NEW d, b # 0
  PROVE  /\ Differ(a, d) <= Differ(a, b) + Differ(b, d)
         /\ Differ(a, b) \in 0 .. 1 /\ Differ(a, a) = 0 /\ Differ(0, a) = 0
BY DEF Differ

\* No reconfiguration touches the spec.
LEMMA ReplicasKept ==
  ASSUME NEW s \in RaftCluster
  PROVE  Reconfigured(s).replicas = s.replicas
<1> DEFINE t == [s EXCEPT !.phase = "Reconfiguring"]
<1>1. t \in RaftCluster /\ t.replicas = s.replicas
  BY Ranges, Zenon DEF RaftCluster
<1>2. s.mode \in {"safe", "unsafe-early-vote", "unsafe-no-joint"}
  BY ConstantsAssumption, Zenon DEF RaftCluster
<1>3. /\ s.mode = "safe" => Reconfigured(s) = Safe(t)
      /\ s.mode = "unsafe-early-vote" => Reconfigured(s) = UnsafeEarlyVote(t)
      /\ s.mode = "unsafe-no-joint" => Reconfigured(s) = UnsafeNoJoint(t)
  BY Zenon DEF Reconfigured
<1> HIDE DEF t
<1>4. UnsafeEarlyVote(t).replicas = t.replicas /\ UnsafeNoJoint(t).replicas = t.replicas
  BY <1>1, Zenon DEF UnsafeEarlyVote, UnsafeNoJoint, RaftCluster
<1>5. Safe(t).replicas = t.replicas
  <2>1. t.step \in Steps
    BY <1>1, Zenon DEF RaftCluster
  <2>2. CASE t.step = Unset
    BY <1>1, <2>2, UnsetIsNoName, Zenon DEF Safe, RaftCluster
  <2>3. CASE t.step = "AddLearner"
    BY <1>1, <2>3, UnsetIsNoName, Zenon DEF Safe, RaftCluster
  <2>4. CASE t.step = "CatchUp"
    BY <1>1, <2>4, UnsetIsNoName, Zenon DEF Safe, RaftCluster
  <2>5. CASE t.step = "EnterJoint"
    BY <1>1, <2>5, UnsetIsNoName, Zenon DEF Safe, RaftCluster
  <2>6. CASE t.step = "CommitNew"
    BY <1>1, <2>6, UnsetIsNoName, Zenon DEF Safe, RaftCluster
  <2>7. CASE t.step = "LeaveJoint"
    BY <1>1, <2>7, UnsetIsNoName, Zenon DEF Safe, RaftCluster
  <2> QED  BY <2>1, <2>2, <2>3, <2>4, <2>5, <2>6, <2>7, Zenon DEF Steps
<1> QED  BY <1>1, <1>2, <1>3, <1>4, <1>5, Zenon

\* What a status update does to the numbers in the budget: the replicas stay, and an
\* advance is counted only when it leaves none behind for the error path.
LEMMA UpdateOutcome ==
  ASSUME TypeOK, NEW c \in Controllers, NEW s \in RaftCluster, NEW ok, NEW bad,
         StatusUpdate(c, s, ok, bad), s.replicas = obj[c].replicas,
         objFresh[c] => cluster.replicas = obj[c].replicas
  PROVE  /\ UNCHANGED <<sts, stsCache, stsFresh, clusterCache, edits>>
         /\ cluster'.replicas = cluster.replicas /\ obj'[c].replicas = obj[c].replicas
         /\ pc'[c] = ok \/ pc'[c] = bad
         /\ \/ advances' = advances /\ (pc'[c] = bad /\ objFresh'[c] => objFresh[c])
            \/ /\ advances' = advances + 1 /\ objFresh[c] /\ Advances(s)
               /\ pc'[c] = ok \/ ~ objFresh'[c]
<1>1. /\ UNCHANGED <<sts, stsCache, stsFresh, clusterCache, edits>>
      /\ obj'[c] = s
  BY Zenon DEF StatusUpdate, TypeOK
<1>2. advances \in Nat /\ pc \in [Controllers -> {"idle", "init", "service", "sts",
                                   "needs", "reconfigure", "degraded", "ready"}]
  BY Zenon DEF TypeOK
<1>3. CASE objFresh[c] /\ StoreCluster(s, {c}) /\ CountAdvance(s) /\ Goto(c, ok)
  <2>1. cluster' = s /\ pc'[c] = ok
    BY <1>2, <1>3, Zenon DEF StoreCluster, Goto
  <2>2. advances' = advances \/ (advances' = advances + 1 /\ Advances(s))
    BY <1>3, Zenon DEF CountAdvance, Advances
  <2> QED  BY <1>1, <1>3, <2>1, <2>2, Zenon
<1>4. CASE objFresh[c] /\ StoreCluster(s, {}) /\ CountAdvance(s) /\ Goto(c, bad)
  <2>1. cluster' = s /\ pc'[c] = bad
    BY <1>2, <1>4, Zenon DEF StoreCluster, Goto
  <2>2. advances' = advances \/ (advances' = advances + 1 /\ Advances(s))
    BY <1>4, Zenon DEF CountAdvance, Advances
  <2>3. s = cluster => ~ Advances(s)
    BY Zenon DEF Advances
  <2>4. s # cluster => ~ objFresh'[c]
    BY <1>4, Zenon DEF StoreCluster
  <2> QED  BY <1>1, <1>4, <2>1, <2>2, <2>3, <2>4, Zenon
<1>5. CASE /\ Goto(c, bad)
           /\ UNCHANGED <<cluster, clusterFresh, objFresh, advances>>
  BY <1>1, <1>2, <1>5, Zenon DEF Goto
<1> QED  BY <1>3, <1>4, <1>5, Zenon DEF StatusUpdate

\* The sizes in the budget.
LEMMA Replicas ==
  ASSUME TypeOK, NEW c \in Controllers
  PROVE  /\ obj[c] \in RaftCluster /\ cluster \in RaftCluster
         /\ obj[c].replicas # 0 /\ clusterCache[c].replicas # 0 /\ cluster.replicas # 0
         /\ advances \in Nat /\ edits \in Nat
         /\ pc \in [Controllers -> {"idle", "init", "service", "sts", "needs",
                                    "reconfigure", "degraded", "ready"}]
BY ConstantsAssumption, Zenon DEF TypeOK, RaftCluster

\* A status update keeps the budget when an advance that it stores was pending.
LEMMA UpdateKeepsBudget ==
  ASSUME TypeOK, NEW c \in Controllers, Budget(c), NEW s \in RaftCluster,
         NEW ok \in {"service", "idle"}, NEW bad \in {"idle", "degraded"},
         StatusUpdate(c, s, ok, bad), s.replicas = obj[c].replicas,
         objFresh[c] => cluster.replicas = obj[c].replicas,
         pc[c] \in {"init", "reconfigure", "degraded", "ready"},
         ok = "service" => pc[c] = "init",
         bad = "degraded" => pc[c] = "reconfigure",
         objFresh[c] /\ Advances(s) => Pending(c) = 1
  PROVE  Budget(c)'
<1> DEFINE O == obj[c].replicas  C == clusterCache[c].replicas  K == cluster.replicas
<1>1. /\ UNCHANGED <<sts, stsCache, stsFresh, clusterCache, edits>>
      /\ cluster'.replicas = K /\ obj'[c].replicas = O
      /\ pc'[c] = ok \/ pc'[c] = bad
      /\ \/ advances' = advances /\ (pc'[c] = bad /\ objFresh'[c] => objFresh[c])
         \/ /\ advances' = advances + 1 /\ objFresh[c] /\ Advances(s)
            /\ pc'[c] = ok \/ ~ objFresh'[c]
  BY UpdateOutcome, Zenon
<1>2. O # 0 /\ C # 0 /\ advances \in Nat /\ edits \in Nat
  BY Replicas, Zenon
<1>3. /\ Differ(sts, C) <= Differ(sts, O) + Differ(O, C)
      /\ Differ(sts, O) \in 0 .. 1 /\ Differ(O, C) \in 0 .. 1 /\ Differ(sts, C) \in 0 .. 1
      /\ Differ(C, K) \in 0 .. 1
  BY <1>2, Detour DEF Differ
<1>4. advances + Owed(c) <= edits
  BY Zenon DEF Budget
<1>5. Ahead(c)' <= Ahead(c)
  <2>1. Ahead(c)' = IF pc'[c] \in {"init", "service", "sts"}
                    THEN Differ(sts, O) + Differ(O, C) ELSE Differ(sts, C)
    BY <1>1, Zenon DEF Ahead, Differ
  <2>2. Ahead(c) = IF pc[c] \in {"init", "service", "sts"}
                   THEN Differ(sts, O) + Differ(O, C) ELSE Differ(sts, C)
    BY Zenon DEF Ahead
  <2>3. pc'[c] \in {"init", "service", "sts"} => pc[c] \in {"init", "service", "sts"}
    BY <1>1, Zenon
  <2> HIDE DEF O, C
  <2> QED  BY <1>3, <2>1, <2>2, <2>3
<1>6. /\ Pending(c) = IF pc[c] = "reconfigure" \/ (pc[c] = "degraded" /\ objFresh[c])
                      THEN 1 ELSE 0
      /\ Pending(c)' = IF pc'[c] = "degraded" /\ objFresh'[c] THEN 1 ELSE 0
  BY <1>1, Zenon DEF Pending
<1>7. advances' \in Nat /\ advances' + Pending(c)' <= advances + Pending(c)
  <2>1. CASE advances' = advances
    <3>1. Pending(c)' <= Pending(c)
      BY <1>1, <1>6, <2>1
    <3> QED  BY <1>2, <2>1, <3>1, OwedType
  <2>2. CASE advances' # advances
    <3>1. advances' = advances + 1 /\ objFresh[c] /\ Advances(s) /\ (pc'[c] = ok \/ ~ objFresh'[c])
      BY <1>1, <2>2, Zenon
    <3>2. Pending(c) = 1 /\ Pending(c)' = 0
      BY <1>6, <3>1, Zenon
    <3> QED  BY <1>2, <3>1, <3>2
  <2> QED  BY <2>1, <2>2, Zenon
<1>8. Differ(clusterCache[c].replicas, cluster.replicas)' = Differ(C, K)
  BY <1>1, Zenon DEF Differ
<1>9. advances' + Owed(c)' <= advances + Owed(c)
  <2>1. Owed(c) = Pending(c) + Ahead(c) + Differ(C, K)
    BY Zenon DEF Owed
  <2>2. Owed(c)' = Pending(c)' + Ahead(c)' + Differ(C, K)
    BY <1>8, Zenon DEF Owed
  <2>3. Differ(C, K) \in Nat
    BY Zenon DEF Differ
  <2> HIDE DEF C, K
  <2> QED  BY <1>2, <1>5, <1>7, <2>1, <2>2, <2>3, OwedType
<1>10. advances' + Owed(c)' <= edits'
  <2>1. edits' = edits
    BY <1>1, Zenon
  <2> QED  BY <1>2, <1>4, <1>7, <1>9, <2>1, OwedType
<1>11. stsFresh'[c] => stsCache'[c] = sts'
  BY <1>1, Zenon DEF Budget
<1>12. pc'[c] # "needs"
  BY <1>1, Zenon
<1> QED  BY <1>10, <1>11, <1>12, Zenon DEF Budget

\* A step that stores nothing: only the place, the StatefulSet and the copies change.
LEMMA QuietKeepsBudget ==
  ASSUME TypeOK, NEW c \in Controllers, Budget(c), advances' = advances, edits' = edits,
         Owed(c)' <= Owed(c), (stsFresh[c] => stsCache[c] = sts)',
         (pc[c] = "needs" => sts = obj[c].replicas)'
  PROVE  Budget(c)'
<1>1. Owed(c) \in Nat /\ Owed(c)' \in Nat
  BY OwedType, Zenon
<1>2. advances \in Nat /\ edits \in Nat
  BY Zenon DEF TypeOK
<1>3. advances + Owed(c) <= edits
  BY Zenon DEF Budget
<1>4. advances' + Owed(c)' <= edits'
  BY <1>1, <1>2, <1>3
<1> QED  BY <1>4, Zenon DEF Budget

\* Reading the RaftCluster and writing the StatefulSet turn a change that is ahead
\* into one that is pending; every other step of Reconcile only gives changes up.
LEMMA ReconcileKeepsBudget ==
  ASSUME StatusInv, NEW c \in Controllers, Budget(c), Reconcile(c)
  PROVE  Budget(c)'
<1> DEFINE O == obj[c].replicas  C == clusterCache[c].replicas  K == cluster.replicas
<1>1. /\ obj[c] \in RaftCluster /\ cluster \in RaftCluster
      /\ O # 0 /\ C # 0 /\ K # 0 /\ advances \in Nat /\ edits \in Nat
      /\ pc \in [Controllers -> {"idle", "init", "service", "sts", "needs",
                                 "reconfigure", "degraded", "ready"}]
  BY Replicas, Zenon DEF StatusInv
<1>2. TypeOK /\ TypeOK'
  <2>1. Next
    BY Zenon DEF Next
  <2> QED  BY <2>1, StatusNext, Zenon DEF StatusInv
<1>3. /\ Differ(sts, C) <= Differ(sts, O) + Differ(O, C)
      /\ Differ(sts, O) \in 0 .. 1 /\ Differ(O, C) \in 0 .. 1 /\ Differ(sts, C) \in 0 .. 1
      /\ Differ(C, K) \in 0 .. 1 /\ Differ(stsCache[c], O) \in 0 .. 1
      /\ Differ(C, C) = 0 /\ Differ(O, O) = 0
  BY <1>1, Detour DEF Differ
<1>4. ObjOK(c)
  BY Zenon DEF StatusInv, ObjInv
<1>5. CASE Fetch(c)
  <2>1. /\ UNCHANGED <<cluster, advances, edits, sts, stsCache, stsFresh, clusterCache>>
        /\ pc[c] = "idle" /\ pc'[c] \in {"init", "service"}
        /\ obj'[c] = clusterCache[c]
    BY <1>1, <1>2, <1>5, Zenon DEF Fetch, Goto, server, caches, counts, TypeOK
  <2>2. /\ Pending(c)' = 0 /\ Pending(c) = 0
        /\ Ahead(c)' = Differ(sts, C) + Differ(C, C) /\ Ahead(c) = Differ(sts, C)
        /\ Differ(clusterCache[c].replicas, cluster.replicas)' = Differ(C, K)
    BY <2>1, Zenon DEF Pending, Ahead, Differ
  <2>3. (stsFresh[c] => stsCache[c] = sts)' /\ (pc[c] = "needs" => sts = obj[c].replicas)'
    BY <2>1, Zenon DEF Budget
  <2>4. Owed(c)' <= Owed(c)
    <3>1. /\ Owed(c)' = 0 + (Differ(sts, C) + Differ(C, C)) + Differ(C, K)
          /\ Owed(c) = 0 + Differ(sts, C) + Differ(C, K)
      BY <2>2, Zenon DEF Owed
    <3> HIDE DEF O, C, K
    <3> QED  BY <1>3, <3>1
  <2> QED  BY <1>2, <2>1, <2>3, <2>4, QuietKeepsBudget, Zenon
<1>6. CASE InitStatus(c)
  <2> DEFINE s == [obj[c] EXCEPT !.phase = "Pending", !.joint = "none", !.index = 0]
  <2>1. StatusUpdate(c, s, "service", "idle") /\ pc[c] = "init"
    BY <1>6, Zenon DEF InitStatus
  <2>2. /\ s \in RaftCluster /\ s.replicas = O /\ s.index = 0
        /\ s.last = obj[c].last /\ s.step = obj[c].step
    BY <1>1, Ranges, Zenon DEF RaftCluster
  <2>3. ASSUME objFresh[c]  PROVE cluster.replicas = O /\ ~ Advances(s)
    <3>1. obj[c] = cluster /\ cluster.phase = Unset
      BY <1>4, <2>1, <2>3, Zenon DEF ObjOK, Holding
    <3>2. cluster.step = Unset /\ cluster.index = 0
      BY <3>1, Zenon DEF StatusInv, NewInv
    <3> HIDE DEF s
    <3> QED  BY <2>2, <3>1, <3>2, Zenon DEF Advances
  <2> HIDE DEF s
  <2> QED  BY <1>2, <2>1, <2>2, <2>3, UpdateKeepsBudget, Zenon
<1>7. CASE EnsureService(c)
  <2>1. /\ UNCHANGED <<cluster, advances, edits, sts, stsCache, stsFresh, clusterCache, obj>>
        /\ pc[c] = "service" /\ pc'[c] = "sts"
    BY <1>1, <1>7, Zenon DEF EnsureService, Goto, caches, counts
  <2>2. /\ Pending(c)' = 0 /\ Pending(c) = 0 /\ Ahead(c)' = Ahead(c)
        /\ Ahead(c) = Differ(sts, O) + Differ(O, C)
        /\ Differ(clusterCache[c].replicas, cluster.replicas)' = Differ(C, K)
    BY <2>1, Zenon DEF Pending, Ahead, Differ
  <2>3. (stsFresh[c] => stsCache[c] = sts)' /\ (pc[c] = "needs" => sts = obj[c].replicas)'
    BY <2>1, Zenon DEF Budget
  <2>4. Owed(c)' <= Owed(c)
    <3>1. Owed(c)' = Owed(c)
      BY <2>2, Zenon DEF Owed
    <3> QED  BY <3>1, OwedType
  <2> QED  BY <1>2, <2>1, <2>3, <2>4, QuietKeepsBudget, Zenon
<1>8. CASE CreateOrUpdate(c)
  <2>1. /\ UNCHANGED <<cluster, advances, edits, stsCache, clusterCache, obj>>
        /\ pc[c] = "sts"
    BY <1>1, <1>8, Zenon DEF CreateOrUpdate, counts
  <2>2. /\ Pending(c) = 0 /\ Ahead(c) = Differ(sts, O) + Differ(O, C)
        /\ Differ(clusterCache[c].replicas, cluster.replicas)' = Differ(C, K)
    BY <2>1, Zenon DEF Pending, Ahead, Differ
  <2>3. CASE stsFresh[c]
    <3>1. /\ sts' = O /\ pc'[c] = "needs" /\ stsCache[c] = sts
          /\ stsFresh'[c] => sts' = sts
      BY <1>1, <1>8, <2>3, Zenon DEF CreateOrUpdate, Goto, Budget
    <3>2. Pending(c)' = Differ(sts, O) /\ Ahead(c)' = Differ(O, C)
      BY <2>1, <3>1, Zenon DEF Pending, Ahead, Differ
    <3>3. /\ (stsFresh[c] => stsCache[c] = sts)'
          /\ (pc[c] = "needs" => sts = obj[c].replicas)'
      BY <2>1, <3>1, Zenon
    <3>4. Owed(c)' <= Owed(c)
      <4>1. /\ Owed(c)' = Differ(sts, O) + Differ(O, C) + Differ(C, K)
            /\ Owed(c) = 0 + (Differ(sts, O) + Differ(O, C)) + Differ(C, K)
        BY <2>2, <3>2, Zenon DEF Owed
      <4> HIDE DEF O, C, K
      <4> QED  BY <1>3, <4>1
    <3> QED  BY <1>2, <2>1, <3>3, <3>4, QuietKeepsBudget, Zenon
  <2>4. CASE ~ stsFresh[c]
    <3>1. sts' = sts /\ stsFresh' = stsFresh /\ pc'[c] = "idle"
      BY <1>1, <1>8, <2>4, Zenon DEF CreateOrUpdate, Goto
    <3>2. Pending(c)' = 0 /\ Ahead(c)' = Differ(sts, C)
      BY <2>1, <3>1, Zenon DEF Pending, Ahead, Differ
    <3>3. /\ (stsFresh[c] => stsCache[c] = sts)'
          /\ (pc[c] = "needs" => sts = obj[c].replicas)'
      BY <2>4, <3>1, Zenon
    <3>4. Owed(c)' <= Owed(c)
      <4>1. /\ Owed(c)' = 0 + Differ(sts, C) + Differ(C, K)
            /\ Owed(c) = 0 + (Differ(sts, O) + Differ(O, C)) + Differ(C, K)
        BY <2>2, <3>2, Zenon DEF Owed
      <4> HIDE DEF O, C, K
      <4> QED  BY <1>3, <4>1
    <3> QED  BY <1>2, <2>1, <3>3, <3>4, QuietKeepsBudget, Zenon
  <2> QED  BY <2>3, <2>4, Zenon
<1>9. CASE NeedsReconfiguration(c)
  <2>1. /\ UNCHANGED <<cluster, advances, edits, sts, stsCache, stsFresh, clusterCache, obj>>
        /\ pc[c] = "needs" /\ pc'[c] \in {"reconfigure", "ready"}
        /\ pc'[c] = "reconfigure" => Differ(stsCache[c], O) = 1
    BY <1>1, <1>9, Zenon DEF NeedsReconfiguration, Goto, server, caches, counts, Differ
  <2>2. /\ Pending(c)' = IF pc'[c] = "reconfigure" THEN 1 ELSE 0
        /\ Pending(c) = Differ(stsCache[c], O)
        /\ Ahead(c)' = Differ(sts, C) /\ Ahead(c) = Differ(sts, C)
        /\ Differ(clusterCache[c].replicas, cluster.replicas)' = Differ(C, K)
    BY <2>1, Zenon DEF Pending, Ahead, Differ
  <2>3. (stsFresh[c] => stsCache[c] = sts)' /\ (pc[c] = "needs" => sts = obj[c].replicas)'
    BY <2>1, Zenon DEF Budget
  <2>4. Pending(c)' <= Pending(c)
    BY <1>3, <2>1, <2>2
  <2>5. Owed(c)' <= Owed(c)
    <3>1. /\ Owed(c)' = Pending(c)' + Differ(sts, C) + Differ(C, K)
          /\ Owed(c) = Pending(c) + Differ(sts, C) + Differ(C, K)
      BY <2>2, Zenon DEF Owed
    <3> HIDE DEF O, C, K
    <3> QED  BY <1>3, <2>4, <3>1, OwedType
  <2> QED  BY <1>2, <2>1, <2>3, <2>5, QuietKeepsBudget, Zenon
<1>10. ASSUME pc[c] \in {"reconfigure", "ready", "service", "sts", "needs"}, pc'[c] = "idle",
              UNCHANGED <<cluster, advances, edits, sts, stsCache, stsFresh, clusterCache>>
       PROVE  Budget(c)'
  <2>1. /\ Pending(c)' = 0 /\ Pending(c) \in 0 .. 1
        /\ Ahead(c)' = Differ(sts, C)
        /\ Ahead(c) \in {Differ(sts, O) + Differ(O, C), Differ(sts, C)}
        /\ Differ(clusterCache[c].replicas, cluster.replicas)' = Differ(C, K)
    BY <1>10 DEF Pending, Ahead, Differ
  <2>2. (stsFresh[c] => stsCache[c] = sts)' /\ (pc[c] = "needs" => sts = obj[c].replicas)'
    BY <1>10, Zenon DEF Budget
  <2>3. /\ Owed(c)' = 0 + Differ(sts, C) + Differ(C, K)
        /\ Owed(c) = Pending(c) + Ahead(c) + Differ(C, K)
    BY <2>1, Zenon DEF Owed
  <2>4. Owed(c)' <= Owed(c)
    <3> HIDE DEF O, C, K
    <3>1. Differ(sts, C) <= Ahead(c)
      BY <1>3, <2>1
    <3> QED  BY <1>3, <2>3, <3>1, OwedType
  <2> QED  BY <1>2, <1>10, <2>2, <2>4, QuietKeepsBudget, Zenon
<1>11. CASE Reconfigure(c)
  <2>1. CASE obj[c].last > cooled
    BY <1>1, <1>2, <1>10, <1>11, <2>1 DEF Reconfigure, Goto, server, caches, counts,
         StatusUpdate, TypeOK, RaftCluster
  <2>2. CASE ~ (obj[c].last > cooled)
    <3> DEFINE s == Reconfigured(obj[c])
    <3>1. StatusUpdate(c, s, "idle", "degraded") /\ pc[c] = "reconfigure"
      BY <1>11, <2>2, Zenon DEF Reconfigure
    <3>2. s \in RaftCluster /\ s.replicas = O
      BY <1>1, ReconfiguredType, ReplicasKept, Zenon
    <3>3. objFresh[c] => cluster.replicas = O
      BY <1>4, <3>1, Zenon DEF ObjOK, Holding
    <3>4. Pending(c) = 1
      BY <3>1, Zenon DEF Pending
    <3> HIDE DEF s
    <3> QED  BY <1>2, <3>1, <3>2, <3>3, <3>4, UpdateKeepsBudget, Zenon
  <2> QED  BY <2>1, <2>2, Zenon
<1>12. CASE MarkDegraded(c)
  <2> DEFINE s == [obj[c] EXCEPT !.phase = "Degraded"]
  <2>1. StatusUpdate(c, s, "idle", "idle") /\ pc[c] = "degraded"
    BY <1>12, Zenon DEF MarkDegraded
  <2>2. s \in RaftCluster /\ s.replicas = O
    BY <1>1, Ranges, Zenon DEF RaftCluster
  <2>3. objFresh[c] => cluster.replicas = O
    BY <1>1, <1>4, <2>1, ReplicasKept, Zenon DEF ObjOK
  <2>4. objFresh[c] => Pending(c) = 1
    BY <2>1, Zenon DEF Pending
  <2> HIDE DEF s
  <2> QED  BY <1>2, <2>1, <2>2, <2>3, <2>4, UpdateKeepsBudget, Zenon
<1>13. CASE MarkReady(c)
  <2>1. CASE obj[c].phase = "Ready"
    BY <1>1, <1>10, <1>13, <2>1, Zenon DEF MarkReady, Goto, server, caches, counts
  <2>2. CASE obj[c].phase # "Ready"
    <3> DEFINE s == [obj[c] EXCEPT !.phase = "Ready", !.step = Unset]
    <3>1. StatusUpdate(c, s, "idle", "idle") /\ pc[c] = "ready"
      BY <1>13, <2>2, Zenon DEF MarkReady
    <3>2. /\ s \in RaftCluster /\ s.replicas = O /\ s.index = obj[c].index
          /\ s.last = obj[c].last /\ s.step = Unset
      BY <1>1, Ranges, Zenon DEF RaftCluster
    <3>3. ASSUME objFresh[c]  PROVE cluster.replicas = O /\ ~ Advances(s)
      <4>1. obj[c] = cluster
        BY <1>4, <3>1, <3>3, Zenon DEF ObjOK, Holding
      <4> HIDE DEF s
      <4> QED  BY <3>2, <4>1, Zenon DEF Advances
    <3> HIDE DEF s
    <3> QED  BY <1>2, <3>1, <3>2, <3>3, UpdateKeepsBudget, Zenon
  <2> QED  BY <2>1, <2>2, Zenon
<1>14. CASE RequestFails(c)
  BY <1>1, <1>10, <1>14, Zenon DEF RequestFails, Goto, server, caches
<1> QED  BY <1>5, <1>6, <1>7, <1>8, <1>9, <1>11, <1>12, <1>13, <1>14, Zenon DEF Reconcile

\* Edits add to the budget what they add to the changes ahead; a cache that catches up
\* takes the direct way.
LEMMA OthersKeepBudget ==
  ASSUME StatusInv, NEW c \in Controllers, Budget(c),
         Edit \/ CooldownEnds \/ Restart(c) \/ RefreshCluster(c) \/ RefreshSts(c)
  PROVE  Budget(c)'
<1> DEFINE O == obj[c].replicas  C == clusterCache[c].replicas  K == cluster.replicas
<1>1. /\ O # 0 /\ C # 0 /\ K # 0 /\ advances \in Nat /\ edits \in Nat
      /\ pc \in [Controllers -> {"idle", "init", "service", "sts", "needs",
                                 "reconfigure", "degraded", "ready"}]
  BY Replicas, Zenon DEF StatusInv
<1>2. TypeOK
  BY Zenon DEF StatusInv
<1>3. /\ Differ(sts, K) <= Differ(sts, C) + Differ(C, K)
      /\ Differ(sts, C) <= Differ(sts, O) + Differ(O, C)
      /\ Differ(O, K) <= Differ(O, C) + Differ(C, K)
      /\ Differ(sts, K) \in 0 .. 1 /\ Differ(O, K) \in 0 .. 1 /\ Differ(K, K) = 0
      /\ Differ(sts, O) \in 0 .. 1 /\ Differ(O, C) \in 0 .. 1 /\ Differ(sts, C) \in 0 .. 1
      /\ Differ(C, K) \in 0 .. 1 /\ Differ(stsCache[c], O) \in 0 .. 1
  BY <1>1, Detour DEF Differ
<1>4. /\ Pending(c) \in 0 .. 1
      /\ Ahead(c) = IF pc[c] \in {"init", "service", "sts"}
                    THEN Differ(sts, O) + Differ(O, C) ELSE Differ(sts, C)
  BY DEF Pending, Ahead, Differ
<1>5. CASE Edit
  <2>1. /\ UNCHANGED <<advances, sts, stsCache, stsFresh, clusterCache, obj, pc>>
        /\ edits' = edits + 1 /\ (objFresh'[c] => objFresh[c])
    BY <1>5, Zenon DEF Edit, StoreCluster
  <2>2. Ahead(c)' = Ahead(c)
    BY <2>1, Zenon DEF Ahead, Differ
  <2>3. Differ(clusterCache[c].replicas, cluster.replicas)' \in 0 .. 1
    BY DEF Differ
  <2>4. Pending(c)' <= Pending(c)
    <3>1. CASE pc[c] = "needs"
      <4>1. Pending(c)' = Pending(c)
        BY <2>1, <3>1, Zenon DEF Pending, Differ
      <4> QED  BY <4>1, OwedType
    <3>2. CASE pc[c] # "needs"
      BY <2>1, <3>2 DEF Pending
    <3> QED  BY <3>1, <3>2, Zenon
  <2>5. Owed(c)' <= Owed(c) + 1
    <3>1. /\ Owed(c)' = Pending(c)' + Ahead(c)
                        + Differ(clusterCache[c].replicas, cluster.replicas)'
          /\ Owed(c) = Pending(c) + Ahead(c) + Differ(C, K)
      BY <2>2, Zenon DEF Owed
    <3> HIDE DEF O, C, K
    <3> QED  BY <1>3, <2>3, <2>4, <3>1, OwedType
  <2>6. advances + Owed(c) <= edits
    BY Zenon DEF Budget
  <2>7. advances' + Owed(c)' <= edits'
    BY <1>1, <2>1, <2>5, <2>6, OwedType
  <2> QED  BY <2>1, <2>7, Zenon DEF Budget
<1>6. CASE CooldownEnds
  <2>1. UNCHANGED <<cluster, advances, edits, sts, stsCache, stsFresh, clusterCache, obj,
                    objFresh, pc>>
    BY <1>6, Zenon DEF CooldownEnds, caches, local, counts
  <2>2. Owed(c)' = Owed(c)
    BY <2>1, Zenon DEF Owed, Pending, Ahead, Differ
  <2> QED  BY <2>1, <2>2, Zenon DEF Budget
<1>7. CASE Restart(c)
  <2>1. /\ UNCHANGED <<cluster, advances, edits, sts>> /\ pc'[c] = "idle"
        /\ stsCache'[c] = sts /\ clusterCache'[c] = cluster
    BY <1>1, <1>2, <1>7, Zenon DEF Restart, Goto, server, TypeOK
  <2>2. /\ Pending(c)' = 0 /\ Ahead(c)' = Differ(sts, K)
        /\ Differ(clusterCache[c].replicas, cluster.replicas)' = Differ(K, K)
    BY <2>1, Zenon DEF Pending, Ahead, Differ
  <2>3. (stsFresh[c] => stsCache[c] = sts)' /\ (pc[c] = "needs" => sts = obj[c].replicas)'
    BY <2>1, Zenon
  <2>4. Owed(c)' <= Owed(c)
    <3>1. /\ Owed(c)' = 0 + Differ(sts, K) + Differ(K, K)
          /\ Owed(c) = Pending(c) + Ahead(c) + Differ(C, K)
      BY <2>2, Zenon DEF Owed
    <3> HIDE DEF O, C, K
    <3>2. Differ(sts, K) <= Ahead(c) + Differ(C, K)
      BY <1>3, <1>4
    <3> QED  BY <1>3, <3>1, <3>2, OwedType
  <2> QED  BY <1>2, <2>1, <2>3, <2>4, QuietKeepsBudget, Zenon
<1>8. CASE RefreshCluster(c)
  <2>1. /\ UNCHANGED <<cluster, advances, edits, sts, stsCache, stsFresh, obj, objFresh, pc>>
        /\ clusterCache'[c] = cluster
    BY <1>2, <1>8, Zenon DEF RefreshCluster, server, local, counts, TypeOK
  <2>2. /\ Pending(c)' = Pending(c)
        /\ Ahead(c)' = IF pc[c] \in {"init", "service", "sts"}
                       THEN Differ(sts, O) + Differ(O, K) ELSE Differ(sts, K)
        /\ Differ(clusterCache[c].replicas, cluster.replicas)' = Differ(K, K)
    BY <2>1, Zenon DEF Pending, Ahead, Differ
  <2>3. (stsFresh[c] => stsCache[c] = sts)' /\ (pc[c] = "needs" => sts = obj[c].replicas)'
    BY <2>1, Zenon DEF Budget
  <2>4. Owed(c)' <= Owed(c)
    <3>1. /\ Owed(c)' = Pending(c) + Ahead(c)' + Differ(K, K)
          /\ Owed(c) = Pending(c) + Ahead(c) + Differ(C, K)
      BY <2>2, Zenon DEF Owed
    <3> HIDE DEF O, C, K
    <3>2. CASE pc[c] \in {"init", "service", "sts"}
      <4>1. Ahead(c)' = Differ(sts, O) + Differ(O, K) /\ Ahead(c) = Differ(sts, O) + Differ(O, C)
        BY <1>4, <2>2, <3>2, Zenon
      <4> QED  BY <1>3, <1>4, <3>1, <4>1
    <3>3. CASE pc[c] \notin {"init", "service", "sts"}
      <4>1. Ahead(c)' = Differ(sts, K) /\ Ahead(c) = Differ(sts, C)
        BY <1>4, <2>2, <3>3, Zenon
      <4> QED  BY <1>3, <1>4, <3>1, <4>1
    <3> QED  BY <3>2, <3>3, Zenon
  <2> QED  BY <1>2, <2>1, <2>3, <2>4, QuietKeepsBudget, Zenon
<1>9. CASE RefreshSts(c)
  <2>1. /\ UNCHANGED <<cluster, advances, edits, sts, clusterCache, obj, objFresh, pc>>
        /\ stsCache'[c] = sts
    BY <1>2, <1>9, Zenon DEF RefreshSts, server, local, counts, TypeOK
  <2>2. (stsFresh[c] => stsCache[c] = sts)' /\ (pc[c] = "needs" => sts = obj[c].replicas)'
    BY <2>1, Zenon DEF Budget
  <2>3. /\ Ahead(c)' = Ahead(c)
        /\ Differ(clusterCache[c].replicas, cluster.replicas)' = Differ(C, K)
    BY <2>1, Zenon DEF Ahead, Differ
  <2>4. Pending(c)' <= Pending(c)
    <3>1. CASE pc[c] = "needs"
      <4>1. Pending(c)' = Differ(sts, O) /\ sts = O
        BY <2>1, <3>1, Zenon DEF Pending, Budget, Differ
      <4>2. Pending(c)' = 0
        BY <4>1, Zenon DEF Differ
      <4> QED  BY <4>2, OwedType
    <3>2. CASE pc[c] # "needs"
      <4>1. Pending(c)' = Pending(c)
        BY <2>1, <3>2, Zenon DEF Pending
      <4> QED  BY <4>1, OwedType
    <3> QED  BY <3>1, <3>2, Zenon
  <2>5. Owed(c)' <= Owed(c)
    <3>1. /\ Owed(c)' = Pending(c)' + Ahead(c) + Differ(C, K)
          /\ Owed(c) = Pending(c) + Ahead(c) + Differ(C, K)
      BY <2>3, Zenon DEF Owed
    <3> HIDE DEF O, C, K
    <3> QED  BY <1>3, <2>4, <3>1, OwedType
  <2> QED  BY <1>2, <2>1, <2>2, <2>5, QuietKeepsBudget, Zenon
<1> QED  BY <1>5, <1>6, <1>7, <1>8, <1>9, Zenon

\* A completed reconfiguration is one of the advances.
Counted == cluster.last <= advances

\* It stays so: LastReconfigAt is set by nothing but a counted step of the workflow.
LEMMA CountedNext ==
  ASSUME StatusInv, Counted, [Next]_vars
  PROVE  Counted'
<1>1. cluster.last \in Nat /\ advances \in Nat
  BY Zenon DEF StatusInv, TypeOK, RaftCluster
<1>2. CASE UNCHANGED <<cluster, advances>>
  BY <1>2, Zenon DEF Counted
<1>3. ASSUME NEW c \in Controllers, Reconcile(c)  PROVE Counted'
  <2>1. Stores(c)
    BY <1>3, ReconcileStores, Zenon
  <2>2. ASSUME CountAdvance(cluster')
        PROVE  /\ advances' = advances \/ advances' = advances + 1
               /\ cluster'.last # cluster.last => advances' = advances + 1
    BY <2>2, Zenon DEF CountAdvance
  <2> QED  BY <1>1, <1>2, <2>1, <2>2 DEF Stores, Counted
<1>4. CASE Edit
  <2>1. PICK n \in Sizes, m \in EditModes :
          cluster' = [cluster EXCEPT !.replicas = n, !.mode = m]
    BY <1>4, Zenon DEF Edit, StoreCluster
  <2>2. cluster'.last = cluster.last
    BY <2>1, Zenon DEF StatusInv, TypeOK, RaftCluster
  <2>3. advances' = advances
    BY <1>4, Zenon DEF Edit
  <2> QED  BY <2>2, <2>3, Zenon DEF Counted
<1>5. CASE \/ CooldownEnds
           \/ \E c \in Controllers : Restart(c) \/ RefreshCluster(c) \/ RefreshSts(c)
  BY <1>2, <1>5, Zenon DEF CooldownEnds, Restart, RefreshCluster, RefreshSts, server, counts
<1>6. CASE UNCHANGED vars
  BY <1>2, <1>6, Zenon DEF vars, server, counts
<1> QED  BY <1>3, <1>4, <1>5, <1>6, Zenon DEF Next

\* When one controller runs, as with leader election, it completes at most one
\* reconfiguration for every change of the spec, whatever its caches miss and however
\* its requests fail: needsReconfiguration sees the old replicas once for each change
\* of the StatefulSet, and the cached spec never goes back.
THEOREM ReconfigurationsArePaidFor ==
  ASSUME NEW CONSTANT c, Controllers = {c}
  PROVE  Spec => []ReconfigurationsFollowEdits
<1>1. Init => Budget(c)
  <2> SUFFICES ASSUME Init  PROVE Budget(c)
    BY Zenon
  <2>1. /\ sts = 0 /\ stsCache[c] = 0 /\ pc[c] = "idle" /\ clusterCache[c] = cluster
        /\ edits = 0 /\ advances = 0
    BY Zenon DEF Init
  <2> QED  BY <2>1 DEF Budget, Owed, Pending, Ahead, Differ
<1>2. StatusInv /\ Budget(c) /\ [Next]_vars => Budget(c)'
  <2> SUFFICES ASSUME StatusInv, Budget(c), [Next]_vars  PROVE Budget(c)'
    BY Zenon
  <2>1. CASE Next
    <3>1. \/ Edit \/ CooldownEnds \/ Reconcile(c) \/ Restart(c) \/ RefreshCluster(c)
          \/ RefreshSts(c)
      BY <2>1, Zenon DEF Next
    <3>2. CASE Reconcile(c)
      BY <3>2, ReconcileKeepsBudget, Zenon
    <3>3. CASE Edit \/ CooldownEnds \/ Restart(c) \/ RefreshCluster(c) \/ RefreshSts(c)
      BY <3>3, OthersKeepBudget, Zenon
    <3> QED  BY <3>1, <3>2, <3>3, Zenon
  <2>2. CASE UNCHANGED vars
    <3>1. UNCHANGED <<cluster, advances, edits, sts, stsCache, stsFresh, clusterCache, obj,
                      objFresh, pc>>
      BY <2>2, Zenon DEF vars, server, caches, local, counts
    <3>2. Owed(c)' = Owed(c)
      BY <3>1, Zenon DEF Owed, Pending, Ahead, Differ
    <3> QED  BY <3>1, <3>2, Zenon DEF Budget
  <2> QED  BY <2>1, <2>2, Zenon
<1>3. Init => Counted
  <2> SUFFICES ASSUME Init  PROVE cluster.last = 0 /\ advances = 0
    BY DEF Counted
  <2> QED  BY Zenon DEF Init
<1>4. StatusInv /\ Counted /\ [Next]_vars => Counted'
  BY CountedNext, Zenon
<1>5. StatusInv /\ Budget(c) /\ Counted => ReconfigurationsFollowEdits
  <2> SUFFICES ASSUME TypeOK, Budget(c), Counted  PROVE cluster.last <= edits
    BY Zenon DEF ReconfigurationsFollowEdits, StatusInv
  <2>1. Owed(c) \in Nat /\ advances \in Nat /\ edits \in Nat /\ advances + Owed(c) <= edits
    BY OwedType, Zenon DEF Budget, TypeOK
  <2>2. cluster.last \in Nat /\ cluster.last <= advances
    BY Zenon DEF Counted, TypeOK, RaftCluster
  <2> QED  BY <2>1, <2>2
<1> QED  BY <1>1, <1>2, <1>3, <1>4, <1>5, StatusAlways, PTL DEF Spec

\* From its update of the StatefulSet on, the controller holds the spec that it gave it.
Scaled(c) == pc[c] \in {"needs", "reconfigure", "ready"} => sts = obj[c].replicas

\* Only CreateOrUpdate leads there, and nothing else of the only controller changes
\* the StatefulSet or the copy in hand before it leaves again.
LEMMA ScaledNext ==
  ASSUME NEW c, Controllers = {c}, StatusInv, Scaled(c), [Next]_vars
  PROVE  Scaled(c)'
<1>1. pc \in [Controllers -> {"idle", "init", "service", "sts", "needs", "reconfigure",
                              "degraded", "ready"}]
  BY Zenon DEF StatusInv, TypeOK
<1>2. ASSUME NEW s, NEW ok \in {"service", "idle"}, NEW bad \in {"idle", "degraded"},
             StatusUpdate(c, s, ok, bad)
      PROVE  Scaled(c)'
  <2>1. pc'[c] = ok \/ pc'[c] = bad
    BY <1>1, <1>2, Zenon DEF StatusUpdate, Goto
  <2> QED  BY <2>1, Zenon DEF Scaled
<1>3. CASE UNCHANGED <<pc, sts, obj>>
  BY <1>3, Zenon DEF Scaled
<1>4. CASE pc'[c] \in {"idle", "init", "service", "sts"}
  BY <1>4, Zenon DEF Scaled
<1>5. CASE Reconcile(c)
  <2>1. CASE Fetch(c) \/ EnsureService(c) \/ RequestFails(c)
    BY <1>1, <1>4, <2>1, Zenon DEF Fetch, EnsureService, RequestFails, Goto
  <2>2. CASE InitStatus(c) \/ MarkDegraded(c)
    BY <1>2, <2>2, Zenon DEF InitStatus, MarkDegraded
  <2>3. CASE CreateOrUpdate(c)
    <3>1. pc'[c] = "idle" \/ (sts' = obj[c].replicas /\ obj' = obj)
      BY <1>1, <2>3, Zenon DEF CreateOrUpdate, Goto
    <3> QED  BY <3>1, Zenon DEF Scaled
  <2>4. CASE NeedsReconfiguration(c)
    BY <2>4, Zenon DEF NeedsReconfiguration, server, Scaled
  <2>5. CASE Reconfigure(c)
    BY <1>1, <1>2, <1>4, <2>5, Zenon DEF Reconfigure, Goto
  <2>6. CASE MarkReady(c)
    BY <1>1, <1>2, <1>4, <2>6, Zenon DEF MarkReady, Goto
  <2> QED  BY <1>5, <2>1, <2>2, <2>3, <2>4, <2>5, <2>6, Zenon DEF Reconcile
<1>6. CASE Restart(c)
  BY <1>1, <1>4, <1>6, Zenon DEF Restart, Goto
<1>7. CASE Edit \/ CooldownEnds \/ RefreshCluster(c) \/ RefreshSts(c)
  BY <1>3, <1>7, Zenon DEF Edit, CooldownEnds, RefreshCluster, RefreshSts, server, local
<1>8. CASE UNCHANGED vars
  BY <1>3, <1>8, Zenon DEF vars, server, local
<1> QED  BY <1>5, <1>6, <1>7, <1>8, Zenon DEF Next

\* With one controller the status comes to Ready only while the StatefulSet has the
\* replicas that the spec asks for at that moment: MarkReady and the unsafe modes write
\* Ready from a copy that CreateOrUpdate has carried out, and the server takes it only
\* when it is still the current one.
THEOREM ReadyIsScaled ==
  ASSUME NEW CONSTANT c, Controllers = {c}
  PROVE  Spec => ReadyMeansScaled
<1>1. Init => Scaled(c)
  BY Zenon DEF Init, Scaled
<1>2. StatusInv /\ Scaled(c) /\ [Next]_vars => Scaled(c)'
  BY ScaledNext, Zenon
<1>3. StatusInv /\ Scaled(c) /\ [Next]_vars =>
        [cluster.phase # "Ready" /\ cluster'.phase = "Ready" => sts = cluster.replicas]_vars
  <2> SUFFICES ASSUME StatusInv, Scaled(c), Next,
                      cluster.phase # "Ready", cluster'.phase = "Ready"
               PROVE  sts = cluster.replicas
    BY Zenon
  <2>1. CASE Reconcile(c)
    <3>1. Stores(c)
      BY <2>1, ReconcileStores, Zenon
    <3>2. obj[c] = cluster /\ pc[c] \in {"reconfigure", "ready"}
      BY <3>1, Zenon DEF Stores
    <3> QED  BY <3>2, Zenon DEF Scaled
  <2>2. CASE Edit
    <3>1. PICK n \in Sizes, m \in EditModes :
            cluster' = [cluster EXCEPT !.replicas = n, !.mode = m]
      BY <2>2, Zenon DEF Edit, StoreCluster
    <3>2. cluster'.phase = cluster.phase
      BY <3>1, Zenon DEF StatusInv, TypeOK, RaftCluster
    <3> QED  BY <3>2, Zenon
  <2>3. CASE CooldownEnds \/ Restart(c) \/ RefreshCluster(c) \/ RefreshSts(c)
    BY <2>3, Zenon DEF CooldownEnds, Restart, RefreshCluster, RefreshSts, server
  <2> QED  BY <2>1, <2>2, <2>3, Zenon DEF Next
<1> QED  BY <1>1, <1>2, <1>3, StatusAlways, PTL DEF Spec, ReadyMeansScaled
============================================================================
