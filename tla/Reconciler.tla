------------------------------ MODULE Reconciler ------------------------------
(***************************************************************************)
(* The operator: operator/controllers/raftcluster_controller.go brings the *)
(* StatefulSet of one RaftCluster to the replicas its spec asks for, and   *)
(* walks the cluster's status through the reconfiguration workflow.        *)
(*                                                                         *)
(* The API server is external.  It takes an update only when the object    *)
(* sent is the version it holds (optimistic concurrency), and it may fail  *)
(* a request, before or after carrying it out.  A controller reads both    *)
(* objects from a cache of its own that follows the server with a delay.   *)
(* Versions are not numbered: a copy is fresh or it is not, and a write    *)
(* that changes the object leaves every other copy behind.                 *)
(*                                                                         *)
(* Reconcile is cut at every call of the API.  There may be several        *)
(* controllers: leader election is a flag that cmd/operator/main.go leaves *)
(* off by default (manifests/operator-deployment.yaml sets it).            *)
(***************************************************************************)
EXTENDS Integers

CONSTANTS
  Controllers,  \* operator processes
  Sizes,        \* values of spec.replicas
  Modes,        \* values of spec.safetyMode
  EditModes,    \* bound: the ones a user changes it to
  MaxEdits,     \* bound: changes a user makes to the spec
  MaxFaults,    \* bound: failed requests and crashes of the operator
  MaxAdvances   \* bound: steps of the workflow written to the status

ASSUME ConstantsAssumption ==
  /\ Controllers # {}
  /\ Sizes # {} /\ Sizes \subseteq Nat \ {0}
  /\ Modes # {} /\ Modes \subseteq {"safe", "unsafe-early-vote", "unsafe-no-joint"}
  /\ EditModes \subseteq Modes
  /\ MaxEdits \in Nat /\ MaxFaults \in Nat /\ MaxAdvances \in Nat

VARIABLES
  \* the API server
  cluster,      \* the RaftCluster
  service,      \* the headless Service exists
  sts,          \* the StatefulSet's replicas, 0 when there is none
  cooled,       \* the last reconfiguration whose cooldown is over
  \* each controller
  clusterCache, \* its cached RaftCluster
  clusterFresh, \* that copy is the server's version
  stsCache,     \* its cached StatefulSet
  stsFresh,     \* that copy is the server's version
  pc,           \* where Reconcile stands
  obj,          \* the RaftCluster Reconcile works on
  objFresh,     \* obj is the server's version
  \* history
  edits,        \* changes made to the spec
  faults,       \* failed requests and crashes
  advances      \* steps of the workflow written to the status

server == <<cluster, service, sts, cooled>>
caches == <<clusterCache, clusterFresh, stsCache, stsFresh>>
local == <<pc, obj, objFresh>>
counts == <<edits, faults, advances>>
vars == <<server, caches, local, counts>>

\* The empty string: a field never written, and ReconfigStepNone.
Unset == ""

Phases == {Unset, "Pending", "Ready", "Reconfiguring", "Degraded"}
Steps == {Unset, "AddLearner", "CatchUp", "EnterJoint", "CommitNew", "LeaveJoint"}
JointStates == {Unset, "none", "entering", "committed", "leaving"}

\* The fields of RaftCluster the controller reads or writes.  last numbers the
\* reconfigurations that set LastReconfigAt; 0 is nil.
RaftCluster ==
  [replicas : Sizes, mode : Modes, phase : Phases, joint : JointStates, step : Steps,
   index : Nat, last : Nat]

Goto(c, place) == pc' = [pc EXCEPT ![c] = place]

\* A request fails on the way, or the operator dies.
Fault ==
  /\ faults < MaxFaults
  /\ faults' = faults + 1
----------------------------------------------------------------------------
(* The API server and the caches (external). *)

\* The server stores a new version of the RaftCluster; current holds the copies
\* that are that version.
StoreCluster(new, current) ==
  /\ cluster' = new
  /\ IF new = cluster
     THEN UNCHANGED <<clusterFresh, objFresh>>
     ELSE /\ clusterFresh' = [c \in Controllers |-> FALSE]
          /\ objFresh' = [c \in Controllers |-> c \in current]

\* The steps of the workflow, in order; the last one returns to the first.
WorkflowEdges ==
  {<<Unset, "AddLearner">>, <<"AddLearner", "CatchUp">>, <<"CatchUp", "EnterJoint">>,
   <<"EnterJoint", "CommitNew">>, <<"CommitNew", "LeaveJoint">>, <<"LeaveJoint", Unset>>}

CountAdvance(new) ==
  advances' = IF new.index # cluster.index \/ new.last # cluster.last
                 \/ (new.step # cluster.step /\ new.step # Unset)
              THEN advances + 1 ELSE advances

\* r.Status().Update(ctx, &cluster) with the status of new.  Reconcile goes on at
\* ok when it returns nil and at bad when it returns an error; in every case obj
\* keeps the fields the controller has set.
StatusUpdate(c, new, ok, bad) ==
  /\ obj' = [obj EXCEPT ![c] = new]
  /\ \/ /\ objFresh[c]
        /\ StoreCluster(new, {c})
        /\ CountAdvance(new) /\ Goto(c, ok) /\ UNCHANGED faults
     \/ /\ objFresh[c]          \* carried out, but the answer is lost
        /\ StoreCluster(new, {})
        /\ CountAdvance(new) /\ Goto(c, bad) /\ Fault
     \/ /\ objFresh[c]          \* not carried out
        /\ Goto(c, bad) /\ Fault
        /\ UNCHANGED <<cluster, clusterFresh, objFresh, advances>>
     \/ /\ ~objFresh[c]         \* conflict
        /\ Goto(c, bad)
        /\ UNCHANGED <<cluster, clusterFresh, objFresh, advances, faults>>
  /\ UNCHANGED <<service, sts, cooled, clusterCache, stsCache, stsFresh, edits>>

\* A watch event reaches a cache.
RefreshCluster(c) ==
  /\ ~clusterFresh[c]
  /\ clusterCache' = [clusterCache EXCEPT ![c] = cluster]
  /\ clusterFresh' = [clusterFresh EXCEPT ![c] = TRUE]
  /\ UNCHANGED <<server, stsCache, stsFresh, local, counts>>

RefreshSts(c) ==
  /\ ~stsFresh[c]
  /\ stsCache' = [stsCache EXCEPT ![c] = sts]
  /\ stsFresh' = [stsFresh EXCEPT ![c] = TRUE]
  /\ UNCHANGED <<server, clusterCache, clusterFresh, local, counts>>

\* A user changes spec.replicas or spec.safetyMode.
Edit ==
  /\ edits < MaxEdits
  /\ edits' = edits + 1
  /\ \E n \in Sizes, m \in EditModes :
       /\ n # cluster.replicas \/ m # cluster.mode
       /\ StoreCluster([cluster EXCEPT !.replicas = n, !.mode = m], {})
  /\ UNCHANGED <<service, sts, cooled, clusterCache, stsCache, stsFresh, pc, obj, faults,
                 advances>>

\* The cooldown after the last reconfiguration ends.
CooldownEnds ==
  /\ cooled < cluster.last
  /\ cooled' = cluster.last
  /\ UNCHANGED <<cluster, service, sts, caches, local, counts>>
----------------------------------------------------------------------------
(* Reconcile. *)

\* r.Get(ctx, req.NamespacedName, &cluster), from the cache.
Fetch(c) ==
  /\ pc[c] = "idle"
  /\ obj' = [obj EXCEPT ![c] = clusterCache[c]]
  /\ objFresh' = [objFresh EXCEPT ![c] = clusterFresh[c]]
  /\ Goto(c, IF clusterCache[c].phase = Unset THEN "init" ELSE "service")
  /\ UNCHANGED <<server, caches, counts>>

\* The status of a new cluster.
InitStatus(c) ==
  /\ pc[c] = "init"
  /\ StatusUpdate(c, [obj[c] EXCEPT !.phase = "Pending", !.joint = "none", !.index = 0],
                  "service", "idle")

\* reconcileService
EnsureService(c) ==
  /\ pc[c] = "service"
  /\ service' = TRUE
  /\ Goto(c, "sts")
  /\ UNCHANGED <<cluster, sts, cooled, caches, obj, objFresh, counts>>

\* Mutant: a stale copy of the StatefulSet is written all the same.
CreateOrUpdateForced(c) ==
  /\ pc[c] = "sts"
  /\ sts' = obj[c].replicas
  /\ stsFresh' = IF sts' = sts THEN stsFresh ELSE [d \in Controllers |-> FALSE]
  /\ Goto(c, "needs")
  /\ UNCHANGED <<cluster, service, cooled, clusterCache, clusterFresh, stsCache, obj,
                 objFresh, counts>>

\* Mutant: a conflict is taken for success.
CreateOrUpdateIgnoresConflict(c) ==
  /\ pc[c] = "sts"
  /\ IF stsFresh[c]
     THEN /\ sts' = obj[c].replicas
          /\ stsFresh' = IF sts' = sts THEN stsFresh ELSE [d \in Controllers |-> FALSE]
     ELSE UNCHANGED <<sts, stsFresh>>
  /\ Goto(c, "needs")
  /\ UNCHANGED <<cluster, service, cooled, clusterCache, clusterFresh, stsCache, obj,
                 objFresh, counts>>

\* reconcileStatefulSet: CreateOrUpdate reads the StatefulSet from the cache and
\* creates it, or sends it back with the spec's replicas.  A copy that is behind
\* is refused.
CreateOrUpdate(c) ==
  /\ pc[c] = "sts"
  /\ \/ /\ stsFresh[c]
        /\ sts' = obj[c].replicas
        /\ stsFresh' = IF sts' = sts THEN stsFresh ELSE [d \in Controllers |-> FALSE]
        /\ Goto(c, "needs")
     \/ /\ ~stsFresh[c]
        /\ Goto(c, "idle")
        /\ UNCHANGED <<sts, stsFresh>>
  /\ UNCHANGED <<cluster, service, cooled, clusterCache, clusterFresh, stsCache, obj,
                 objFresh, counts>>

\* needsReconfiguration, from the cache again: FALSE when it has no StatefulSet.
NeedsReconfiguration(c) ==
  /\ pc[c] = "needs"
  /\ Goto(c, IF stsCache[c] # 0 /\ stsCache[c] # obj[c].replicas
             THEN "reconfigure" ELSE "ready")
  /\ UNCHANGED <<server, caches, obj, objFresh, counts>>

\* Mutant: the first step leaves the joint state of an earlier workflow.
SafeKeepsJoint(s) ==
  CASE s.step = Unset        -> [s EXCEPT !.step = "AddLearner"]
    [] s.step = "AddLearner" -> [s EXCEPT !.step = "CatchUp"]
    [] s.step = "CatchUp"    -> [s EXCEPT !.step = "EnterJoint", !.joint = "entering"]
    [] s.step = "EnterJoint" -> [s EXCEPT !.step = "CommitNew", !.joint = "committed",
                                          !.index = @ + 1]
    [] s.step = "CommitNew"  -> [s EXCEPT !.step = "LeaveJoint", !.joint = "leaving"]
    [] s.step = "LeaveJoint" -> [s EXCEPT !.step = Unset, !.joint = "none",
                                          !.phase = "Ready", !.last = @ + 1]

\* Mutant: the new configuration is counted when the joint one is entered.
SafeCountsEarly(s) ==
  CASE s.step = Unset        -> [s EXCEPT !.step = "AddLearner", !.joint = "none"]
    [] s.step = "AddLearner" -> [s EXCEPT !.step = "CatchUp"]
    [] s.step = "CatchUp"    -> [s EXCEPT !.step = "EnterJoint", !.joint = "entering",
                                          !.index = @ + 1]
    [] s.step = "EnterJoint" -> [s EXCEPT !.step = "CommitNew", !.joint = "committed"]
    [] s.step = "CommitNew"  -> [s EXCEPT !.step = "LeaveJoint", !.joint = "leaving"]
    [] s.step = "LeaveJoint" -> [s EXCEPT !.step = Unset, !.joint = "none",
                                          !.phase = "Ready", !.last = @ + 1]

\* reconfigureSafe.  Its default case, for a step no code writes, is left out.
Safe(s) ==
  CASE s.step = Unset        -> [s EXCEPT !.step = "AddLearner", !.joint = "none"]
    [] s.step = "AddLearner" -> [s EXCEPT !.step = "CatchUp"]
    [] s.step = "CatchUp"    -> [s EXCEPT !.step = "EnterJoint", !.joint = "entering"]
    [] s.step = "EnterJoint" -> [s EXCEPT !.step = "CommitNew", !.joint = "committed",
                                          !.index = @ + 1]
    [] s.step = "CommitNew"  -> [s EXCEPT !.step = "LeaveJoint", !.joint = "leaving"]
    [] s.step = "LeaveJoint" -> [s EXCEPT !.step = Unset, !.joint = "none",
                                          !.phase = "Ready", !.last = @ + 1]

\* reconfigureUnsafeEarlyVote
UnsafeEarlyVote(s) == [s EXCEPT !.phase = "Ready", !.step = Unset, !.last = @ + 1]

\* reconfigureUnsafeNoJoint
UnsafeNoJoint(s) ==
  [s EXCEPT !.phase = "Ready", !.step = Unset, !.joint = "none", !.last = @ + 1]

\* The status reconcileReconfiguration writes, by safety mode.
Reconfigured(s) ==
  LET t == [s EXCEPT !.phase = "Reconfiguring"]
  IN  CASE s.mode = "safe"              -> Safe(t)
        [] s.mode = "unsafe-early-vote" -> UnsafeEarlyVote(t)
        [] s.mode = "unsafe-no-joint"   -> UnsafeNoJoint(t)

\* Mutant: the cooldown is not looked at.
ReconfigureAtOnce(c) ==
  /\ pc[c] = "reconfigure"
  /\ advances < MaxAdvances
  /\ StatusUpdate(c, Reconfigured(obj[c]), "idle", "degraded")

\* reconcileReconfiguration: nothing happens before the cooldown is over.
Reconfigure(c) ==
  /\ pc[c] = "reconfigure"
  /\ \/ /\ obj[c].last > cooled
        /\ Goto(c, "idle")
        /\ UNCHANGED <<server, caches, obj, objFresh, counts>>
     \/ /\ obj[c].last <= cooled
        /\ advances < MaxAdvances
        /\ StatusUpdate(c, Reconfigured(obj[c]), "idle", "degraded")

\* Mutant: the error path takes the step once more.
MarkDegradedRetries(c) ==
  /\ pc[c] = "degraded"
  /\ StatusUpdate(c, [Reconfigured(obj[c]) EXCEPT !.phase = "Degraded"], "idle", "idle")

\* The error path of Reconcile: the result of the second update is not looked at.
MarkDegraded(c) ==
  /\ pc[c] = "degraded"
  /\ StatusUpdate(c, [obj[c] EXCEPT !.phase = "Degraded"], "idle", "idle")

\* Mutant: the empty step is written as a name.
MarkReadyNamed(c) ==
  /\ pc[c] = "ready"
  /\ StatusUpdate(c, [obj[c] EXCEPT !.phase = "Ready", !.step = "None"], "idle", "idle")

\* Mutant: only a pending cluster becomes Ready.
MarkReadyOnce(c) ==
  /\ pc[c] = "ready"
  /\ \/ /\ obj[c].phase # "Pending"
        /\ Goto(c, "idle")
        /\ UNCHANGED <<server, caches, obj, objFresh, counts>>
     \/ /\ obj[c].phase = "Pending"
        /\ StatusUpdate(c, [obj[c] EXCEPT !.phase = "Ready", !.step = Unset], "idle", "idle")

\* The end of Reconcile when the replicas agree.
MarkReady(c) ==
  /\ pc[c] = "ready"
  /\ \/ /\ obj[c].phase = "Ready"
        /\ Goto(c, "idle")
        /\ UNCHANGED <<server, caches, obj, objFresh, counts>>
     \/ /\ obj[c].phase # "Ready"
        /\ StatusUpdate(c, [obj[c] EXCEPT !.phase = "Ready", !.step = Unset], "idle", "idle")

\* A request of reconcileService, reconcileStatefulSet or needsReconfiguration
\* fails: Reconcile returns the error and is called again.
RequestFails(c) ==
  /\ pc[c] \in {"service", "sts", "needs"}
  /\ Fault
  /\ Goto(c, "idle")
  /\ UNCHANGED <<server, caches, obj, objFresh, edits, advances>>

\* The operator's process is replaced; its caches are read anew.
Restart(c) ==
  /\ Fault
  /\ Goto(c, "idle")
  /\ clusterCache' = [clusterCache EXCEPT ![c] = cluster]
  /\ clusterFresh' = [clusterFresh EXCEPT ![c] = TRUE]
  /\ stsCache' = [stsCache EXCEPT ![c] = sts]
  /\ stsFresh' = [stsFresh EXCEPT ![c] = TRUE]
  /\ UNCHANGED <<server, obj, objFresh, edits, advances>>
----------------------------------------------------------------------------
\* A RaftCluster has been created; nothing has been reconciled.
Init ==
  /\ cluster \in [replicas : Sizes, mode : Modes, phase : {Unset}, joint : {Unset},
                  step : {Unset}, index : {0}, last : {0}]
  /\ service = FALSE /\ sts = 0 /\ cooled = 0
  /\ clusterCache = [c \in Controllers |-> cluster]
  /\ clusterFresh = [c \in Controllers |-> TRUE]
  /\ stsCache = [c \in Controllers |-> 0]
  /\ stsFresh = [c \in Controllers |-> TRUE]
  /\ pc = [c \in Controllers |-> "idle"]
  /\ obj = [c \in Controllers |-> cluster]
  /\ objFresh = [c \in Controllers |-> TRUE]
  /\ edits = 0 /\ faults = 0 /\ advances = 0

Reconcile(c) ==
  \/ Fetch(c) \/ InitStatus(c) \/ EnsureService(c) \/ CreateOrUpdate(c)
  \/ NeedsReconfiguration(c) \/ Reconfigure(c) \/ MarkDegraded(c) \/ MarkReady(c)
  \/ RequestFails(c)

Next ==
  \/ Edit
  \/ CooldownEnds
  \/ \E c \in Controllers :
       Reconcile(c) \/ Restart(c) \/ RefreshCluster(c) \/ RefreshSts(c)

Spec == Init /\ [][Next]_vars

\* Reconcile runs again after every event, error and requeue interval, and the
\* watches of the caches deliver.
FairSpec ==
  /\ Spec
  /\ \A c \in Controllers :
       WF_vars(Reconcile(c)) /\ WF_vars(RefreshCluster(c)) /\ WF_vars(RefreshSts(c))
  /\ WF_vars(CooldownEnds)
----------------------------------------------------------------------------
(* Properties. *)

\* Every variable holds a value of its kind: the enumerations of RaftClusterSpec and
\* RaftClusterStatus, and the places where Reconcile calls the API.
TypeOK ==
  /\ cluster \in RaftCluster
  /\ service \in BOOLEAN /\ sts \in Sizes \cup {0} /\ cooled \in Nat
  /\ clusterCache \in [Controllers -> RaftCluster]
  /\ clusterFresh \in [Controllers -> BOOLEAN]
  /\ stsCache \in [Controllers -> Sizes \cup {0}] /\ stsFresh \in [Controllers -> BOOLEAN]
  /\ pc \in [Controllers -> {"idle", "init", "service", "sts", "needs", "reconfigure",
                             "degraded", "ready"}]
  /\ obj \in [Controllers -> RaftCluster] /\ objFresh \in [Controllers -> BOOLEAN]
  /\ edits \in Nat /\ faults \in Nat /\ advances \in Nat

\* The joint state the status reports belongs to the step it reports, also when an
\* earlier workflow was cut short, its answer was lost or the phase is Degraded.
JointFollowsStep ==
  /\ cluster.step \in {"AddLearner", "CatchUp"} => cluster.joint = "none"
  /\ cluster.step = "EnterJoint" => cluster.joint = "entering"
  /\ cluster.step = "CommitNew" => cluster.joint = "committed"
  /\ cluster.step = "LeaveJoint" => cluster.joint = "leaving"

\* Whatever stale copies, conflicts, lost answers and concurrent controllers do, the
\* step stored in the status moves to the next one of the workflow or is given up: no
\* step is skipped, repeated or taken back to an earlier one.
WorkflowInOrder ==
  [][cluster'.step # cluster.step =>
       cluster'.step = Unset \/ <<cluster.step, cluster'.step>> \in WorkflowEdges]_vars

\* ConfigurationIndex is the "monotonically increasing configuration index"
\* (raftcluster_types.go:83): it grows by one, exactly when EnterJoint becomes
\* CommitNew, and a retry does not count the step twice.
IndexCountsCommits ==
  [][cluster'.index = cluster.index +
       (IF cluster.step = "EnterJoint" /\ cluster'.step = "CommitNew" THEN 1 ELSE 0)]_vars

\* No step of a reconfiguration is stored before the cooldown of the last one is
\* over, however old the copy the controller decided on.  (The StatefulSet is scaled
\* before the cooldown is looked at: only the status waits for it.)
CooldownRespected == [][advances' # advances => cluster.last <= cooled]_vars

\* No more reconfigurations are completed than changes were made to the spec.  After
\* its own update of the StatefulSet a controller still reads the old replicas from
\* its cache (needsReconfiguration), and could take the same change for a new one;
\* but the next CreateOrUpdate from that copy is refused.
ReconfigurationsFollowEdits == cluster.last <= edits

\* The status comes to Ready only while the StatefulSet has the replicas the spec asks
\* for, also when the controller decided on stale copies, when requests failed, and
\* when the spec was changed in the middle of the Reconcile that reports it.
ReadyMeansScaled ==
  [][cluster.phase # "Ready" /\ cluster'.phase = "Ready" => sts = cluster.replicas]_vars

\* Once the spec rests, the StatefulSet gets its replicas and the status comes to
\* Ready with no step pending, through all conflicts, errors and restarts.
Converges ==
  <>[](sts = cluster.replicas /\ cluster.phase = "Ready" /\ cluster.step = Unset)

\* README.md:33, "Implements full Joint Consensus with 6-step workflow": a change of
\* the replicas is followed by a walk through the workflow to its last step.
ScaleWalksWorkflow == sts \notin {0, cluster.replicas} ~> cluster.step = "LeaveJoint"
============================================================================
