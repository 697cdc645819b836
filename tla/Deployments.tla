----------------------------- MODULE Deployments -----------------------------
(***************************************************************************)
(* A deployment, its instances and their Helm releases (src/pkg/instance,  *)
(* src/pkg/deployment), and the inspector that destroys it when its time   *)
(* to live is over (src/pkg/inspector).                                    *)
(*                                                                         *)
(* A request handles one operation.  One action is one SQL statement or    *)
(* transaction, or one helmfile or Kubernetes call; a check of values that *)
(* were just read belongs to the read.  Deployments share nothing but the  *)
(* cluster, where names tell their releases apart, so one stands for all.  *)
(* An instance is named by its stack: (name, group, stack) is unique.      *)
(***************************************************************************)
EXTENDS Naturals, FiniteSets

CONSTANTS
  Stack,
  Variant,     \* values of the parameter that may require a companion stack
  Requires,    \* [Stack -> SUBSET Stack]
  Companion,   \* [Stack \X Variant -> SUBSET Stack]
  Default,     \* [Stack -> Variant]
  Erases,      \* [Stack -> SUBSET Stack]: whose volumes its destruction deletes
  Original,    \* the id of the instances deployed initially
  Preset,      \* [subset of Stack -> Variant]: these instances
  Request,
  Op,          \* [Request -> Operation]: what a request does,
  On,          \* [Request -> Stack]: to the instance of which stack,
  With,        \* [Request -> Variant or None]: with which parameter, if any,
  NewTTL,      \* [Request -> Nat]: and with which time to live
  InitialTTL,
  MaxTime,     \* bound of the clock
  MaxActive,   \* how many requests and inspections run at once
  MaxFaults,   \* how many calls fail in a run
  Faults,      \* the kinds of calls that may fail
  Inspector, None

Operation == {"saveInstance", "deploy", "deleteInstance", "deleteDeployment",
              "updateDeployment", "reset", "updateInstance"}
FaultKind == {"sync", "busy", "destroy", "volume", "forget", "crash"}
Actor     == Request \cup {Inspector}
Id        == Request \cup {Original}

ASSUME DeploymentsAssumption ==
  /\ Requires \in [Stack -> SUBSET Stack]
  /\ Companion \in [Stack \X Variant -> SUBSET Stack]
  /\ Default \in [Stack -> Variant]
  /\ Erases \in [Stack -> SUBSET Stack]
  /\ DOMAIN Preset \subseteq Stack
  /\ Preset \in [DOMAIN Preset -> Variant]
  /\ Op \in [Request -> Operation]
  /\ On \in [Request -> Stack]
  /\ With \in [Request -> Variant \cup {None}]
  /\ NewTTL \in [Request -> Nat]
  /\ InitialTTL \in Nat /\ MaxTime \in Nat /\ MaxActive \in Nat /\ MaxFaults \in Nat
  /\ Faults \subseteq FaultKind
  /\ Inspector \notin Request /\ Original \notin Request
  /\ None \notin Id \cup Variant \cup Stack

VARIABLES
  deployment,  \* its row [ttl, stamp], or Gone; stamp is the last update (UpdatedAt)
  instances,   \* stack -> row [id, variant], or NoRow
  releases,    \* the stacks that have a Helm release in the cluster
  volumes,     \* the stacks that have a persistent volume claim
  clock,       \* time since the deployment was created
  faults,      \* calls that have failed
  pc,          \* where each request and the inspector are
  req          \* what each has read: the deployment, the instances; what is left to do

vars == <<deployment, instances, releases, volumes, clock, faults, pc, req>>

Gone     == [ttl |-> 0, stamp |-> None]
NoRow    == [id |-> None, variant |-> None]
NoRows   == [s \in Stack |-> NoRow]
Idle     == [dep |-> Gone, rows |-> NoRows, queue |-> {}, at |-> None, failed |-> FALSE]

Present(rows) == {s \in Stack : rows[s] # NoRow}

\* The edges of validateNoCycles: required stacks, and the companion that the
\* parameters of the instance require; a parameter that is not set requires none.
Companions(rows, s) == IF rows[s].variant = None THEN {} ELSE Companion[<<s, rows[s].variant>>]
Needs(rows, s)      == Requires[s] \cup Companions(rows, s)

\* validateNoCycles accepts: what is needed is there, no edge is there twice, and
\* there is no cycle (a set where everyone needs another of the set).
Valid(rows) ==
  /\ \A s \in Present(rows) : /\ Needs(rows, s) \subseteq Present(rows)
                              /\ Requires[s] \cap Companions(rows, s) = {}
  /\ \A S \in SUBSET Present(rows) :
       S # {} => \E s \in S : Needs(rows, s) \cap S = {}

Init ==
  /\ deployment = [ttl |-> InitialTTL, stamp |-> Original]
  /\ instances = [s \in Stack |-> IF s \in DOMAIN Preset
                                  THEN [id |-> Original, variant |-> Preset[s]]
                                  ELSE NoRow]
  /\ releases = DOMAIN Preset
  /\ volumes = {s \in DOMAIN Preset : s \in Erases[s]}
  /\ clock = 0
  /\ faults = 0
  /\ pc = [a \in Actor |-> "idle"]
  /\ req = [a \in Actor |-> Idle]

Ended == {"idle", "done", "failed", "lost"}
Goto(a, l) == pc' = [pc EXCEPT ![a] = l]

\* The inspector logs an error and goes on; a request ends.
Fail(a)   == Goto(a, IF a = Inspector THEN "idle" ELSE "failed")
Finish(a) == Goto(a, IF a = Inspector THEN "idle" ELSE "done")

\* The value stored: the one supplied, else the one there was or the default
\* (resolveParameters adds it after the instances have been validated).
Resolved(p, old) == IF With[p] = None THEN old ELSE With[p]

Removes(a) == a \in {Inspector} \cup {p \in Request : Op[p] = "deleteDeployment"}
Expired(d) == d.ttl < clock

Rows   == <<deployment, instances>>
Kube   == <<releases, volumes>>
Others == <<clock, faults>>

-----------------------------------------------------------------------------
(* A request arrives: the handler and the service read the deployment and    *)
(* validate what the operation would make of it.                             *)

CanBegin(a) == /\ pc[a] = "idle"
               /\ Cardinality({b \in Actor : pc[b] \notin Ended}) < MaxActive
               /\ deployment # Gone

Begin(a, queue, l) ==
  /\ req' = [req EXCEPT ![a] = [Idle EXCEPT !.dep = deployment, !.rows = instances,
                                            !.queue = queue]]
  /\ Goto(a, l)
  /\ UNCHANGED <<Rows, Kube, Others>>

SaveInstanceBegin(p) ==
  /\ CanBegin(p) /\ Op[p] = "saveInstance"
  /\ instances[On[p]] = NoRow
  /\ Valid([instances EXCEPT ![On[p]] = [id |-> p, variant |-> With[p]]])
  /\ Begin(p, {}, "insert")

DeployBegin(p) ==
  /\ CanBegin(p) /\ Op[p] = "deploy"
  /\ Present(instances) # {} /\ Valid(instances)
  /\ Begin(p, Present(instances), "deploy")

DeleteInstanceBegin(p) ==
  /\ CanBegin(p) /\ Op[p] = "deleteInstance"
  /\ instances[On[p]] # NoRow
  /\ Valid([instances EXCEPT ![On[p]] = NoRow])
  /\ Begin(p, {On[p]}, "destroy")

DeleteDeploymentBegin(p) ==
  /\ CanBegin(p) /\ Op[p] = "deleteDeployment"
  /\ Valid(instances)
  /\ Begin(p, Present(instances), "destroy")

UpdateDeploymentBegin(p) ==
  /\ CanBegin(p) /\ Op[p] = "updateDeployment"
  /\ Begin(p, Present(instances), "save")

ResetBegin(p) ==
  /\ CanBegin(p) /\ Op[p] = "reset"
  /\ instances[On[p]] # NoRow
  /\ Begin(p, {On[p]}, "destroy")

UpdateInstanceBegin(p) ==
  /\ CanBegin(p) /\ Op[p] = "updateInstance"
  /\ instances[On[p]] # NoRow
  /\ Valid([instances EXCEPT ![On[p]].variant = Resolved(p, @)])
  /\ Begin(p, {On[p]}, "store")

-----------------------------------------------------------------------------
(* Rows written from what was read. *)

\* The row of the group that is written along, as it was read, is Groups!SaveInstance.
InsertInstance(p) ==
  /\ pc[p] = "insert"
  /\ IF deployment # Gone /\ instances[On[p]] = NoRow
     THEN /\ instances' = [instances EXCEPT
                            ![On[p]] = [id |-> p, variant |-> Resolved(p, Default[On[p]])]]
          /\ Finish(p)
     ELSE /\ Fail(p)
          /\ UNCHANGED instances
  /\ UNCHANGED <<deployment, Kube, Others, req>>

\* gorm's Save of a loaded instance updates its row; when it has gone, the rows of
\* its parameters refer to nothing and the transaction is rolled back.  The row of the
\* group that is written along is Groups!UpdateInstance.
StoreInstance(p) ==
  /\ pc[p] = "store"
  /\ LET s   == On[p]
         old == req[p].rows[s]
     IN  IF instances[s].id = old.id
         THEN /\ instances' = [instances EXCEPT ![s] = [old EXCEPT !.variant = Resolved(p, @)]]
              /\ Goto(p, "reload")
         ELSE /\ Fail(p)
              /\ UNCHANGED instances
  /\ UNCHANGED <<deployment, Kube, Others, req>>

\* gorm's Save of a loaded deployment updates its row, then inserts the loaded
\* instances that have gone; these refer to the row, so only without them is a
\* deployment that has gone inserted again.  A new time to live redeploys.
SaveDeployment(p) ==
  /\ pc[p] = "save"
  /\ LET old == req[p].rows
     IN  IF \A s \in Present(old) : /\ deployment # Gone
                                    /\ instances[s].id \in {old[s].id, None}
         THEN /\ deployment' = [ttl |-> NewTTL[p], stamp |-> p]
              /\ instances' = [s \in Stack |-> IF instances[s] = NoRow
                                               THEN old[s] ELSE instances[s]]
              /\ IF NewTTL[p] = req[p].dep.ttl \/ Present(old) = {}
                 THEN Finish(p)
                 ELSE IF Valid(old) THEN Goto(p, "deploy") ELSE Fail(p)
         ELSE Fail(p) /\ UNCHANGED Rows
  /\ UNCHANGED <<Kube, Others, req>>

\* Reset and UpdateInstance load the deployment again before they deploy.
Reload(p) ==
  /\ pc[p] = "reload"
  /\ LET s == On[p]
     IN  IF deployment # Gone /\ (Op[p] = "reset" \/ instances[s].id = req[p].rows[s].id)
         THEN Goto(p, "deploy") ELSE Fail(p)
  /\ UNCHANGED <<Rows, Kube, Others, req>>

-----------------------------------------------------------------------------
(* Helm.  Instances are deployed in a topological order of the graph that was *)
(* read, and destroyed in a reverse one.                                      *)

\* Mutant: the topological order is not reversed.
DeployedLastFirst(a, s) ==
  s \in req[a].queue /\ \A t \in req[a].queue : s \notin Needs(req[a].rows, t)

Dequeue(a, s) == req' = [req EXCEPT ![a].queue = @ \ {s}, ![a].at = None]

\* Mutant: instances are destroyed in the order of their deployment.
DestroyedFirstFirst(a, s) ==
  s \in req[a].queue /\ Needs(req[a].rows, s) \cap req[a].queue = {}

DeployedNext(a, s) ==
  s \in req[a].queue /\ Needs(req[a].rows, s) \cap req[a].queue = {}

DestroyedNext(a, s) ==
  s \in req[a].queue /\ \A t \in req[a].queue : s \notin Needs(req[a].rows, t)

NextDeploy(a, s) ==
  /\ Dequeue(a, s)
  /\ IF req[a].queue = {s} THEN Finish(a) ELSE UNCHANGED pc

DeployInstance(a, s) ==
  /\ pc[a] = "deploy" /\ DeployedNext(a, s)
  /\ releases' = releases \cup {s}
  /\ volumes' = volumes \cup (Erases[s] \cap {s})
  /\ NextDeploy(a, s)
  /\ UNCHANGED <<Rows, Others>>

\* DestroyInstance looks for the row by its id, ...
FindInstance(a, s) ==
  /\ pc[a] = "destroy" /\ DestroyedNext(a, s)
  /\ instances[s].id = req[a].rows[s].id
  /\ req' = [req EXCEPT ![a].at = s]
  /\ Goto(a, "uninstall")
  /\ UNCHANGED <<Rows, Kube, Others>>

\* ... destroys the release ...
DestroyRelease(a) ==
  /\ pc[a] = "uninstall"
  /\ releases' = releases \ {req[a].at}
  /\ Goto(a, "volume")
  /\ UNCHANGED <<Rows, volumes, Others, req>>

\* ... and the volumes.
DeleteVolume(a) ==
  /\ pc[a] = "volume"
  /\ volumes' = volumes \ Erases[req[a].at]
  /\ Goto(a, IF ~Removes(a) /\ Op[a] = "reset" THEN "reload" ELSE "forget")
  /\ UNCHANGED <<Rows, releases, Others, req>>

\* Mutant: the record is deleted although the release could not be destroyed.
NotDestroyedButForgotten(a, s) ==
  req' = [req EXCEPT ![a].at = s] /\ Goto(a, "forget")

\* Mutant: the first failure ends the loop, and the deployment is deleted.
NotDestroyedThenDropped(a, s) ==
  IF Removes(a)
  THEN req' = [req EXCEPT ![a].queue = {}, ![a].at = None] /\ Goto(a, "destroy")
  ELSE Fail(a) /\ UNCHANGED req

\* A failing DestroyInstance: DeleteDeployment notes it and takes the next
\* instance, the other operations end.
NotDestroyed(a, s) ==
  IF Removes(a)
  THEN /\ req' = [req EXCEPT ![a].queue = @ \ {s}, ![a].at = None, ![a].failed = TRUE]
       /\ Goto(a, "destroy")
  ELSE Fail(a) /\ UNCHANGED req

RowMissing(a, s) ==
  /\ pc[a] = "destroy" /\ DestroyedNext(a, s)
  /\ instances[s].id # req[a].rows[s].id
  /\ NotDestroyed(a, s)
  /\ UNCHANGED <<Rows, Kube, Others>>

\* Mutant: the record is only marked as deleted, as gorm does without Unscoped.
ForgetInstanceSoftly(a) ==
  /\ pc[a] = "forget"
  /\ instances' = [instances EXCEPT ![req[a].at].id = None]
  /\ Dequeue(a, req[a].at)
  /\ IF Removes(a) THEN Goto(a, "destroy") ELSE Finish(a)
  /\ UNCHANGED <<deployment, Kube, Others>>

\* repository.DeleteDeploymentInstance.
ForgetInstance(a) ==
  /\ pc[a] = "forget"
  /\ LET s == req[a].at
     IN  /\ instances' = IF instances[s].id = req[a].rows[s].id
                         THEN [instances EXCEPT ![s] = NoRow] ELSE instances
         /\ Dequeue(a, s)
  /\ IF Removes(a) THEN Goto(a, "destroy") ELSE Finish(a)
  /\ UNCHANGED <<deployment, Kube, Others>>

\* repository.DeleteDeployment: the loaded struct is the condition, so a row that
\* has been updated since does not match, and that is no error.  The instances
\* go with the row.
DropDeployment(a) ==
  /\ pc[a] = "destroy" /\ Removes(a) /\ req[a].queue = {}
  /\ IF req[a].failed \/ deployment # req[a].dep
     THEN UNCHANGED Rows
     ELSE deployment' = Gone /\ instances' = NoRows
  /\ IF req[a].failed THEN Fail(a) ELSE Finish(a)
  /\ UNCHANGED <<Kube, Others, req>>

-----------------------------------------------------------------------------
(* The inspector: it reads all deployments, then handles one after the other. *)

InspectBegin == /\ CanBegin(Inspector)
                /\ Begin(Inspector, {}, "handle")

\* Handle decides on the deployment read at the start and deletes it as it is now.
Handle ==
  /\ pc[Inspector] = "handle"
  /\ IF Expired(req[Inspector].dep) /\ deployment # Gone /\ Valid(instances)
     THEN Begin(Inspector, Present(instances), "destroy")
     ELSE /\ Goto(Inspector, "idle")
          /\ UNCHANGED <<Rows, Kube, Others, req>>

-----------------------------------------------------------------------------
(* The environment. *)

Tick == /\ clock < MaxTime
        /\ clock' = clock + 1
        /\ UNCHANGED <<Rows, Kube, faults, pc, req>>

CanFail(k) == k \in Faults /\ faults < MaxFaults /\ faults' = faults + 1

\* helmfile fails before or after it has installed the release, or saving its log does.
SyncFails(a, s) ==
  /\ CanFail("sync") /\ pc[a] = "deploy" /\ DeployedNext(a, s)
  /\ \/ UNCHANGED Kube
     \/ /\ releases' = releases \cup {s}
        /\ volumes' = volumes \cup (Erases[s] \cap {s})
  /\ Fail(a)
  /\ UNCHANGED <<Rows, clock, req>>

\* "another operation is in progress" (on a release that is there) is taken for
\* success.
SyncBusy(a, s) ==
  /\ CanFail("busy") /\ pc[a] = "deploy" /\ DeployedNext(a, s)
  /\ s \in releases
  /\ NextDeploy(a, s)
  /\ UNCHANGED <<Rows, Kube, clock>>

\* helmfile fails before or after it has removed the release.
DestroyFails(a) ==
  /\ CanFail("destroy") /\ pc[a] = "uninstall"
  /\ NotDestroyed(a, req[a].at)
  /\ releases' \in {releases, releases \ {req[a].at}}
  /\ UNCHANGED <<Rows, volumes, clock>>

\* The volumes go one by one, and any of the calls may fail.
VolumeFails(a) ==
  /\ CanFail("volume") /\ pc[a] = "volume"
  /\ NotDestroyed(a, req[a].at)
  /\ \E part \in SUBSET Erases[req[a].at] : volumes' = volumes \ part
  /\ UNCHANGED <<Rows, releases, clock>>

\* What it ran on is gone, and its record stays.
ForgetFails(a) ==
  /\ CanFail("forget") /\ pc[a] = "forget"
  /\ NotDestroyed(a, req[a].at)
  /\ UNCHANGED <<Rows, Kube, clock>>

\* The server stops and starts again: requests under way are lost.
Crash ==
  /\ CanFail("crash")
  /\ \E a \in Actor : pc[a] \notin Ended
  /\ pc' = [a \in Actor |-> IF a = Inspector THEN "idle"
                            ELSE IF pc[a] \in Ended THEN pc[a] ELSE "lost"]
  /\ UNCHANGED <<Rows, Kube, clock, req>>

-----------------------------------------------------------------------------
Arrive(p) ==
  \/ SaveInstanceBegin(p) \/ DeployBegin(p) \/ DeleteInstanceBegin(p)
  \/ DeleteDeploymentBegin(p) \/ UpdateDeploymentBegin(p) \/ ResetBegin(p)
  \/ UpdateInstanceBegin(p)

Step(a) ==
  \/ a # Inspector /\ (InsertInstance(a) \/ StoreInstance(a) \/ SaveDeployment(a)
                       \/ Reload(a))
  \/ \E s \in Stack : DeployInstance(a, s) \/ FindInstance(a, s) \/ RowMissing(a, s)
  \/ DestroyRelease(a) \/ DeleteVolume(a) \/ ForgetInstance(a) \/ DropDeployment(a)

Fault(a) ==
  \/ DestroyFails(a) \/ VolumeFails(a) \/ ForgetFails(a)
  \/ \E s \in Stack : SyncFails(a, s) \/ SyncBusy(a, s)

Next ==
  \/ \E p \in Request : Arrive(p)
  \/ \E a \in Actor : Step(a) \/ Fault(a)
  \/ InspectBegin \/ Handle \/ Tick \/ Crash

Spec == Init /\ [][Next]_vars

\* Requests go on once they have begun, time passes, the inspector's loop never ends.
FairSpec ==
  /\ Spec
  /\ \A a \in Actor : WF_vars(Step(a))
  /\ WF_vars(Tick) /\ WF_vars(InspectBegin) /\ WF_vars(Handle)

-----------------------------------------------------------------------------
(* Properties. *)

Label == Ended \cup {"insert", "store", "save", "reload", "deploy", "destroy",
                     "uninstall", "volume", "forget", "handle"}
Deployment == [ttl : Nat, stamp : Id \cup {None}]
Row        == [id : Id, variant : Variant] \cup {NoRow}
Pending    == [dep : Deployment, rows : [Stack -> Row], queue : SUBSET Stack,
               at : Stack \cup {None}, failed : BOOLEAN]

Types ==
  /\ deployment \in Deployment
  /\ instances \in [Stack -> Row]
  /\ releases \subseteq Stack /\ volumes \subseteq Stack
  /\ clock \in 0..MaxTime /\ faults \in 0..MaxFaults
  /\ pc \in [Actor -> Label]
  /\ req \in [Actor -> Pending]

\* A request that destroys an instance knows its stack, and one that stores an
\* instance has loaded it.
Aimed ==
  /\ \A a \in Actor : pc[a] \in {"uninstall", "volume", "forget"} => req[a].at \in Stack
  /\ \A p \in Request : pc[p] = "store" => req[p].rows[On[p]] # NoRow

TypeOK == Types /\ Aimed

AtRest == \A a \in Actor : pc[a] \in Ended

\* A release or a volume without a record "becomes invisible to us: IM's own
\* bookkeeping says it's gone" (deployment_destroy_test.go 44-45): whatever failed
\* on the way, an instance keeps its record while it has a release or a volume.
NoOrphans == AtRest => releases \cup volumes \subseteq Present(instances)

\* A record is there with everything its stack and its parameters need ("%q is
\* required by %q", service.go 278, 295), so that it can be deployed and the
\* deployment can be deleted.
RequiredPresent == AtRest => Valid(instances)

\* A release runs only beside the releases its stack requires: deployments and
\* destructions end at any point, and the order of each (DeploymentOrder, service.go
\* 416-426) and the checks of the records leave nothing running without them.
RunsWithRequired == \A s \in releases : Requires[s] \subseteq releases

\* A deployment that has outlived its time to live goes, unless it is given more.
ExpiredGoes ==
  (deployment # Gone /\ Expired(deployment)) ~> (deployment = Gone \/ ~Expired(deployment))

-----------------------------------------------------------------------------
(* Why NoOrphans holds when requests install nothing, however many overlap:  *)
(* the inductive invariant of DeploymentsProofs.                             *)

InstallsNothing ==
  \A p \in Request :
    /\ Op[p] \in {"saveInstance", "deleteInstance", "deleteDeployment", "updateDeployment"}
    /\ NewTTL[p] = InitialTTL

Kept == releases \cup volumes

\* What has a release or a volume has a record, also while requests are under way.
Recorded == Kept \subseteq Present(instances)

\* A record goes only after the release and the volume, and a deletion of the
\* deployment that has not failed has still to treat all that is left
\* (DeleteDeployment, service.go 505-530).
DestroyInv ==
  /\ Recorded
  /\ \A s \in volumes : s \in Erases[s]
  /\ deployment # Gone => deployment.ttl = InitialTTL
  /\ \A a \in Actor :
       /\ pc[a] \notin {"store", "reload", "deploy"}
       /\ pc[a] = "save" => req[a].dep.ttl = InitialTTL
       /\ pc[a] = "volume" => req[a].at \notin releases
       /\ pc[a] = "forget" => req[a].at \notin Kept
       /\ /\ pc[a] \in {"destroy", "uninstall", "volume", "forget"}
          /\ Removes(a) /\ ~req[a].failed
          => Kept \subseteq req[a].queue
=============================================================================
