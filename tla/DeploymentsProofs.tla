-------------------------- MODULE DeploymentsProofs --------------------------
(***************************************************************************)
(* Proofs about Deployments, for any stacks, parameters and requests.      *)
(***************************************************************************)
EXTENDS Deployments, FiniteSetTheorems, TLAPS

-----------------------------------------------------------------------------
(* Type correctness. *)

LEMMA InitType == Init => TypeOK
<1> SUFFICES ASSUME Init PROVE Types /\ Aimed
  BY DEF TypeOK
<1>1. deployment \in Deployment
  BY DeploymentsAssumption DEF Init, Deployment, Id
<1>2. instances \in [Stack -> Row]
  BY DeploymentsAssumption DEF Init, Row, Id
<1>3. releases \subseteq Stack /\ volumes \subseteq Stack
  BY DeploymentsAssumption DEF Init
<1>4. clock \in 0..MaxTime /\ faults \in 0..MaxFaults
  BY DeploymentsAssumption DEF Init
<1>5. Idle \in Pending
  BY DEF Idle, Pending, Gone, Deployment, NoRows, Row
<1>6. pc \in [Actor -> Label] /\ req \in [Actor -> Pending]
  BY <1>5 DEF Init, Label, Ended
<1> QED
  BY <1>1, <1>2, <1>3, <1>4, <1>6 DEF Types, Aimed, Init, Actor

\* What a request reads, and the labels it goes to.
LEMMA BeginType ==
  ASSUME Types, NEW a \in Actor, NEW queue \in SUBSET Stack, NEW l \in Label,
         Begin(a, queue, l)
  PROVE  Types'
<1>1. [Idle EXCEPT !.dep = deployment, !.rows = instances, !.queue = queue] \in Pending
  BY DEF Types, Idle, Pending
<1> QED
  BY <1>1 DEF Types, Begin, Goto, Rows, Kube, Others

LEMMA Requests == /\ Request \subseteq Actor
                  /\ \A a \in Actor : a # Inspector => a \in Request
                  /\ Inspector \in Actor
BY DEF Actor

LEMMA ResolvedType ==
  ASSUME NEW p \in Request, NEW v \in Variant PROVE Resolved(p, v) \in Variant
BY DeploymentsAssumption DEF Resolved

LEMMA AimType == ASSUME Types, NEW a \in Actor, NEW s \in Stack
                 PROVE  [req[a] EXCEPT !.at = s] \in Pending
BY DEF Types, Pending

\* The steps that treat one instance of the queue.
LEMMA QueueType ==
  ASSUME Types, NEW a \in Actor, NEW s \in Stack, Dequeue(a, s)
  PROVE  req' \in [Actor -> Pending]
<1>1. [req[a] EXCEPT !.queue = @ \ {s}, !.at = None] \in Pending
  BY DEF Types, Pending
<1> QED
  BY <1>1 DEF Types, Dequeue

LEMMA EndType == ASSUME Types, NEW a \in Actor, Fail(a) \/ Finish(a)
                 PROVE  pc' \in [Actor -> Label]
BY DEF Types, Fail, Finish, Goto, Label, Ended

LEMMA NotDestroyedType ==
  ASSUME Types, NEW a \in Actor, NEW s \in Stack \cup {None}, NotDestroyed(a, s)
  PROVE  pc' \in [Actor -> Label] /\ req' \in [Actor -> Pending]
<1>1. [req[a] EXCEPT !.queue = @ \ {s}, !.at = None, !.failed = TRUE] \in Pending
  BY DEF Types, Pending
<1>2. CASE Removes(a)
  BY <1>1, <1>2 DEF Types, NotDestroyed, Goto, Label
<1>3. CASE ~Removes(a)
  BY <1>3, EndType DEF Types, NotDestroyed
<1> QED
  BY <1>2, <1>3

LEMMA ArriveTypes == ASSUME Types, NEW p \in Request, Arrive(p) PROVE Types'
<1>1. Present(instances) \subseteq Stack /\ On[p] \in Stack /\ p \in Actor
  BY DeploymentsAssumption DEF Present, Actor
<1>2. {"insert", "deploy", "destroy", "save", "store"} \subseteq Label
  BY DEF Label
<1> QED
  BY <1>1, <1>2, BeginType
  DEF Arrive, SaveInstanceBegin, DeployBegin, DeleteInstanceBegin, DeleteDeploymentBegin,
      UpdateDeploymentBegin, ResetBegin, UpdateInstanceBegin

\* The rows that a request writes.
LEMMA WriteTypes ==
  ASSUME Types, Aimed, NEW p \in Request,
         InsertInstance(p) \/ StoreInstance(p) \/ SaveDeployment(p) \/ Reload(p)
  PROVE  Types'
<1> USE DeploymentsAssumption, Requests DEF Rows, Kube, Others
<1>1. CASE InsertInstance(p)
  <2>1. pc' \in [Actor -> Label]
    BY <1>1, EndType DEF InsertInstance
  <2>2. [id |-> p, variant |-> Resolved(p, Default[On[p]])] \in Row
    BY ResolvedType DEF Row, Id
  <2> QED
    BY <1>1, <2>1, <2>2 DEF Types, InsertInstance
<1>2. CASE StoreInstance(p)
  <2>1. pc' \in [Actor -> Label]
    BY <1>2, EndType DEF StoreInstance, Goto, Types, Label
  <2>2. [req[p].rows[On[p]] EXCEPT !.variant = Resolved(p, @)] \in Row
    <3>1. req[p].rows[On[p]] \in [id : Id, variant : Variant]
      BY <1>2 DEF StoreInstance, Aimed, Types, Pending, Row
    <3> QED
      BY <3>1, ResolvedType DEF Row
  <2>3. UNCHANGED instances \/ instances' = [instances EXCEPT ![On[p]] =
                                   [req[p].rows[On[p]] EXCEPT !.variant = Resolved(p, @)]]
    BY <1>2 DEF StoreInstance
  <2>4. instances' \in [Stack -> Row]
    <3> DEFINE row == [req[p].rows[On[p]] EXCEPT !.variant = Resolved(p, @)]
    <3>1. row \in Row
      BY <2>2
    <3> HIDE DEF row
    <3>2. UNCHANGED instances \/ instances' = [instances EXCEPT ![On[p]] = row]
      BY <2>3 DEF row
    <3> QED
      BY <3>1, <3>2 DEF Types
  <2>5. UNCHANGED <<deployment, releases, volumes, clock, faults, req>>
    BY <1>2 DEF StoreInstance
  <2> QED
    BY <2>1, <2>4, <2>5 DEF Types
<1>3. CASE SaveDeployment(p)
  <2>1. pc' \in [Actor -> Label]
    BY <1>3, EndType DEF SaveDeployment, Goto, Types, Label
  <2>2. [ttl |-> NewTTL[p], stamp |-> p] \in Deployment
    BY DEF Deployment, Id
  <2>3. req[p].rows \in [Stack -> Row]
    BY DEF Types, Pending
  <2> QED
    BY <1>3, <2>1, <2>2, <2>3 DEF Types, SaveDeployment
<1>4. CASE Reload(p)
  <2>1. pc' \in [Actor -> Label]
    BY <1>4, EndType DEF Reload, Goto, Types, Label
  <2> QED
    BY <1>4, <2>1 DEF Types, Reload
<1> QED
  BY <1>1, <1>2, <1>3, <1>4

\* Helm, the cluster, and the deletion of rows.
LEMMA HelmTypes ==
  ASSUME Types, Aimed, NEW a \in Actor,
         \/ \E s \in Stack : DeployInstance(a, s) \/ FindInstance(a, s) \/ RowMissing(a, s)
         \/ DestroyRelease(a) \/ DeleteVolume(a) \/ ForgetInstance(a) \/ DropDeployment(a)
  PROVE  Types'
<1> USE DeploymentsAssumption DEF Rows, Kube, Others
<1>1. ASSUME NEW s \in Stack, DeployInstance(a, s) PROVE Types'
  <2>1. pc' \in [Actor -> Label]
    BY <1>1, EndType DEF DeployInstance, NextDeploy, Types
  <2>2. req' \in [Actor -> Pending]
    BY <1>1, QueueType DEF DeployInstance, NextDeploy
  <2> QED
    BY <1>1, <2>1, <2>2 DEF Types, DeployInstance
<1>2. ASSUME NEW s \in Stack, FindInstance(a, s) PROVE Types'
  BY <1>2, AimType DEF Types, FindInstance, Goto, Label
<1>3. ASSUME NEW s \in Stack, RowMissing(a, s) PROVE Types'
  BY <1>3, NotDestroyedType DEF Types, RowMissing
<1>4. CASE DestroyRelease(a)
  BY <1>4 DEF Types, DestroyRelease, Goto, Label
<1>5. CASE DeleteVolume(a)
  BY <1>5 DEF Types, DeleteVolume, Goto, Label
<1>6. CASE ForgetInstance(a)
  <2>1. req[a].at \in Stack
    BY <1>6 DEF ForgetInstance, Aimed
  <2>2. pc' \in [Actor -> Label]
    BY <1>6, EndType DEF ForgetInstance, Goto, Types, Label
  <2>3. req' \in [Actor -> Pending]
    BY <1>6, <2>1, QueueType DEF ForgetInstance
  <2>4. instances' \in [Stack -> Row]
    BY <1>6 DEF ForgetInstance, Types, Row
  <2> QED
    BY <1>6, <2>2, <2>3, <2>4 DEF Types, ForgetInstance
<1>7. CASE DropDeployment(a)
  <2>1. pc' \in [Actor -> Label]
    BY <1>7, EndType DEF DropDeployment
  <2>2. deployment' \in Deployment /\ instances' \in [Stack -> Row]
    BY <1>7 DEF DropDeployment, Types, Gone, NoRows, Deployment, Row
  <2> QED
    BY <1>7, <2>1, <2>2 DEF Types, DropDeployment
<1> QED
  BY <1>1, <1>2, <1>3, <1>4, <1>5, <1>6, <1>7

LEMMA FaultTypes == ASSUME Types, Aimed, NEW a \in Actor, Fault(a) PROVE Types'
<1> USE DeploymentsAssumption DEF Rows, Kube
<1>0. ASSUME NEW k, CanFail(k) PROVE faults' \in 0..MaxFaults
  BY <1>0 DEF CanFail, Types
<1>1. CASE DestroyFails(a) \/ VolumeFails(a) \/ ForgetFails(a)
  <2>1. NotDestroyed(a, req[a].at) /\ req[a].at \in Stack
    BY <1>1 DEF DestroyFails, VolumeFails, ForgetFails, Aimed
  <2>2. pc' \in [Actor -> Label] /\ req' \in [Actor -> Pending]
    BY <2>1, NotDestroyedType
  <2>3. faults' \in 0..MaxFaults
    BY <1>1, <1>0 DEF DestroyFails, VolumeFails, ForgetFails
  <2>4. releases' \subseteq releases /\ volumes' \subseteq volumes /\ UNCHANGED <<Rows, clock>>
    BY <1>1 DEF DestroyFails, VolumeFails, ForgetFails
  <2> QED
    BY <2>2, <2>3, <2>4 DEF Types
<1>2. ASSUME NEW s \in Stack, SyncFails(a, s) PROVE Types'
  <2>1. pc' \in [Actor -> Label] /\ faults' \in 0..MaxFaults
    BY <1>2, <1>0, EndType DEF SyncFails
  <2> QED
    BY <1>2, <2>1 DEF Types, SyncFails
<1>3. ASSUME NEW s \in Stack, SyncBusy(a, s) PROVE Types'
  <2>1. faults' \in 0..MaxFaults
    BY <1>3, <1>0 DEF SyncBusy
  <2>2. pc' \in [Actor -> Label]
    BY <1>3, EndType DEF SyncBusy, NextDeploy, Types
  <2>3. req' \in [Actor -> Pending]
    BY <1>3, QueueType DEF SyncBusy, NextDeploy
  <2> QED
    BY <1>3, <2>1, <2>2, <2>3 DEF Types, SyncBusy
<1> QED
  BY <1>1, <1>2, <1>3 DEF Fault

LEMMA OtherTypes ==
  ASSUME Types, InspectBegin \/ Handle \/ Tick \/ Crash PROVE Types'
<1> USE DeploymentsAssumption, Requests DEF Rows, Kube, Others
<1>1. CASE InspectBegin
  BY <1>1, BeginType DEF InspectBegin, Label
<1>2. CASE Handle
  <2>1. CASE Begin(Inspector, Present(instances), "destroy")
    BY <2>1, BeginType DEF Present, Label
  <2>2. CASE ~Begin(Inspector, Present(instances), "destroy")
    BY <1>2, <2>2 DEF Types, Handle, Goto, Label, Ended
  <2> QED
    BY <2>1, <2>2
<1>3. CASE Tick
  BY <1>3 DEF Types, Tick
<1>4. CASE Crash
  <2>1. pc' \in [Actor -> Label]
    BY <1>4 DEF Types, Crash, Label, Ended
  <2> QED
    BY <1>4, <2>1 DEF Types, Crash, CanFail
<1> QED
  BY <1>1, <1>2, <1>3, <1>4

LEMMA NextTypes == ASSUME Types, Aimed, [Next]_vars PROVE Types'
<1>1. CASE UNCHANGED vars
  BY <1>1 DEF vars, Types
<1>2. CASE \E p \in Request : Arrive(p)
  BY <1>2, ArriveTypes
<1>3. ASSUME NEW a \in Actor, Step(a) PROVE Types'
  BY <1>3, WriteTypes, HelmTypes, Requests DEF Step
<1> QED
  BY <1>1, <1>2, <1>3, FaultTypes, OtherTypes DEF Next

\* A label with which an instance is treated comes with its stack.
LEMMA NextAimed == ASSUME Types, Aimed, [Next]_vars PROVE Aimed'
<1> USE DeploymentsAssumption, Requests DEF Goto
<1>1. CASE UNCHANGED vars
  BY <1>1 DEF vars, Aimed
<1>2. ASSUME NEW a \in Actor, NEW queue, NEW l \in {"insert", "deploy", "destroy", "save", "handle"},
             Begin(a, queue, l)
      PROVE Aimed'
  BY <1>2 DEF Begin, Aimed, Types
<1>3. ASSUME NEW p \in Request, Arrive(p) PROVE Aimed'
  <2>1. CASE UpdateInstanceBegin(p)
    BY <2>1 DEF UpdateInstanceBegin, Begin, Aimed, Types
  <2> QED
    BY <1>2, <1>3, <2>1
    DEF Arrive, SaveInstanceBegin, DeployBegin, DeleteInstanceBegin, DeleteDeploymentBegin,
        UpdateDeploymentBegin, ResetBegin
<1>4. ASSUME NEW a \in Actor, Step(a) PROVE Aimed'
  <2>1. CASE a \in Request /\ InsertInstance(a)
    BY <2>1 DEF InsertInstance, Aimed, Types, Fail, Finish
  <2>2. CASE a \in Request /\ StoreInstance(a)
    BY <2>2 DEF StoreInstance, Aimed, Types, Fail
  <2>3. CASE a \in Request /\ SaveDeployment(a)
    BY <2>3 DEF SaveDeployment, Aimed, Types, Fail, Finish
  <2>4. CASE a \in Request /\ Reload(a)
    BY <2>4 DEF Reload, Aimed, Types, Fail
  <2>5. ASSUME NEW s \in Stack, DeployInstance(a, s) PROVE Aimed'
    BY <2>5 DEF DeployInstance, NextDeploy, Dequeue, Aimed, Types, Finish
  <2>6. ASSUME NEW s \in Stack, FindInstance(a, s) PROVE Aimed'
    BY <2>6 DEF FindInstance, Aimed, Types
  <2>7. ASSUME NEW s \in Stack, RowMissing(a, s) PROVE Aimed'
    BY <2>7 DEF RowMissing, NotDestroyed, Aimed, Types, Fail
  <2>8. CASE DestroyRelease(a)
    BY <2>8 DEF DestroyRelease, Aimed, Types
  <2>9. CASE DeleteVolume(a)
    BY <2>9 DEF DeleteVolume, Aimed, Types
  <2>10. CASE ForgetInstance(a)
    BY <2>10 DEF ForgetInstance, Dequeue, Aimed, Types, Finish
  <2>11. CASE DropDeployment(a)
    BY <2>11 DEF DropDeployment, Aimed, Types, Fail, Finish
  <2> QED
    BY <1>4, <2>1, <2>2, <2>3, <2>4, <2>5, <2>6, <2>7, <2>8, <2>9, <2>10, <2>11 DEF Step
<1>5. ASSUME NEW a \in Actor, Fault(a) PROVE Aimed'
  <2>1. CASE DestroyFails(a) \/ VolumeFails(a) \/ ForgetFails(a)
    BY <2>1 DEF DestroyFails, VolumeFails, ForgetFails, NotDestroyed, Aimed, Types, Fail
  <2>2. ASSUME NEW s \in Stack, SyncFails(a, s) PROVE Aimed'
    BY <2>2 DEF SyncFails, Aimed, Types, Fail
  <2>3. ASSUME NEW s \in Stack, SyncBusy(a, s) PROVE Aimed'
    BY <2>3 DEF SyncBusy, NextDeploy, Dequeue, Aimed, Types, Finish
  <2> QED
    BY <1>5, <2>1, <2>2, <2>3 DEF Fault
<1>6. CASE InspectBegin
  BY <1>6, <1>2 DEF InspectBegin
<1>7. CASE Handle
  BY <1>7, <1>2 DEF Handle, Aimed, Types
<1>8. CASE Tick
  BY <1>8 DEF Tick, Aimed
<1>9. CASE Crash
  BY <1>9 DEF Crash, Aimed, Types, Ended
<1> QED
  BY <1>1, <1>3, <1>4, <1>5, <1>6, <1>7, <1>8, <1>9 DEF Next

\* TypeOK holds in every state, for any requests and any faults.
THEOREM TypeCorrect == Spec => []TypeOK
<1>1. TypeOK /\ [Next]_vars => TypeOK'
  BY NextTypes, NextAimed DEF TypeOK
<1> QED
  BY <1>1, InitType, PTL DEF Spec

-----------------------------------------------------------------------------
(* No release and no volume loses its record, when requests install nothing. *)

LEMMA InitDestroy == Init => DestroyInv
<1> SUFFICES ASSUME Init PROVE DestroyInv
  OBVIOUS
<1>1. Recorded
  BY DeploymentsAssumption DEF Init, Recorded, Kept, Present, NoRow, Id
<1> QED
  BY <1>1, DeploymentsAssumption DEF Init, DestroyInv

\* Requests that begin.
LEMMA ArriveDestroy ==
  ASSUME InstallsNothing, Types, DestroyInv, NEW p \in Request, Arrive(p)
  PROVE  DestroyInv'
<1> USE Requests DEF Goto, Begin, Rows, Kube, Others, CanBegin, Types, DestroyInv, Kept
<1>1. UNCHANGED Recorded
  BY DEF Recorded, Present, Arrive, SaveInstanceBegin, DeployBegin, DeleteInstanceBegin,
         DeleteDeploymentBegin, UpdateDeploymentBegin, ResetBegin, UpdateInstanceBegin
<1>2. CASE SaveInstanceBegin(p)
  BY <1>1, <1>2 DEF SaveInstanceBegin
<1>3. CASE DeleteInstanceBegin(p)
  <2>1. ~Removes(p)
    BY <1>3, DeploymentsAssumption DEF DeleteInstanceBegin, Removes
  <2> QED
    BY <1>1, <1>3, <2>1 DEF DeleteInstanceBegin
<1>4. CASE DeleteDeploymentBegin(p)
  <2>1. Kept \subseteq Present(instances)
    BY DEF Recorded
  <2> QED
    BY <1>1, <1>4, <2>1 DEF DeleteDeploymentBegin
<1>5. CASE UpdateDeploymentBegin(p)
  BY <1>1, <1>5 DEF UpdateDeploymentBegin
<1> QED
  BY <1>2, <1>3, <1>4, <1>5
  DEF InstallsNothing, Arrive, DeployBegin, ResetBegin, UpdateInstanceBegin

\* Rows are written for what has gone, never for what is there.
LEMMA WriteDestroy ==
  ASSUME InstallsNothing, Types, DestroyInv, NEW p \in Request,
         InsertInstance(p) \/ SaveDeployment(p)
  PROVE  DestroyInv'
<1> USE Requests DEF Goto, Fail, Finish, Rows, Kube, Others, Types, DestroyInv, Kept
<1>1. CASE InsertInstance(p)
  <2>1. Recorded'
    BY <1>1, DeploymentsAssumption DEF InsertInstance, Recorded, Present, NoRow, Id
  <2> QED
    BY <1>1, <2>1 DEF InsertInstance
<1>2. CASE SaveDeployment(p)
  <2>1. Recorded'
    BY <1>2 DEF SaveDeployment, Recorded, Present
  <2>2. NewTTL[p] = InitialTTL /\ req[p].dep.ttl = InitialTTL
    BY <1>2 DEF SaveDeployment, InstallsNothing
  <2> QED
    BY <1>2, <2>1, <2>2 DEF SaveDeployment
<1> QED
  BY <1>1, <1>2

\* A destruction that failed, half-way maybe: the deployment is no longer deleted.
LEMMA FailedDestroy ==
  ASSUME Types, DestroyInv, NEW a \in Actor, NEW s, NotDestroyed(a, s),
         UNCHANGED Rows, releases' \subseteq releases, volumes' \subseteq volumes
  PROVE  DestroyInv'
<1>1. Kept' \subseteq Kept /\ Present(instances)' = Present(instances)
  BY DEF Rows, Kept, Present
<1>5. Recorded'
  BY <1>1 DEF DestroyInv, Recorded
<1>2. \A b \in Actor : b # a => pc'[b] = pc[b] /\ req'[b] = req[b]
  BY DEF Types, NotDestroyed, Goto, Fail
<1>3. CASE Removes(a)
  <2>1. pc'[a] = "destroy"
    BY <1>3 DEF Types, NotDestroyed, Goto
  <2>2. req'[a].failed
    BY <1>3 DEF Types, Pending, NotDestroyed
  <2> QED
    BY <1>1, <1>2, <1>5, <2>1, <2>2 DEF DestroyInv, Rows
<1>4. CASE ~Removes(a)
  BY <1>1, <1>2, <1>4, <1>5 DEF DestroyInv, Types, NotDestroyed, Goto, Fail, Rows
<1> QED
  BY <1>3, <1>4

\* A release goes before its volume, and both before the record.
LEMMA HelmDestroy ==
  ASSUME InstallsNothing, Types, Aimed, DestroyInv, NEW a \in Actor,
         \/ \E s \in Stack : FindInstance(a, s) \/ RowMissing(a, s)
         \/ DestroyRelease(a) \/ DeleteVolume(a) \/ ForgetInstance(a) \/ DropDeployment(a)
  PROVE  DestroyInv'
<1> USE Requests DEF Goto, Fail, Finish, Rows, Kube, Others, Types, DestroyInv, Kept
<1>1. ASSUME NEW s \in Stack, FindInstance(a, s) PROVE DestroyInv'
  <2>1. Recorded'
    BY <1>1 DEF FindInstance, Recorded, Present
  <2> QED
    BY <1>1, <2>1 DEF FindInstance
<1>2. ASSUME NEW s \in Stack, RowMissing(a, s) PROVE DestroyInv'
  BY <1>2, FailedDestroy DEF RowMissing, Kube
<1>3. CASE DestroyRelease(a)
  <2>1. Recorded'
    BY <1>3 DEF DestroyRelease, Recorded, Present
  <2> QED
    BY <1>3, <2>1 DEF DestroyRelease
<1>4. CASE DeleteVolume(a)
  <2>1. Recorded'
    BY <1>4 DEF DeleteVolume, Recorded, Present
  <2>2. req[a].at \notin Kept' /\ Kept' \subseteq Kept
    BY <1>4 DEF DeleteVolume
  <2>3. pc' = [pc EXCEPT ![a] = "forget"]
    BY <1>4 DEF DeleteVolume, InstallsNothing, Removes, Actor
  <2> QED
    BY <1>4, <2>1, <2>2, <2>3 DEF DeleteVolume
<1>5. CASE ForgetInstance(a)
  <2>1. req[a].at \notin Kept
    BY <1>5 DEF ForgetInstance
  <2>2. Recorded'
    BY <1>5, <2>1 DEF ForgetInstance, Recorded, Present
  <2> QED
    BY <1>5, <2>1, <2>2 DEF ForgetInstance, Dequeue
<1>6. CASE DropDeployment(a)
  <2>1. req[a].failed \/ Kept = {}
    BY <1>6 DEF DropDeployment
  <2>2. Recorded'
    BY <1>6, <2>1 DEF DropDeployment, Recorded, Present
  <2> QED
    BY <1>6, <2>2 DEF DropDeployment
<1> QED
  BY <1>1, <1>2, <1>3, <1>4, <1>5, <1>6

LEMMA NextDestroy ==
  ASSUME InstallsNothing, Types, Aimed, DestroyInv, [Next]_vars
  PROVE  DestroyInv'
<1> USE Requests DEF Goto, Fail, Rows, Kube, Others, Types, DestroyInv, Kept
<1>1. CASE UNCHANGED vars
  BY <1>1 DEF vars, Recorded, Present
<1>2. ASSUME NEW a \in Actor, Step(a) PROVE DestroyInv'
  <2>1. \/ a \in Request /\ (InsertInstance(a) \/ SaveDeployment(a))
        \/ \E s \in Stack : FindInstance(a, s) \/ RowMissing(a, s)
        \/ DestroyRelease(a) \/ DeleteVolume(a) \/ ForgetInstance(a) \/ DropDeployment(a)
    BY <1>2 DEF Step, StoreInstance, Reload, DeployInstance
  <2> QED
    BY <2>1, WriteDestroy, HelmDestroy
<1>3. ASSUME NEW a \in Actor, Fault(a) PROVE DestroyInv'
  <2>1. DestroyFails(a) \/ VolumeFails(a) \/ ForgetFails(a)
    BY <1>3 DEF Fault, SyncFails, SyncBusy
  <2>2. NotDestroyed(a, req[a].at) /\ releases' \subseteq releases /\ volumes' \subseteq volumes
    BY <2>1 DEF DestroyFails, VolumeFails, ForgetFails
  <2>3. UNCHANGED Rows
    BY <2>1 DEF DestroyFails, VolumeFails, ForgetFails
  <2> QED
    BY <2>2, <2>3, FailedDestroy
<1>4. CASE InspectBegin
  <2>1. UNCHANGED Recorded
    BY <1>4 DEF InspectBegin, Begin, Recorded, Present
  <2> QED
    BY <1>4, <2>1 DEF InspectBegin, Begin
<1>5. CASE Handle
  <2>1. UNCHANGED Recorded
    BY <1>5 DEF Handle, Begin, Recorded, Present
  <2>2. Kept \subseteq Present(instances)
    BY DEF Recorded
  <2>3. CASE Begin(Inspector, Present(instances), "destroy")
    <3>1. /\ pc'[Inspector] = "destroy"
          /\ req'[Inspector].queue = Present(instances)
          /\ \A b \in Actor : b # Inspector => pc'[b] = pc[b] /\ req'[b] = req[b]
      BY <2>3 DEF Begin, Idle
    <3> QED
      BY <2>1, <2>2, <2>3, <3>1 DEF Begin
  <2>4. CASE Goto(Inspector, "idle") /\ UNCHANGED <<Rows, Kube, req>>
    BY <2>1, <2>4
  <2> QED
    BY <1>5, <2>3, <2>4 DEF Handle
<1>6. CASE Tick
  BY <1>6 DEF Tick, Recorded, Present
<1>7. CASE Crash
  <2>1. UNCHANGED Recorded
    BY <1>7 DEF Crash, Recorded, Present
  <2> QED
    BY <1>7, <2>1 DEF Crash, Ended
<1> QED
  BY <1>1, <1>2, <1>3, <1>4, <1>5, <1>6, <1>7, ArriveDestroy DEF Next

\* However many saves, updates and deletions overlap with the inspector, and
\* whatever fails, what has a release or a volume keeps its record.
THEOREM NothingOrphaned ==
  ASSUME InstallsNothing PROVE Spec => []NoOrphans
<1>1. Init => TypeOK /\ DestroyInv
  BY InitType, InitDestroy
<1>2. TypeOK /\ DestroyInv /\ [Next]_vars => (TypeOK /\ DestroyInv)'
  BY NextTypes, NextAimed, NextDestroy DEF TypeOK
<1>3. DestroyInv => NoOrphans
  BY DEF DestroyInv, Recorded, Kept, NoOrphans
<1> QED
  BY <1>1, <1>2, <1>3, PTL DEF Spec

\* The reason for it: a record goes after its release and its volume, and a deletion of the
\* deployment that has not failed has still to treat whatever is left.
THEOREM DestroysInOrder ==
  ASSUME InstallsNothing PROVE Spec => []DestroyInv
<1>1. Init => TypeOK /\ DestroyInv
  BY InitType, InitDestroy
<1>2. TypeOK /\ DestroyInv /\ [Next]_vars => (TypeOK /\ DestroyInv)'
  BY NextTypes, NextAimed, NextDestroy DEF TypeOK
<1> QED
  BY <1>1, <1>2, PTL DEF Spec

-----------------------------------------------------------------------------
(* Releases run beside those they require, when one request runs at a time.   *)

OneAtATime ==
  /\ MaxActive <= 1
  /\ \A p \in Request : Op[p] \in {"saveInstance", "deploy", "deleteInstance", "deleteDeployment"}
  /\ "destroy" \notin Faults
  /\ \A s \in DOMAIN Preset : Requires[s] \subseteq DOMAIN Preset

Active     == {a \in Actor : pc[a] \notin Ended}
Destroying == {"destroy", "uninstall", "volume", "forget"}

\* What is not in the queue of a deploy runs; what runs is in the queue of a deletion of
\* the deployment, whose records are as it has read them; nothing that runs requires what
\* is being destroyed.
Ordered(a) ==
  /\ pc[a] \notin {"store", "save", "reload"}
  /\ pc[a] = "deploy" =>
       /\ req[a].rows = instances /\ Valid(instances)
       /\ req[a].queue \subseteq Present(instances)
       /\ Present(instances) \ req[a].queue \subseteq releases
  /\ pc[a] \in Destroying /\ Removes(a) =>
       /\ releases \subseteq req[a].queue
       /\ \A s \in req[a].queue : instances[s] = req[a].rows[s]
  /\ pc[a] \in Destroying /\ ~Removes(a) =>
       \A s \in req[a].queue : \A t \in releases \ {s} : s \notin Requires[t]
  /\ pc[a] = "uninstall" => \A t \in releases \ {req[a].at} : req[a].at \notin Requires[t]
  /\ pc[a] \in {"volume", "forget"} => req[a].at \notin releases

OrderInv ==
  /\ RunsWithRequired
  /\ releases \subseteq Present(instances)
  /\ \A a, b \in Active : a = b
  /\ \A a \in Actor : Ordered(a)

LEMMA InitOrder == OneAtATime /\ Init => OrderInv
<1> SUFFICES ASSUME OneAtATime, Init PROVE OrderInv
  OBVIOUS
<1>1. releases = DOMAIN Preset /\ \A a \in Actor : pc[a] = "idle"
  BY DEF Init
<1>2. releases \subseteq Present(instances)
  BY DeploymentsAssumption DEF Init, Present, NoRow, Id
<1>3. RunsWithRequired
  BY <1>1 DEF OneAtATime, RunsWithRequired
<1> QED
  BY <1>1, <1>2, <1>3 DEF OrderInv, Ordered, Active, Ended, Destroying

LEMMA RestOrdered == ASSUME NEW a \in Actor, pc'[a] \in Ended PROVE Ordered(a)'
BY DEF Ordered, Ended, Destroying

\* The others rest while one is active, ...
LEMMA Alone ==
  ASSUME OrderInv, NEW a \in Actor, pc[a] \notin Ended,
         \A b \in Actor \ {a} : pc'[b] = pc[b],
         RunsWithRequired', (releases \subseteq Present(instances))', Ordered(a)'
  PROVE  OrderInv'
<1>1. \A b \in Actor \ {a} : pc'[b] \in Ended
  BY DEF OrderInv, Active
<1>2. \A b, c \in Active' : b = c
  BY <1>1 DEF Active
<1>3. \A b \in Actor : Ordered(b)'
  BY <1>1, RestOrdered
<1> QED
  BY <1>2, <1>3 DEF OrderInv

\* ... and before one begins all rest.
LEMMA BeginsAlone ==
  ASSUME MaxActive <= 1, \A b, c \in Active : b = c, NEW a \in Actor, CanBegin(a)
  PROVE  \A b \in Actor : pc[b] \in Ended
<1>1. {b \in Actor : pc[b] \notin Ended} = Active
  BY DEF Active
<1>2. Active = {} \/ \E b : Active = {b}
  OBVIOUS
<1>3. ASSUME NEW b, Active = {b} PROVE FALSE
  <2>1. Cardinality(Active) = 1
    BY <1>3, FS_Singleton
  <2>2. 1 < MaxActive
    BY <1>1, <2>1 DEF CanBegin
  <2> QED
    BY <2>2, DeploymentsAssumption
<1> QED
  BY <1>2, <1>3 DEF Active

LEMMA ArriveOrder ==
  ASSUME OneAtATime, Types, OrderInv, NEW p \in Request, Arrive(p)
  PROVE  OrderInv'
<1>1. p \in Actor /\ p # Inspector /\ (Removes(p) <=> Op[p] = "deleteDeployment")
  BY DeploymentsAssumption DEF Removes, Actor
<1>2. CanBegin(p)
  BY DEF Arrive, SaveInstanceBegin, DeployBegin, DeleteInstanceBegin,
         DeleteDeploymentBegin, UpdateDeploymentBegin, ResetBegin, UpdateInstanceBegin
<1>3. \A b \in Actor : pc[b] \in Ended
  BY <1>1, <1>2, BeginsAlone DEF OneAtATime, OrderInv
<1>4. PICK queue \in SUBSET Stack, l \in {"insert", "deploy", "destroy"} :
        /\ Begin(p, queue, l)
        /\ l = "deploy" => queue = Present(instances) /\ Valid(instances)
        /\ l = "destroy" /\ Op[p] = "deleteDeployment" => queue = Present(instances)
        /\ l = "destroy" /\ Op[p] # "deleteDeployment" =>
             /\ queue = {On[p]} /\ On[p] \in Stack
             /\ Valid([instances EXCEPT ![On[p]] = NoRow])
  <2>1. On[p] \in Stack /\ Present(instances) \in SUBSET Stack
    BY DeploymentsAssumption DEF Present
  <2>2. CASE SaveInstanceBegin(p)
    BY <2>2 DEF SaveInstanceBegin
  <2>3. CASE DeployBegin(p)
    BY <2>1, <2>3 DEF DeployBegin
  <2>4. CASE DeleteInstanceBegin(p)
    BY <2>1, <2>4 DEF DeleteInstanceBegin
  <2>5. CASE DeleteDeploymentBegin(p)
    BY <2>1, <2>5 DEF DeleteDeploymentBegin
  <2> QED
    BY <2>2, <2>3, <2>4, <2>5
       DEF OneAtATime, Arrive, UpdateDeploymentBegin, ResetBegin, UpdateInstanceBegin
<1>5. /\ UNCHANGED <<instances, releases>>
      /\ pc'[p] = l /\ \A b \in Actor \ {p} : pc'[b] = pc[b]
      /\ req'[p].rows = instances /\ req'[p].queue = queue
  BY <1>1, <1>4 DEF Begin, Goto, Types, Idle, Rows, Kube
<1>6. ASSUME l = "destroy", Op[p] # "deleteDeployment", NEW t \in releases \ {On[p]}
      PROVE  On[p] \notin Requires[t]
  <2> DEFINE left == [instances EXCEPT ![On[p]] = NoRow]
  <2>1. t \in Present(instances) /\ t \in Stack /\ On[p] \in Stack
    BY <1>4, <1>6 DEF OrderInv, Present
  <2>2. instances \in [Stack -> Row]
    BY DEF Types
  <2>3. t \in Present(left) /\ On[p] \notin Present(left)
    BY <1>6, <2>1, <2>2 DEF Present
  <2>4. Requires[t] \subseteq Present(left)
    BY <1>4, <1>6, <2>3 DEF Valid, Needs
  <2> QED
    BY <2>3, <2>4
<1>7. Ordered(p)'
  <2>1. CASE l = "insert"
    BY <1>5, <2>1 DEF Ordered, Destroying
  <2>2. CASE l = "deploy"
    <3>1. Valid(instances)'
      BY <1>4, <1>5, <2>2
    <3> QED
      BY <1>4, <1>5, <2>2, <3>1 DEF Ordered, Present, Destroying
  <2>3. CASE l = "destroy"
    BY <1>1, <1>4, <1>5, <1>6, <2>3 DEF Ordered, OrderInv, Present, Destroying
  <2> QED
    BY <2>1, <2>2, <2>3
<1>8. \A b \in Actor \ {p} : Ordered(b)'
  BY <1>3, <1>5, RestOrdered
<1>9. \A b, c \in Active' : b = c
  BY <1>3, <1>5 DEF Active
<1> QED
  BY <1>1, <1>5, <1>7, <1>8, <1>9 DEF OrderInv, RunsWithRequired, Present

\* Deployments: what is not in the queue, and so what is required, runs.
LEMMA DeployOrder ==
  ASSUME OneAtATime, Types, OrderInv, NEW a \in Actor, NEW s \in Stack,
         DeployInstance(a, s) \/ SyncFails(a, s) \/ SyncBusy(a, s)
  PROVE  OrderInv'
<1>1. /\ pc[a] = "deploy" /\ pc[a] \notin Ended
      /\ DeployedNext(a, s) /\ UNCHANGED instances
      /\ releases' \in {releases, releases \cup {s}}
      /\ \A b \in Actor \ {a} : pc'[b] = pc[b]
  BY DEF DeployInstance, SyncFails, SyncBusy, NextDeploy, Fail, Finish, Goto, Types, Ended,
         Rows, Kube
<1>2. /\ req[a].rows = instances /\ Valid(instances)
      /\ req[a].queue \subseteq Present(instances)
      /\ Present(instances) \ req[a].queue \subseteq releases
  BY <1>1 DEF OrderInv, Ordered
<1>3. s \in Present(instances) /\ Needs(instances, s) \subseteq Present(instances)
  BY <1>1, <1>2 DEF DeployedNext, Valid
<1>4. Requires[s] \subseteq releases
  BY <1>1, <1>2, <1>3 DEF DeployedNext, Needs
<1>5. RunsWithRequired' /\ (releases \subseteq Present(instances))'
  BY <1>1, <1>3, <1>4 DEF OrderInv, RunsWithRequired, Present
<1>6. CASE pc'[a] \in Ended
  BY <1>1, <1>5, <1>6, Alone, RestOrdered
<1>7. CASE pc'[a] \notin Ended
  <2>1. /\ pc'[a] = "deploy" /\ s \in releases'
        /\ req'[a].rows = instances /\ req'[a].queue = req[a].queue \ {s}
    BY <1>1, <1>2, <1>7
       DEF DeployInstance, SyncFails, SyncBusy, NextDeploy, Dequeue, Fail, Finish, Goto, Types,
           Pending, Ended, Kube
  <2>2. Valid(instances)' /\ Present(instances)' = Present(instances)
    BY <1>1, <1>2
  <2>3. Ordered(a)'
    BY <1>1, <1>2, <2>1, <2>2 DEF Ordered, Destroying
  <2> QED
    BY <1>1, <1>5, <2>3, Alone
<1> QED
  BY <1>6, <1>7

\* Destructions: what is found is required by nothing that runs, ...
LEMMA FindOrder ==
  ASSUME OneAtATime, Types, OrderInv, NEW a \in Actor, NEW s \in Stack,
         FindInstance(a, s)
  PROVE  OrderInv'
<1>1. /\ pc[a] = "destroy" /\ pc[a] \notin Ended /\ pc'[a] = "uninstall"
      /\ DestroyedNext(a, s) /\ UNCHANGED <<instances, releases>>
      /\ req'[a].at = s /\ req'[a].queue = req[a].queue /\ req'[a].rows = req[a].rows
      /\ \A b \in Actor \ {a} : pc'[b] = pc[b]
  BY DEF FindInstance, Goto, Types, Pending, Ended, Rows, Kube
<1>2. \A t \in releases \ {s} : s \notin Requires[t]
  BY <1>1 DEF OrderInv, Ordered, Destroying, DestroyedNext, Needs
<1>3. Ordered(a)'
  BY <1>1, <1>2 DEF OrderInv, Ordered, Destroying
<1>4. RunsWithRequired' /\ (releases \subseteq Present(instances))'
  BY <1>1 DEF OrderInv, RunsWithRequired, Present
<1> QED
  BY <1>1, <1>3, <1>4, Alone

\* ... so its release goes before those it requires, ...
LEMMA DestroyOrder ==
  ASSUME OneAtATime, Types, OrderInv, NEW a \in Actor, DestroyRelease(a)
  PROVE  OrderInv'
<1>1. /\ pc[a] = "uninstall" /\ pc[a] \notin Ended /\ pc'[a] = "volume"
      /\ UNCHANGED <<instances, req>> /\ releases' = releases \ {req[a].at}
      /\ \A b \in Actor \ {a} : pc'[b] = pc[b]
  BY DEF DestroyRelease, Goto, Types, Ended, Rows
<1>2. \A t \in releases \ {req[a].at} : req[a].at \notin Requires[t]
  BY <1>1 DEF OrderInv, Ordered
<1>3. Ordered(a)'
  BY <1>1, <1>2 DEF OrderInv, Ordered, Destroying
<1>4. RunsWithRequired' /\ (releases \subseteq Present(instances))'
  BY <1>1, <1>2 DEF OrderInv, RunsWithRequired, Present
<1> QED
  BY <1>1, <1>3, <1>4, Alone

\* ... and what follows treats what no longer runs.
LEMMA VolumeOrder ==
  ASSUME OneAtATime, Types, Aimed, OrderInv, NEW a \in Actor,
         DeleteVolume(a) \/ VolumeFails(a) \/ ForgetFails(a)
  PROVE  OrderInv'
<1>1. /\ pc[a] \in {"volume", "forget"} /\ pc[a] \notin Ended
      /\ UNCHANGED <<instances, releases>> /\ req[a].at \notin releases
      /\ \A b \in Actor \ {a} : pc'[b] = pc[b]
  BY DEF DeleteVolume, VolumeFails, ForgetFails, NotDestroyed, Fail, Goto, OrderInv, Ordered,
         Types, Ended, Rows, Kube
<1>2. RunsWithRequired' /\ (releases \subseteq Present(instances))'
  BY <1>1 DEF OrderInv, RunsWithRequired, Present
<1>3. CASE DeleteVolume(a)
  <2>1. pc'[a] = "forget" /\ UNCHANGED req
    BY <1>3 DEF DeleteVolume, Goto, Types, OneAtATime, Removes, Actor
  <2>2. Ordered(a)'
    BY <1>1, <2>1 DEF OrderInv, Ordered, Destroying
  <2> QED
    BY <1>1, <1>2, <2>2, Alone
<1>4. CASE (VolumeFails(a) \/ ForgetFails(a)) /\ Removes(a)
  <2>1. /\ pc'[a] = "destroy" /\ req'[a].rows = req[a].rows
        /\ req'[a].queue = req[a].queue \ {req[a].at}
    BY <1>4 DEF VolumeFails, ForgetFails, NotDestroyed, Goto, Types, Pending
  <2>2. Ordered(a)'
    BY <1>1, <1>4, <2>1 DEF OrderInv, Ordered, Destroying
  <2> QED
    BY <1>1, <1>2, <2>2, Alone
<1>5. CASE (VolumeFails(a) \/ ForgetFails(a)) /\ ~Removes(a)
  <2>1. pc'[a] \in Ended
    BY <1>5 DEF VolumeFails, ForgetFails, NotDestroyed, Fail, Goto, Types, Ended
  <2> QED
    BY <1>1, <1>2, <2>1, Alone, RestOrdered
<1> QED
  BY <1>3, <1>4, <1>5

LEMMA ForgetOrder ==
  ASSUME OneAtATime, Types, Aimed, OrderInv, NEW a \in Actor, ForgetInstance(a)
  PROVE  OrderInv'
<1> DEFINE s == req[a].at
<1>1. /\ pc[a] = "forget" /\ pc[a] \notin Ended /\ UNCHANGED releases
      /\ s \in Stack /\ s \notin releases
      /\ \A t \in Stack \ {s} : instances'[t] = instances[t]
      /\ req'[a].queue = req[a].queue \ {s} /\ req'[a].rows = req[a].rows
      /\ \A b \in Actor \ {a} : pc'[b] = pc[b]
  BY DEF ForgetInstance, Dequeue, Finish, Goto, OrderInv, Ordered, Types, Aimed, Pending, Ended,
         Kube
<1>2. RunsWithRequired' /\ (releases \subseteq Present(instances))'
  BY <1>1 DEF OrderInv, RunsWithRequired, Present
<1>3. CASE Removes(a)
  <2>1. pc'[a] = "destroy"
    BY <1>3 DEF ForgetInstance, Goto, Types
  <2>2. req[a].queue \subseteq Stack
    BY DEF Types, Pending
  <2>3. Ordered(a)'
    BY <1>1, <1>3, <2>1, <2>2 DEF OrderInv, Ordered, Destroying
  <2> QED
    BY <1>1, <1>2, <2>3, Alone
<1>4. CASE ~Removes(a)
  <2>1. pc'[a] \in Ended
    BY <1>4 DEF ForgetInstance, Finish, Goto, Types, Ended
  <2> QED
    BY <1>1, <1>2, <2>1, Alone, RestOrdered
<1> QED
  BY <1>3, <1>4

\* The steps that end an operation.
LEMMA EndOrder ==
  ASSUME OneAtATime, Types, OrderInv, NEW a \in Actor,
         \/ a \in Request /\ InsertInstance(a)
         \/ \E s \in Stack : RowMissing(a, s)
         \/ DropDeployment(a)
  PROVE  OrderInv'
<1>1. /\ pc[a] \notin Ended /\ UNCHANGED releases
      /\ \A b \in Actor \ {a} : pc'[b] = pc[b]
  BY DEF InsertInstance, RowMissing, DropDeployment, NotDestroyed, Fail, Finish, Goto, Types,
         Ended, Kube
<1>2. pc'[a] \in Ended
  <2>1. ASSUME NEW s \in Stack, RowMissing(a, s) PROVE ~Removes(a)
    BY <2>1 DEF RowMissing, DestroyedNext, OrderInv, Ordered, Destroying
  <2> QED
    BY <2>1 DEF InsertInstance, RowMissing, DropDeployment, NotDestroyed, Fail, Finish, Goto,
                Types, Ended
<1>3. (releases \subseteq Present(instances))'
  <2>1. CASE a \in Request /\ InsertInstance(a)
    BY <1>1, <2>1, DeploymentsAssumption DEF InsertInstance, OrderInv, Present, NoRow, Id, Types
  <2>2. CASE \E s \in Stack : RowMissing(a, s)
    BY <1>1, <2>2 DEF RowMissing, Rows, OrderInv, Present
  <2>3. CASE DropDeployment(a)
    <3>1. releases = {}
      BY <2>3 DEF DropDeployment, OrderInv, Ordered, Destroying
    <3> QED
      BY <1>1, <3>1
  <2> QED
    BY <2>1, <2>2, <2>3
<1> QED
  BY <1>1, <1>2, <1>3, Alone, RestOrdered DEF OrderInv, RunsWithRequired

\* The inspector is alone as well.
LEMMA InspectOrder ==
  ASSUME OneAtATime, Types, OrderInv, InspectBegin \/ Handle
  PROVE  OrderInv'
<1> DEFINE a == Inspector
<1>1. a \in Actor /\ Removes(a)
  BY DEF Actor, Removes
<1>2. /\ UNCHANGED <<instances, releases>>
      /\ \A b \in Actor \ {a} : pc'[b] = pc[b]
  BY DEF InspectBegin, Handle, Begin, Goto, Types, Rows, Kube
<1>3. RunsWithRequired' /\ (releases \subseteq Present(instances))'
  BY <1>2 DEF OrderInv, RunsWithRequired, Present
<1>4. \A b \in Actor \ {a} : pc'[b] \in Ended
  <2>1. CASE InspectBegin
    BY <1>1, <1>2, <2>1, BeginsAlone DEF InspectBegin, OneAtATime, OrderInv
  <2>2. CASE Handle
    BY <1>1, <1>2, <2>2 DEF Handle, OrderInv, Active, Ended
  <2> QED
    BY <2>1, <2>2
<1>5. Ordered(a)'
  <2>1. CASE pc'[a] \in {"handle", "idle"}
    BY <2>1 DEF Ordered, Destroying
  <2>2. CASE pc'[a] \notin {"handle", "idle"}
    <3>1. /\ pc'[a] = "destroy" /\ req'[a].queue = Present(instances)
          /\ req'[a].rows = instances
      BY <1>1, <2>2 DEF InspectBegin, Handle, Begin, Goto, Types, Idle
    <3> QED
      BY <1>1, <1>2, <3>1 DEF OrderInv, Ordered, Destroying
  <2> QED
    BY <2>1, <2>2
<1>6. \A b, c \in Active' : b = c
  BY <1>4 DEF Active
<1>7. \A b \in Actor : Ordered(b)'
  BY <1>4, <1>5, RestOrdered
<1> QED
  BY <1>3, <1>6, <1>7 DEF OrderInv

LEMMA NextOrder ==
  ASSUME OneAtATime, Types, Aimed, OrderInv, [Next]_vars
  PROVE  OrderInv'
<1>1. CASE UNCHANGED vars \/ Tick
  <2>1. UNCHANGED <<instances, releases, pc, req>>
    BY <1>1 DEF vars, Tick, Rows, Kube
  <2>2. Valid(instances)' <=> Valid(instances)
    BY <2>1
  <2>3. \A b \in Actor : Ordered(b)'
    BY <2>1, <2>2 DEF OrderInv, Ordered, Present
  <2> QED
    BY <2>1, <2>3 DEF OrderInv, RunsWithRequired, Present, Active
<1>2. ASSUME NEW a \in Actor, Step(a) PROVE OrderInv'
  <2>1. a # Inspector => a \in Request
    BY DEF Actor
  <2>2. ~(StoreInstance(a) \/ SaveDeployment(a) \/ Reload(a))
    BY DEF OrderInv, Ordered, StoreInstance, SaveDeployment, Reload
  <2> QED
    BY <1>2, <2>1, <2>2, EndOrder, DeployOrder, FindOrder, DestroyOrder, VolumeOrder, ForgetOrder
       DEF Step
<1>3. ASSUME NEW a \in Actor, Fault(a) PROVE OrderInv'
  BY <1>3, DeployOrder, VolumeOrder DEF Fault, DestroyFails, CanFail, OneAtATime
<1>4. CASE Crash
  <2>1. \A b \in Actor : pc'[b] \in Ended
    BY <1>4 DEF Crash, Ended
  <2>2. \A b \in Actor : Ordered(b)'
    BY <2>1, RestOrdered
  <2> QED
    BY <1>4, <2>1, <2>2 DEF Crash, OrderInv, RunsWithRequired, Present, Active, Rows, Kube
<1> QED
  BY <1>1, <1>2, <1>3, <1>4, ArriveOrder, InspectOrder DEF Next

\* While one operation runs at a time and no destruction of a release fails, a release runs
\* only beside those its stack requires, wherever a deployment or a destruction ends.
THEOREM RunsInOrder ==
  ASSUME OneAtATime PROVE Spec => []RunsWithRequired
<1>1. Init => TypeOK /\ OrderInv
  BY InitType, InitOrder
<1>2. TypeOK /\ OrderInv /\ [Next]_vars => (TypeOK /\ OrderInv)'
  BY NextTypes, NextAimed, NextOrder DEF TypeOK
<1>3. OrderInv => RunsWithRequired
  BY DEF OrderInv
<1> QED
  BY <1>1, <1>2, <1>3, PTL DEF Spec

-----------------------------------------------------------------------------
(* An instance is there with everything it needs.                             *)

InitialRows == [s \in Stack |-> IF s \in DOMAIN Preset
                                THEN [id |-> Original, variant |-> Preset[s]]
                                ELSE NoRow]

\* Any requests one at a time, or deployments, resets and deletions at once; nothing is
\* saved without the parameter when the stack's default needs a companion, and no
\* destruction fails half-way.
Careful ==
  /\ Valid(InitialRows)
  /\ Faults \cap {"destroy", "volume", "forget"} = {}
  /\ \A p \in Request : Op[p] = "saveInstance" /\ With[p] = None
                        => Companion[<<On[p], Default[On[p]]>>] = {}
  /\ \/ MaxActive <= 1
     \/ \A p \in Request : Op[p] \in {"deploy", "reset", "deleteInstance", "deleteDeployment"}

Writing     == {"insert", "store", "save"}
Takes(a)    == Removes(a) \/ Op[a] = "deleteInstance"
Unneeded(s) == \A t \in Present(instances) : s \notin Needs(instances, t)

\* What is left is in the queue of a deletion of the deployment, as it has been read, and
\* nothing that is left needs the instance whose record is about to go.
Clears(a) ==
  /\ pc[a] \in Destroying => Takes(a) \/ Op[a] = "reset"
  /\ pc[a] \in Destroying /\ Removes(a) =>
       \A s \in Present(instances) : s \in req[a].queue /\ instances[s] = req[a].rows[s]
  /\ pc[a] \in Destroying /\ ~Removes(a) /\ Takes(a) =>
       \A s \in req[a].queue : Unneeded(s)
  /\ pc[a] \in {"uninstall", "volume", "forget"} /\ Takes(a) => Unneeded(req[a].at)
  /\ pc[a] = "forget" => Takes(a)

\* The rows that a request is about to write have been validated as it writes them.
After(p) ==
  CASE pc[p] = "insert" ->
         [instances EXCEPT ![On[p]] = [id |-> p, variant |-> Resolved(p, Default[On[p]])]]
    [] pc[p] = "store" -> [instances EXCEPT ![On[p]].variant = Resolved(p, @)]
    [] OTHER -> instances

Writes(p) ==
  pc[p] \in Writing => MaxActive <= 1 /\ req[p].rows = instances /\ Valid(After(p))

RequiredInv ==
  /\ Valid(instances)
  /\ MaxActive <= 1 => \A a, b \in Active : a = b
  /\ \A a \in Actor : Clears(a) /\ Writes(a)

\* Rows of which some have gone that no other needs.
LEMMA FewerRows ==
  ASSUME NEW rows, NEW left, Valid(rows),
         \A t \in Stack : left[t] \in {rows[t], NoRow},
         \A s \in Present(rows) \ Present(left) :
           \A t \in Present(left) : s \notin Needs(rows, t)
  PROVE  Valid(left)
<1>1. Present(left) \subseteq Present(rows)
  BY DEF Present
<1>2. \A t \in Present(left) : /\ Needs(left, t) = Needs(rows, t)
                               /\ Companions(left, t) = Companions(rows, t)
  BY DEF Present, Needs, Companions
<1>3. \A t \in Present(left) : /\ Needs(left, t) \subseteq Present(left)
                               /\ Requires[t] \cap Companions(left, t) = {}
  BY <1>1, <1>2 DEF Valid
<1>4. ASSUME NEW S \in SUBSET Present(left), S # {}
      PROVE  \E s \in S : Needs(left, s) \cap S = {}
  BY <1>1, <1>2, <1>4 DEF Valid
<1> QED
  BY <1>3, <1>4 DEF Valid

\* Other rows with the same needs.
LEMMA SameNeeds ==
  ASSUME NEW rows, NEW other, Valid(rows), Present(other) = Present(rows),
         \A s \in Present(rows) : Companions(other, s) = Companions(rows, s)
  PROVE  Valid(other)
<1>1. \A s \in Present(rows) : Needs(other, s) = Needs(rows, s)
  BY DEF Needs
<1>2. \A s \in Present(other) : /\ Needs(other, s) \subseteq Present(other)
                                /\ Requires[s] \cap Companions(other, s) = {}
  BY <1>1 DEF Valid
<1>3. ASSUME NEW S \in SUBSET Present(other), S # {}
      PROVE  \E s \in S : Needs(other, s) \cap S = {}
  BY <1>1, <1>3 DEF Valid
<1> QED
  BY <1>2, <1>3 DEF Valid

LEMMA InitRequired == Careful /\ Init => RequiredInv
<1> SUFFICES ASSUME Careful, Init PROVE RequiredInv
  OBVIOUS
<1>1. instances = InitialRows /\ \A a \in Actor : pc[a] = "idle"
  BY DEF Init, InitialRows
<1> QED
  BY <1>1 DEF Careful, RequiredInv, Clears, Writes, Writing, Active, Ended, Destroying

LEMMA RestRequired == ASSUME NEW a \in Actor, pc'[a] \in Ended
                      PROVE  Clears(a)' /\ Writes(a)'
BY DEF Clears, Writes, Writing, Ended, Destroying

\* The other requests wait while rows are written, and are not disturbed by rows that go.
LEMMA OneRequired ==
  ASSUME RequiredInv, Types, NEW a \in Actor, pc[a] \notin Ended,
         \A b \in Actor \ {a} : pc'[b] = pc[b] /\ req'[b] = req[b],
         MaxActive <= 1 \/ \A t \in Stack : instances'[t] \in {instances[t], NoRow},
         Valid(instances)', Clears(a)', Writes(a)'
  PROVE  RequiredInv'
<1>1. ASSUME MaxActive <= 1 PROVE \A b \in Actor \ {a} : pc[b] \in Ended
  BY <1>1 DEF RequiredInv, Active
<1>2. MaxActive <= 1 => \A b, c \in Active' : b = c
  BY <1>1 DEF Active
<1>3. ASSUME NEW b \in Actor \ {a} PROVE Clears(b)' /\ Writes(b)'
  <2>1. CASE MaxActive <= 1
    BY <1>1, <2>1, RestRequired
  <2>2. CASE ~(MaxActive <= 1)
    <3>1. Present(instances)' \subseteq Present(instances)
      BY <2>2 DEF Present
    <3>2. \A t \in Present(instances)' : /\ instances'[t] = instances[t]
                                         /\ Needs(instances, t)' = Needs(instances, t)
      BY <2>2 DEF Present, Needs, Companions
    <3>3. \A s : Unneeded(s) => Unneeded(s)'
      BY <3>1, <3>2 DEF Unneeded
    <3>4. Clears(b) /\ Writes(b)
      BY DEF RequiredInv
    <3>5. Clears(b)'
      BY <3>1, <3>2, <3>3, <3>4 DEF Clears
    <3>6. Writes(b)'
      BY <2>2, <3>4 DEF Writes
    <3> QED
      BY <3>5, <3>6
  <2> QED
    BY <2>1, <2>2
<1> QED
  BY <1>2, <1>3 DEF RequiredInv

\* A request that begins has read the rows as they are.
LEMMA BeginRequired ==
  ASSUME RequiredInv, Types, NEW a \in Actor, NEW queue \in SUBSET Stack, NEW l \in Label,
         CanBegin(a), Begin(a, queue, l), Clears(a)', Writes(a)'
  PROVE  RequiredInv'
<1>1. /\ UNCHANGED instances
      /\ \A b \in Actor \ {a} : pc'[b] = pc[b] /\ req'[b] = req[b]
  BY DEF Begin, Goto, Types, Rows
<1>2. ASSUME MaxActive <= 1 PROVE \A b \in Actor : pc[b] \in Ended
  BY <1>2, BeginsAlone DEF RequiredInv
<1>3. MaxActive <= 1 => \A b, c \in Active' : b = c
  BY <1>1, <1>2 DEF Active
<1>4. Valid(instances)'
  BY <1>1 DEF RequiredInv
<1>5. ASSUME NEW b \in Actor \ {a} PROVE Clears(b)' /\ Writes(b)'
  <2>1. Clears(b) /\ Writes(b) /\ pc'[b] = pc[b] /\ req'[b] = req[b]
    BY <1>1 DEF RequiredInv
  <2>2. \A s : UNCHANGED Unneeded(s)
    BY <1>1 DEF Unneeded, Present, Needs, Companions
  <2>3. Clears(b)'
    BY <1>1, <2>1, <2>2 DEF Clears, Present
  <2>4. After(b)' = After(b)
    BY <1>1, <2>1 DEF After
  <2>5. Valid(After(b))' <=> Valid(After(b))
    BY <2>4
  <2>6. Writes(b)'
    BY <1>1, <2>1, <2>5 DEF Writes
  <2> QED
    BY <2>3, <2>6
<1> QED
  BY <1>3, <1>4, <1>5 DEF RequiredInv

\* What its deletion has been validated without is needed by nothing.
LEMMA ValidatedUnneeded ==
  ASSUME Types, Valid(instances), NEW s \in Stack, Valid([instances EXCEPT ![s] = NoRow])
  PROVE  Unneeded(s)
<1> DEFINE left == [instances EXCEPT ![s] = NoRow]
<1>1. ASSUME NEW t \in Present(instances), t # s PROVE s \notin Needs(instances, t)
  <2>1. t \in Present(left) /\ s \notin Present(left)
    BY <1>1 DEF Present, Types
  <2>2. Needs(left, t) = Needs(instances, t)
    BY <1>1 DEF Needs, Companions, Types, Present
  <2> QED
    BY <2>1, <2>2 DEF Valid
<1>2. ASSUME s \in Present(instances) PROVE s \notin Needs(instances, s)
  <2>1. {s} \in SUBSET Present(instances) /\ {s} # {}
    BY <1>2
  <2>2. \E r \in {s} : Needs(instances, r) \cap {s} = {}
    BY <2>1 DEF Valid
  <2> QED
    BY <2>2
<1> QED
  BY <1>1, <1>2 DEF Unneeded

LEMMA ArriveRequired ==
  ASSUME Careful, RequiredInv, Types, NEW p \in Request, Arrive(p)
  PROVE  RequiredInv'
<1>1. /\ p \in Actor /\ On[p] \in Stack /\ Present(instances) \in SUBSET Stack
      /\ Removes(p) <=> Op[p] = "deleteDeployment"
  BY DeploymentsAssumption DEF Actor, Present, Removes
<1>2. ASSUME NEW queue \in SUBSET Stack, NEW l, Begin(p, queue, l)
      PROVE  /\ pc'[p] = l /\ UNCHANGED instances
             /\ req'[p].rows = instances /\ req'[p].queue = queue
  BY <1>1, <1>2 DEF Begin, Goto, Types, Idle, Rows
<1>3. Valid(instances)
  BY DEF RequiredInv
<1>4. {"insert", "deploy", "destroy", "save", "store"} \subseteq Label
  BY DEF Label
<1>5. CASE SaveInstanceBegin(p)
  <2> DEFINE asked == [instances EXCEPT ![On[p]] = [id |-> p, variant |-> With[p]]]
             stored == [instances EXCEPT ![On[p]] =
                          [id |-> p, variant |-> Resolved(p, Default[On[p]])]]
  <2>1. Begin(p, {}, "insert") /\ CanBegin(p) /\ Valid(asked) /\ MaxActive <= 1
    BY <1>5 DEF SaveInstanceBegin, Careful
  <2>2. p # None
    BY DeploymentsAssumption DEF Id
  <2>3. Present(stored) = Present(asked)
    BY <2>2, <1>1 DEF Present, Types, NoRow
  <2>4. \A s \in Present(asked) : Companions(stored, s) = Companions(asked, s)
    <3>1. ASSUME NEW s \in Stack, s # On[p] PROVE Companions(stored, s) = Companions(asked, s)
      BY <3>1 DEF Companions, Types
    <3>2. Companions(stored, On[p]) = Companions(asked, On[p])
      <4>1. Default[On[p]] # None
        BY <1>1, DeploymentsAssumption
      <4>2. CASE With[p] = None
        BY <1>1, <1>5, <4>1, <4>2 DEF Companions, Resolved, Types, Careful, SaveInstanceBegin
      <4>3. CASE With[p] # None
        BY <1>1, <4>3 DEF Companions, Resolved, Types
      <4> QED
        BY <4>2, <4>3
    <3> QED
      BY <3>1, <3>2 DEF Present
  <2>5. Valid(stored)
    BY <2>1, <2>3, <2>4, SameNeeds
  <2>6. pc'[p] = "insert" /\ instances' = instances /\ req'[p].rows = instances
    BY <1>2, <2>1
  <2>7. After(p)' = stored
    BY <2>6 DEF After
  <2>8. Valid(After(p))'
    BY <2>5, <2>7
  <2>9. Clears(p)' /\ Writes(p)'
    BY <2>1, <2>6, <2>8 DEF Clears, Writes, Destroying
  <2> QED
    BY <1>1, <1>4, <2>1, <2>9, BeginRequired
<1>6. CASE DeployBegin(p) \/ UpdateDeploymentBegin(p)
  <2>1. PICK l \in {"deploy", "save"} :
          /\ Begin(p, Present(instances), l) /\ CanBegin(p)
          /\ l = "save" => MaxActive <= 1
    BY <1>6 DEF DeployBegin, UpdateDeploymentBegin, Careful
  <2>2. pc'[p] = l /\ instances' = instances /\ req'[p].rows = instances
    BY <1>1, <1>2, <2>1
  <2>3. After(p)' = instances
    BY <2>2 DEF After
  <2>4. Valid(After(p))'
    BY <1>3, <2>3
  <2>5. Clears(p)' /\ Writes(p)'
    BY <2>1, <2>2, <2>4 DEF Clears, Writes, Writing, Destroying
  <2> QED
    BY <1>1, <1>4, <2>1, <2>5, BeginRequired
<1>7. CASE UpdateInstanceBegin(p)
  <2> DEFINE stored == [instances EXCEPT ![On[p]].variant = Resolved(p, @)]
  <2>1. Begin(p, {On[p]}, "store") /\ CanBegin(p) /\ Valid(stored) /\ MaxActive <= 1
    BY <1>7 DEF UpdateInstanceBegin, Careful
  <2>2. pc'[p] = "store" /\ instances' = instances /\ req'[p].rows = instances
    BY <1>1, <1>2, <2>1
  <2>3. After(p)' = stored
    BY <2>2 DEF After
  <2>4. Valid(After(p))'
    BY <2>1, <2>3
  <2>5. Clears(p)' /\ Writes(p)'
    BY <2>1, <2>2, <2>4 DEF Clears, Writes, Destroying
  <2> QED
    BY <1>1, <1>4, <2>1, <2>5, BeginRequired
<1>8. CASE DeleteInstanceBegin(p) \/ ResetBegin(p) \/ DeleteDeploymentBegin(p)
  <2>1. PICK queue \in SUBSET Stack :
          /\ Begin(p, queue, "destroy") /\ CanBegin(p)
          /\ Takes(p) \/ Op[p] = "reset"
          /\ Removes(p) => queue = Present(instances)
          /\ ~Removes(p) /\ Takes(p) =>
               queue = {On[p]} /\ Valid([instances EXCEPT ![On[p]] = NoRow])
    BY <1>1, <1>8 DEF DeleteInstanceBegin, ResetBegin, DeleteDeploymentBegin, Takes
  <2>2. /\ pc'[p] = "destroy" /\ instances' = instances /\ req'[p].rows = instances
        /\ req'[p].queue = queue
    BY <1>2, <2>1
  <2>3. ~Removes(p) /\ Takes(p) => Unneeded(On[p])
    BY <1>1, <1>3, <2>1, ValidatedUnneeded
  <2>4. \A s : UNCHANGED Unneeded(s)
    BY <2>2 DEF Unneeded, Present, Needs, Companions
  <2>5. Clears(p)' /\ Writes(p)'
    BY <2>1, <2>2, <2>3, <2>4 DEF Clears, Takes, Removes, Writes, Writing, Destroying, Present
  <2> QED
    BY <1>1, <1>4, <2>1, <2>5, BeginRequired
<1> QED
  BY <1>5, <1>6, <1>7, <1>8 DEF Arrive

\* Rows are written as they have been validated.
LEMMA WriteRequired ==
  ASSUME Careful, RequiredInv, Types, NEW p \in Request,
         InsertInstance(p) \/ StoreInstance(p) \/ SaveDeployment(p)
  PROVE  RequiredInv'
<1>1. /\ pc[p] \in Writing /\ p \in Actor
      /\ \A b \in Actor \ {p} : pc'[b] = pc[b] /\ req'[b] = req[b]
      /\ pc'[p] \in Ended \cup {"reload", "deploy"}
  BY DEF InsertInstance, StoreInstance, SaveDeployment, Fail, Finish, Goto, Types, Writing,
         Ended, Actor
<1>2. MaxActive <= 1 /\ req[p].rows = instances /\ Valid(After(p)) /\ Valid(instances)
  BY <1>1 DEF RequiredInv, Writes
<1>3. On[p] \in Stack
  BY DeploymentsAssumption
<1>4. instances' \in {instances, After(p)}
  <2>1. CASE InsertInstance(p)
    BY <2>1 DEF InsertInstance, After
  <2>2. CASE StoreInstance(p)
    <3>1. After(p) = [instances EXCEPT ![On[p]].variant = Resolved(p, @)]
      BY <2>2 DEF StoreInstance, After
    <3>2. instances' \in {instances, [instances EXCEPT
                             ![On[p]] = [instances[On[p]] EXCEPT !.variant = Resolved(p, @)]]}
      BY <1>2, <2>2 DEF StoreInstance
    <3> QED
      BY <1>3, <3>1, <3>2 DEF Types
  <2>3. CASE SaveDeployment(p)
    <3>1. instances \in [Stack -> Row]
      BY DEF Types
    <3>2. [s \in Stack |-> IF instances[s] = NoRow THEN instances[s] ELSE instances[s]]
            = instances
      BY <3>1
    <3> QED
      BY <1>2, <2>3, <3>2 DEF SaveDeployment, Rows
  <2> QED
    BY <2>1, <2>2, <2>3
<1>5. Valid(instances)'
  BY <1>2, <1>4
<1>6. Clears(p)' /\ Writes(p)' /\ pc[p] \notin Ended
  BY <1>1 DEF Clears, Writes, Writing, Ended, Destroying
<1> QED
  BY <1>1, <1>2, <1>5, <1>6, OneRequired

\* The instances that a destruction treats are needed by nothing that is left.
LEMMA FindRequired ==
  ASSUME RequiredInv, Types, NEW a \in Actor, NEW s \in Stack,
         FindInstance(a, s) \/ RowMissing(a, s)
  PROVE  RequiredInv'
<1>1. /\ pc[a] = "destroy" /\ DestroyedNext(a, s) /\ UNCHANGED instances
      /\ \A b \in Actor \ {a} : pc'[b] = pc[b] /\ req'[b] = req[b]
  BY DEF FindInstance, RowMissing, NotDestroyed, Fail, Goto, Types, Rows
<1>2. Valid(instances) /\ Clears(a)
  BY DEF RequiredInv
<1>3. \A t : UNCHANGED Unneeded(t)
  BY <1>1 DEF Unneeded, Present, Needs, Companions
<1>4. CASE FindInstance(a, s)
  <2>1. /\ pc'[a] = "uninstall" /\ req'[a].at = s
        /\ req'[a].queue = req[a].queue /\ req'[a].rows = req[a].rows
    BY <1>4 DEF FindInstance, Goto, Types, Pending
  <2>2. ASSUME Removes(a) PROVE Unneeded(s)
    <3>1. ASSUME NEW t \in Present(instances) PROVE s \notin Needs(instances, t)
      <4>1. t \in req[a].queue /\ instances[t] = req[a].rows[t]
        BY <1>1, <1>2, <2>2 DEF Clears, Destroying
      <4>2. Needs(instances, t) = Needs(req[a].rows, t)
        BY <4>1 DEF Needs, Companions
      <4> QED
        BY <1>1, <4>1, <4>2 DEF DestroyedNext
    <3> QED
      BY <3>1 DEF Unneeded
  <2>3. ASSUME ~Removes(a), Takes(a) PROVE Unneeded(s)
    BY <1>1, <1>2, <2>3 DEF Clears, Destroying, DestroyedNext
  <2>4. Clears(a)' /\ Writes(a)'
    BY <1>1, <1>2, <1>3, <2>1, <2>2, <2>3
       DEF Clears, Takes, Removes, Destroying, Writes, Writing, Present
  <2> QED
    BY <1>1, <1>2, <2>4, OneRequired DEF Ended
<1>5. CASE RowMissing(a, s) /\ Removes(a)
  <2>1. /\ pc'[a] = "destroy"
        /\ req'[a].queue = req[a].queue \ {s} /\ req'[a].rows = req[a].rows
    BY <1>5 DEF RowMissing, NotDestroyed, Goto, Types, Pending
  <2>2. s \notin Present(instances)
    BY <1>1, <1>2, <1>5 DEF RowMissing, Clears, Destroying
  <2>3. Clears(a)' /\ Writes(a)'
    BY <1>1, <1>2, <1>5, <2>1, <2>2 DEF Clears, Takes, Removes, Destroying, Writes, Writing, Present
  <2> QED
    BY <1>1, <1>2, <2>3, OneRequired DEF Ended
<1>6. CASE RowMissing(a, s) /\ ~Removes(a)
  <2>1. pc'[a] \in Ended
    BY <1>6 DEF RowMissing, NotDestroyed, Fail, Goto, Types, Ended
  <2> QED
    BY <1>1, <1>2, <2>1, RestRequired, OneRequired DEF Ended
<1> QED
  BY <1>4, <1>5, <1>6

\* The release and the volume go, the rows stay.
LEMMA DestroyRequired ==
  ASSUME RequiredInv, Types, NEW a \in Actor, DestroyRelease(a) \/ DeleteVolume(a)
  PROVE  RequiredInv'
<1>1. /\ pc[a] \in {"uninstall", "volume"} /\ UNCHANGED <<instances, req>>
      /\ \A b \in Actor \ {a} : pc'[b] = pc[b]
      /\ pc'[a] \in {"volume", "reload", "forget"}
  BY DEF DestroyRelease, DeleteVolume, Goto, Types, Rows
<1>2. Valid(instances) /\ Clears(a)
  BY DEF RequiredInv
<1>3. pc'[a] = "forget" => Takes(a)
  BY <1>1, <1>2 DEF DestroyRelease, DeleteVolume, Goto, Types, Clears, Destroying, Takes
<1>4. \A t : UNCHANGED Unneeded(t)
  BY <1>1 DEF Unneeded, Present, Needs, Companions
<1>5. Clears(a)' /\ Writes(a)'
  BY <1>1, <1>2, <1>3, <1>4 DEF Clears, Takes, Removes, Destroying, Writes, Writing, Present
<1> QED
  BY <1>1, <1>2, <1>5, OneRequired DEF Ended

\* The row goes.
LEMMA ForgetRequired ==
  ASSUME RequiredInv, Types, Aimed, NEW a \in Actor, ForgetInstance(a)
  PROVE  RequiredInv'
<1> DEFINE s == req[a].at
<1>1. /\ pc[a] = "forget" /\ s \in Stack
      /\ instances' \in {instances, [instances EXCEPT ![s] = NoRow]}
      /\ instances[s].id = req[a].rows[s].id => instances' = [instances EXCEPT ![s] = NoRow]
      /\ req'[a].queue = req[a].queue \ {s} /\ req'[a].rows = req[a].rows
      /\ \A b \in Actor \ {a} : pc'[b] = pc[b] /\ req'[b] = req[b]
  BY DEF ForgetInstance, Dequeue, Finish, Goto, Types, Aimed, Pending
<1>2. Valid(instances) /\ Clears(a) /\ Unneeded(s)
  BY <1>1 DEF RequiredInv, Clears
<1>3. /\ \A t \in Stack : instances'[t] \in {instances[t], NoRow}
      /\ Present(instances) \ Present(instances)' \subseteq {s}
      /\ Present(instances)' \subseteq Present(instances)
  BY <1>1 DEF Types, Present
<1>4. Valid(instances)'
  <2>1. \A r \in Present(instances) \ Present(instances') :
          \A t \in Present(instances') : r \notin Needs(instances, t)
    BY <1>2, <1>3 DEF Unneeded
  <2> QED
    BY <1>2, <1>3, <2>1, FewerRows
<1>5. CASE Removes(a)
  <2>1. pc'[a] = "destroy"
    BY <1>5 DEF ForgetInstance, Goto, Types
  <2>2. s \notin Present(instances)'
    BY <1>1, <1>2, <1>5 DEF Clears, Destroying, Types, Present
  <2>3. \A t \in Present(instances)' : t \in Present(instances) /\ instances'[t] = instances[t]
    BY <1>3 DEF Present
  <2>4. Clears(a)' /\ Writes(a)'
    BY <1>1, <1>2, <1>5, <2>1, <2>2, <2>3
       DEF Clears, Takes, Removes, Destroying, Writes, Writing
  <2> QED
    BY <1>1, <1>3, <1>4, <2>4, OneRequired DEF Ended
<1>6. CASE ~Removes(a)
  <2>1. pc'[a] \in Ended
    BY <1>6 DEF ForgetInstance, Finish, Goto, Types, Ended
  <2> QED
    BY <1>1, <1>3, <1>4, <2>1, RestRequired, OneRequired DEF Ended
<1> QED
  BY <1>5, <1>6

LEMMA DropRequired ==
  ASSUME RequiredInv, Types, NEW a \in Actor, DropDeployment(a)
  PROVE  RequiredInv'
<1>1. /\ pc[a] = "destroy" /\ pc'[a] \in Ended
      /\ instances' \in {instances, NoRows}
      /\ \A b \in Actor \ {a} : pc'[b] = pc[b] /\ req'[b] = req[b]
  BY DEF DropDeployment, Fail, Finish, Goto, Types, Ended, Rows
<1>2. Valid(NoRows)
  <2>1. Present(NoRows) = {}
    BY DEF Present, NoRows
  <2> QED
    BY <2>1 DEF Valid
<1>3. Valid(instances)'
  BY <1>1, <1>2 DEF RequiredInv
<1>4. \A t \in Stack : instances'[t] \in {instances[t], NoRow}
  BY <1>1 DEF NoRows
<1> QED
  BY <1>1, <1>3, <1>4, RestRequired, OneRequired DEF Ended

\* Deployments write no rows.
LEMMA DeployRequired ==
  ASSUME RequiredInv, Types, NEW a \in Actor,
         \/ a \in Request /\ Reload(a)
         \/ \E s \in Stack : DeployInstance(a, s) \/ SyncFails(a, s) \/ SyncBusy(a, s)
  PROVE  RequiredInv'
<1>1. /\ pc[a] \in {"reload", "deploy"} /\ pc'[a] \in Ended \cup {"deploy"}
      /\ UNCHANGED instances
      /\ \A b \in Actor \ {a} : pc'[b] = pc[b] /\ req'[b] = req[b]
  BY DEF Reload, DeployInstance, SyncFails, SyncBusy, NextDeploy, Dequeue, Fail, Finish, Goto,
         Types, Ended, Rows
<1>2. Clears(a)' /\ Writes(a)'
  BY <1>1 DEF Clears, Writes, Writing, Ended, Destroying
<1>3. Valid(instances)'
  BY <1>1 DEF RequiredInv
<1> QED
  BY <1>1, <1>2, <1>3, OneRequired DEF Ended

LEMMA InspectRequired ==
  ASSUME RequiredInv, Types, InspectBegin \/ Handle
  PROVE  RequiredInv'
<1> DEFINE a == Inspector
<1>1. a \in Actor /\ Removes(a) /\ Valid(instances) /\ Present(instances) \in SUBSET Stack
  BY DEF Actor, Removes, RequiredInv, Present
<1>2. /\ UNCHANGED instances
      /\ \A b \in Actor \ {a} : pc'[b] = pc[b] /\ req'[b] = req[b]
      /\ pc'[a] \in {"handle", "idle", "destroy"}
      /\ pc'[a] = "destroy" => req'[a].queue = Present(instances) /\ req'[a].rows = instances
  BY DEF InspectBegin, Handle, Begin, Goto, Types, Rows, Idle, Actor
<1>3. Clears(a)' /\ Writes(a)'
  BY <1>1, <1>2 DEF Clears, Takes, Removes, Destroying, Writes, Writing, Present
<1>4. CASE InspectBegin
  BY <1>1, <1>3, <1>4, BeginRequired DEF InspectBegin, Label
<1>5. CASE Handle
  BY <1>1, <1>2, <1>3, <1>5, OneRequired DEF Handle, Ended
<1> QED
  BY <1>4, <1>5

LEMMA NextRequired ==
  ASSUME Careful, RequiredInv, Types, Aimed, [Next]_vars
  PROVE  RequiredInv'
<1>1. CASE UNCHANGED vars \/ Tick
  <2>1. UNCHANGED <<instances, pc, req>>
    BY <1>1 DEF vars, Tick, Rows
  <2>2. Valid(instances)' /\ (MaxActive <= 1 => \A b, c \in Active' : b = c)
    BY <2>1 DEF RequiredInv, Active
  <2>3. ASSUME NEW b \in Actor PROVE Clears(b)' /\ Writes(b)'
    <3>1. Clears(b) /\ Writes(b) /\ After(b)' = After(b)
      BY <2>1 DEF RequiredInv, After
    <3>2. \A s : UNCHANGED Unneeded(s)
      BY <2>1 DEF Unneeded, Present, Needs, Companions
    <3>3. Valid(After(b))' <=> Valid(After(b))
      BY <3>1
    <3>4. Clears(b)'
      BY <2>1, <3>1, <3>2 DEF Clears, Present
    <3> QED
      BY <2>1, <3>1, <3>3, <3>4 DEF Writes
  <2> QED
    BY <2>2, <2>3 DEF RequiredInv
<1>2. ASSUME NEW a \in Actor, Step(a) PROVE RequiredInv'
  BY <1>2, WriteRequired, DeployRequired, FindRequired, DestroyRequired, ForgetRequired,
     DropRequired, Requests DEF Step
<1>3. ASSUME NEW a \in Actor, Fault(a) PROVE RequiredInv'
  BY <1>3, DeployRequired DEF Fault, DestroyFails, VolumeFails, ForgetFails, CanFail, Careful
<1>4. CASE Crash
  <2>1. \A b \in Actor : pc'[b] \in Ended
    BY <1>4 DEF Crash, Ended
  <2>2. \A b \in Actor : Clears(b)' /\ Writes(b)'
    BY <2>1, RestRequired
  <2>3. Valid(instances)'
    BY <1>4 DEF Crash, RequiredInv, Rows
  <2> QED
    BY <2>1, <2>2, <2>3 DEF RequiredInv, Active
<1> QED
  BY <1>1, <1>2, <1>3, <1>4, ArriveRequired, InspectRequired DEF Next

\* An instance is there with everything that its stack and its parameters need, in every
\* state: while requests of any kind come one at a time, and while any number of deletions,
\* deployments and inspections overlap, and wherever the server stops.
THEOREM RequiredStays ==
  ASSUME Careful PROVE Spec => []RequiredPresent
<1>1. Init => TypeOK /\ RequiredInv
  BY InitType, InitRequired
<1>2. TypeOK /\ RequiredInv /\ [Next]_vars => (TypeOK /\ RequiredInv)'
  BY NextTypes, NextAimed, NextRequired DEF TypeOK
<1>3. RequiredInv => RequiredPresent
  BY DEF RequiredInv, RequiredPresent
<1> QED
  BY <1>1, <1>2, <1>3, PTL DEF Spec

-----------------------------------------------------------------------------
(* No release and no volume loses its record, when one request runs at a time. *)

\* What a request has still to treat has a record, and all that is left is in the queue of
\* a deletion of the deployment that has not failed.
Treats(a) ==
  /\ req[a].queue \subseteq Present(instances)
  /\ pc[a] \in Destroying /\ Removes(a) /\ ~req[a].failed => Kept \subseteq req[a].queue
  /\ pc[a] = "volume" => req[a].at \notin releases
  /\ pc[a] = "forget" => req[a].at \notin Kept

AloneInv ==
  /\ Recorded
  /\ \A s \in volumes : s \in Erases[s]
  /\ \A a, b \in Active : a = b
  /\ \A a \in Active : Treats(a)

LEMMA InitAlone == Init => AloneInv
<1> SUFFICES ASSUME Init PROVE AloneInv
  OBVIOUS
<1>1. Recorded
  BY DeploymentsAssumption DEF Init, Recorded, Kept, Present, NoRow, Id
<1> QED
  BY <1>1, DeploymentsAssumption DEF Init, AloneInv, Active, Ended

LEMMA OneTreats ==
  ASSUME AloneInv, NEW a \in Actor,
         pc[a] \notin Ended \/ \A b \in Actor : pc[b] \in Ended,
         \A b \in Actor \ {a} : pc'[b] = pc[b],
         Recorded', (\A s \in volumes : s \in Erases[s])',
         pc'[a] \notin Ended => Treats(a)'
  PROVE  AloneInv'
<1>1. \A b \in Actor \ {a} : pc'[b] \in Ended
  BY DEF AloneInv, Active
<1>2. Active' \subseteq {a}
  BY <1>1 DEF Active
<1> QED
  BY <1>2 DEF AloneInv, Active

\* The rows stay or others come; the cluster is left alone.
LEMMA SameKept ==
  ASSUME AloneInv, UNCHANGED Kube, Present(instances) \subseteq Present(instances)'
  PROVE  Recorded' /\ (\A s \in volumes : s \in Erases[s])'
BY DEF AloneInv, Recorded, Kept, Kube

LEMMA BeginTreats ==
  ASSUME MaxActive <= 1, AloneInv, Types, NEW a \in Actor,
         NEW l \in {"insert", "deploy", "destroy", "save", "store", "handle"},
         NEW queue \in SUBSET Present(instances), Begin(a, queue, l),
         CanBegin(a) \/ pc[a] = "handle",
         l = "destroy" /\ Removes(a) => queue = Present(instances)
  PROVE  AloneInv'
<1>1. /\ UNCHANGED <<Kube, instances>>
      /\ pc'[a] = l /\ \A b \in Actor \ {a} : pc'[b] = pc[b]
      /\ req'[a].queue = queue
  BY DEF Begin, Goto, Types, Idle, Rows
<1>2. pc[a] \notin Ended \/ \A b \in Actor : pc[b] \in Ended
  BY BeginsAlone DEF AloneInv, Ended
<1>3. Recorded' /\ (\A s \in volumes : s \in Erases[s])'
  BY <1>1, SameKept DEF Present
<1>4. Kept \subseteq Present(instances) /\ UNCHANGED <<Kept, Present(instances)>>
  BY <1>1 DEF AloneInv, Recorded, Kept, Kube, Present
<1>5. Treats(a)'
  BY <1>1, <1>4 DEF Treats, Destroying, Removes
<1> QED
  BY <1>1, <1>2, <1>3, <1>5, OneTreats

LEMMA ArriveTreats ==
  ASSUME MaxActive <= 1, AloneInv, Types, NEW p \in Request, Arrive(p)
  PROVE  AloneInv'
<1>1. PICK queue \in SUBSET Present(instances),
           l \in {"insert", "deploy", "destroy", "save", "store"} :
        /\ Begin(p, queue, l) /\ CanBegin(p)
        /\ l = "destroy" /\ Op[p] = "deleteDeployment" => queue = Present(instances)
  <2>1. On[p] \in Stack
    BY DeploymentsAssumption
  <2>2. CASE SaveInstanceBegin(p)
    BY <2>2 DEF SaveInstanceBegin
  <2>3. CASE DeployBegin(p) \/ DeleteDeploymentBegin(p) \/ UpdateDeploymentBegin(p)
    BY <2>3 DEF DeployBegin, DeleteDeploymentBegin, UpdateDeploymentBegin
  <2>4. CASE DeleteInstanceBegin(p) \/ ResetBegin(p) \/ UpdateInstanceBegin(p)
    <3>1. {On[p]} \in SUBSET Present(instances)
      BY <2>1, <2>4 DEF DeleteInstanceBegin, ResetBegin, UpdateInstanceBegin, Present
    <3> QED
      BY <2>4, <3>1 DEF DeleteInstanceBegin, ResetBegin, UpdateInstanceBegin
  <2> QED
    BY <2>2, <2>3, <2>4 DEF Arrive
<1>2. p \in Actor /\ (Removes(p) => Op[p] = "deleteDeployment")
  BY DeploymentsAssumption DEF Removes, Actor
<1> QED
  BY <1>1, <1>2, BeginTreats

\* Rows are written for what is there, or for what comes.
LEMMA WriteTreats ==
  ASSUME AloneInv, Types, NEW p \in Request,
         InsertInstance(p) \/ StoreInstance(p) \/ SaveDeployment(p) \/ Reload(p)
  PROVE  AloneInv'
<1>1. /\ p \in Actor /\ pc[p] \in {"insert", "store", "save", "reload"}
      /\ UNCHANGED <<Kube, req>>
      /\ \A b \in Actor \ {p} : pc'[b] = pc[b]
      /\ pc'[p] \in Ended \cup {"reload", "deploy"}
  BY DEF InsertInstance, StoreInstance, SaveDeployment, Reload, Fail, Finish, Goto, Types, Ended,
         Actor
<1>2. Present(instances) \subseteq Present(instances)'
  <2>1. p # None /\ On[p] \in Stack /\ instances \in [Stack -> Row]
    BY DeploymentsAssumption DEF Id, Types
  <2>2. CASE InsertInstance(p)
    BY <2>1, <2>2 DEF InsertInstance, Present, NoRow
  <2>3. CASE StoreInstance(p)
    <3> DEFINE old == req[p].rows[On[p]]
    <3>1. CASE instances[On[p]].id = old.id /\ On[p] \in Present(instances)
      <4>1. instances[On[p]].id # None
        BY <2>1, <3>1, DeploymentsAssumption DEF Present, Row
      <4>2. old \in Row
        BY <1>1, <2>1 DEF Types, Pending
      <4>3. [old EXCEPT !.variant = Resolved(p, @)].id = instances[On[p]].id
        BY <3>1, <4>2 DEF Row, NoRow
      <4>4. [old EXCEPT !.variant = Resolved(p, @)] # NoRow
        BY <4>1, <4>3 DEF NoRow
      <4> QED
        BY <2>1, <2>3, <3>1, <4>4 DEF StoreInstance, Present
    <3>2. CASE instances[On[p]].id # old.id
      BY <2>3, <3>2 DEF StoreInstance
    <3>3. CASE On[p] \notin Present(instances)
      BY <2>1, <2>3, <3>3 DEF StoreInstance, Present
    <3> QED
      BY <3>1, <3>2, <3>3
  <2>4. CASE SaveDeployment(p)
    BY <2>4 DEF SaveDeployment, Present, Rows
  <2>5. CASE Reload(p)
    BY <2>5 DEF Reload, Rows, Present
  <2> QED
    BY <2>2, <2>3, <2>4, <2>5
<1>3. Treats(p)
  BY <1>1 DEF AloneInv, Active, Ended
<1>4. pc'[p] \notin Ended => Treats(p)'
  BY <1>1, <1>2, <1>3 DEF Treats, Destroying
<1>5. Recorded' /\ (\A s \in volumes : s \in Erases[s])' /\ pc[p] \notin Ended
  BY <1>1, <1>2, SameKept DEF Ended
<1> QED
  BY <1>1, <1>4, <1>5, OneTreats

\* Releases and volumes come for the records in the queue.
LEMMA DeployTreats ==
  ASSUME AloneInv, Types, NEW a \in Actor, NEW s \in Stack,
         DeployInstance(a, s) \/ SyncFails(a, s) \/ SyncBusy(a, s)
  PROVE  AloneInv'
<1>1. /\ pc[a] = "deploy" /\ s \in req[a].queue /\ UNCHANGED instances
      /\ releases' \subseteq releases \cup {s}
      /\ volumes' \subseteq volumes \cup (Erases[s] \cap {s})
      /\ \A b \in Actor \ {a} : pc'[b] = pc[b]
      /\ pc'[a] \in Ended \cup {"deploy"}
      /\ req'[a].queue \subseteq req[a].queue
  BY DEF DeployInstance, SyncFails, SyncBusy, NextDeploy, Dequeue, DeployedNext, Fail, Finish,
         Goto, Types, Pending, Ended, Rows, Kube
<1>2. Treats(a) /\ pc[a] \notin Ended
  BY <1>1 DEF AloneInv, Active, Ended
<1>3. s \in Present(instances) /\ Present(instances)' = Present(instances)
  BY <1>1, <1>2 DEF Treats, Present
<1>4. Recorded'
  BY <1>1, <1>3 DEF AloneInv, Recorded, Kept
<1>5. (\A t \in volumes : t \in Erases[t])'
  BY <1>1 DEF AloneInv
<1>6. pc'[a] \notin Ended => Treats(a)'
  BY <1>1, <1>2, <1>3 DEF Treats, Destroying
<1> QED
  BY <1>1, <1>2, <1>4, <1>5, <1>6, OneTreats

\* Destructions: the release goes, then its volume.
LEMMA DestroyTreats ==
  ASSUME AloneInv, Types, Aimed, NEW a \in Actor,
         (\E s \in Stack : FindInstance(a, s)) \/ DestroyRelease(a) \/ DeleteVolume(a)
  PROVE  AloneInv'
<1>1. /\ pc[a] \in {"destroy", "uninstall", "volume"}
      /\ UNCHANGED instances /\ req'[a].queue = req[a].queue /\ req'[a].failed = req[a].failed
      /\ releases' \subseteq releases /\ volumes' \subseteq volumes
      /\ \A b \in Actor \ {a} : pc'[b] = pc[b]
      /\ pc'[a] \in {"uninstall", "volume", "forget", "reload"}
  BY DEF FindInstance, DestroyRelease, DeleteVolume, Goto, Types, Pending, Rows, Kube
<1>2. Treats(a) /\ pc[a] \notin Ended
  BY <1>1 DEF AloneInv, Active, Ended
<1>3. Present(instances)' = Present(instances) /\ Kept' \subseteq Kept
  BY <1>1 DEF Present, Kept
<1>4. Recorded' /\ (\A t \in volumes : t \in Erases[t])'
  BY <1>1, <1>3 DEF AloneInv, Recorded
<1>5. pc'[a] = "volume" => req'[a].at \notin releases'
  BY <1>1 DEF FindInstance, DestroyRelease, DeleteVolume, Goto, Types
<1>6. pc'[a] = "forget" => req'[a].at \notin Kept'
  <2>1. ASSUME pc'[a] = "forget" PROVE DeleteVolume(a)
    BY <2>1 DEF FindInstance, DestroyRelease, Goto, Types
  <2>2. ASSUME DeleteVolume(a) PROVE req'[a].at \notin Kept'
    BY <1>2, <2>2 DEF DeleteVolume, Treats, AloneInv, Kept
  <2> QED
    BY <2>1, <2>2
<1>7. Treats(a)'
  BY <1>1, <1>2, <1>3, <1>5, <1>6 DEF Treats, Destroying, Removes
<1> QED
  BY <1>1, <1>2, <1>4, <1>7, OneTreats

\* An instance that could not be destroyed as a whole: its record stays, and the
\* deployment's.
LEMMA FailTreats ==
  ASSUME AloneInv, Types, NEW a \in Actor, NEW s, NotDestroyed(a, s), pc[a] \notin Ended,
         UNCHANGED Rows, releases' \subseteq releases, volumes' \subseteq volumes
  PROVE  AloneInv'
<1>1. \A b \in Actor \ {a} : pc'[b] = pc[b]
  BY DEF NotDestroyed, Fail, Goto, Types
<1>2. UNCHANGED Present(instances) /\ Treats(a)
  BY DEF Rows, Present, AloneInv, Active
<1>3. Recorded' /\ (\A t \in volumes : t \in Erases[t])'
  BY <1>2 DEF AloneInv, Recorded, Kept
<1>4. CASE Removes(a)
  <2>1. pc'[a] = "destroy" /\ req'[a].failed /\ req'[a].queue \subseteq req[a].queue
    BY <1>4 DEF NotDestroyed, Goto, Types, Pending
  <2>2. Treats(a)'
    BY <1>2, <2>1 DEF Treats
  <2> QED
    BY <1>1, <1>3, <2>2, OneTreats
<1>5. CASE ~Removes(a)
  <2>1. pc'[a] \in Ended
    BY <1>5 DEF NotDestroyed, Fail, Goto, Types, Ended
  <2> QED
    BY <1>1, <1>3, <2>1, OneTreats
<1> QED
  BY <1>4, <1>5

\* Records go after the releases and the volumes.
LEMMA ForgetTreats ==
  ASSUME AloneInv, Types, Aimed, NEW a \in Actor, ForgetInstance(a) \/ DropDeployment(a)
  PROVE  AloneInv'
<1>1. /\ pc[a] \in {"forget", "destroy"} /\ UNCHANGED Kube
      /\ \A b \in Actor \ {a} : pc'[b] = pc[b]
  BY DEF ForgetInstance, DropDeployment, Fail, Finish, Goto, Types
<1>2. Treats(a) /\ pc[a] \notin Ended
  BY <1>1 DEF AloneInv, Active, Ended
<1>3. UNCHANGED <<Kept, volumes>> /\ (\A t \in volumes : t \in Erases[t])'
  BY <1>1 DEF Kept, Kube, AloneInv
<1>4. CASE ForgetInstance(a)
  <2> DEFINE s == req[a].at
  <2>1. /\ pc[a] = "forget" /\ s \in Stack
        /\ instances' \in {instances, [instances EXCEPT ![s] = NoRow]}
        /\ req'[a].queue = req[a].queue \ {s} /\ req'[a].failed = req[a].failed
        /\ pc'[a] \in Ended \cup {"destroy"}
    BY <1>4 DEF ForgetInstance, Dequeue, Finish, Goto, Types, Aimed, Pending, Ended
  <2>2. s \notin Kept
    BY <1>2, <2>1 DEF Treats
  <2>3. Present(instances) \ {s} \subseteq Present(instances)'
    BY <2>1 DEF Present, Types
  <2>4. Recorded'
    BY <1>3, <2>2, <2>3 DEF AloneInv, Recorded
  <2>5. pc'[a] \notin Ended => Treats(a)'
    BY <1>2, <1>3, <2>1, <2>2, <2>3 DEF Treats, Destroying, Removes, Ended
  <2> QED
    BY <1>1, <1>2, <1>3, <2>4, <2>5, OneTreats
<1>5. CASE DropDeployment(a)
  <2>1. req[a].failed \/ Kept = {}
    BY <1>2, <1>5 DEF DropDeployment, Treats, Destroying
  <2>2. Recorded'
    BY <1>3, <1>5, <2>1 DEF DropDeployment, Recorded, Present, Rows, AloneInv
  <2>3. pc'[a] \in Ended
    BY <1>5 DEF DropDeployment, Fail, Finish, Goto, Types, Ended
  <2> QED
    BY <1>1, <1>2, <1>3, <2>2, <2>3, OneTreats
<1> QED
  BY <1>4, <1>5

LEMMA InspectTreats ==
  ASSUME MaxActive <= 1, AloneInv, Types, InspectBegin \/ Handle
  PROVE  AloneInv'
<1>1. Inspector \in Actor
  BY DEF Actor
<1>2. CASE InspectBegin
  BY <1>1, <1>2, BeginTreats DEF InspectBegin
<1>3. CASE Handle /\ Begin(Inspector, Present(instances), "destroy")
  BY <1>1, <1>3, BeginTreats DEF Handle
<1>4. CASE Handle /\ ~Begin(Inspector, Present(instances), "destroy")
  <2>1. /\ pc[Inspector] \notin Ended /\ pc'[Inspector] \in Ended
        /\ UNCHANGED <<instances, Kube>>
        /\ \A b \in Actor \ {Inspector} : pc'[b] = pc[b]
    BY <1>1, <1>4 DEF Handle, Goto, Types, Ended, Rows
  <2> QED
    BY <1>1, <2>1, SameKept, OneTreats DEF Present
<1> QED
  BY <1>2, <1>3, <1>4

LEMMA NextTreats ==
  ASSUME MaxActive <= 1, AloneInv, Types, Aimed, [Next]_vars
  PROVE  AloneInv'
<1>1. CASE UNCHANGED vars \/ Tick
  <2>1. UNCHANGED <<instances, releases, volumes, pc, req>>
    BY <1>1 DEF vars, Tick, Rows, Kube
  <2> QED
    BY <2>1 DEF AloneInv, Active, Treats, Recorded, Kept, Present
<1>2. ASSUME NEW a \in Actor, Step(a) PROVE AloneInv'
  <2>1. ASSUME NEW s \in Stack, RowMissing(a, s) PROVE AloneInv'
    BY <2>1, FailTreats DEF RowMissing, Ended, Kube
  <2> QED
    BY <1>2, <2>1, WriteTreats, DeployTreats, DestroyTreats, ForgetTreats, Requests DEF Step
<1>3. ASSUME NEW a \in Actor, Fault(a) PROVE AloneInv'
  <2>1. CASE DestroyFails(a) \/ VolumeFails(a) \/ ForgetFails(a)
    <3>1. /\ NotDestroyed(a, req[a].at) /\ pc[a] \notin Ended
          /\ releases' \subseteq releases /\ volumes' \subseteq volumes
      BY <2>1 DEF DestroyFails, VolumeFails, ForgetFails, Ended, Kube
    <3>2. UNCHANGED Rows
      BY <2>1 DEF DestroyFails, VolumeFails, ForgetFails
    <3> QED
      BY <3>1, <3>2, FailTreats
  <2> QED
    BY <1>3, <2>1, DeployTreats DEF Fault
<1>4. CASE Crash
  <2>1. Active' = {} /\ UNCHANGED <<Kube, instances>>
    BY <1>4 DEF Crash, Active, Ended, Rows
  <2> QED
    BY <2>1, SameKept DEF AloneInv, Present
<1> QED
  BY <1>1, <1>2, <1>3, <1>4, ArriveTreats, InspectTreats DEF Next

\* While requests of any kind come one at a time, whatever fails and wherever the server
\* stops, what has a release or a volume keeps its record.
THEOREM NothingOrphanedAlone ==
  ASSUME MaxActive <= 1 PROVE Spec => []NoOrphans
<1>1. Init => TypeOK /\ AloneInv
  BY InitType, InitAlone
<1>2. TypeOK /\ AloneInv /\ [Next]_vars => (TypeOK /\ AloneInv)'
  BY NextTypes, NextAimed, NextTreats DEF TypeOK
<1>3. AloneInv => NoOrphans
  BY DEF AloneInv, Recorded, Kept, NoOrphans
<1> QED
  BY <1>1, <1>2, <1>3, PTL DEF Spec

-----------------------------------------------------------------------------
(* No request waits for an instance to be deployed or destroyed first.        *)

\* While instances are left to deploy or to destroy, one of them is next.
SomeNext ==
  \A a \in Actor :
    /\ pc[a] = "deploy" => \E s \in Stack : DeployedNext(a, s)
    /\ pc[a] = "destroy" /\ (req[a].queue # {} \/ ~Removes(a)) =>
         \E s \in Stack : DestroyedNext(a, s)

\* A single instance, or a part of a graph that has been validated as it was read.
Orderable(a) == \/ \E s \in Stack : req[a].queue \subseteq {s}
                \/ req[a].queue \subseteq Present(req[a].rows) /\ Valid(req[a].rows)

Queued(a) ==
  /\ pc[a] = "save" => req[a].queue = Present(req[a].rows)
  /\ pc[a] \in Destroying \cup {"store", "reload", "deploy"} => Orderable(a)
  /\ \/ pc[a] \in {"store", "reload", "deploy"}
     \/ pc[a] \in Destroying /\ ~Removes(a)
     => req[a].queue # {}

\* The reversed order is an order as well: of finitely many instances without a cycle, one
\* is needed by no other.
LEMMA NoneNeeds ==
  ASSUME IsFiniteSet(Stack), NEW rows, Valid(rows), NEW S \in SUBSET Present(rows), S # {}
  PROVE  \E s \in S : \A t \in S : s \notin Needs(rows, t)
<1> SUFFICES ASSUME \A s \in S : \E t \in S : s \in Needs(rows, t)
             PROVE  FALSE
  OBVIOUS
<1> DEFINE C == {X \in SUBSET S : X # {} /\ \A s \in X : \E t \in X : s \in Needs(rows, t)}
<1>1. S \in C /\ C \subseteq SUBSET S
  OBVIOUS
<1>2. IsWellFoundedOn(StrictSubsetOrdering(S), SUBSET S)
  <2>1. S \subseteq Stack
    BY DEF Present
  <2>2. IsFiniteSet(S)
    BY <2>1, FS_Subset
  <2> QED
    BY <2>2, FS_FiniteSubsetsOfFinite, FS_StrictSubsetOrderingWellFounded
<1>3. PICK X \in C : \A Y \in C : <<Y, X>> \notin StrictSubsetOrdering(S)
  <2> HIDE DEF C
  <2> QED
    BY <1>1, <1>2, WFMin
<1>4. PICK m \in X : Needs(rows, m) \cap X = {}
  BY <1>3 DEF Valid
<1>5. X \ {m} \in C
  <2>1. PICK t \in X : m \in Needs(rows, t)
    BY <1>3, <1>4
  <2>2. t \in X \ {m}
    BY <1>4, <2>1
  <2>3. ASSUME NEW s \in X \ {m} PROVE \E r \in X \ {m} : s \in Needs(rows, r)
    BY <1>3, <1>4, <2>3
  <2> QED
    BY <1>3, <2>2, <2>3
<1>6. <<X \ {m}, X>> \in StrictSubsetOrdering(S)
  BY <1>3, <1>4 DEF StrictSubsetOrdering
<1> QED
  BY <1>3, <1>5, <1>6

\* No stack needs itself, of the finitely many.
SelfFree == /\ IsFiniteSet(Stack)
            /\ \A s \in Stack : s \notin Requires[s] /\ \A v \in Variant : s \notin Companion[<<s, v>>]

LEMMA NextOfQueue ==
  ASSUME SelfFree, Types, NEW a \in Actor, Orderable(a), req[a].queue # {}
  PROVE  /\ \E s \in Stack : DeployedNext(a, s)
         /\ \E s \in Stack : DestroyedNext(a, s)
<1> DEFINE rows == req[a].rows
           Q    == req[a].queue
<1>1. rows \in [Stack -> Row] /\ Q \subseteq Stack
  BY DEF Types, Pending
<1>2. CASE \E s \in Stack : Q \subseteq {s}
  <2>1. PICK s \in Stack : Q = {s}
    BY <1>2
  <2>2. rows[s].variant \in Variant \cup {None}
    BY <1>1 DEF Row, NoRow
  <2>3. s \notin Needs(rows, s)
    BY <2>2 DEF Needs, Companions, SelfFree
  <2> QED
    BY <2>1, <2>3 DEF DeployedNext, DestroyedNext
<1>3. CASE Q \subseteq Present(rows) /\ Valid(rows)
  <2>1. \E s \in Q : Needs(rows, s) \cap Q = {}
    BY <1>3 DEF Valid
  <2>2. \E s \in Q : \A t \in Q : s \notin Needs(rows, t)
    BY <1>3, NoneNeeds DEF SelfFree
  <2> QED
    BY <1>1, <2>1, <2>2 DEF DeployedNext, DestroyedNext
<1> QED
  BY <1>2, <1>3 DEF Orderable

LEMMA RestQueued == ASSUME NEW a \in Actor, pc'[a] \in Ended \cup {"insert", "handle"}
                    PROVE  Queued(a)'
BY DEF Queued, Ended, Destroying

\* What is left of a queue can be ordered as it could before.
LEMMA StaysOrderable ==
  ASSUME NEW a \in Actor, Orderable(a),
         req'[a].rows = req[a].rows, req'[a].queue \subseteq req[a].queue
  PROVE  Orderable(a)'
<1>1. Valid(req[a].rows)' <=> Valid(req[a].rows)
  OBVIOUS
<1>2. Present(req[a].rows)' = Present(req[a].rows)
  OBVIOUS
<1> QED
  BY <1>1, <1>2 DEF Orderable

\* A request goes on with the queue or a part of it.
LEMMA GoesOn ==
  ASSUME NEW a \in Actor, Orderable(a),
         pc'[a] \in Destroying \cup {"store", "reload", "deploy"},
         req'[a].rows = req[a].rows, req'[a].queue \subseteq req[a].queue,
         req'[a].queue # {} \/ (Removes(a) /\ pc'[a] \in Destroying)
  PROVE  Queued(a)'
BY StaysOrderable DEF Queued, Removes, Destroying

\* Only what a request does itself disturbs its queue.
LEMMA OneQueued ==
  ASSUME \A b \in Actor : Queued(b), NEW a \in Actor, Queued(a)',
         \A b \in Actor \ {a} : pc'[b] = pc[b] /\ req'[b] = req[b]
  PROVE  \A b \in Actor : Queued(b)'
<1>1. ASSUME NEW b \in Actor \ {a} PROVE Queued(b)'
  <2>1. Queued(b) /\ pc'[b] = pc[b] /\ req'[b] = req[b]
    BY DEF Queued
  <2>2. Orderable(b) => Orderable(b)'
    BY <2>1, StaysOrderable
  <2>3. Present(req[b].rows)' = Present(req[b].rows)
    BY <2>1
  <2> QED
    BY <2>1, <2>2, <2>3 DEF Queued, Removes
<1> QED
  BY <1>1

LEMMA BeginQueued ==
  ASSUME Types, NEW a \in Actor, NEW queue \in SUBSET Present(instances),
         NEW l \in {"deploy", "destroy", "save", "store"}, Begin(a, queue, l),
         Valid(instances) \/ \E s \in Stack : queue = {s} \/ l = "save",
         l = "save" => queue = Present(instances),
         l \in {"deploy", "store"} \/ ~Removes(a) => l = "save" \/ queue # {}
  PROVE  Queued(a)'
<1>1. pc'[a] = l /\ req'[a].rows = instances /\ req'[a].queue = queue
  BY DEF Begin, Goto, Types, Idle
<1>2. l # "save" => Orderable(a)'
  <2>1. Valid(req[a].rows)' <=> Valid(instances)
    BY <1>1
  <2>2. Present(req[a].rows)' = Present(instances)
    BY <1>1
  <2> QED
    BY <1>1, <2>1, <2>2 DEF Orderable
<1>3. Present(req[a].rows)' = Present(instances)
  BY <1>1
<1> QED
  BY <1>1, <1>2, <1>3 DEF Queued, Removes, Destroying

LEMMA ArriveQueued ==
  ASSUME Types, \A b \in Actor : Queued(b), NEW p \in Request, Arrive(p)
  PROVE  \A b \in Actor : Queued(b)'
<1>1. p \in Actor /\ On[p] \in Stack /\ (Removes(p) => Op[p] = "deleteDeployment")
  BY DeploymentsAssumption DEF Actor, Removes
<1>2. \A b \in Actor \ {p} : pc'[b] = pc[b] /\ req'[b] = req[b]
  BY DEF Arrive, SaveInstanceBegin, DeployBegin, DeleteInstanceBegin, DeleteDeploymentBegin,
         UpdateDeploymentBegin, ResetBegin, UpdateInstanceBegin, Begin, Goto, Types
<1>3. CASE SaveInstanceBegin(p)
  <2>1. pc'[p] = "insert"
    BY <1>1, <1>3 DEF SaveInstanceBegin, Begin, Goto, Types
  <2> QED
    BY <1>1, <1>2, <2>1, RestQueued, OneQueued
<1>4. CASE DeployBegin(p)
  <2>1. Queued(p)'
    BY <1>1, <1>4, BeginQueued DEF DeployBegin
  <2> QED
    BY <1>1, <1>2, <2>1, OneQueued
<1>5. CASE DeleteDeploymentBegin(p)
  <2>1. Removes(p) /\ Begin(p, Present(instances), "destroy") /\ Valid(instances)
    BY <1>5 DEF DeleteDeploymentBegin, Removes
  <2>2. Queued(p)'
    BY <1>1, <2>1, BeginQueued
  <2> QED
    BY <1>1, <1>2, <2>2, OneQueued
<1>6. CASE UpdateDeploymentBegin(p)
  <2>1. Queued(p)'
    BY <1>1, <1>6, BeginQueued DEF UpdateDeploymentBegin
  <2> QED
    BY <1>1, <1>2, <2>1, OneQueued
<1>7. CASE DeleteInstanceBegin(p) \/ ResetBegin(p) \/ UpdateInstanceBegin(p)
  <2>1. {On[p]} \in SUBSET Present(instances) /\ {On[p]} # {}
    BY <1>1, <1>7 DEF DeleteInstanceBegin, ResetBegin, UpdateInstanceBegin, Present
  <2>2. Begin(p, {On[p]}, "destroy") \/ Begin(p, {On[p]}, "store")
    BY <1>7 DEF DeleteInstanceBegin, ResetBegin, UpdateInstanceBegin
  <2>3. Queued(p)'
    BY <1>1, <2>1, <2>2, BeginQueued
  <2> QED
    BY <1>1, <1>2, <2>3, OneQueued
<1> QED
  BY <1>3, <1>4, <1>5, <1>6, <1>7 DEF Arrive

LEMMA WriteQueued ==
  ASSUME Types, \A b \in Actor : Queued(b), NEW p \in Request,
         InsertInstance(p) \/ StoreInstance(p) \/ SaveDeployment(p) \/ Reload(p)
  PROVE  \A b \in Actor : Queued(b)'
<1>1. /\ p \in Actor /\ UNCHANGED req
      /\ \A b \in Actor \ {p} : pc'[b] = pc[b]
  BY DEF InsertInstance, StoreInstance, SaveDeployment, Reload, Fail, Finish, Goto, Types, Actor
<1>2. CASE pc'[p] \in Ended
  BY <1>1, <1>2, RestQueued, OneQueued
<1>3. CASE pc'[p] \notin Ended
  <2>1. \/ pc[p] \in {"store", "reload"} /\ pc'[p] \in {"reload", "deploy"}
        \/ /\ pc[p] = "save" /\ pc'[p] = "deploy"
           /\ Present(req[p].rows) # {} /\ Valid(req[p].rows)
    BY <1>1, <1>3 DEF InsertInstance, StoreInstance, SaveDeployment, Reload, Fail, Finish, Goto,
                      Types, Ended
  <2>2. Orderable(p) /\ req[p].queue # {}
    BY <1>1, <2>1 DEF Queued, Orderable
  <2>3. Queued(p)'
    BY <1>1, <2>1, <2>2, GoesOn
  <2> QED
    BY <1>1, <2>3, OneQueued
<1> QED
  BY <1>2, <1>3

LEMMA DeployQueued ==
  ASSUME Types, \A b \in Actor : Queued(b), NEW a \in Actor, NEW s \in Stack,
         DeployInstance(a, s) \/ SyncFails(a, s) \/ SyncBusy(a, s)
  PROVE  \A b \in Actor : Queued(b)'
<1>1. /\ pc[a] = "deploy" /\ \A b \in Actor \ {a} : pc'[b] = pc[b] /\ req'[b] = req[b]
      /\ pc'[a] \in Ended \cup {"deploy"}
  BY DEF DeployInstance, SyncFails, SyncBusy, NextDeploy, Dequeue, Fail, Finish, Goto, Types, Ended
<1>2. CASE pc'[a] \in Ended
  BY <1>1, <1>2, RestQueued, OneQueued
<1>3. CASE pc'[a] \notin Ended
  <2>1. /\ req'[a].rows = req[a].rows /\ req'[a].queue = req[a].queue \ {s}
        /\ s \in req[a].queue /\ req[a].queue # {s}
    BY <1>1, <1>3 DEF DeployInstance, SyncFails, SyncBusy, NextDeploy, Dequeue, DeployedNext, Fail,
                      Finish, Goto, Types, Pending, Ended
  <2>2. Orderable(a)
    BY <1>1 DEF Queued
  <2>3. Queued(a)'
    BY <1>1, <1>3, <2>1, <2>2, GoesOn
  <2> QED
    BY <1>1, <2>3, OneQueued
<1> QED
  BY <1>2, <1>3

LEMMA DestroyQueued ==
  ASSUME Types, \A b \in Actor : Queued(b), NEW a \in Actor,
         \/ \E s \in Stack : FindInstance(a, s)
         \/ DestroyRelease(a) \/ DeleteVolume(a)
  PROVE  \A b \in Actor : Queued(b)'
<1>1. /\ pc[a] \in Destroying /\ pc'[a] \in {"uninstall", "volume", "forget", "reload"}
      /\ pc'[a] = "reload" => ~Removes(a)
      /\ req'[a].rows = req[a].rows /\ req'[a].queue = req[a].queue
      /\ \A b \in Actor \ {a} : pc'[b] = pc[b] /\ req'[b] = req[b]
  BY DEF FindInstance, DestroyRelease, DeleteVolume, Goto, Types, Pending, Destroying
<1>2. Orderable(a) /\ (req[a].queue # {} \/ Removes(a))
  BY <1>1 DEF Queued
<1>3. Queued(a)'
  BY <1>1, <1>2, GoesOn DEF Destroying
<1> QED
  BY <1>1, <1>3, OneQueued

\* A destruction that fails, that ends, or that goes on with the next.
LEMMA LeaveQueued ==
  ASSUME Types, \A b \in Actor : Queued(b), NEW a \in Actor,
         \/ \E s : NotDestroyed(a, s)
         \/ ForgetInstance(a) \/ DropDeployment(a),
         pc[a] \in Destroying
  PROVE  \A b \in Actor : Queued(b)'
<1>1. /\ \A b \in Actor \ {a} : pc'[b] = pc[b] /\ req'[b] = req[b]
      /\ \/ pc'[a] \in Ended
         \/ pc'[a] = "destroy" /\ Removes(a)
  BY DEF NotDestroyed, ForgetInstance, DropDeployment, Dequeue, Fail, Finish, Goto, Types, Ended
<1>2. CASE pc'[a] \in Ended
  BY <1>1, <1>2, RestQueued, OneQueued
<1>3. CASE pc'[a] = "destroy" /\ Removes(a)
  <2>1. req'[a].rows = req[a].rows /\ req'[a].queue \subseteq req[a].queue
    <3>1. req[a] \in Pending
      BY DEF Types
    <3>2. ASSUME NEW s, NotDestroyed(a, s)
          PROVE  req'[a].rows = req[a].rows /\ req'[a].queue \subseteq req[a].queue
      <4>1. req' = [req EXCEPT ![a].queue = @ \ {s}, ![a].at = None, ![a].failed = TRUE]
        BY <1>3, <3>2 DEF NotDestroyed
      <4>2. req' = [req EXCEPT ![a] = [req[a] EXCEPT !.queue = @ \ {s}, !.at = None,
                                                      !.failed = TRUE]]
        BY <4>1
      <4> QED
        BY <3>1, <4>2 DEF Types, Pending
    <3>3. CASE ForgetInstance(a)
      BY <3>1, <3>3 DEF ForgetInstance, Dequeue, Types, Pending
    <3>4. CASE DropDeployment(a)
      BY <3>4 DEF DropDeployment
    <3> QED
      BY <3>2, <3>3, <3>4
  <2>2. Orderable(a)
    BY DEF Queued
  <2>3. Queued(a)'
    BY <1>3, <2>1, <2>2, GoesOn DEF Destroying
  <2> QED
    BY <1>1, <2>3, OneQueued
<1> QED
  BY <1>1, <1>2, <1>3

LEMMA NextQueued ==
  ASSUME Types, \A b \in Actor : Queued(b), [Next]_vars
  PROVE  \A b \in Actor : Queued(b)'
<1>1. CASE UNCHANGED vars \/ Tick
  <2>1. UNCHANGED <<pc, req>> /\ Inspector \in Actor
    BY <1>1 DEF vars, Tick, Actor
  <2>2. Orderable(Inspector) => Orderable(Inspector)'
    BY <2>1, StaysOrderable
  <2>3. Present(req[Inspector].rows)' = Present(req[Inspector].rows)
    BY <2>1
  <2>4. Queued(Inspector)'
    BY <2>1, <2>2, <2>3 DEF Queued, Removes
  <2> QED
    BY <2>1, <2>4, OneQueued
<1>2. ASSUME NEW a \in Actor, Step(a) PROVE \A b \in Actor : Queued(b)'
  <2>1. ASSUME NEW s \in Stack, RowMissing(a, s) PROVE \A b \in Actor : Queued(b)'
    BY <2>1, LeaveQueued DEF RowMissing, Destroying
  <2>2. CASE ForgetInstance(a) \/ DropDeployment(a)
    BY <2>2, LeaveQueued DEF ForgetInstance, DropDeployment, Destroying
  <2> QED
    BY <1>2, <2>1, <2>2, WriteQueued, DeployQueued, DestroyQueued, Requests DEF Step
<1>3. ASSUME NEW a \in Actor, Fault(a) PROVE \A b \in Actor : Queued(b)'
  <2>1. CASE DestroyFails(a) \/ VolumeFails(a) \/ ForgetFails(a)
    BY <2>1, LeaveQueued DEF DestroyFails, VolumeFails, ForgetFails, Destroying
  <2> QED
    BY <1>3, <2>1, DeployQueued DEF Fault
<1>4. CASE InspectBegin \/ Handle
  <2>1. /\ Inspector \in Actor /\ Removes(Inspector)
        /\ \A b \in Actor \ {Inspector} : pc'[b] = pc[b] /\ req'[b] = req[b]
    BY <1>4 DEF InspectBegin, Handle, Begin, Goto, Types, Actor, Removes
  <2>2. CASE pc'[Inspector] \in Ended \cup {"handle"}
    BY <2>1, <2>2, RestQueued, OneQueued
  <2>3. CASE pc'[Inspector] \notin Ended \cup {"handle"}
    <3>1. Begin(Inspector, Present(instances), "destroy") /\ Valid(instances)
      BY <1>4, <2>1, <2>3 DEF InspectBegin, Handle, Begin, Goto, Types, Ended
    <3>2. Queued(Inspector)'
      BY <2>1, <3>1, BeginQueued
    <3> QED
      BY <2>1, <3>2, OneQueued
  <2> QED
    BY <2>2, <2>3
<1>5. CASE Crash
  <2>1. \A b \in Actor : pc'[b] \in Ended
    BY <1>5 DEF Crash, Ended
  <2> QED
    BY <2>1, RestQueued
<1> QED
  BY <1>1, <1>2, <1>3, <1>4, <1>5, ArriveQueued DEF Next

\* No loop over the instances waits for one of them: of those that a deployment or a
\* destruction has still to treat, however it has come to them and whatever has failed on
\* the way, one is next (DeploymentOrder, service.go 416-426; DeleteDeployment, 505-530).
THEOREM NeverStuck ==
  ASSUME SelfFree PROVE Spec => []SomeNext
<1> DEFINE Inv == TypeOK /\ \A a \in Actor : Queued(a)
<1>1. Init => Inv
  <2> SUFFICES ASSUME Init PROVE \A a \in Actor : Queued(a)
    BY InitType
  <2> QED
    BY DEF Init, Queued, Destroying
<1>2. Inv /\ [Next]_vars => Inv'
  BY NextTypes, NextAimed, NextQueued DEF TypeOK
<1>3. Inv => SomeNext
  <2> SUFFICES ASSUME Inv, NEW a \in Actor,
                      \/ pc[a] = "deploy"
                      \/ pc[a] = "destroy" /\ (req[a].queue # {} \/ ~Removes(a))
               PROVE  /\ \E s \in Stack : DeployedNext(a, s)
                      /\ \E s \in Stack : DestroyedNext(a, s)
    BY DEF SomeNext
  <2>1. Types /\ Queued(a)
    BY DEF TypeOK
  <2>2. Orderable(a) /\ req[a].queue # {}
    BY <2>1 DEF Queued, Destroying
  <2> QED
    BY <2>1, <2>2, NextOfQueue
<1> QED
  BY <1>1, <1>2, <1>3, PTL DEF Spec
=============================================================================
