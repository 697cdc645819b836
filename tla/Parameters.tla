------------------------------ MODULE Parameters ------------------------------
(***************************************************************************)
(* The parameters of the instances of a deployment: how they are resolved   *)
(* and stored (src/pkg/instance/service.go), and what the releases are      *)
(* deployed with and seeded from (src/pkg/deployment/service.go).           *)
(*                                                                         *)
(* An instance is named by its stack.  Instances are added, never removed:  *)
(* that, and which instances may be there together, is Deployments'.        *)
(***************************************************************************)
EXTENDS Stacks

CONSTANTS
  Param,      \* the parameters that are looked at: stored ones, not those of a provider
  Value,      \* their values, but for Empty
  Empty,      \* what a parameter without a default has; DATABASE_ID 0 and "" alike
  Preset,     \* [stack -> its parameters]: the instances deployed initially
  Request,
  Op,         \* [Request -> Operation]: what a request does,
  On,         \* [Request -> Stack]: to the instance of which stack,
  With,       \* [Request -> [own parameters of the stack -> Value]]: supplying which
  MaxActive,  \* bound: how many requests run at once
  MaxFaults   \* bound: how many calls fail

Operation == {"saveInstance", "updateInstance", "deploy", "reset"}

Own(s)      == Catalogue[s].own \cap Param
Consumed(s) == Catalogue[s].consumed \cap Param
Row(s)      == [Own(s) \cup Consumed(s) -> Value \cup {Empty}]

ASSUME ParametersAssumption ==
  /\ Empty \notin Value \cup Request
  /\ \A s \in Stack : Param \cap Catalogue[s].provides = {}
  /\ "dhis2-db" \in DOMAIN Preset /\ "DATABASE_ID" \in Own("dhis2-db")
  /\ Preset = [s \in DOMAIN Preset |-> Preset[s]]
  /\ DOMAIN Preset \subseteq Stack /\ \A s \in DOMAIN Preset : Preset[s] \in Row(s)
  /\ Op \in [Request -> Operation] /\ On \in [Request -> Stack]
  /\ \A r \in Request : DOMAIN With[r] \subseteq Own(On[r]) /\ \A p \in DOMAIN With[r] : With[r][p] \in Value
  /\ MaxActive \in Nat /\ MaxFaults \in Nat

VARIABLES
  rows,       \* the instances that are stored, and their parameters
  releases,   \* those that are deployed: [params, seed], seed the DATABASE_ID
  helm,       \* stack -> the request that Helm works for, or Empty
  pc,         \* where each request is
  req,        \* what each has read and resolved, and the stacks it has yet to deploy
  faults,     \* calls that have failed
  stale,      \* the instances whose providers were stored since they were resolved
  disturbed   \* a call has failed, or two requests have overlapped

vars == <<rows, releases, helm, pc, req, faults, stale, disturbed>>

NoRows == [s \in {} |-> Empty]
NoRow  == [p \in {} |-> Empty]
Idle   == [rows |-> NoRows, row |-> NoRow, queue |-> {}, seed |-> Empty, late |-> FALSE]

Init ==
  /\ rows = Preset
  /\ releases = [s \in DOMAIN Preset |-> [params |-> Preset[s], seed |-> Preset["dhis2-db"]["DATABASE_ID"]]]
  /\ helm = [s \in Stack |-> Empty]
  /\ pc = [r \in Request |-> "idle"]
  /\ req = [r \in Request |-> Idle]
  /\ faults = 0
  /\ stale = {}
  /\ disturbed = FALSE

Ended     == {"idle", "done", "failed"}
Active    == {r \in Request : pc[r] \notin Ended}
Goto(r, l) == pc' = [pc EXCEPT ![r] = l]
Put(f, s, x) == [t \in DOMAIN f \cup {s} |-> IF t = s THEN x ELSE f[t]]

CanBegin(r) == pc[r] = "idle" /\ Cardinality(Active) < MaxActive

\* A request that begins is disturbed by those that run.
Begins == disturbed' = (disturbed \/ Active # {})

-----------------------------------------------------------------------------
(* Resolving. *)

AddDefaults(s, given) ==
  [p \in Own(s) \cup Consumed(s) |-> IF p \in DOMAIN given THEN given[p] ELSE Empty]

Carrying(rs, s, p) == {t \in Catalogue[s].requires : p \in DOMAIN rs[t]}

Provided(rs, s, p) == rs[CHOOSE t \in Carrying(rs, s, p) : TRUE][p]

\* The initial instances have been saved after those they require.
ASSUME PresetAssumption ==
  \A s \in DOMAIN Preset :
    /\ Catalogue[s].requires \subseteq DOMAIN Preset
    /\ \A p \in Consumed(s) : Preset[s][p] = Provided(Preset, s, p)

\* Mutant: what has been consumed once is kept.
ConsumeOnce(rs, s, row) ==
  [p \in DOMAIN row |-> IF p \in Consumed(s) /\ row[p] = Empty THEN Provided(rs, s, p) ELSE row[p]]

Consume(rs, s, row) ==
  [p \in DOMAIN row |-> IF p \in Consumed(s) THEN Provided(rs, s, p) ELSE row[p]]

\* Mutant: the parameters are stored as they were given.
Unresolved(rs, s, row) == row

Resolve(rs, s, row) == Consume(rs, s, AddDefaults(s, row))

Supply(row, given) ==
  [p \in DOMAIN row |-> IF p \in DOMAIN given THEN given[p] ELSE row[p]]

-----------------------------------------------------------------------------
(* Saving and updating an instance. *)

CanSave(s) == s \notin DOMAIN rows /\ Catalogue[s].requires \subseteq DOMAIN rows

SaveInstanceBegin(r) ==
  /\ CanBegin(r) /\ Op[r] = "saveInstance" /\ CanSave(On[r])
  /\ req' = [req EXCEPT ![r].row = Resolve(rows, On[r], With[r])]
  /\ Goto(r, "store")
  /\ Begins
  /\ UNCHANGED <<rows, releases, helm, faults, stale>>

UpdateInstanceBegin(r) ==
  /\ CanBegin(r) /\ Op[r] = "updateInstance" /\ On[r] \in DOMAIN rows
  /\ req' = [req EXCEPT ![r].row = Supply(rows[On[r]], With[r])]
  /\ Goto(r, "load")
  /\ Begins
  /\ UNCHANGED <<rows, releases, helm, faults, stale>>

\* The other instances are read after the one to update.
UpdateInstanceResolve(r) ==
  /\ pc[r] = "load"
  /\ req' = [req EXCEPT ![r].row = Resolve(rows, On[r], @)]
  /\ Goto(r, "store")
  /\ UNCHANGED <<rows, releases, helm, faults, stale, disturbed>>

\* What the row is stored over is not looked at, but for that of a new instance.  The
\* row of the group that is written along is in Groups (SaveInstance, UpdateInstance).
StoreInstance(r) ==
  LET s == On[r]
      Later == {q \in Request \ {r} : pc[q] = "store" /\ s \in Catalogue[On[q]].requires}
  IN
  /\ pc[r] = "store"
  /\ Op[r] = "saveInstance" => s \notin DOMAIN rows
  /\ rows' = Put(rows, s, req[r].row)
  /\ stale' = (stale \ {s}) \cup {t \in DOMAIN rows : s \in Catalogue[t].requires}
                            \cup (IF req[r].late THEN {s} ELSE {})
  /\ req' = [q \in Request |-> IF q \in Later THEN [req[q] EXCEPT !.late = TRUE]
                            ELSE IF q = r /\ Op[r] = "saveInstance" THEN Idle ELSE req[q]]
  /\ Goto(r, IF Op[r] = "saveInstance" THEN "done" ELSE "reload")
  /\ UNCHANGED <<releases, helm, faults, disturbed>>

Duplicated(r) ==
  /\ pc[r] = "store" /\ Op[r] = "saveInstance" /\ On[r] \in DOMAIN rows
  /\ Goto(r, "failed") /\ req' = [req EXCEPT ![r] = Idle]
  /\ UNCHANGED <<rows, releases, helm, faults, stale, disturbed>>

-----------------------------------------------------------------------------
(* Deploying. *)

\* The instances that databaseIDFromInstances may find first.
Carriers(rs) == {s \in DOMAIN rs : "DATABASE_ID" \in DOMAIN rs[s] /\ rs[s]["DATABASE_ID"] # Empty}

\* Rows are read in no order.
AnyCarrier(rs) == Carriers(rs)

\* DeploymentOrder: after those it requires.
FirstCarrier(rs) == {s \in Carriers(rs) : Catalogue[s].requires \cap Carriers(rs) = {}}

Seeds(rs, from) == IF from = {} THEN {Empty} ELSE {rs[s]["DATABASE_ID"] : s \in from}

DeployBegin(r) ==
  /\ CanBegin(r) /\ Op[r] = "deploy"
  /\ \E seed \in Seeds(rows, FirstCarrier(rows)) :
       req' = [req EXCEPT ![r].rows = rows, ![r].queue = DOMAIN rows, ![r].seed = seed]
  /\ Goto(r, "deploy")
  /\ Begins
  /\ UNCHANGED <<rows, releases, helm, faults, stale>>

\* The handler reads the instance.
ResetBegin(r) ==
  /\ CanBegin(r) /\ Op[r] = "reset" /\ On[r] \in DOMAIN rows
  /\ req' = [req EXCEPT ![r].row = rows[On[r]]]
  /\ Goto(r, "destroy")
  /\ Begins
  /\ UNCHANGED <<rows, releases, helm, faults, stale>>

DestroyInstance(r) ==
  /\ pc[r] = "destroy" /\ helm[On[r]] = Empty
  /\ releases' = [s \in DOMAIN releases \ {On[r]} |-> releases[s]]
  /\ Goto(r, "reload")
  /\ UNCHANGED <<rows, helm, req, faults, stale, disturbed>>

\* Mutant: the instance is deployed as it was found, not as it is stored.
AsReleased(r) == IF On[r] \in DOMAIN releases THEN releases[On[r]].params ELSE req[r].row

\* An instance that was updated is read again, one that is reset is not.
ToDeploy(r) == IF Op[r] = "updateInstance" THEN rows[On[r]] ELSE req[r].row

Reload(r) ==
  /\ pc[r] = "reload"
  /\ \E seed \in Seeds(rows, AnyCarrier(rows)) :
       req' = [req EXCEPT ![r].rows = Put(rows, On[r], ToDeploy(r)), ![r].queue = {On[r]},
                          ![r].seed = seed]
  /\ Goto(r, "deploy")
  /\ UNCHANGED <<rows, releases, helm, faults, stale, disturbed>>

Deployable(r) == {s \in req[r].queue : Catalogue[s].requires \cap req[r].queue = {}}

SyncStart(r, s) ==
  /\ pc[r] = "deploy" /\ s \in Deployable(r) /\ helm[s] = Empty
  /\ helm' = [helm EXCEPT ![s] = r]
  /\ UNCHANGED <<rows, releases, pc, req, faults, stale, disturbed>>

Dequeue(r, s) ==
  IF req[r].queue = {s} THEN Goto(r, "done") /\ req' = [req EXCEPT ![r] = Idle]
                        ELSE Goto(r, "deploy") /\ req' = [req EXCEPT ![r].queue = @ \ {s}]

Sync(r, s) ==
  /\ pc[r] = "deploy" /\ helm[s] = r
  /\ releases' = Put(releases, s, [params |-> req[r].rows[s], seed |-> req[r].seed])
  /\ helm' = [helm EXCEPT ![s] = Empty]
  /\ Dequeue(r, s)
  /\ UNCHANGED <<rows, faults, stale, disturbed>>

\* "another operation (install/upgrade/rollback) is in progress" counts as success.
SyncBusy(r, s) ==
  /\ pc[r] = "deploy" /\ s \in Deployable(r) /\ helm[s] \notin {Empty, r}
  /\ Dequeue(r, s)
  /\ UNCHANGED <<rows, releases, helm, faults, stale, disturbed>>

\* A call fails; Helm may have finished what it was at.
CallFails(r) ==
  /\ pc[r] \notin Ended /\ faults < MaxFaults
  /\ faults' = faults + 1
  /\ disturbed' = TRUE
  /\ helm' = [s \in Stack |-> IF helm[s] = r THEN Empty ELSE helm[s]]
  /\ \/ UNCHANGED releases
     \/ \E s \in Stack :
          /\ helm[s] = r
          /\ releases' = Put(releases, s, [params |-> req[r].rows[s], seed |-> req[r].seed])
     \/ /\ pc[r] = "destroy"
        /\ releases' = [s \in DOMAIN releases \ {On[r]} |-> releases[s]]
  /\ Goto(r, "failed") /\ req' = [req EXCEPT ![r] = Idle]
  /\ UNCHANGED <<rows, stale>>

Next ==
  \E r \in Request :
    \/ SaveInstanceBegin(r) \/ UpdateInstanceBegin(r) \/ UpdateInstanceResolve(r)
    \/ StoreInstance(r) \/ Duplicated(r)
    \/ DeployBegin(r) \/ ResetBegin(r) \/ DestroyInstance(r) \/ Reload(r) \/ CallFails(r)
    \/ \E s \in Stack : SyncStart(r, s) \/ Sync(r, s) \/ SyncBusy(r, s)

Spec == Init /\ [][Next]_vars

-----------------------------------------------------------------------------
(* Properties. *)

\* Every instance is stored and deployed with a value for each parameter of its stack.
TypeOK ==
  /\ DOMAIN rows \subseteq Stack /\ \A s \in DOMAIN rows : rows[s] \in Row(s)
  /\ DOMAIN releases \subseteq DOMAIN rows
  /\ \A s \in DOMAIN releases : releases[s].params \in Row(s) /\ releases[s].seed \in Value \cup {Empty}
  /\ helm \in [Stack -> Request \cup {Empty}]
  /\ \A r \in Request : /\ pc[r] \in Ended \cup {"load", "store", "reload", "destroy", "deploy"}
                        /\ req[r].queue \subseteq DOMAIN req[r].rows
                        /\ req[r].late \in BOOLEAN
  /\ faults \in 0..MaxFaults
  /\ stale \subseteq DOMAIN rows /\ disturbed \in BOOLEAN

\* What an instance has stored of a parameter it consumes is what its provider has stored,
\* unless the provider was stored after the instance was resolved: storing a provider
\* leaves its consumers as they are (resolveConsumedParameters, UpdateInstanceParameters).
ConsumedFresh ==
  \A s \in DOMAIN rows \ stale : \A p \in Consumed(s) : rows[s][p] = Provided(rows, s, p)

\* A release is seeded from the database that the database instance names, if the releases
\* of a deployment are deployed together; one that is deployed alone may be seeded from an
\* older copy of DATABASE_ID, which minio has consumed (databaseIDFromInstances).
SeedsAgree ==
  [][\A r \in Request :
       (pc[r] # "deploy" /\ pc'[r] = "deploy" /\ "dhis2-db" \in Carriers(rows)
        /\ (Op[r] = "deploy" \/ stale = {}))
       => req'[r].seed = rows["dhis2-db"]["DATABASE_ID"]]_vars

\* What a release is deployed with is what is stored of its instance, when no request runs,
\* unless a call failed or requests overlapped (DeployInstance, UpdateInstance, Reset).
ReleasedIsStored ==
  ~disturbed /\ Active = {} => \A s \in DOMAIN releases : releases[s].params = rows[s]
===============================================================================
