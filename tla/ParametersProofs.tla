---------------------------- MODULE ParametersProofs ----------------------------
(***************************************************************************)
(* Proofs about Parameters, for any requests, values and numbers of faults.  *)
(* Of the catalogue they use only that it is valid.                          *)
(***************************************************************************)
EXTENDS Parameters, FiniteSetTheorems, TLAPS

Values == Value \cup {Empty}

\* Parameters of an instance, and the instances of a deployment, as a request has read them.
AnyRow  == UNION {[D -> Values] : D \in SUBSET Param}
AnyRows == UNION {[D -> AnyRow] : D \in SUBSET Stack}

Pending == [rows : AnyRows, row : AnyRow, queue : SUBSET Stack, seed : Values, late : BOOLEAN]

\* The instances are resolved ones, and what they require is there.
Resolved(rs) ==
  /\ rs \in AnyRows
  /\ \A s \in DOMAIN rs : rs[s] \in Row(s)

Closed(rs) == \A s \in DOMAIN rs : Catalogue[s].requires \subseteq DOMAIN rs

\* What a request is at needs what it has read before.
Read(r) ==
  LET x == req[r] IN
  /\ pc[r] = "load" => On[r] \in DOMAIN rows
  /\ pc[r] = "load" => x.row \in Row(On[r])
  /\ pc[r] = "store" => x.row \in Row(On[r])
  /\ pc[r] = "store" => Catalogue[On[r]].requires \subseteq DOMAIN rows
  /\ pc[r] \in {"destroy", "reload"} => On[r] \in DOMAIN rows /\ (Op[r] # "updateInstance" => x.row \in Row(On[r]))
  /\ pc[r] = "deploy" => /\ Resolved(x.rows) /\ x.queue \subseteq DOMAIN x.rows
                         /\ DOMAIN x.rows \subseteq DOMAIN rows

Types ==
  /\ Resolved(rows) /\ Closed(rows)
  /\ DOMAIN releases \subseteq DOMAIN rows
  /\ \A s \in DOMAIN releases : releases[s].params \in Row(s) /\ releases[s].seed \in Values
  /\ helm \in [Stack -> Request \cup {Empty}]
  /\ \A s \in Stack, r \in Request : helm[s] = r => pc[r] = "deploy" /\ s \in req[r].queue
  /\ pc \in [Request -> Ended \cup {"load", "store", "reload", "destroy", "deploy"}]
  /\ req \in [Request -> Pending]
  /\ \A r \in Request : Read(r) /\ req[r].queue \subseteq DOMAIN req[r].rows
  /\ faults \in 0..MaxFaults
  /\ stale \subseteq DOMAIN rows /\ disturbed \in BOOLEAN

-----------------------------------------------------------------------------
(* Resolving. *)

LEMMA RowIsAny == ASSUME NEW s, NEW x \in Row(s) PROVE x \in AnyRow
<1>1. Own(s) \cup Consumed(s) \in SUBSET Param
  BY DEF Own, Consumed
<1> QED
  BY <1>1 DEF Row, AnyRow, Values

\* A consumed parameter is one that a required stack has of its own, as none of those that
\* are looked at is a provider's.
LEMMA OwnedByRequired ==
  ASSUME NEW s \in Stack, NEW p \in Consumed(s), Catalogue[s].requires \subseteq Stack
  PROVE  \E t \in Catalogue[s].requires : p \in Own(t)
<1>1. Cardinality(Sources(Catalogue, s, p)) = 1
  BY CatalogueIsValid DEF ValidateConsumedParameters, Stack, Consumed
<1>2. Sources(Catalogue, s, p) # {}
  <2>1. Cardinality({}) = 0
    BY FS_EmptySet
  <2>2. Cardinality(Sources(Catalogue, s, p)) # Cardinality({})
    BY <1>1, <2>1
  <2> QED
    BY <2>2, Zenon
<1>3. p \in Param
  BY DEF Consumed
<1>4. \A t \in Catalogue[s].requires : p \notin Catalogue[t].provides
  BY <1>3, ParametersAssumption
<1> QED
  BY <1>2, <1>3, <1>4 DEF Sources, Own

\* What provides a consumed parameter is one of the required instances, and has a value of it.
LEMMA Carried ==
  ASSUME NEW rs, NEW s \in Stack, NEW p \in Consumed(s),
         \A t \in Catalogue[s].requires : t \in Stack /\ rs[t] \in Row(t)
  PROVE  /\ Carrying(rs, s, p) # {}
         /\ Provided(rs, s, p) \in Values
<1>1. PICK t \in Catalogue[s].requires : p \in Own(t)
  BY OwnedByRequired
<1>2. p \in DOMAIN rs[t]
  BY <1>1 DEF Row, Own, Consumed
<1>3. Carrying(rs, s, p) # {}
  BY <1>2 DEF Carrying
<1> DEFINE u == CHOOSE v \in Carrying(rs, s, p) : TRUE
<1>4. u \in Carrying(rs, s, p)
  BY <1>3
<1>5. u \in Catalogue[s].requires /\ p \in DOMAIN rs[u]
  BY <1>4 DEF Carrying
<1>6. rs[u] \in Row(u)
  BY <1>5
<1> HIDE DEF u
<1>7. rs[u][p] \in Values
  BY <1>5, <1>6 DEF Row, Values
<1> QED
  BY <1>3, <1>7 DEF Provided, u

\* What is provided depends on the required instances only.
LEMMA SameProvided ==
  ASSUME NEW rs1, NEW rs2, NEW s, NEW p, Carrying(rs1, s, p) # {},
         \A t \in Catalogue[s].requires : rs1[t] = rs2[t]
  PROVE  Provided(rs1, s, p) = Provided(rs2, s, p)
<1>1. Carrying(rs1, s, p) = Carrying(rs2, s, p)
  BY DEF Carrying
<1> DEFINE u == CHOOSE t \in Carrying(rs1, s, p) : TRUE
<1>2. u \in Carrying(rs1, s, p)
  OBVIOUS
<1>3. u = CHOOSE t \in Carrying(rs2, s, p) : TRUE
  BY <1>1
<1>4. u \in Catalogue[s].requires
  BY <1>2 DEF Carrying
<1> HIDE DEF u
<1>5. rs1[u] = rs2[u]
  BY <1>4
<1>6. Provided(rs1, s, p) = rs1[u][p]
  BY DEF Provided, u
<1>7. Provided(rs2, s, p) = rs2[u][p]
  BY <1>3 DEF Provided
<1> QED
  BY <1>5, <1>6, <1>7

LEMMA PutResolved ==
  ASSUME NEW rs, Resolved(rs), NEW s \in Stack, NEW x \in Row(s)
  PROVE  /\ Resolved(Put(rs, s, x)) /\ DOMAIN Put(rs, s, x) = DOMAIN rs \cup {s}
         /\ Put(rs, s, x)[s] = x
         /\ \A t \in DOMAIN rs : t # s => Put(rs, s, x)[t] = rs[t]
<1>1. DOMAIN rs \in SUBSET Stack /\ rs \in [DOMAIN rs -> AnyRow]
  BY DEF Resolved, AnyRows
<1>2. DOMAIN rs \cup {s} \in SUBSET Stack
  BY <1>1
<1>3. x \in AnyRow
  BY RowIsAny
<1>4. Put(rs, s, x) \in [DOMAIN rs \cup {s} -> AnyRow]
  BY <1>1, <1>3 DEF Put
<1>5. Put(rs, s, x) \in AnyRows
  BY <1>2, <1>4 DEF AnyRows
<1>6. \A t \in DOMAIN rs \cup {s} : Put(rs, s, x)[t] = IF t = s THEN x ELSE rs[t]
  BY DEF Put
<1>7. DOMAIN Put(rs, s, x) = DOMAIN rs \cup {s}
  BY DEF Put
<1>8. \A t \in DOMAIN rs : rs[t] \in Row(t)
  BY DEF Resolved
<1>9. \A t \in DOMAIN Put(rs, s, x) : Put(rs, s, x)[t] \in Row(t)
  BY <1>6, <1>7, <1>8
<1> QED
  BY <1>5, <1>6, <1>7, <1>9 DEF Resolved

LEMMA ResolveRow ==
  ASSUME NEW rs, Resolved(rs), NEW s \in Stack, Catalogue[s].requires \subseteq DOMAIN rs,
         NEW given, \A p \in DOMAIN given : given[p] \in Values
  PROVE  /\ Resolve(rs, s, given) \in Row(s)
         /\ \A p \in Consumed(s) : Resolve(rs, s, given)[p] = Provided(rs, s, p)
<1> DEFINE row == AddDefaults(s, given)
<1>1. row \in [Own(s) \cup Consumed(s) -> Values]
  BY DEF AddDefaults, Values
<1>2. \A t \in Catalogue[s].requires : t \in Stack /\ rs[t] \in Row(t)
  BY DEF Resolved, AnyRows
<1>3. \A p \in Consumed(s) : Provided(rs, s, p) \in Values
  BY <1>2, Carried
<1> HIDE DEF row
<1>4. Consume(rs, s, row) \in [Own(s) \cup Consumed(s) -> Values]
  BY <1>1, <1>3 DEF Consume
<1>5. \A p \in Consumed(s) : Consume(rs, s, row)[p] = Provided(rs, s, p)
  BY <1>1 DEF Consume
<1> QED
  BY <1>4, <1>5 DEF Resolve, Row, Values, row

LEMMA SupplyRow ==
  ASSUME NEW s, NEW row \in Row(s), NEW given, \A p \in DOMAIN given : given[p] \in Values
  PROVE  Supply(row, given) \in Row(s)
BY DEF Supply, Row, Values

LEMMA SeedValue ==
  ASSUME NEW rs, Resolved(rs), NEW seed,
         seed \in Seeds(rs, AnyCarrier(rs)) \/ seed \in Seeds(rs, FirstCarrier(rs))
  PROVE  seed \in Values
<1>1. \A s \in Carriers(rs) : rs[s]["DATABASE_ID"] \in Values
  BY DEF Carriers, Resolved, Row, Values
<1>2. AnyCarrier(rs) \subseteq Carriers(rs) /\ FirstCarrier(rs) \subseteq Carriers(rs)
  BY DEF AnyCarrier, FirstCarrier
<1> QED
  BY <1>1, <1>2 DEF Seeds, Values

LEMMA InitTypes == Init => Types
<1> SUFFICES ASSUME Init PROVE Types
  OBVIOUS
<1>1. Resolved(rows)
  <2>1. \A s \in DOMAIN Preset : Preset[s] \in AnyRow
    BY RowIsAny, ParametersAssumption
  <2>2. Preset \in [DOMAIN Preset -> AnyRow] /\ DOMAIN Preset \in SUBSET Stack
    BY <2>1, ParametersAssumption
  <2>3. Preset \in AnyRows
    BY <2>2 DEF AnyRows
  <2> QED
    BY <2>3, ParametersAssumption DEF Init, Resolved
<1>2. Idle \in Pending
  <2>1. NoRows \in AnyRows /\ NoRow \in AnyRow
    <3>1. {} \in SUBSET Stack /\ {} \in SUBSET Param
      OBVIOUS
    <3>2. NoRows \in [{} -> AnyRow] /\ NoRow \in [{} -> Values]
      BY DEF NoRows, NoRow
    <3> QED
      BY <3>1, <3>2 DEF AnyRows, AnyRow
  <2> QED
    BY <2>1 DEF Idle, Pending, Values
<1>3. Preset["dhis2-db"]["DATABASE_ID"] \in Values
  <2>1. "dhis2-db" \in DOMAIN Preset /\ Preset["dhis2-db"] \in Row("dhis2-db")
    BY ParametersAssumption
  <2>2. "DATABASE_ID" \in Own("dhis2-db") \cup Consumed("dhis2-db")
    BY ParametersAssumption
  <2> QED
    BY <2>1, <2>2 DEF Row, Values
<1>4. \A r \in Request : pc[r] = "idle" /\ req[r] = Idle
  BY DEF Init
<1>5. \A r \in Request : Read(r) /\ req[r].queue \subseteq DOMAIN req[r].rows
  BY <1>4 DEF Read, Idle
<1>6. \A s \in Stack, r \in Request : helm[s] # r
  BY ParametersAssumption DEF Init
<1>7. Closed(rows)
  BY PresetAssumption DEF Init, Closed
<1>8. \A s \in DOMAIN releases : releases[s].params \in Row(s) /\ releases[s].seed \in Values
  BY <1>3, ParametersAssumption DEF Init
<1>9. /\ DOMAIN releases \subseteq DOMAIN rows /\ helm \in [Stack -> Request \cup {Empty}]
      /\ pc \in [Request -> Ended \cup {"load", "store", "reload", "destroy", "deploy"}]
      /\ req \in [Request -> Pending]
  BY <1>2 DEF Init, Ended
<1>10. faults \in 0..MaxFaults /\ stale \subseteq DOMAIN rows /\ disturbed \in BOOLEAN
  <2>1. MaxFaults \in Nat
    BY ParametersAssumption, Zenon
  <2>2. faults \in 0..MaxFaults
    BY <2>1 DEF Init
  <2>3. stale \subseteq DOMAIN rows /\ disturbed \in BOOLEAN
    BY Zenon DEF Init
  <2> QED
    BY <2>2, <2>3
<1> QED
  BY <1>1, <1>5, <1>6, <1>7, <1>8, <1>9, <1>10 DEF Types
-----------------------------------------------------------------------------
(* Types. *)

Labels == Ended \cup {"load", "store", "reload", "destroy", "deploy"}

\* A request that goes on by itself.
LEMMA Goes ==
  ASSUME Types, NEW r \in Request, NEW l \in Labels, NEW x \in Pending,
         Goto(r, l), req' = [req EXCEPT ![r] = x], DOMAIN rows \subseteq DOMAIN rows',
         x.queue \subseteq DOMAIN x.rows, Read(r)'
  PROVE  /\ pc' \in [Request -> Labels] /\ req' \in [Request -> Pending]
         /\ \A q \in Request : Read(q)' /\ req'[q].queue \subseteq DOMAIN req'[q].rows
         /\ pc'[r] = l /\ req'[r] = x
         /\ \A q \in Request \ {r} : pc'[q] = pc[q] /\ req'[q] = req[q]
<1>1. pc \in [Request -> Labels] /\ req \in [Request -> Pending]
  BY DEF Types, Labels
<1>2. pc' \in [Request -> Labels] /\ req' \in [Request -> Pending]
  BY <1>1 DEF Goto
<1>3. pc'[r] = l /\ req'[r] = x
  BY <1>1 DEF Goto
<1>4. \A q \in Request \ {r} : pc'[q] = pc[q] /\ req'[q] = req[q]
  BY <1>1 DEF Goto
<1>5. ASSUME NEW q \in Request PROVE Read(q)' /\ req'[q].queue \subseteq DOMAIN req'[q].rows
  <2>1. CASE q = r
    BY <1>3, <2>1
  <2>2. CASE q # r
    <3>1. pc'[q] = pc[q] /\ req'[q] = req[q]
      BY <1>4, <2>2
    <3>2. Read(q) /\ req[q].queue \subseteq DOMAIN req[q].rows
      BY DEF Types
    <3> QED
      BY <3>1, <3>2 DEF Read
  <2> QED
    BY <2>1, <2>2
<1> QED
  BY <1>2, <1>3, <1>4, <1>5

\* The beginnings of a request, and resolving.
LEMMA ResolveTypes ==
  ASSUME Types, NEW r \in Request, SaveInstanceBegin(r) \/ UpdateInstanceBegin(r) \/ UpdateInstanceResolve(r)
  PROVE  Types'
<1>1. /\ req[r] \in Pending /\ On[r] \in Stack /\ Resolved(rows) /\ Closed(rows)
      /\ \A p \in DOMAIN With[r] : With[r][p] \in Values
  BY ParametersAssumption DEF Types, Values
<1>2. UNCHANGED <<rows, releases, helm, faults, stale>> /\ disturbed' \in BOOLEAN
  <2>1. disturbed \in BOOLEAN
    BY DEF Types
  <2> QED
    BY <2>1 DEF SaveInstanceBegin, UpdateInstanceBegin, UpdateInstanceResolve, Begins
<1>3. PICK row \in Row(On[r]), l \in {"load", "store"} :
        /\ Goto(r, l) /\ req' = [req EXCEPT ![r].row = row]
        /\ l = "load" => On[r] \in DOMAIN rows
        /\ l = "store" => Catalogue[On[r]].requires \subseteq DOMAIN rows
  <2>1. CASE SaveInstanceBegin(r)
    <3>1. Catalogue[On[r]].requires \subseteq DOMAIN rows
      BY <2>1 DEF SaveInstanceBegin, CanSave
    <3>2. Resolve(rows, On[r], With[r]) \in Row(On[r])
      BY <1>1, <3>1, ResolveRow
    <3> QED
      BY <2>1, <3>1, <3>2 DEF SaveInstanceBegin
  <2>2. CASE UpdateInstanceBegin(r)
    <3>1. On[r] \in DOMAIN rows /\ rows[On[r]] \in Row(On[r])
      BY <1>1, <2>2 DEF UpdateInstanceBegin, Resolved
    <3>2. Supply(rows[On[r]], With[r]) \in Row(On[r])
      BY <1>1, <3>1, SupplyRow
    <3> QED
      BY <2>2, <3>1, <3>2 DEF UpdateInstanceBegin
  <2>3. CASE UpdateInstanceResolve(r)
    <3>1. pc[r] = "load" /\ On[r] \in DOMAIN rows /\ req[r].row \in Row(On[r])
      BY <2>3 DEF UpdateInstanceResolve, Types, Read
    <3>2. Catalogue[On[r]].requires \subseteq DOMAIN rows
      BY <1>1, <3>1 DEF Closed
    <3>3. \A p \in DOMAIN req[r].row : req[r].row[p] \in Values
      BY <3>1 DEF Row, Values
    <3>4. Resolve(rows, On[r], req[r].row) \in Row(On[r])
      BY <1>1, <3>2, <3>3, ResolveRow
    <3>5. req' = [req EXCEPT ![r].row = Resolve(rows, On[r], req[r].row)]
      BY <1>1, <2>3 DEF UpdateInstanceResolve, Types
    <3> QED
      BY <2>3, <3>2, <3>4, <3>5 DEF UpdateInstanceResolve
  <2> QED
    BY <2>1, <2>2, <2>3
<1> DEFINE x == [req[r] EXCEPT !.row = row]
<1>4. req' = [req EXCEPT ![r] = x]
  BY <1>3
<1>5. row \in AnyRow
  BY RowIsAny
<1>6. x \in Pending /\ x.row = row /\ x.queue = req[r].queue /\ x.rows = req[r].rows
  BY <1>1, <1>5 DEF Pending
<1>7. x.queue \subseteq DOMAIN x.rows
  BY <1>6 DEF Types
<1> HIDE DEF x
<1>8. pc'[r] = l /\ req'[r] = x
  BY <1>3, <1>4 DEF Types, Goto
<1>9. Read(r)'
  BY <1>2, <1>3, <1>6, <1>8 DEF Read
<1>10. /\ pc' \in [Request -> Labels] /\ req' \in [Request -> Pending]
       /\ \A q \in Request : Read(q)' /\ req'[q].queue \subseteq DOMAIN req'[q].rows
       /\ \A q \in Request \ {r} : pc'[q] = pc[q] /\ req'[q] = req[q]
  BY <1>2, <1>3, <1>4, <1>6, <1>7, <1>9, Goes DEF Labels
<1>11. \A s \in Stack : helm[s] # r
  BY DEF Types, SaveInstanceBegin, UpdateInstanceBegin, UpdateInstanceResolve, CanBegin
<1> QED
  BY <1>2, <1>10, <1>11 DEF Types, Resolved, Closed, Labels
LEMMA IdlePending == Idle \in Pending /\ Idle.queue = {}
<1>1. NoRows \in AnyRows /\ NoRow \in AnyRow
  <2>1. {} \in SUBSET Stack /\ {} \in SUBSET Param
    OBVIOUS
  <2>2. NoRows \in [{} -> AnyRow] /\ NoRow \in [{} -> Values]
    BY DEF NoRows, NoRow
  <2> QED
    BY <2>1, <2>2 DEF AnyRows, AnyRow
<1> QED
  BY <1>1 DEF Idle, Pending, Values

\* What storing the row of an instance leaves of it, and of what other requests have read.
LEMMA StoreTypes ==
  ASSUME Types, NEW r \in Request, StoreInstance(r) PROVE Types'
<1> DEFINE s == On[r]
           Later == {q \in Request \ {r} : pc[q] = "store" /\ s \in Catalogue[On[q]].requires}
<1>1. /\ pc[r] = "store" /\ s \in Stack /\ req[r].row \in Row(s)
      /\ Catalogue[s].requires \subseteq DOMAIN rows /\ Resolved(rows) /\ Closed(rows)
  BY ParametersAssumption DEF StoreInstance, Types, Read
<1>2. rows' = Put(rows, s, req[r].row)
  BY DEF StoreInstance
<1> HIDE DEF s
<1>3. Resolved(rows') /\ DOMAIN rows' = DOMAIN rows \cup {s}
  BY <1>1, <1>2, PutResolved
<1>4. Closed(rows')
  BY <1>1, <1>3 DEF Closed
<1>5. /\ pc' = [pc EXCEPT ![r] = IF Op[r] = "saveInstance" THEN "done" ELSE "reload"]
      /\ req' = [q \in Request |-> IF q \in Later THEN [req[q] EXCEPT !.late = TRUE]
                                   ELSE IF q = r /\ Op[r] = "saveInstance" THEN Idle ELSE req[q]]
      /\ UNCHANGED <<releases, helm, faults, disturbed>>
  BY DEF StoreInstance, Goto, s
<1> HIDE DEF Later
<1>6. pc' \in [Request -> Labels]
  BY <1>5 DEF Types, Labels, Ended
<1> DEFINE Same(q) == /\ req'[q].rows = req[q].rows /\ req'[q].row = req[q].row
                      /\ req'[q].queue = req[q].queue
           Changes(q) == IF q = r /\ Op[r] = "saveInstance" THEN req'[q] = Idle ELSE Same(q)
<1>7. \A q \in Request : /\ req'[q] \in Pending
                         /\ Changes(q)
  <2> SUFFICES ASSUME NEW q \in Request
               PROVE  /\ req'[q] \in Pending
                      /\ Changes(q)
    OBVIOUS
  <2>1. req[q] \in Pending
    BY DEF Types
  <2>2. CASE q \in Later
    <3>1. req'[q] = [req[q] EXCEPT !.late = TRUE]
      BY <1>5, <2>2
    <3>2. q # r
      BY <2>2 DEF Later
    <3>3. req'[q] \in Pending /\ Same(q)
      BY <2>1, <3>1 DEF Pending
    <3> QED
      BY <3>2, <3>3
  <2>3. CASE q \notin Later /\ q = r /\ Op[r] = "saveInstance"
    <3>1. req'[q] = Idle
      BY <1>5, <2>3
    <3> QED
      BY <2>3, <3>1, IdlePending
  <2>4. CASE q \notin Later /\ ~(q = r /\ Op[r] = "saveInstance")
    <3>1. req'[q] = req[q]
      BY <1>5, <2>4
    <3> QED
      BY <2>1, <2>4, <3>1
  <2> QED
    BY <2>2, <2>3, <2>4
<1>8. \A q \in Request : Read(q)' /\ req'[q].queue \subseteq DOMAIN req'[q].rows
  <2> SUFFICES ASSUME NEW q \in Request
               PROVE  Read(q)' /\ req'[q].queue \subseteq DOMAIN req'[q].rows
    OBVIOUS
  <2>1. Read(q) /\ req[q].queue \subseteq DOMAIN req[q].rows
    BY DEF Types
  <2>2. CASE q = r
    <3>1. pc'[r] = IF Op[r] = "saveInstance" THEN "done" ELSE "reload"
      BY <1>5 DEF Types
    <3>2. CASE Op[r] = "saveInstance"
      <4>1. req'[q] = Idle
        BY <1>7, <2>2, <3>2
      <4> QED
        BY <2>1, <2>2, <3>1, <3>2, <4>1, IdlePending DEF Read
    <3>3. CASE Op[r] # "saveInstance"
      <4>1. /\ req'[q].rows = req[q].rows /\ req'[q].row = req[q].row
            /\ req'[q].queue = req[q].queue
        BY <1>7, <3>3
      <4>2. On[q] \in DOMAIN rows'
        BY <1>3, <2>2 DEF s
      <4> QED
        BY <1>1, <2>1, <2>2, <3>1, <3>3, <4>1, <4>2 DEF Read, s
    <3> QED
      BY <3>2, <3>3
  <2>3. CASE q # r
    <3>1. /\ pc'[q] = pc[q] /\ req'[q].rows = req[q].rows /\ req'[q].row = req[q].row
          /\ req'[q].queue = req[q].queue
      BY <1>5, <1>7, <2>3 DEF Types
    <3> QED
      BY <1>3, <2>1, <3>1 DEF Read
  <2> QED
    BY <2>2, <2>3
<1>9. stale' \subseteq DOMAIN rows'
  <2>1. stale' \subseteq stale \cup DOMAIN rows \cup {s}
    BY DEF StoreInstance, s
  <2> QED
    BY <1>3, <2>1 DEF Types
<1>10. \A t \in Stack, q \in Request : helm[t] = q => pc'[q] = "deploy" /\ t \in req'[q].queue
  <2> SUFFICES ASSUME NEW t \in Stack, NEW q \in Request, helm[t] = q
               PROVE  pc'[q] = "deploy" /\ t \in req'[q].queue
    OBVIOUS
  <2>1. pc[q] = "deploy" /\ t \in req[q].queue
    BY DEF Types
  <2>2. q # r
    BY <1>1, <2>1
  <2>3. pc'[q] = pc[q] /\ req'[q].queue = req[q].queue
    BY <1>5, <1>7, <2>2 DEF Types
  <2> QED
    BY <2>1, <2>3
<1>11. req' \in [Request -> Pending]
  BY <1>5, <1>7
<1>12. DOMAIN releases \subseteq DOMAIN rows' /\ \A t \in DOMAIN releases :
         releases[t].params \in Row(t) /\ releases[t].seed \in Values
  BY <1>3 DEF Types
<1> QED
  BY <1>3, <1>4, <1>5, <1>6, <1>8, <1>9, <1>10, <1>11, <1>12 DEF Types, Labels

\* The other steps leave the rows, and what they make a request read is right.
LEMMA OthersTypes ==
  ASSUME Types, NEW r \in Request, NEW l \in Labels, NEW x \in Pending,
         Goto(r, l), req' = [req EXCEPT ![r] = x], UNCHANGED rows,
         x.queue \subseteq DOMAIN x.rows, Read(r)',
         DOMAIN releases' \subseteq DOMAIN rows,
         \A s \in DOMAIN releases' : releases'[s].params \in Row(s) /\ releases'[s].seed \in Values,
         helm' \in [Stack -> Request \cup {Empty}],
         \A s \in Stack : \/ helm'[s] = helm[s] /\ helm[s] # r
                          \/ helm'[s] = Empty
                          \/ helm'[s] = r /\ l = "deploy" /\ s \in x.queue,
         faults' \in 0..MaxFaults, UNCHANGED stale, disturbed' \in BOOLEAN
  PROVE  Types'
<1>1. /\ pc' \in [Request -> Labels] /\ req' \in [Request -> Pending]
      /\ \A q \in Request : Read(q)' /\ req'[q].queue \subseteq DOMAIN req'[q].rows
      /\ pc'[r] = l /\ req'[r] = x
      /\ \A q \in Request \ {r} : pc'[q] = pc[q] /\ req'[q] = req[q]
  BY Goes
<1>2. \A s \in Stack, q \in Request : helm'[s] = q => pc'[q] = "deploy" /\ s \in req'[q].queue
  <2> SUFFICES ASSUME NEW s \in Stack, NEW q \in Request, helm'[s] = q
               PROVE  pc'[q] = "deploy" /\ s \in req'[q].queue
    OBVIOUS
  <2>1. q # Empty
    BY ParametersAssumption
  <2>2. CASE helm'[s] = helm[s] /\ helm[s] # r
    BY <1>1, <2>2 DEF Types
  <2>3. CASE helm'[s] = r /\ l = "deploy" /\ s \in x.queue
    BY <1>1, <2>3
  <2> QED
    BY <2>1, <2>2, <2>3
<1>3. stale' \subseteq DOMAIN rows'
  BY DEF Types
<1> QED
  BY <1>1, <1>2, <1>3 DEF Types, Labels, Resolved, Closed
LEMMA Typed ==
  ASSUME Types, NEW r \in Request
  PROVE  /\ req[r] \in Pending /\ On[r] \in Stack /\ Resolved(rows) /\ Read(r)
         /\ rows \in AnyRows /\ DOMAIN rows \subseteq Stack
         /\ req[r].queue \subseteq DOMAIN req[r].rows
         /\ \A s \in Stack : helm[s] = r => pc[r] = "deploy" /\ s \in req[r].queue
         /\ DOMAIN releases \subseteq DOMAIN rows
         /\ \A s \in DOMAIN releases : releases[s].params \in Row(s) /\ releases[s].seed \in Values
         /\ helm \in [Stack -> Request \cup {Empty}] /\ faults \in 0..MaxFaults
         /\ disturbed \in BOOLEAN
         /\ Idle \in Pending /\ Idle.queue = {}
BY ParametersAssumption, IdlePending DEF Types, Resolved, AnyRows

LEMMA DeployTypes ==
  ASSUME Types, NEW r \in Request, DeployBegin(r) \/ Reload(r) PROVE Types'
<1> USE Typed
<1>1. PICK rs \in AnyRows, queue \in SUBSET Stack, seed \in Values :
        /\ req' = [req EXCEPT ![r].rows = rs, ![r].queue = queue, ![r].seed = seed]
        /\ Resolved(rs) /\ DOMAIN rs \subseteq DOMAIN rows /\ queue \subseteq DOMAIN rs
  <2>1. CASE DeployBegin(r)
    <3>1. PICK seed \in Seeds(rows, FirstCarrier(rows)) :
            req' = [req EXCEPT ![r].rows = rows, ![r].queue = DOMAIN rows, ![r].seed = seed]
      BY <2>1 DEF DeployBegin
    <3>2. seed \in Values
      BY SeedValue
    <3> QED
      BY <3>1, <3>2
  <2>2. CASE Reload(r)
    <3>1. PICK seed \in Seeds(rows, AnyCarrier(rows)) :
            req' = [req EXCEPT ![r].rows = Put(rows, On[r], ToDeploy(r)), ![r].queue = {On[r]},
                               ![r].seed = seed]
      BY <2>2 DEF Reload
    <3>2. seed \in Values
      BY SeedValue
    <3>3. On[r] \in DOMAIN rows /\ (Op[r] # "updateInstance" => req[r].row \in Row(On[r]))
      BY <2>2 DEF Reload, Read
    <3>4. ToDeploy(r) \in Row(On[r])
      BY <3>3 DEF ToDeploy, Resolved
    <3> DEFINE rs == Put(rows, On[r], ToDeploy(r))
    <3>5. Resolved(rs) /\ DOMAIN rs = DOMAIN rows \cup {On[r]}
      <4>1. On[r] \in Stack /\ Resolved(rows)
        OBVIOUS
      <4>2. Resolved(rs)
        BY <3>4, <4>1, PutResolved, Zenon
      <4>3. DOMAIN rs = DOMAIN rows \cup {On[r]}
        BY DEF Put
      <4> QED
        BY <4>2, <4>3
    <3>6. rs \in AnyRows /\ {On[r]} \in SUBSET Stack
      BY <3>5 DEF Resolved
    <3> HIDE DEF rs
    <3>7. req' = [req EXCEPT ![r].rows = rs, ![r].queue = {On[r]}, ![r].seed = seed]
      BY <3>1 DEF rs
    <3>8. DOMAIN rs \subseteq DOMAIN rows /\ {On[r]} \subseteq DOMAIN rs
      BY <3>3, <3>5
    <3> QED
      BY <3>2, <3>5, <3>6, <3>7, <3>8
  <2> QED
    BY <2>1, <2>2
<1> DEFINE x == [req[r] EXCEPT !.rows = rs, !.queue = queue, !.seed = seed]
<1>2. req' = [req EXCEPT ![r] = x]
  BY <1>1 DEF Types
<1>3. x \in Pending /\ x.rows = rs /\ x.queue = queue
  BY DEF Pending
<1> HIDE DEF x
<1>4. /\ Goto(r, "deploy") /\ pc[r] # "deploy"
      /\ UNCHANGED <<rows, releases, helm, faults, stale>> /\ disturbed' \in BOOLEAN
  BY DEF DeployBegin, Reload, CanBegin, Begins
<1>5. pc'[r] = "deploy" /\ req'[r] = x
  BY <1>2, <1>4 DEF Types, Goto
<1>6. Read(r)'
  BY <1>1, <1>3, <1>4, <1>5 DEF Read, Resolved
<1>7. \A s \in Stack : helm[s] # r
  BY <1>4
<1>8. "deploy" \in Labels
  BY DEF Labels
<1> QED
  BY <1>1, <1>2, <1>3, <1>4, <1>6, <1>7, <1>8, OthersTypes

LEMMA ResetTypes ==
  ASSUME Types, NEW r \in Request, ResetBegin(r) \/ DestroyInstance(r) PROVE Types'
<1> USE Typed
<1>1. CASE ResetBegin(r)
  <2> DEFINE x == [req[r] EXCEPT !.row = rows[On[r]]]
  <2>1. On[r] \in DOMAIN rows /\ rows[On[r]] \in Row(On[r])
    BY <1>1 DEF ResetBegin, Resolved
  <2>2. rows[On[r]] \in AnyRow
    BY <2>1, RowIsAny
  <2>3. x \in Pending /\ x.row = rows[On[r]] /\ x.queue = req[r].queue /\ x.rows = req[r].rows
    BY <2>2 DEF Pending
  <2>4. req' = [req EXCEPT ![r] = x]
    BY <1>1 DEF ResetBegin, Types
  <2> HIDE DEF x
  <2>5. pc'[r] = "destroy" /\ req'[r] = x /\ UNCHANGED <<rows, releases, helm, faults, stale>>
        /\ Goto(r, "destroy") /\ disturbed' \in BOOLEAN /\ pc[r] = "idle"
    BY <1>1, <2>4 DEF ResetBegin, Types, Goto, Begins, CanBegin
  <2>6. Read(r)'
    BY <2>1, <2>3, <2>5 DEF Read
  <2>7. "destroy" \in Labels
    BY DEF Labels
  <2>8. \A s \in Stack : helm[s] # r
    BY <2>5
  <2>9. x.queue \subseteq DOMAIN x.rows
    BY <2>3
  <2> QED
    BY <2>3, <2>4, <2>5, <2>6, <2>7, <2>8, <2>9, OthersTypes
<1>2. CASE DestroyInstance(r)
  <2>1. /\ pc[r] = "destroy" /\ Goto(r, "reload") /\ UNCHANGED <<rows, helm, req, faults, stale, disturbed>>
        /\ releases' = [s \in DOMAIN releases \ {On[r]} |-> releases[s]]
    BY <1>2 DEF DestroyInstance
  <2>2. req' = [req EXCEPT ![r] = req[r]]
    BY <2>1 DEF Types
  <2>3. pc'[r] = "reload" /\ req'[r] = req[r]
    BY <2>1 DEF Types, Goto
  <2>4. Read(r)'
    BY <2>1, <2>3 DEF Read
  <2>5. /\ DOMAIN releases' \subseteq DOMAIN rows
        /\ \A s \in DOMAIN releases' : releases'[s].params \in Row(s) /\ releases'[s].seed \in Values
    BY <2>1
  <2>6. "reload" \in Labels
    BY DEF Labels
  <2>7. \A s \in Stack : helm[s] # r
    BY <2>1
  <2> QED
    BY <2>1, <2>2, <2>4, <2>5, <2>6, <2>7, OthersTypes
<1> QED
  BY <1>1, <1>2

LEMMA PutReleases ==
  ASSUME Types, NEW r \in Request, pc[r] = "deploy", NEW s \in req[r].queue,
         releases' = Put(releases, s, [params |-> req[r].rows[s], seed |-> req[r].seed])
  PROVE  /\ DOMAIN releases' \subseteq DOMAIN rows
         /\ \A t \in DOMAIN releases' : releases'[t].params \in Row(t) /\ releases'[t].seed \in Values
<1> USE Typed
<1>1. s \in DOMAIN req[r].rows /\ s \in DOMAIN rows /\ req[r].rows[s] \in Row(s) /\ req[r].seed \in Values
  BY DEF Read, Resolved, Pending
<1>2. DOMAIN releases' = DOMAIN releases \cup {s}
  BY DEF Put
<1>3. \A t \in DOMAIN releases' :
        releases'[t] = IF t = s THEN [params |-> req[r].rows[s], seed |-> req[r].seed] ELSE releases[t]
  BY DEF Put
<1>4. releases'[s].params \in Row(s) /\ releases'[s].seed \in Values
  BY <1>1, <1>2, <1>3
<1>5. ASSUME NEW t \in DOMAIN releases', t # s
      PROVE  releases'[t].params \in Row(t) /\ releases'[t].seed \in Values
  BY <1>2, <1>3, <1>5
<1> QED
  BY <1>1, <1>2, <1>4, <1>5
\* One stack less to deploy.
LEMMA DequeueTypes ==
  ASSUME Types, NEW r \in Request, NEW s \in req[r].queue, pc[r] = "deploy",
         Dequeue(r, s), UNCHANGED <<rows, faults, stale, disturbed>>,
         DOMAIN releases' \subseteq DOMAIN rows,
         \A t \in DOMAIN releases' : releases'[t].params \in Row(t) /\ releases'[t].seed \in Values,
         helm' \in [Stack -> Request \cup {Empty}],
         \A t \in Stack : helm'[t] = Empty \/ (helm'[t] = helm[t] /\ (t # s \/ helm[t] # r))
  PROVE  Types'
<1>1. /\ req[r] \in Pending /\ Read(r) /\ req[r].queue \subseteq DOMAIN req[r].rows
      /\ \A t \in Stack : helm[t] = r => t \in req[r].queue
      /\ faults \in 0..MaxFaults /\ disturbed \in BOOLEAN
      /\ Idle \in Pending /\ Idle.queue = {}
  BY Typed
<1>2. CASE req[r].queue = {s}
  <2>1. Goto(r, "done") /\ req' = [req EXCEPT ![r] = Idle]
    BY <1>2 DEF Dequeue
  <2>2. pc'[r] = "done"
    BY <2>1 DEF Types, Goto
  <2>3. Read(r)'
    BY <2>2 DEF Read
  <2>4. "done" \in Labels
    BY DEF Labels, Ended
  <2>5. \A t \in Stack : helm'[t] = Empty \/ (helm'[t] = helm[t] /\ helm[t] # r)
    BY <1>1, <1>2
  <2> QED
    BY <1>1, <2>1, <2>3, <2>4, <2>5, OthersTypes
<1>3. CASE req[r].queue # {s}
  <2> DEFINE x == [req[r] EXCEPT !.queue = req[r].queue \ {s}]
  <2>1. Goto(r, "deploy") /\ req' = [req EXCEPT ![r] = x]
    BY <1>3 DEF Dequeue, Types
  <2>2. x \in Pending /\ x.rows = req[r].rows /\ x.queue = req[r].queue \ {s}
    BY <1>1 DEF Pending
  <2> HIDE DEF x
  <2>3. pc'[r] = "deploy" /\ req'[r] = x
    BY <2>1 DEF Types, Goto
  <2>4. Read(r)'
    BY <1>1, <2>2, <2>3 DEF Read, Resolved
  <2>5. "deploy" \in Labels
    BY DEF Labels
  <2>6. x.queue \subseteq DOMAIN x.rows
    BY <1>1, <2>2
  <2>7. \A t \in Stack : \/ helm'[t] = helm[t] /\ helm[t] # r
                         \/ helm'[t] = Empty
                         \/ helm'[t] = r /\ t \in x.queue
    BY <1>1, <2>2
  <2> QED
    BY <1>1, <2>1, <2>2, <2>4, <2>5, <2>6, <2>7, OthersTypes
<1> QED
  BY <1>2, <1>3

LEMMA HelmTypes ==
  ASSUME Types, NEW r \in Request, NEW s \in Stack, SyncStart(r, s) \/ Sync(r, s) \/ SyncBusy(r, s)
  PROVE  Types'
<1>1. /\ req[r] \in Pending /\ Read(r) /\ req[r].queue \subseteq DOMAIN req[r].rows
      /\ \A t \in Stack : helm[t] = r => t \in req[r].queue
      /\ DOMAIN releases \subseteq DOMAIN rows
      /\ \A t \in DOMAIN releases : releases[t].params \in Row(t) /\ releases[t].seed \in Values
      /\ helm \in [Stack -> Request \cup {Empty}] /\ faults \in 0..MaxFaults
      /\ disturbed \in BOOLEAN /\ r # Empty
  BY Typed, ParametersAssumption
<1>2. CASE SyncStart(r, s)
  <2>1. /\ pc[r] = "deploy" /\ s \in req[r].queue /\ helm' = [helm EXCEPT ![s] = r]
        /\ UNCHANGED <<rows, releases, pc, req, faults, stale, disturbed>>
    BY <1>2 DEF SyncStart, Deployable
  <2>2. Goto(r, "deploy") /\ req' = [req EXCEPT ![r] = req[r]]
    BY <2>1 DEF Goto, Types
  <2>3. Read(r)'
    BY <1>1, <2>1 DEF Read, Resolved
  <2>4. \A t \in Stack : \/ helm'[t] = helm[t] /\ helm[t] # r
                         \/ helm'[t] = Empty
                         \/ helm'[t] = r /\ t \in req[r].queue
    BY <1>1, <2>1
  <2>5. helm' \in [Stack -> Request \cup {Empty}] /\ "deploy" \in Labels
    BY <1>1, <2>1 DEF Labels
  <2> QED
    BY <1>1, <2>1, <2>2, <2>3, <2>4, <2>5, OthersTypes
<1>3. CASE Sync(r, s)
  <2>1. /\ pc[r] = "deploy" /\ s \in req[r].queue /\ Dequeue(r, s)
        /\ helm' = [helm EXCEPT ![s] = Empty]
        /\ releases' = Put(releases, s, [params |-> req[r].rows[s], seed |-> req[r].seed])
        /\ UNCHANGED <<rows, faults, stale, disturbed>>
    BY <1>1, <1>3 DEF Sync
  <2>2. /\ helm' \in [Stack -> Request \cup {Empty}]
        /\ \A t \in Stack : helm'[t] = Empty \/ (helm'[t] = helm[t] /\ t # s)
    BY <1>1, <2>1
  <2>3. /\ DOMAIN releases' \subseteq DOMAIN rows
        /\ \A t \in DOMAIN releases' : releases'[t].params \in Row(t) /\ releases'[t].seed \in Values
    BY <2>1, PutReleases
  <2> QED
    BY <2>1, <2>2, <2>3, DequeueTypes
<1>4. CASE SyncBusy(r, s)
  <2>1. /\ pc[r] = "deploy" /\ s \in req[r].queue /\ Dequeue(r, s) /\ helm[s] # r
        /\ UNCHANGED <<rows, releases, helm, faults, stale, disturbed>>
    BY <1>4 DEF SyncBusy, Deployable
  <2>2. \A t \in Stack : helm'[t] = helm[t] /\ (t # s \/ helm[t] # r)
    BY <2>1
  <2> QED
    BY <1>1, <2>1, <2>2, DequeueTypes
<1> QED
  BY <1>2, <1>3, <1>4

\* Whatever fails, and a save that comes second.
LEMMA FailsTypes ==
  ASSUME Types, NEW r \in Request, CallFails(r) \/ Duplicated(r) PROVE Types'
<1>1. /\ \A t \in Stack : helm[t] = r => pc[r] = "deploy" /\ t \in req[r].queue
      /\ DOMAIN releases \subseteq DOMAIN rows
      /\ \A t \in DOMAIN releases : releases[t].params \in Row(t) /\ releases[t].seed \in Values
      /\ helm \in [Stack -> Request \cup {Empty}] /\ faults \in 0..MaxFaults
      /\ disturbed \in BOOLEAN /\ r # Empty /\ MaxFaults \in Nat
      /\ Idle \in Pending /\ Idle.queue = {} /\ "failed" \in Labels
  BY Typed, ParametersAssumption DEF Labels, Ended
<1>2. Goto(r, "failed") /\ req' = [req EXCEPT ![r] = Idle] /\ UNCHANGED <<rows, stale>>
  BY DEF CallFails, Duplicated
<1>3. Read(r)'
  <2>1. pc'[r] = "failed"
    BY <1>2 DEF Types, Goto
  <2> QED
    BY <2>1 DEF Read
<1>4. faults' \in 0..MaxFaults /\ disturbed' \in BOOLEAN
  <2>1. CASE CallFails(r)
    <3>1. faults < MaxFaults /\ faults' = faults + 1
      BY <2>1 DEF CallFails
    <3>2. disturbed' = TRUE
      BY <2>1 DEF CallFails
    <3>3. disturbed' \in BOOLEAN
      BY <3>2
    <3> QED
      BY <1>1, <3>1, <3>3
  <2>2. CASE Duplicated(r)
    BY <1>1, <2>2 DEF Duplicated
  <2> QED
    BY <2>1, <2>2
<1>5. /\ helm' \in [Stack -> Request \cup {Empty}]
      /\ \A t \in Stack : helm'[t] = Empty \/ (helm'[t] = helm[t] /\ helm[t] # r)
  <2>1. CASE CallFails(r)
    BY <1>1, <2>1 DEF CallFails
  <2>2. CASE Duplicated(r)
    BY <1>1, <2>2 DEF Duplicated
  <2> QED
    BY <2>1, <2>2
<1>6. /\ DOMAIN releases' \subseteq DOMAIN rows
      /\ \A t \in DOMAIN releases' : releases'[t].params \in Row(t) /\ releases'[t].seed \in Values
  <2>1. CASE UNCHANGED releases
    BY <1>1, <2>1
  <2>2. CASE releases' = [s \in DOMAIN releases \ {On[r]} |-> releases[s]]
    BY <1>1, <2>2
  <2>3. ASSUME NEW s \in Stack, helm[s] = r,
               releases' = Put(releases, s, [params |-> req[r].rows[s], seed |-> req[r].seed])
        PROVE  /\ DOMAIN releases' \subseteq DOMAIN rows
               /\ \A t \in DOMAIN releases' : releases'[t].params \in Row(t) /\ releases'[t].seed \in Values
    BY <1>1, <2>3, PutReleases
  <2> QED
    BY <2>1, <2>2, <2>3 DEF CallFails, Duplicated
<1> QED
  BY <1>1, <1>2, <1>3, <1>4, <1>5, <1>6, OthersTypes

LEMMA NextTypes == ASSUME Types, [Next]_vars PROVE Types'
<1>1. CASE UNCHANGED vars
  BY <1>1 DEF vars, Types, Read, Resolved, Closed
<1>2. ASSUME NEW r \in Request,
             \/ SaveInstanceBegin(r) \/ UpdateInstanceBegin(r) \/ UpdateInstanceResolve(r)
             \/ StoreInstance(r) \/ Duplicated(r)
             \/ DeployBegin(r) \/ ResetBegin(r) \/ DestroyInstance(r) \/ Reload(r) \/ CallFails(r)
             \/ \E s \in Stack : SyncStart(r, s) \/ Sync(r, s) \/ SyncBusy(r, s)
      PROVE  Types'
  BY <1>2, ResolveTypes, StoreTypes, DeployTypes, ResetTypes, HelmTypes, FailsTypes
<1> QED
  BY <1>1, <1>2 DEF Next

\* Whatever requests run at once and whatever fails, every instance is stored and deployed with
\* a value for each parameter of its stack.
THEOREM TypeCorrect == Spec => []TypeOK
<1>1. Types => TypeOK
  BY DEF Types, TypeOK, Resolved, AnyRows, Values, Pending
<1> QED
  BY <1>1, InitTypes, NextTypes, PTL DEF Spec
-----------------------------------------------------------------------------
(* What is consumed. *)

FreshRow(rs, s, row) == \A p \in Consumed(s) : row[p] = Provided(rs, s, p)

\* A row is what its providers have, unless they were stored since it was resolved.
FreshInv ==
  /\ ConsumedFresh
  /\ \A r \in Request : pc[r] = "store" /\ ~req[r].late => FreshRow(rows, On[r], req[r].row)

\* Storing an instance changes nothing for those that do not require it.
LEMMA KeepsFresh ==
  ASSUME Types, NEW rs, NEW s \in Stack, NEW row, Catalogue[s].requires \subseteq DOMAIN rows,
         \A t \in Catalogue[s].requires : rs[t] = rows[t], FreshRow(rows, s, row)
  PROVE  FreshRow(rs, s, row)
<1> SUFFICES ASSUME NEW p \in Consumed(s) PROVE row[p] = Provided(rs, s, p)
  BY DEF FreshRow
<1>1. \A t \in Catalogue[s].requires : t \in Stack /\ rows[t] \in Row(t)
  BY DEF Types, Resolved, AnyRows
<1>2. Carrying(rows, s, p) # {}
  BY <1>1, Carried
<1>3. Carrying(rs, s, p) # {}
  BY <1>2 DEF Carrying
<1>4. Provided(rs, s, p) = Provided(rows, s, p)
  BY <1>3, SameProvided
<1> QED
  BY <1>4 DEF FreshRow

LEMMA StoreFresh ==
  ASSUME Types, FreshInv, NEW r \in Request, StoreInstance(r) PROVE FreshInv'
<1> DEFINE s == On[r]
           Later == {q \in Request \ {r} : pc[q] = "store" /\ s \in Catalogue[On[q]].requires}
<1>1. /\ pc[r] = "store" /\ s \in Stack /\ req[r].row \in Row(s)
      /\ Catalogue[s].requires \subseteq DOMAIN rows /\ Resolved(rows) /\ Closed(rows)
      /\ DOMAIN rows \subseteq Stack
  BY Typed DEF StoreInstance, Types, Read
<1>2. /\ rows' = Put(rows, s, req[r].row)
      /\ stale' = (stale \ {s}) \cup {t \in DOMAIN rows : s \in Catalogue[t].requires}
                                \cup (IF req[r].late THEN {s} ELSE {})
      /\ Op[r] = "saveInstance" => s \notin DOMAIN rows
  BY DEF StoreInstance
<1>3. /\ pc' = [pc EXCEPT ![r] = IF Op[r] = "saveInstance" THEN "done" ELSE "reload"]
      /\ req' = [q \in Request |-> IF q \in Later THEN [req[q] EXCEPT !.late = TRUE]
                                   ELSE IF q = r /\ Op[r] = "saveInstance" THEN Idle ELSE req[q]]
  BY DEF StoreInstance, Goto, s
<1> HIDE DEF s
<1>4. /\ DOMAIN rows' = DOMAIN rows \cup {s} /\ rows'[s] = req[r].row
      /\ \A t \in DOMAIN rows : t # s => rows'[t] = rows[t]
  <2>1. rows' = [t \in DOMAIN rows \cup {s} |-> IF t = s THEN req[r].row ELSE rows[t]]
    BY <1>2 DEF Put
  <2> QED
    BY <2>1
<1>5. ASSUME NEW t \in Stack, NEW row, Catalogue[t].requires \subseteq DOMAIN rows,
             s \notin Catalogue[t].requires, FreshRow(rows, t, row)
      PROVE  FreshRow(rows', t, row)
  <2>1. \A u \in Catalogue[t].requires : rows'[u] = rows[u]
    BY <1>4, <1>5
  <2> QED
    BY <1>5, <2>1, KeepsFresh
<1>6. ASSUME NEW t \in DOMAIN rows' \ stale' PROVE FreshRow(rows', t, rows'[t])
  <2>1. CASE t = s
    <3>1. ~req[r].late /\ s \notin Catalogue[s].requires
      BY <1>1, <1>2, <1>6, <2>1
    <3>2. FreshRow(rows, s, req[r].row)
      BY <1>1, <3>1 DEF FreshInv, s
    <3>3. FreshRow(rows', s, req[r].row)
      BY <1>1, <1>5, <3>1, <3>2
    <3> QED
      BY <1>4, <2>1, <3>3
  <2>2. CASE t # s
    <3>1. t \in DOMAIN rows \ stale /\ s \notin Catalogue[t].requires
      BY <1>2, <1>4, <1>6, <2>2
    <3>2. FreshRow(rows, t, rows[t])
      BY <3>1 DEF FreshInv, ConsumedFresh, FreshRow
    <3>3. t \in Stack /\ Catalogue[t].requires \subseteq DOMAIN rows
      BY <1>1, <3>1 DEF Closed
    <3>4. FreshRow(rows', t, rows[t])
      BY <1>5, <3>1, <3>2, <3>3
    <3> QED
      BY <1>4, <2>2, <3>1, <3>4
  <2> QED
    BY <2>1, <2>2
<1>7. ASSUME NEW q \in Request, pc'[q] = "store", ~req'[q].late
      PROVE  FreshRow(rows', On[q], req'[q].row)
  <2>1. q # r
    BY <1>3, <1>7 DEF Types
  <2>2. pc[q] = "store"
    BY <1>3, <1>7, <2>1 DEF Types
  <2>3. q \notin Later
    <3> SUFFICES ASSUME q \in Later PROVE FALSE
      OBVIOUS
    <3>1. req'[q] = [req[q] EXCEPT !.late = TRUE]
      BY <1>3
    <3>2. req[q] \in Pending
      BY DEF Types
    <3>3. req'[q].late
      BY <3>1, <3>2 DEF Pending
    <3> QED
      BY <1>7, <3>3
  <2>4. req'[q] = req[q]
    BY <1>3, <2>1, <2>3
  <2>5. s \notin Catalogue[On[q]].requires
    BY <2>1, <2>2, <2>3 DEF Later
  <2>6. /\ FreshRow(rows, On[q], req[q].row) /\ On[q] \in Stack
        /\ Catalogue[On[q]].requires \subseteq DOMAIN rows
    BY <1>7, <2>2, <2>4, ParametersAssumption DEF FreshInv, Types, Read
  <2> QED
    BY <1>5, <2>4, <2>5, <2>6
<1> QED
  BY <1>6, <1>7 DEF FreshInv, ConsumedFresh, FreshRow

\* A request that is about to store has just resolved.
LEMMA ResolveFresh ==
  ASSUME Types, NEW r \in Request, SaveInstanceBegin(r) \/ UpdateInstanceResolve(r)
  PROVE  FreshRow(rows, On[r], req'[r].row)
<1>1. /\ req \in [Request -> Pending] /\ On[r] \in Stack /\ Resolved(rows) /\ Closed(rows)
      /\ \A p \in DOMAIN With[r] : With[r][p] \in Values
  BY ParametersAssumption DEF Types, Values
<1>2. CASE SaveInstanceBegin(r)
  <2>1. Catalogue[On[r]].requires \subseteq DOMAIN rows
    BY <1>2 DEF SaveInstanceBegin, CanSave
  <2>2. req'[r].row = Resolve(rows, On[r], With[r])
    BY <1>1, <1>2 DEF SaveInstanceBegin, Pending
  <2> QED
    BY <1>1, <2>1, <2>2, ResolveRow DEF FreshRow
<1>3. CASE UpdateInstanceResolve(r)
  <2>1. pc[r] = "load" /\ On[r] \in DOMAIN rows /\ req[r].row \in Row(On[r])
    BY <1>3 DEF UpdateInstanceResolve, Types, Read
  <2>2. Catalogue[On[r]].requires \subseteq DOMAIN rows
    BY <1>1, <2>1 DEF Closed
  <2>3. \A p \in DOMAIN req[r].row : req[r].row[p] \in Values
    BY <2>1 DEF Row, Values
  <2>4. req'[r].row = Resolve(rows, On[r], req[r].row)
    BY <1>1, <1>3 DEF UpdateInstanceResolve, Pending
  <2> QED
    BY <1>1, <2>2, <2>3, <2>4, ResolveRow DEF FreshRow
<1> QED
  BY <1>2, <1>3

\* The other steps store nothing, and only those bring a request to where it stores.
LEMMA OthersFresh ==
  ASSUME Types, FreshInv, NEW r \in Request, NEW l \in Labels, Goto(r, l),
         UNCHANGED <<rows, stale>>, \A q \in Request \ {r} : req'[q] = req[q],
         l = "store" => FreshRow(rows, On[r], req'[r].row)
  PROVE  FreshInv'
<1>1. pc'[r] = l /\ \A q \in Request \ {r} : pc'[q] = pc[q]
  BY DEF Types, Goto
<1>2. ConsumedFresh'
  BY DEF FreshInv, ConsumedFresh
<1>3. ASSUME NEW q \in Request, pc'[q] = "store", ~req'[q].late
      PROVE  FreshRow(rows, On[q], req'[q].row)
  BY <1>1, <1>3 DEF FreshInv
<1> QED
  BY <1>2, <1>3 DEF FreshInv, FreshRow

LEMMA InitFresh == Init => FreshInv
BY PresetAssumption DEF Init, FreshInv, ConsumedFresh
LEMMA NextFresh == ASSUME Types, FreshInv, [Next]_vars PROVE FreshInv'
<1>1. CASE UNCHANGED vars
  BY <1>1 DEF vars, FreshInv, ConsumedFresh, FreshRow
<1>2. ASSUME NEW r \in Request, StoreInstance(r) PROVE FreshInv'
  BY <1>2, StoreFresh
<1>3. ASSUME NEW r \in Request,
             \/ SaveInstanceBegin(r) \/ UpdateInstanceBegin(r) \/ UpdateInstanceResolve(r)
             \/ Duplicated(r)
             \/ DeployBegin(r) \/ ResetBegin(r) \/ DestroyInstance(r) \/ Reload(r) \/ CallFails(r)
             \/ \E s \in Stack : SyncStart(r, s) \/ Sync(r, s) \/ SyncBusy(r, s)
      PROVE  FreshInv'
  <2>1. UNCHANGED <<rows, stale>>
    BY <1>3 DEF SaveInstanceBegin, UpdateInstanceBegin, UpdateInstanceResolve, Duplicated, DeployBegin,
                ResetBegin, DestroyInstance, Reload, CallFails, SyncStart, Sync, SyncBusy
  <2>2. \A q \in Request \ {r} : req'[q] = req[q]
    BY <1>3 DEF SaveInstanceBegin, UpdateInstanceBegin, UpdateInstanceResolve, Duplicated, DeployBegin,
                ResetBegin, DestroyInstance, Reload, CallFails, SyncStart, Sync, SyncBusy, Dequeue, Types
  <2>3. CASE SaveInstanceBegin(r) \/ UpdateInstanceResolve(r)
    <3>1. Goto(r, "store") /\ FreshRow(rows, On[r], req'[r].row) /\ "store" \in Labels
      BY <2>3, ResolveFresh DEF SaveInstanceBegin, UpdateInstanceResolve, Labels
    <3> QED
      BY <2>1, <2>2, <3>1, OthersFresh
  <2>4. ASSUME NEW s \in Stack, SyncStart(r, s) PROVE FreshInv'
    BY <2>4 DEF SyncStart, FreshInv, ConsumedFresh, FreshRow
  <2>5. CASE \/ UpdateInstanceBegin(r) \/ Duplicated(r) \/ DeployBegin(r) \/ ResetBegin(r)
             \/ DestroyInstance(r) \/ Reload(r) \/ CallFails(r)
             \/ \E s \in Stack : Sync(r, s) \/ SyncBusy(r, s)
    <3>1. \E l \in Labels \ {"store"} : Goto(r, l)
      BY <2>5 DEF UpdateInstanceBegin, Duplicated, DeployBegin, ResetBegin, DestroyInstance, Reload,
                  CallFails, Sync, SyncBusy, Dequeue, Labels, Ended
    <3> QED
      BY <2>1, <2>2, <3>1, OthersFresh
  <2> QED
    BY <1>3, <2>3, <2>4, <2>5
<1> QED
  BY <1>1, <1>2, <1>3 DEF Next

\* For any catalogue that is valid, any requests and any failures: what an instance has stored
\* of a parameter it consumes is what its provider has stored, unless that was stored since.
THEOREM ConsumesWhatIsStored == Spec => []ConsumedFresh
<1>1. Types /\ FreshInv /\ [Next]_vars => (Types /\ FreshInv)'
  BY NextTypes, NextFresh
<1>2. FreshInv => ConsumedFresh
  BY DEF FreshInv
<1> QED
  BY <1>1, <1>2, InitTypes, InitFresh, PTL DEF Spec
-----------------------------------------------------------------------------
(* What is released. *)

\* The stacks whose releases a request has yet to bring to what is stored.
Behind(r) ==
  IF pc[r] = "reload" THEN {On[r]} ELSE IF pc[r] = "deploy" THEN req[r].queue ELSE {}

\* What a request is going to deploy is what is stored.
ReadsStored(r) ==
  /\ pc[r] \in {"destroy", "reload"} /\ Op[r] # "updateInstance" => req[r].row = rows[On[r]]
  /\ pc[r] = "deploy" => \A s \in req[r].queue : req[r].rows[s] = rows[s]

\* While nothing has failed and no two requests have overlapped.
ReleaseInv ==
  ~disturbed =>
    /\ \A r \in Active, q \in Active : r = q
    /\ \A s \in DOMAIN releases :
         releases[s].params = rows[s] \/ \E r \in Active : s \in Behind(r)
    /\ \A r \in Active : ReadsStored(r)

LEMMA Before ==
  ASSUME Types, ReleaseInv, ~disturbed, NEW r \in Request, Active \subseteq {r}
  PROVE  /\ \A s \in DOMAIN releases \ Behind(r) : releases[s].params = rows[s]
         /\ pc[r] \notin Ended => ReadsStored(r)
BY DEF ReleaseInv, Active

LEMMA After ==
  ASSUME Types, NEW r \in Request, NEW l \in Labels, Goto(r, l), Active \subseteq {r},
         l \in Ended => Behind(r)' = {},
         \A s \in DOMAIN releases' \ Behind(r)' : releases'[s].params = rows'[s],
         ReadsStored(r)'
  PROVE  ReleaseInv'
<1>1. pc'[r] = l /\ \A q \in Request \ {r} : pc'[q] = pc[q]
  BY DEF Types, Goto
<1>2. Active' \subseteq {r} /\ (l \notin Ended => r \in Active')
  BY <1>1 DEF Active
<1>3. \A s \in DOMAIN releases' :
        releases'[s].params = rows'[s] \/ \E q \in Active' : s \in Behind(q)'
  BY <1>2
<1>4. \A q \in Active' : ReadsStored(q)'
  BY <1>2
<1>5. \A p \in Active', q \in Active' : p = q
  BY <1>2
<1> QED
  BY <1>3, <1>4, <1>5 DEF ReleaseInv

LEMMA BeginsReleased ==
  ASSUME Types, ReleaseInv, ~disturbed', NEW r \in Request,
         SaveInstanceBegin(r) \/ UpdateInstanceBegin(r) \/ DeployBegin(r) \/ ResetBegin(r)
  PROVE  ReleaseInv'
<1>1. pc[r] = "idle" /\ ~disturbed /\ Active = {} /\ UNCHANGED <<rows, releases>>
  BY DEF SaveInstanceBegin, UpdateInstanceBegin, DeployBegin, ResetBegin, CanBegin, Begins
<1>2. Active \subseteq {r} /\ Behind(r) = {}
  BY <1>1 DEF Behind
<1>3. \A s \in DOMAIN releases' : releases'[s].params = rows'[s]
  BY <1>1, <1>2, Before
<1>4. PICK l \in Labels \ Ended :
        /\ Goto(r, l)
        /\ l = "destroy" => req'[r].row = rows[On[r]]
        /\ l = "deploy" => req'[r].rows = rows
        /\ l # "reload"
  <2>1. req \in [Request -> Pending]
    BY DEF Types
  <2>2. CASE SaveInstanceBegin(r)
    BY <2>2 DEF SaveInstanceBegin, Labels, Ended
  <2>3. CASE UpdateInstanceBegin(r)
    BY <2>3 DEF UpdateInstanceBegin, Labels, Ended
  <2>4. CASE DeployBegin(r)
    <3>1. req'[r].rows = rows
      BY <2>1, <2>4 DEF DeployBegin, Pending
    <3> QED
      BY <2>4, <3>1 DEF DeployBegin, Labels, Ended
  <2>5. CASE ResetBegin(r)
    <3>1. req'[r].row = rows[On[r]]
      BY <2>1, <2>5 DEF ResetBegin, Pending
    <3> QED
      BY <2>5, <3>1 DEF ResetBegin, Labels, Ended
  <2> QED
    BY <2>2, <2>3, <2>4, <2>5
<1>5. pc'[r] = l
  BY <1>4 DEF Types, Goto
<1>6. ReadsStored(r)'
  BY <1>1, <1>4, <1>5 DEF ReadsStored
<1> QED
  BY <1>2, <1>3, <1>4, <1>6, After

LEMMA GoesReleased ==
  ASSUME Types, ReleaseInv, ~disturbed', NEW r \in Request,
         UpdateInstanceResolve(r) \/ StoreInstance(r) \/ Duplicated(r) \/ DestroyInstance(r) \/ Reload(r)
  PROVE  ReleaseInv'
<1>1. pc[r] \notin Ended /\ ~disturbed
  BY DEF UpdateInstanceResolve, StoreInstance, Duplicated, DestroyInstance, Reload, Ended
<1>2. Active \subseteq {r}
  BY <1>1 DEF ReleaseInv, Active
<1>3. (\A s \in DOMAIN releases \ Behind(r) : releases[s].params = rows[s]) /\ ReadsStored(r)
  BY <1>1, <1>2, Before
<1>4. CASE UpdateInstanceResolve(r) \/ Duplicated(r)
  <2>1. PICK l \in {"store", "failed"} : Goto(r, l)
    BY <1>4 DEF UpdateInstanceResolve, Duplicated
  <2>2. pc'[r] = l /\ l \in Labels
    BY <2>1 DEF Types, Goto, Labels, Ended
  <2>3. Behind(r) = {} /\ Behind(r)' = {} /\ ReadsStored(r)' /\ UNCHANGED <<rows, releases>>
    BY <1>4, <2>2 DEF Behind, ReadsStored, UpdateInstanceResolve, Duplicated
  <2> QED
    BY <1>2, <1>3, <2>1, <2>2, <2>3, After
<1>5. CASE StoreInstance(r)
  <2>1. /\ pc[r] = "store" /\ UNCHANGED releases /\ rows' = Put(rows, On[r], req[r].row)
        /\ Op[r] = "saveInstance" => On[r] \notin DOMAIN rows
        /\ Goto(r, IF Op[r] = "saveInstance" THEN "done" ELSE "reload")
    BY <1>5 DEF StoreInstance
  <2>2. pc'[r] = IF Op[r] = "saveInstance" THEN "done" ELSE "reload"
    BY <2>1 DEF Types, Goto
  <2>3. /\ rows'[On[r]] = req[r].row
        /\ \A s \in DOMAIN rows : s # On[r] => rows'[s] = rows[s]
    <3>1. rows' = [s \in DOMAIN rows \cup {On[r]} |-> IF s = On[r] THEN req[r].row ELSE rows[s]]
      BY <2>1 DEF Put
    <3> QED
      BY <3>1
  <2>4. \A s \in DOMAIN releases : s # On[r] => releases'[s].params = rows'[s]
    <3>1. Behind(r) = {} /\ DOMAIN releases \subseteq DOMAIN rows
      BY <2>1 DEF Behind, Types
    <3> QED
      BY <1>3, <2>1, <2>3, <3>1
  <2>5. Op[r] = "saveInstance" => On[r] \notin DOMAIN releases
    BY <2>1 DEF Types
  <2>6. Op[r] # "saveInstance" => req'[r].row = req[r].row
    BY <1>5 DEF StoreInstance
  <2>7. ReadsStored(r)'
    BY <2>2, <2>3, <2>6 DEF ReadsStored
  <2>8. \A s \in DOMAIN releases' \ Behind(r)' : releases'[s].params = rows'[s]
    BY <2>1, <2>2, <2>4, <2>5 DEF Behind
  <2>9. CASE Op[r] = "saveInstance"
    <3>1. Behind(r)' = {} /\ "done" \in Labels /\ Goto(r, "done")
      BY <2>1, <2>2, <2>9 DEF Behind, Labels, Ended
    <3> QED
      BY <1>2, <2>7, <2>8, <3>1, After
  <2>10. CASE Op[r] # "saveInstance"
    <3>1. "reload" \in Labels \ Ended /\ Goto(r, "reload")
      BY <2>1, <2>10 DEF Labels, Ended
    <3> QED
      BY <1>2, <2>7, <2>8, <3>1, After
  <2> QED
    BY <2>9, <2>10
<1>6. CASE DestroyInstance(r)
  <2>1. /\ pc[r] = "destroy" /\ Goto(r, "reload") /\ UNCHANGED <<rows, req>>
        /\ releases' = [s \in DOMAIN releases \ {On[r]} |-> releases[s]]
    BY <1>6 DEF DestroyInstance
  <2>2. pc'[r] = "reload" /\ "reload" \in Labels \ Ended
    BY <2>1 DEF Types, Goto, Labels, Ended
  <2>3. ReadsStored(r)'
    BY <1>3, <2>1, <2>2 DEF ReadsStored
  <2>4. \A s \in DOMAIN releases' \ Behind(r)' : releases'[s].params = rows'[s]
    BY <1>3, <2>1 DEF Behind
  <2> QED
    BY <1>2, <2>1, <2>2, <2>3, <2>4, After
<1>7. CASE Reload(r)
  <2>1. /\ pc[r] = "reload" /\ Goto(r, "deploy") /\ UNCHANGED <<rows, releases>>
        /\ req'[r].rows = Put(rows, On[r], ToDeploy(r)) /\ req'[r].queue = {On[r]}
    <3>1. req[r] \in Pending
      BY DEF Types
    <3>2. PICK seed \in Seeds(rows, AnyCarrier(rows)) :
            req' = [req EXCEPT ![r].rows = Put(rows, On[r], ToDeploy(r)), ![r].queue = {On[r]},
                               ![r].seed = seed]
      BY <1>7 DEF Reload
    <3>3. req'[r] = [req[r] EXCEPT !.rows = Put(rows, On[r], ToDeploy(r)), !.queue = {On[r]},
                                   !.seed = seed]
      BY <3>2 DEF Types
    <3>4. req'[r].rows = Put(rows, On[r], ToDeploy(r)) /\ req'[r].queue = {On[r]}
      BY <3>1, <3>3 DEF Pending
    <3> QED
      BY <1>7, <3>4 DEF Reload
  <2>2. pc'[r] = "deploy" /\ "deploy" \in Labels \ Ended
    BY <2>1 DEF Types, Goto, Labels, Ended
  <2>3. Put(rows, On[r], ToDeploy(r))[On[r]] = ToDeploy(r)
    BY DEF Put
  <2>4. ToDeploy(r) = rows[On[r]]
    BY <1>3, <2>1 DEF ReadsStored, ToDeploy
  <2>5. ReadsStored(r)'
    BY <2>1, <2>2, <2>3, <2>4 DEF ReadsStored
  <2>6. \A s \in DOMAIN releases' \ Behind(r)' : releases'[s].params = rows'[s]
    BY <1>3, <2>1, <2>2 DEF Behind
  <2> QED
    BY <1>2, <2>1, <2>2, <2>5, <2>6, After
<1> QED
  BY <1>4, <1>5, <1>6, <1>7
LEMMA HelmReleased ==
  ASSUME Types, ReleaseInv, ~disturbed', NEW r \in Request, NEW s \in Stack,
         SyncStart(r, s) \/ Sync(r, s) \/ SyncBusy(r, s)
  PROVE  ReleaseInv'
<1>1. pc[r] = "deploy" /\ ~disturbed /\ UNCHANGED rows
  BY DEF SyncStart, Sync, SyncBusy
<1>2. Active \subseteq {r}
  BY <1>1 DEF ReleaseInv, Active, Ended
<1>3. /\ \A t \in DOMAIN releases : t \notin req[r].queue => releases[t].params = rows[t]
      /\ \A t \in req[r].queue : req[r].rows[t] = rows[t]
  BY <1>1, <1>2, Before DEF Behind, ReadsStored, Ended
<1>4. CASE SyncStart(r, s)
  BY <1>4 DEF SyncStart, ReleaseInv, Active, Behind, ReadsStored
<1>5. CASE Sync(r, s)
  <2>1. /\ s \in req[r].queue /\ Dequeue(r, s)
        /\ releases' = Put(releases, s, [params |-> req[r].rows[s], seed |-> req[r].seed])
    BY <1>5 DEF Sync, Types
  <2>2. \A t \in DOMAIN releases' : t \notin req[r].queue \ {s} => releases'[t].params = rows[t]
    <3>1. releases' = [t \in DOMAIN releases \cup {s} |->
                         IF t = s THEN [params |-> req[r].rows[s], seed |-> req[r].seed] ELSE releases[t]]
      BY <2>1 DEF Put
    <3> QED
      BY <1>3, <2>1, <3>1
  <2>3. CASE req[r].queue = {s}
    <3>1. Goto(r, "done") /\ "done" \in Labels
      BY <2>1, <2>3 DEF Dequeue, Labels, Ended
    <3>2. pc'[r] = "done"
      BY <3>1 DEF Types, Goto
    <3>3. Behind(r)' = {} /\ ReadsStored(r)'
      BY <3>2 DEF Behind, ReadsStored
    <3> QED
      BY <1>1, <1>2, <2>2, <2>3, <3>1, <3>3, After
  <2>4. CASE req[r].queue # {s}
    <3>1. Goto(r, "deploy") /\ "deploy" \in Labels \ Ended
      BY <2>1, <2>4 DEF Dequeue, Labels, Ended
    <3>2. pc'[r] = "deploy"
      BY <3>1 DEF Types, Goto
    <3>3. req'[r].queue = req[r].queue \ {s} /\ req'[r].rows = req[r].rows
      <4>1. req[r] \in Pending
        BY DEF Types
      <4>2. req'[r] = [req[r] EXCEPT !.queue = req[r].queue \ {s}]
        BY <2>1, <2>4 DEF Dequeue, Types
      <4> QED
        BY <4>1, <4>2 DEF Pending
    <3>4. Behind(r)' = req[r].queue \ {s} /\ ReadsStored(r)'
      BY <1>1, <1>3, <3>2, <3>3 DEF Behind, ReadsStored
    <3> QED
      BY <1>1, <1>2, <2>2, <3>1, <3>4, After
  <2> QED
    BY <2>3, <2>4
\* Helm works for no other request.
<1>6. CASE SyncBusy(r, s)
  <2>1. helm[s] \in Request \ {r}
    BY <1>6 DEF SyncBusy, Types
  <2>2. helm[s] \in Active
    BY <2>1 DEF Types, Active, Ended
  <2> QED
    BY <1>2, <2>1, <2>2
<1> QED
  BY <1>4, <1>5, <1>6

LEMMA InitReleased == Init => ReleaseInv
BY DEF Init, ReleaseInv, Active, Ended

LEMMA NextReleased == ASSUME Types, ReleaseInv, [Next]_vars PROVE ReleaseInv'
<1>1. CASE UNCHANGED vars
  BY <1>1 DEF vars, ReleaseInv, Active, Behind, ReadsStored
<1>2. CASE disturbed'
  BY <1>2 DEF ReleaseInv
<1>3. ASSUME ~disturbed', NEW r \in Request,
             \/ SaveInstanceBegin(r) \/ UpdateInstanceBegin(r) \/ UpdateInstanceResolve(r)
             \/ StoreInstance(r) \/ Duplicated(r)
             \/ DeployBegin(r) \/ ResetBegin(r) \/ DestroyInstance(r) \/ Reload(r) \/ CallFails(r)
             \/ \E s \in Stack : SyncStart(r, s) \/ Sync(r, s) \/ SyncBusy(r, s)
      PROVE  ReleaseInv'
  <2>1. ~CallFails(r)
    BY <1>3 DEF CallFails
  <2> QED
    BY <1>3, <2>1, BeginsReleased, GoesReleased, HelmReleased
<1> QED
  BY <1>1, <1>2, <1>3 DEF Next

\* Whatever instances are saved, updated, deployed and reset, one request after the other: when
\* none runs, a release runs with what is stored of its instance.
THEOREM ReleasesWhatIsStored == Spec => []ReleasedIsStored
<1>1. Types /\ ReleaseInv => ReleasedIsStored
  BY DEF ReleaseInv, ReleasedIsStored
<1>2. Types /\ ReleaseInv /\ [Next]_vars => (Types /\ ReleaseInv)'
  BY NextTypes, NextReleased
<1> QED
  BY <1>1, <1>2, InitTypes, InitReleased, PTL DEF Spec
-----------------------------------------------------------------------------
(* What the releases are seeded from. *)

\* Of the stacks that are asked for dhis2-db alone has a database of its own: dhis2 has one
\* too, and of two databases in a deployment either may be found first.
OneDatabase ==
  \A s \in DOMAIN Preset \cup {On[r] : r \in Request} : "DATABASE_ID" \in Own(s) => s = "dhis2-db"

\* Deploying a deployment goes through none of the other steps.
SeedInv ==
  /\ \A s \in DOMAIN rows : "DATABASE_ID" \in Own(s) => s = "dhis2-db"
  /\ \A r \in Request : pc[r] \in {"load", "store", "destroy", "reload"} => Op[r] # "deploy"

LEMMA InitSeed == OneDatabase /\ Init => SeedInv
BY DEF OneDatabase, Init, SeedInv

LEMMA NextSeed == ASSUME OneDatabase, Types, SeedInv, [Next]_vars PROVE SeedInv'
<1>1. CASE UNCHANGED vars
  BY <1>1 DEF vars, SeedInv
<1>2. ASSUME NEW r \in Request, StoreInstance(r) PROVE SeedInv'
  <2>1. DOMAIN rows' = DOMAIN rows \cup {On[r]} /\ pc[r] = "store"
    BY <1>2 DEF StoreInstance, Put
  <2>2. \A s \in DOMAIN rows' : "DATABASE_ID" \in Own(s) => s = "dhis2-db"
    BY <2>1 DEF OneDatabase, SeedInv
  <2>3. pc \in [Request -> Labels] /\ Op[r] # "deploy"
    BY <2>1 DEF Types, Labels, SeedInv
  <2>4. \A q \in Request \ {r} : pc'[q] = pc[q]
    BY <1>2, <2>3 DEF StoreInstance, Goto
  <2> QED
    BY <2>2, <2>3, <2>4 DEF SeedInv
<1>3. ASSUME NEW r \in Request,
             \/ SaveInstanceBegin(r) \/ UpdateInstanceBegin(r) \/ UpdateInstanceResolve(r)
             \/ Duplicated(r)
             \/ DeployBegin(r) \/ ResetBegin(r) \/ DestroyInstance(r) \/ Reload(r) \/ CallFails(r)
             \/ \E s \in Stack : SyncStart(r, s) \/ Sync(r, s) \/ SyncBusy(r, s)
      PROVE  SeedInv'
  <2>1. UNCHANGED rows /\ pc \in [Request -> Labels]
    BY <1>3 DEF SaveInstanceBegin, UpdateInstanceBegin, UpdateInstanceResolve, Duplicated, DeployBegin,
                ResetBegin, DestroyInstance, Reload, CallFails, SyncStart, Sync, SyncBusy, Types, Labels
  <2>2. ASSUME NEW s \in Stack, SyncStart(r, s) PROVE SeedInv'
    BY <2>2 DEF SyncStart, SeedInv
  <2>3. CASE ~\E s \in Stack : SyncStart(r, s)
    <3> DEFINE Moves(l) == Goto(r, l) /\ l \in Labels
                           /\ (l \in {"load", "store", "destroy", "reload"} => Op[r] # "deploy")
    <3>1. PICK l \in Labels : Goto(r, l) /\ (l \in {"load", "store", "destroy", "reload"} => Op[r] # "deploy")
      <4>1. SaveInstanceBegin(r) \/ UpdateInstanceResolve(r) => Moves("store")
        BY DEF SaveInstanceBegin, UpdateInstanceResolve, Labels, SeedInv
      <4>2. UpdateInstanceBegin(r) => Moves("load")
        BY DEF UpdateInstanceBegin, Labels
      <4>3. Duplicated(r) \/ CallFails(r) => Moves("failed")
        BY DEF Duplicated, CallFails, Labels, Ended
      <4>4. DeployBegin(r) \/ Reload(r) => Moves("deploy")
        BY DEF DeployBegin, Reload, Labels
      <4>5. ResetBegin(r) => Moves("destroy")
        BY DEF ResetBegin, Labels
      <4>6. DestroyInstance(r) => Moves("reload")
        BY DEF DestroyInstance, Labels, SeedInv
      <4>7. ASSUME NEW s \in Stack, Sync(r, s) \/ SyncBusy(r, s) PROVE Moves("done") \/ Moves("deploy")
        BY <4>7 DEF Sync, SyncBusy, Dequeue, Labels, Ended
      <4> HIDE DEF Moves
      <4>8. \E l \in {"store", "load", "failed", "deploy", "destroy", "reload", "done"} : Moves(l)
        BY <1>3, <2>3, <4>1, <4>2, <4>3, <4>4, <4>5, <4>6, <4>7
      <4> QED
        BY <4>8 DEF Moves
    <3>2. pc'[r] = l /\ \A q \in Request \ {r} : pc'[q] = pc[q]
      BY <2>1, <3>1 DEF Goto
    <3> QED
      BY <2>1, <3>1, <3>2 DEF SeedInv
  <2> QED
    BY <2>2, <2>3
<1> QED
  BY <1>1, <1>2, <1>3 DEF Next

\* An instance that has a DATABASE_ID it does not own has consumed it, and dhis2-db is there.
LEMMA ConsumesTheDatabase ==
  ASSUME Types, SeedInv, NEW s \in Carriers(rows), s # "dhis2-db"
  PROVE  /\ "DATABASE_ID" \in Consumed(s) /\ s \in Stack
         /\ Catalogue[s].requires \subseteq DOMAIN rows /\ "dhis2-db" \in Catalogue[s].requires
<1>1. s \in DOMAIN rows /\ s \in Stack /\ rows[s] \in Row(s) /\ Catalogue[s].requires \subseteq DOMAIN rows
  BY DEF Carriers, Types, Resolved, Closed, AnyRows
<1>2. "DATABASE_ID" \in Own(s) \cup Consumed(s)
  BY <1>1 DEF Carriers, Row
<1>3. "DATABASE_ID" \in Consumed(s)
  BY <1>1, <1>2 DEF SeedInv
<1>4. Catalogue[s].requires \subseteq Stack
  BY <1>1 DEF Types, Resolved, AnyRows
<1>5. PICK t \in Catalogue[s].requires : "DATABASE_ID" \in Own(t)
  BY <1>1, <1>3, <1>4, OwnedByRequired
<1>6. t = "dhis2-db"
  BY <1>1, <1>5 DEF SeedInv
<1> QED
  BY <1>1, <1>3, <1>5, <1>6

\* In the order of deployment dhis2-db is the first that has a DATABASE_ID.
LEMMA DatabaseFirst ==
  ASSUME Types, SeedInv, "dhis2-db" \in Carriers(rows) PROVE FirstCarrier(rows) = {"dhis2-db"}
<1>1. FirstCarrier(rows) \subseteq {"dhis2-db"}
  BY ConsumesTheDatabase DEF FirstCarrier
<1>2. "dhis2-db" \in FirstCarrier(rows)
  <2>1. SUFFICES ASSUME NEW t \in Catalogue["dhis2-db"].requires \cap Carriers(rows) PROVE FALSE
    BY DEF FirstCarrier
  <2>2. t \in Stack /\ "dhis2-db" \in Stack
    BY DEF Carriers, Types, Resolved, AnyRows
  <2>3. {t, "dhis2-db"} \in SUBSET Stack /\ {t, "dhis2-db"} # {}
    BY <2>2
  <2>4. PICK s \in {t, "dhis2-db"} : Catalogue[s].requires \cap {t, "dhis2-db"} = {}
    BY <2>3, CatalogueIsValid DEF ValidateNoCycles, Stack
  <2>5. t # "dhis2-db" => "dhis2-db" \in Catalogue[t].requires
    BY ConsumesTheDatabase
  <2> QED
    BY <2>1, <2>4, <2>5
<1> QED
  BY <1>1, <1>2

\* When nothing is stale all that have a DATABASE_ID have that of dhis2-db: those that have
\* another would each require one of them.
LEMMA CarriersAgree ==
  ASSUME Types, FreshInv, SeedInv, "dhis2-db" \in Carriers(rows), stale = {}
  PROVE  \A s \in Carriers(rows) : rows[s]["DATABASE_ID"] = rows["dhis2-db"]["DATABASE_ID"]
<1> DEFINE S == {s \in Carriers(rows) : rows[s]["DATABASE_ID"] # rows["dhis2-db"]["DATABASE_ID"]}
<1>1. SUFFICES ASSUME S # {} PROVE FALSE
  OBVIOUS
<1>2. Carriers(rows) \subseteq DOMAIN rows /\ DOMAIN rows \subseteq Stack
  BY DEF Carriers, Types, Resolved, AnyRows
<1>3. S \in SUBSET Stack
  BY <1>2
<1>4. PICK s \in S : Catalogue[s].requires \cap S = {}
  BY <1>1, <1>3, CatalogueIsValid DEF ValidateNoCycles, Stack
<1>5. /\ s \in Carriers(rows) /\ s # "dhis2-db"
      /\ rows[s]["DATABASE_ID"] # rows["dhis2-db"]["DATABASE_ID"]
  BY <1>4
<1>6. /\ "DATABASE_ID" \in Consumed(s) /\ s \in DOMAIN rows /\ s \in Stack
      /\ Catalogue[s].requires \subseteq DOMAIN rows
  BY <1>2, <1>5, ConsumesTheDatabase
<1>7. rows[s]["DATABASE_ID"] = Provided(rows, s, "DATABASE_ID")
  BY <1>6 DEF FreshInv, ConsumedFresh
<1> DEFINE u == CHOOSE t \in Carrying(rows, s, "DATABASE_ID") : TRUE
<1>8. u \in Carrying(rows, s, "DATABASE_ID")
  <2>1. \A t \in Catalogue[s].requires : t \in Stack /\ rows[t] \in Row(t)
    BY <1>2, <1>6 DEF Types, Resolved
  <2> QED
    BY <1>6, <2>1, Carried
<1>9. rows[s]["DATABASE_ID"] = rows[u]["DATABASE_ID"]
  BY <1>7 DEF Provided
<1> HIDE DEF u
<1>10. u \in Catalogue[s].requires /\ "DATABASE_ID" \in DOMAIN rows[u]
  BY <1>8 DEF Carrying
<1>11. u \in Carriers(rows)
  BY <1>5, <1>6, <1>9, <1>10 DEF Carriers
<1>12. u \in S
  BY <1>5, <1>9, <1>11
<1> QED
  BY <1>4, <1>10, <1>12

\* A step that brings a request to deploying reads the seed, whatever the other steps.
LEMMA StepSeeds ==
  ASSUME Types, FreshInv, SeedInv, Next, NEW r \in Request,
         pc[r] # "deploy", pc'[r] = "deploy", "dhis2-db" \in Carriers(rows),
         Op[r] = "deploy" \/ stale = {}
  PROVE  req'[r].seed = rows["dhis2-db"]["DATABASE_ID"]
<1>1. req \in [Request -> Pending] /\ pc \in [Request -> Labels]
  BY DEF Types, Labels
<1>2. DeployBegin(r) \/ Reload(r)
  <2>1. PICK q \in Request :
          \/ SaveInstanceBegin(q) \/ UpdateInstanceBegin(q) \/ UpdateInstanceResolve(q)
          \/ StoreInstance(q) \/ Duplicated(q)
          \/ DeployBegin(q) \/ ResetBegin(q) \/ DestroyInstance(q) \/ Reload(q) \/ CallFails(q)
          \/ \E s \in Stack : SyncStart(q, s) \/ Sync(q, s) \/ SyncBusy(q, s)
    BY DEF Next
  <2>2. \A s \in Stack : ~SyncStart(q, s)
    BY DEF SyncStart
  <2> DEFINE Moves(l) == Goto(q, l) /\ l \in Labels
                         /\ (l = "deploy" => pc[q] = "deploy" \/ DeployBegin(q) \/ Reload(q))
  <2>3. PICK l \in {"store", "load", "failed", "deploy", "destroy", "reload", "done"} : Moves(l)
    <3>1. SaveInstanceBegin(q) \/ UpdateInstanceResolve(q) => Moves("store")
      BY DEF SaveInstanceBegin, UpdateInstanceResolve, Labels
    <3>2. UpdateInstanceBegin(q) => Moves("load")
      BY DEF UpdateInstanceBegin, Labels
    <3>3. StoreInstance(q) => Moves("done") \/ Moves("reload")
      BY DEF StoreInstance, Labels, Ended
    <3>4. Duplicated(q) \/ CallFails(q) => Moves("failed")
      BY DEF Duplicated, CallFails, Labels, Ended
    <3>5. DeployBegin(q) \/ Reload(q) => Moves("deploy")
      BY DEF DeployBegin, Reload, Labels
    <3>6. ResetBegin(q) => Moves("destroy")
      BY DEF ResetBegin, Labels
    <3>7. DestroyInstance(q) => Moves("reload")
      BY DEF DestroyInstance, Labels
    <3>8. ASSUME NEW s \in Stack, Sync(q, s) \/ SyncBusy(q, s) PROVE Moves("done") \/ Moves("deploy")
      BY <3>8 DEF Sync, SyncBusy, Dequeue, Labels, Ended
    <3> HIDE DEF Moves
    <3> QED
      BY <2>1, <2>2, <3>1, <3>2, <3>3, <3>4, <3>5, <3>6, <3>7, <3>8
  <2>4. q = r /\ l = "deploy"
    BY <1>1, <2>3 DEF Goto
  <2> QED
    BY <2>3, <2>4
<1>3. CASE DeployBegin(r)
  <2>1. PICK seed \in Seeds(rows, FirstCarrier(rows)) :
          req' = [req EXCEPT ![r].rows = rows, ![r].queue = DOMAIN rows, ![r].seed = seed]
    BY <1>3 DEF DeployBegin
  <2>2. seed = rows["dhis2-db"]["DATABASE_ID"]
    BY <2>1, DatabaseFirst DEF Seeds
  <2> QED
    BY <1>1, <2>1, <2>2 DEF Pending
<1>4. CASE Reload(r)
  <2>1. PICK seed \in Seeds(rows, AnyCarrier(rows)) :
          req' = [req EXCEPT ![r].rows = Put(rows, On[r], ToDeploy(r)), ![r].queue = {On[r]},
                             ![r].seed = seed]
    BY <1>4 DEF Reload
  <2>2. stale = {}
    BY <1>4 DEF Reload, SeedInv
  <2>3. seed = rows["dhis2-db"]["DATABASE_ID"]
    BY <2>1, <2>2, CarriersAgree DEF Seeds, AnyCarrier
  <2> QED
    BY <1>1, <2>1, <2>3 DEF Pending
<1> QED
  BY <1>2, <1>3, <1>4

\* Whatever is saved, updated, reset and deployed at once and whatever fails, if dhis2-db is the
\* only stack with a database of its own: what is deployed is seeded from the database that
\* dhis2-db names, unless it is deployed alone when a consumer of DATABASE_ID is stale.
THEOREM SeedsFromTheDatabase == ASSUME OneDatabase PROVE Spec => SeedsAgree
<1>1. Init => Types /\ FreshInv /\ SeedInv
  BY InitTypes, InitFresh, InitSeed
<1>2. Types /\ FreshInv /\ SeedInv /\ [Next]_vars => (Types /\ FreshInv /\ SeedInv)'
  BY NextTypes, NextFresh, NextSeed
<1>3. Types /\ FreshInv /\ SeedInv /\ [Next]_vars
      => [\A r \in Request :
            (pc[r] # "deploy" /\ pc'[r] = "deploy" /\ "dhis2-db" \in Carriers(rows)
             /\ (Op[r] = "deploy" \/ stale = {}))
            => req'[r].seed = rows["dhis2-db"]["DATABASE_ID"]]_vars
  BY StepSeeds
<1> QED
  BY <1>1, <1>2, <1>3, PTL DEF Spec, SeedsAgree
================================================================================
