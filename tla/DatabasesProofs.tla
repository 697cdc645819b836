--------------------------- MODULE DatabasesProofs ---------------------------
(***************************************************************************)
(* Proofs about Databases, for any databases, names, holders and requests. *)
(***************************************************************************)
EXTENDS Databases, TLAPS

-----------------------------------------------------------------------------
(* Type correctness. *)

LEMMA InitType == Init => TypeOK
<1> SUFFICES ASSUME Init PROVE Types /\ Addressed
  BY DEF TypeOK
<1>1. rows \in [RowId -> Row] /\ locks \in [RowId -> Lock]
  BY DatabasesAssumption DEF Init, RowId, Row, Lock, Absent, FileName
<1>2. objects \in [FileName -> Content \cup {None}]
  <2>1. ASSUME NEW k \in FileName, \E d \in Database : InitialName[d] = k
        PROVE (CHOOSE d \in Database : InitialName[d] = k) \in Content
    BY <2>1 DEF Content, RowId
  <2> QED
    BY <2>1 DEF Init
<1>3. gone \subseteq Instance /\ pc \in [Request -> Label]
  BY DEF Init, Label, Ended
<1>4. req \in [Request -> Pending]
  BY DEF Init, Idle, NoLoad, Pending, Loaded, Lock
<1> QED
  BY <1>1, <1>2, <1>3, <1>4 DEF Types, Addressed, Init

\* What a record and its lock look like to whoever loads them.
LEMMA LoadType == ASSUME Types, NEW r \in RowId PROVE Load(r) \in Loaded
BY DEF Types, Row, Load, Loaded

LEMMA SnapType == ASSUME Types, NEW p \in Request
                  PROVE /\ req[p].snap.name \in FileName \cup {None}
                        /\ req[p].snap.key \in FileName \cup {None}
                        /\ req[p].snap.lock \in Lock
BY DEF Types, Pending, Loaded

LEMMA OwnNameType == \A p \in Request : OwnName(p) \in FileName
BY DatabasesAssumption DEF OwnName, FileName

\* Every step keeps the types.
LEMMA NextTypes == TypeOK /\ [Next]_vars => Types'
<1> SUFFICES ASSUME Types, Addressed, [Next]_vars PROVE Types'
  BY DEF TypeOK
<1> USE OwnNameType, LoadType, DatabasesAssumption
    DEF Types, Label, Ended, Goto, Stop
<1>1. ASSUME NEW p \in Request, Begin(p) PROVE Types'
  <2>1. ASSUME SaveAsBegin(p) \/ UploadBegin(p) PROVE Types'
    BY <2>1 DEF SaveAsBegin, UploadBegin
  <2>2. ASSUME NEW d \in Target,
               SaveBegin(p, d) \/ CopyOrUpdateBegin(p, d) \/ DeleteBegin(p, d)
        PROVE Types'
    <3>1. /\ req' = [req EXCEPT ![p] = [Idle EXCEPT !.db = d, !.snap = Load(d)]]
          /\ pc' \in [Request -> Label]
      BY <2>2 DEF SaveBegin, CopyOrUpdateBegin, DeleteBegin
    <3>2. [Idle EXCEPT !.db = d, !.snap = Load(d)] \in Pending
      BY DEF Idle, Pending
    <3> QED
      BY <2>2, <3>1, <3>2 DEF SaveBegin, CopyOrUpdateBegin, DeleteBegin
  <2>3. ASSUME NEW d \in Target, UnlockBegin(p, d) \/ LockDatabase(p, d)
        PROVE Types'
    <3>1. [Idle EXCEPT !.db = d] \in Pending
      BY DEF Idle, NoLoad, Pending, Loaded, Lock
    <3> QED
      BY <2>3, <3>1 DEF UnlockBegin, LockDatabase, Lock
  <2> QED
    BY <1>1, <2>1, <2>2, <2>3 DEF Begin
<1>2. ASSUME NEW p \in Request, Step(p) PROVE Types'
  <2>1. CASE RefuseSave(p)
    BY <2>1 DEF RefuseSave
  <2>2. CASE FindLocked(p)
    BY <2>2 DEF FindLocked, Pending
  <2>3. CASE AcquireLock(p)
    BY <2>3 DEF AcquireLock, Lock
  <2>4. CASE Reload(p)
    <3>1. req[p].db \in RowId
      BY <2>4 DEF Reload, Addressed
    <3>2. [req[p] EXCEPT !.snap = Load(req[p].db)] \in Pending
      BY <3>1 DEF Pending
    <3>3. req' = [req EXCEPT ![p] = [req[p] EXCEPT !.snap = Load(req[p].db)]]
          \/ req' = req
      BY <2>4 DEF Reload
    <3> QED
      BY <2>4, <3>2, <3>3 DEF Reload
  <2>5. CASE CreateDatabase(p)
    BY <2>5 DEF CreateDatabase, Row
  <2>6. CASE StoreObject(p)
    BY <2>6 DEF StoreObject, Content, RowId
  <2>7. CASE RecordUrl(p)
    BY <2>7 DEF RecordUrl, Row
  <2>8. CASE InsertRow(p)
    <3>1. [name |-> OwnName(p), key |-> OwnName(p)] \in Row
      BY DEF Row
    <3> QED
      BY <2>8, <3>1 DEF InsertRow
  <2>9. CASE CopyObject(p)
    <3>1. CASE CanCopy(p)
      <4>1. Source(p) \in FileName
        BY <3>1, SnapType DEF CanCopy, Source, FileName
      <4> QED
        BY <2>9, <3>1, <4>1 DEF CopyObject
    <3> QED
      BY <2>9, <3>1 DEF CopyObject
  <2>10. CASE DeleteSource(p)
    BY <2>10 DEF DeleteSource
  <2>11. CASE UpdateRow(p)
    <3>1. [name |-> OwnName(p), key |-> OwnName(p)] \in Row
      BY DEF Row
    <3>2. rows' \in [RowId -> Row]
      BY <2>11, <3>1 DEF UpdateRow
    <3>3. locks' \in [RowId -> Lock]
      BY <2>11, SnapType DEF UpdateRow
    <3> QED
      BY <2>11, <3>2, <3>3 DEF UpdateRow
  <2>12. CASE RemoveLock(p)
    BY <2>12 DEF RemoveLock, Lock
  <2>13. CASE EraseObject(p)
    BY <2>13 DEF EraseObject
  <2>14. CASE CheckUnlocked(p)
    BY <2>14 DEF CheckUnlocked
  <2>15. CASE DeleteRow(p)
    BY <2>15 DEF DeleteRow, Row, Absent, Lock
  <2>16. CASE RenameSaved(p)
    <3>1. [name |-> req[p].snap.name, key |-> req[p].snap.key] \in Row
      BY SnapType DEF Row
    <3> QED
      BY <2>16, <3>1 DEF RenameSaved
  <2>17. CASE UpdateId(p)
    <3>1. rows[p] \in Row /\ Absent \in Row
      BY DEF RowId, Row, Absent
    <3> QED
      BY <2>17, <3>1 DEF UpdateId
  <2>18. CASE Relock(p)
    BY <2>18 DEF Relock, Pending, Loaded
  <2>19. CASE Release(p)
    BY <2>19 DEF Release, Lock
  <2> QED
    BY <1>2, <2>1, <2>2, <2>3, <2>4, <2>5, <2>6, <2>7, <2>8, <2>9, <2>10, <2>11,
       <2>12, <2>13, <2>14, <2>15, <2>16, <2>17, <2>18, <2>19 DEF Step
<1>3. ASSUME NEW p \in Request, Fault(p) PROVE Types'
  <2>1. CASE AnswerLost(p)
    <3>1. p \in Content /\ OwnName(p) \in FileName
      BY OwnNameType DEF Content, RowId
    <3>2. CanCopy(p) => Source(p) \in FileName
      BY SnapType DEF CanCopy, Source, FileName
    <3>3. objects' \in [FileName -> Content \cup {None}]
      BY <2>1, <3>1, <3>2 DEF AnswerLost, CanCopy
    <3> QED
      BY <2>1, <3>3 DEF AnswerLost
  <2>2. CASE ~AnswerLost(p)
    BY <1>3, <2>2 DEF Fault, StorageFault, PostgresFault, ClientGone
  <2> QED
    BY <2>1, <2>2
<1>4. CASE Crash
  BY <1>4 DEF Crash
<1>5. ASSUME NEW i \in Instance, DeleteDeploymentInstance(i) PROVE Types'
  BY <1>5 DEF DeleteDeploymentInstance, Lock
<1>6. CASE UNCHANGED vars
  BY <1>6 DEF vars
<1> QED
  BY <1>1, <1>2, <1>3, <1>4, <1>5, <1>6 DEF Next

LEMMA NextAddressed == TypeOK /\ [Next]_vars => Addressed'
<1> SUFFICES ASSUME Types, Addressed, [Next]_vars PROVE Addressed'
  BY DEF TypeOK
<1> USE DatabasesAssumption DEF Types, Addressed, Label, Ended, Goto, Stop
<1>1. ASSUME NEW p \in Request, Begin(p) PROVE Addressed'
  <2>1. ASSUME NEW d \in Target, SaveBegin(p, d) PROVE Addressed'
    BY <2>1 DEF SaveBegin, Idle
  <2>2. CASE SaveAsBegin(p) \/ UploadBegin(p)
    BY <2>2 DEF SaveAsBegin, UploadBegin
  <2>3. ASSUME NEW d \in Target,
               \/ CopyOrUpdateBegin(p, d) \/ DeleteBegin(p, d)
               \/ UnlockBegin(p, d) \/ LockDatabase(p, d)
        PROVE Addressed'
    <3>1. \A q \in Request \ {p} : req'[q] = req[q] /\ pc'[q] = pc[q]
      BY <2>3 DEF CopyOrUpdateBegin, DeleteBegin, UnlockBegin, LockDatabase
    <3>2. pc'[p] \notin {"ensure", "reload"}
      BY <2>3 DEF CopyOrUpdateBegin, DeleteBegin, UnlockBegin, LockDatabase
    <3> QED
      BY <3>1, <3>2
  <2> QED
    BY <1>1, <2>1, <2>2, <2>3 DEF Begin
<1>2. ASSUME NEW p \in Request, Step(p) PROVE Addressed'
  <2>1. CASE FindLocked(p)
    BY <2>1 DEF FindLocked
  <2>2. CASE AcquireLock(p)
    BY <2>2 DEF AcquireLock
  <2>3. CASE Reload(p)
    BY <2>3 DEF Reload
  <2>4. CASE CreateDatabase(p) \/ StoreObject(p) \/ RecordUrl(p) \/ InsertRow(p)
    BY <2>4 DEF CreateDatabase, StoreObject, RecordUrl, InsertRow
  <2>5. CASE CopyObject(p) \/ DeleteSource(p) \/ UpdateRow(p) \/ RemoveLock(p)
    BY <2>5 DEF CopyObject, DeleteSource, UpdateRow, RemoveLock
  <2>6. CASE EraseObject(p) \/ CheckUnlocked(p) \/ DeleteRow(p) \/ RenameSaved(p)
    BY <2>6 DEF EraseObject, CheckUnlocked, DeleteRow, RenameSaved
  <2>7. CASE RefuseSave(p) \/ UpdateId(p) \/ Relock(p) \/ Release(p)
    BY <2>7 DEF RefuseSave, UpdateId, Relock, Release
  <2> QED
    BY <1>2, <2>1, <2>2, <2>3, <2>4, <2>5, <2>6, <2>7 DEF Step
<1>3. ASSUME NEW p \in Request, Fault(p) PROVE Addressed'
  BY <1>3 DEF Fault, StorageFault, AnswerLost, PostgresFault, ClientGone
<1>4. CASE Crash
  BY <1>4 DEF Crash
<1>5. ASSUME NEW i \in Instance, DeleteDeploymentInstance(i) PROVE Addressed'
  BY <1>5 DEF DeleteDeploymentInstance
<1>6. CASE UNCHANGED vars
  BY <1>6 DEF vars
<1> QED
  BY <1>1, <1>2, <1>3, <1>4, <1>5, <1>6 DEF Next

LEMMA NextType == TypeOK /\ [Next]_vars => TypeOK'
BY NextTypes, NextAddressed DEF TypeOK

\* The tables, the bucket and what requests carry always have their types.
THEOREM TypeCorrect == Spec => []TypeOK
BY InitType, NextType, PTL DEF Spec

-----------------------------------------------------------------------------
(* Saves among themselves, with locks and unlocks: what each action does to *)
(* the records and objects of the others.                                   *)

\* Names, ids and None are told apart.
LEMMA Distinct == /\ \A d \in Database : InitialName[d] \in Name /\ d \notin Request
                  /\ \A p \in Request : p \notin Name /\ p # None
                  /\ \A n \in Name : n # None
BY DatabasesAssumption DEF FileName, RowId

LEMMA InitSaves == Init => SaveInv /\ ContentNeverLost
<1> SUFFICES ASSUME Init PROVE SaveInv /\ ContentNeverLost
  OBVIOUS
<1>1. \A p \in Request : objects[p] = None
  BY Distinct DEF Init, FileName
<1>2. ASSUME NEW d \in Database PROVE objects[InitialName[d]] = d
  <2>1. \A e \in Database : InitialName[e] = InitialName[d] => e = d
    BY DatabasesAssumption
  <2> QED
    BY <2>1, Distinct DEF Init, FileName
<1>3. SaveInv
  BY <1>1, Distinct DEF Init, SaveInv, Exists, Absent, Idle, Ended, RowId, Saver
<1> QED
  BY <1>2, <1>3 DEF ContentNeverLost

\* A step of a request leaves the others as they are, their records and the
\* objects under their keys included.
Private(p) ==
  \A q \in Request \ {p} : /\ rows'[q] = rows[q] /\ objects'[q] = objects[q]
                           /\ req'[q] = req[q] /\ pc'[q] = pc[q]

\* It also keeps every database's name ...
NamesKept ==
  \A d \in Database : rows'[d].name # None => rows'[d].name = InitialName[d]

\* ... and what a save that has begun is about.
Own(p) ==
  /\ objects[p] \in {None, p}
  /\ pc[p] \notin {"insert", "store", "erase"}
  /\ pc[p] = "idle" => req[p].db = None
  /\ pc[p] # "idle" => /\ req[p].db \in Database
                       /\ req[p].snap.name = InitialName[req[p].db]
  /\ pc[p] = "swap" => rows[p].name = InitialName[req[p].db]

LEMMA SaverStep ==
  ASSUME OnlySaves, TypeOK, SaveInv, NEW p \in Saver, Step(p)
  PROVE  Private(p) /\ NamesKept /\ Own(p)'
<1> USE Distinct DEF TypeOK, Types, SaveInv, Saver, Private, NamesKept, Own, Goto,
                     Stop, Exists, RowId, FileName
<1>1. pc[p] # "idle" => req[p].db \in Database /\ req[p].db \notin Request
  OBVIOUS
<1>2. CASE RefuseSave(p) \/ FindLocked(p) \/ AcquireLock(p) \/ Reload(p)
  BY <1>1, <1>2 DEF RefuseSave, FindLocked, AcquireLock, Reload, Load, Pending
<1>3. CASE CreateDatabase(p) \/ RecordUrl(p)
  BY <1>3 DEF CreateDatabase, RecordUrl, Row
<1>4. CASE StoreObject(p)
  BY <1>4 DEF StoreObject, OwnName
<1>5. CASE CopyObject(p)
  BY <1>1, <1>5 DEF CopyObject, CanCopy, Source, Destination
<1>6. CASE DeleteSource(p)
  BY <1>6 DEF DeleteSource, Source
<1>7. CASE RemoveLock(p) \/ CheckUnlocked(p) \/ Relock(p) \/ Release(p)
  BY <1>7 DEF RemoveLock, CheckUnlocked, Relock, Release
<1>8. CASE DeleteRow(p)
  BY <1>1, <1>8 DEF DeleteRow, Absent
<1>9. CASE RenameSaved(p)
  BY <1>1, <1>9 DEF RenameSaved
<1>10. CASE UpdateId(p)
  BY <1>1, <1>10 DEF UpdateId, Absent
<1> QED
  BY <1>2, <1>3, <1>4, <1>5, <1>6, <1>7, <1>8, <1>9, <1>10
  DEF Step, InsertRow, UpdateRow, EraseObject

\* S3 does the same for a save whether its answer comes or is lost.
LEMMA LostPrivate ==
  ASSUME TypeOK, SaveInv, NEW p \in Request, AnswerLost(p)
  PROVE  /\ p \in Saver /\ UNCHANGED <<rows, locks, gone, req>>
         /\ \A q \in Saver : objects'[q] \in {None, q}
         /\ \/ \A k \in Name : objects'[k] = objects[k]
            \/ /\ pc[p] = "move" /\ objects[p] = p
               /\ objects' = [objects EXCEPT ![InitialName[req[p].db]] = p]
<1> USE Distinct DEF TypeOK, Types, SaveInv, Saver, FileName
<1>1. /\ p \in Saver /\ pc[p] \in {"dump", "move", "unlink"}
      /\ req[p].db \in Database /\ req[p].snap.name = InitialName[req[p].db]
  BY DEF AnswerLost, Ended
<1>2. UNCHANGED <<rows, locks, gone, req>>
  BY DEF AnswerLost
<1>3. CASE pc[p] = "dump"
  BY <1>1, <1>2, <1>3 DEF AnswerLost, OwnName
<1>4. CASE pc[p] = "move"
  <2>1. objects[p] = p /\ objects' = [objects EXCEPT ![InitialName[req[p].db]] = p]
    BY <1>1, <1>4 DEF AnswerLost, CanCopy, Source, Destination
  <2> QED
    BY <1>1, <1>2, <1>4, <2>1
<1>5. CASE pc[p] = "unlink"
  BY <1>1, <1>2, <1>5 DEF AnswerLost, Source
<1> QED
  BY <1>1, <1>3, <1>4, <1>5

LEMMA NextSaves ==
  ASSUME OnlySaves, TypeOK, SaveInv, [Next]_vars
  PROVE  SaveInv'
<1> USE Distinct
<1>1. ASSUME NEW p \in Saver, Step(p) PROVE SaveInv'
  BY <1>1, SaverStep DEF SaveInv, Private, NamesKept, Own, Saver, Exists
<1>2. ASSUME NEW p \in Request \ Saver, Step(p) PROVE SaveInv'
  <2>1. pc[p] = "unlock"
    BY <1>2 DEF SaveInv, Ended, Step, RefuseSave, FindLocked, AcquireLock, Reload,
                CreateDatabase, StoreObject, RecordUrl, InsertRow, CopyObject,
                DeleteSource, UpdateRow, RemoveLock, EraseObject, CheckUnlocked,
                DeleteRow, RenameSaved, UpdateId, Relock, Release
  <2>2. RemoveLock(p)
    BY <1>2, <2>1
    DEF Step, RefuseSave, FindLocked, AcquireLock, Reload,
        CreateDatabase, StoreObject, RecordUrl, InsertRow, CopyObject,
        DeleteSource, UpdateRow, RemoveLock, EraseObject, CheckUnlocked,
        DeleteRow, RenameSaved, UpdateId, Relock, Release
  <2> QED
    BY <1>2, <2>2 DEF RemoveLock, TypeOK, Types, SaveInv, Saver, Goto, Exists, Ended
<1>3. ASSUME NEW p \in Request, Begin(p) PROVE SaveInv'
  <2>1. ASSUME NEW d \in Target, SaveBegin(p, d) PROVE SaveInv'
    <3>1. d \in Database
      BY <2>1, DatabasesAssumption DEF SaveBegin, SaveInv, Exists, Absent, RowId, Saver
    <3> QED
      BY <2>1, <3>1 DEF SaveBegin, TypeOK, Types, SaveInv, Saver, Goto, Exists, Load,
                        Idle, Ended
  <2>2. ASSUME NEW d \in Target, UnlockBegin(p, d) \/ LockDatabase(p, d)
        PROVE SaveInv'
    BY <2>2 DEF UnlockBegin, LockDatabase, TypeOK, Types, SaveInv, Saver, Goto, Exists,
                Ended
  <2> QED
    BY <1>3, <2>1, <2>2 DEF Begin, OnlySaves, SaveAsBegin, UploadBegin,
                            CopyOrUpdateBegin, DeleteBegin
<1>4. ASSUME NEW p \in Request, Fault(p) PROVE SaveInv'
  <2>1. pc[p] = "unlock" \/ p \in Saver
    BY <1>4 DEF Fault, StorageFault, AnswerLost, PostgresFault, ClientGone, SaveInv, Ended
  <2>2. \E l \in Label : /\ Goto(p, l)
                         /\ IF p \in Saver
                            THEN l \in {"abort", "check", "done", "failed"}
                            ELSE l = "failed"
    BY <1>4, <2>1 DEF Fault, StorageFault, AnswerLost, PostgresFault, ClientGone, Stop, Goto, Saver,
                      Label, Ended
  <2>3. UNCHANGED <<rows, req>> /\ pc[p] # "idle"
    BY <1>4 DEF Fault, StorageFault, AnswerLost, PostgresFault, ClientGone
  <2>4. \A q \in Saver : objects'[q] \in {None, q}
    <3>1. CASE AnswerLost(p)
      BY <1>4, <2>1, <3>1, LostPrivate DEF SaveInv, Saver, Ended
    <3>2. CASE ~AnswerLost(p)
      BY <1>4, <3>2 DEF Fault, StorageFault, PostgresFault, ClientGone, SaveInv
    <3> QED
      BY <3>1, <3>2
  <2> QED
    BY <2>2, <2>3, <2>4 DEF TypeOK, Types, SaveInv, Saver, Goto, Exists, Ended
<1>5. CASE Crash
  BY <1>5 DEF Crash, TypeOK, Types, SaveInv, Saver, Exists, Ended
<1>6. CASE UNCHANGED vars \/ \E i \in Instance : DeleteDeploymentInstance(i)
  BY <1>6 DEF vars, DeleteDeploymentInstance, SaveInv, Exists
<1> QED
  BY <1>1, <1>2, <1>3, <1>4, <1>5, <1>6 DEF Next

\* A step of a save goes on being about the same database ...
LEMMA SaverSameDb ==
  ASSUME TypeOK, SaveInv, NEW p \in Saver, Step(p)
  PROVE  req'[p].db = req[p].db
<1>1. CASE FindLocked(p) \/ Reload(p)
  BY <1>1 DEF FindLocked, Reload, TypeOK, Types, Saver, Pending
<1>2. CASE ~FindLocked(p) /\ ~Reload(p)
  <2>1. req' = req
    BY <1>2 DEF Step, RefuseSave, AcquireLock, CreateDatabase, StoreObject, RecordUrl,
                InsertRow, CopyObject, DeleteSource, UpdateRow, RemoveLock, EraseObject,
                CheckUnlocked, DeleteRow, RenameSaved, UpdateId, Relock, Release
  <2> QED
    BY <2>1
<1> QED
  BY <1>1, <1>2

\* ... and leaves the object of every database, but for this one, which it
\* overwrites with its dump.
LEMMA SaverContent ==
  ASSUME TypeOK, SaveInv, NEW p \in Saver, Step(p), NEW d \in Database
  PROVE  \/ objects'[InitialName[d]] = objects[InitialName[d]]
         \/ req[p].db = d /\ objects'[InitialName[d]] = p
<1> USE Distinct DEF TypeOK, Types, SaveInv, Saver, FileName
<1>1. CASE StoreObject(p)
  BY <1>1 DEF StoreObject, OwnName
<1>2. CASE CopyObject(p)
  <2>1. \A e \in Database : InitialName[e] = InitialName[d] => e = d
    BY DatabasesAssumption
  <2> QED
    BY <1>2, <2>1 DEF CopyObject, CanCopy, Source, Destination
<1>3. CASE DeleteSource(p)
  BY <1>3 DEF DeleteSource, Source
<1>4. CASE ~StoreObject(p) /\ ~CopyObject(p) /\ ~DeleteSource(p)
  <2>1. ~EraseObject(p)
    BY DEF EraseObject
  <2>2. objects' = objects
    BY <1>4, <2>1
    DEF Step, RefuseSave, FindLocked, AcquireLock, Reload, CreateDatabase, RecordUrl,
        InsertRow, UpdateRow, RemoveLock, CheckUnlocked, DeleteRow, RenameSaved,
        UpdateId, Relock, Release
  <2> QED
    BY <2>2
<1> QED
  BY <1>1, <1>2, <1>3, <1>4

LEMMA NextContent ==
  ASSUME OnlySaves, TypeOK, SaveInv, ContentNeverLost, [Next]_vars
  PROVE  ContentNeverLost'
<1> USE Distinct
<1>1. ASSUME NEW p \in Saver, Step(p) PROVE ContentNeverLost'
  <2>1. \A q \in Saver : req'[q].db = req[q].db
    BY <1>1, SaverStep, SaverSameDb DEF Private, Saver
  <2> QED
    BY <1>1, <2>1, SaverContent DEF ContentNeverLost
<1>2. ASSUME NEW p \in Request, Begin(p) PROVE ContentNeverLost'
  <2>1. objects' = objects
    BY <1>2 DEF Begin, SaveAsBegin, UploadBegin, SaveBegin, CopyOrUpdateBegin,
                DeleteBegin, UnlockBegin, LockDatabase
  <2>2. pc[p] = "idle" /\ \A q \in Request \ {p} : req'[q] = req[q]
    BY <1>2 DEF Begin, SaveAsBegin, UploadBegin, SaveBegin, CopyOrUpdateBegin,
                DeleteBegin, UnlockBegin, LockDatabase, TypeOK, Types
  <2>3. ASSUME NEW q \in Saver, NEW d \in Database, req[q].db = d
        PROVE  q # p
    BY <2>2, <2>3, DatabasesAssumption DEF SaveInv, RowId
  <2> QED
    BY <2>1, <2>2, <2>3 DEF ContentNeverLost, Saver
<1>3. CASE UNCHANGED <<objects, req>>
  BY <1>3 DEF ContentNeverLost
<1>4. ASSUME NEW p \in Request \ Saver, Step(p) PROVE UNCHANGED <<objects, req>>
  BY <1>4
  DEF SaveInv, Ended, Step, RefuseSave, FindLocked, AcquireLock, Reload,
      CreateDatabase, StoreObject, RecordUrl, InsertRow, CopyObject,
      DeleteSource, UpdateRow, RemoveLock, EraseObject, CheckUnlocked,
      DeleteRow, RenameSaved, UpdateId, Relock, Release
<1>5. ASSUME NEW p \in Request, AnswerLost(p) PROVE ContentNeverLost'
  <2>1. \A d, e \in Database : InitialName[e] = InitialName[d] => e = d
    BY DatabasesAssumption
  <2>2. req' = req /\ p \in Saver
    BY <1>5, LostPrivate
  <2>3. CASE \A k \in Name : objects'[k] = objects[k]
    BY <2>2, <2>3 DEF ContentNeverLost
  <2>4. CASE pc[p] = "move" /\ objects' = [objects EXCEPT ![InitialName[req[p].db]] = p]
    <3>1. req[p].db \in Database
      BY <2>2, <2>4 DEF SaveInv
    <3>2. ASSUME NEW d \in Database
          PROVE  \/ objects'[InitialName[d]] = objects[InitialName[d]]
                 \/ req[p].db = d /\ objects'[InitialName[d]] = p
      BY <2>1, <2>4, <3>1 DEF TypeOK, Types, FileName
    <3> QED
      BY <2>2, <3>2 DEF ContentNeverLost
  <2> QED
    BY <1>5, <2>3, <2>4, LostPrivate
<1> QED
  BY <1>1, <1>2, <1>3, <1>4, <1>5
  DEF Next, vars, Fault, StorageFault, PostgresFault, ClientGone, Crash,
      DeleteDeploymentInstance

\* Whatever fails, even the server, and however saves overlap, the object of a
\* database is there and holds a whole dump of it.
THEOREM ContentKept ==
  ASSUME OnlySaves
  PROVE  Spec => []ContentNeverLost
<1>1. Init => TypeOK /\ SaveInv /\ ContentNeverLost
  BY InitType, InitSaves
<1>2. TypeOK /\ SaveInv /\ ContentNeverLost /\ [Next]_vars
        => (TypeOK /\ SaveInv /\ ContentNeverLost)'
  BY NextType, NextSaves, NextContent
<1> QED
  BY <1>1, <1>2, PTL DEF Spec

\* The reason for it: whatever fails, a save writes its dump under its own key and swaps
\* the id of a record that bears the name of its database; nobody else writes a record.
THEOREM SavesOwnObject ==
  ASSUME OnlySaves
  PROVE  Spec => []SaveInv
<1>1. Init => TypeOK /\ SaveInv
  BY InitType, InitSaves
<1>2. TypeOK /\ SaveInv /\ [Next]_vars => (TypeOK /\ SaveInv)'
  BY NextType, NextSaves
<1> QED
  BY <1>1, <1>2, PTL DEF Spec

-----------------------------------------------------------------------------
(* The id of a database comes back, unless a statement fails or the server *)
(* stops between Delete and UpdateId.                                      *)

LEMMA InitIdentity == Init => IdentityInv
<1> SUFFICES ASSUME Init PROVE IdentityInv
  OBVIOUS
<1>1. \A r \in RowId : rows[r].name = IF r \in Database THEN InitialName[r] ELSE None
  BY DEF Init, Absent
<1>2. UniqueNames
  BY <1>1, DatabasesAssumption DEF UniqueNames, Exists
<1>3. \A p \in Saver : rows[p].name = None
  BY <1>1, Distinct DEF RowId, Saver
<1>4. IdentityRestored
  BY <1>1, Distinct DEF IdentityRestored, Exists, RowId
<1> QED
  BY <1>2, <1>3, <1>4 DEF IdentityInv

\* A step that leaves the records and moves no save across "rename" or "swap".
LEMMA QuietStep ==
  ASSUME IdentityInv, UNCHANGED rows,
         \A q \in Saver : /\ pc[q] \in {"rename", "swap"}
                               => pc'[q] = pc[q] /\ req'[q].db = req[q].db
                          /\ pc[q] # "swap" => pc'[q] # "swap"
  PROVE  IdentityInv'
BY DEF IdentityInv, UniqueNames, IdentityRestored, Exists

\* Whoever else has the name of a database is that database or swaps with it.
LEMMA WhoHasTheName ==
  ASSUME OnlySaves, TypeOK, SaveInv, IdentityInv,
         NEW d \in Database, NEW s \in RowId, rows[s].name = InitialName[d]
  PROVE  s = d \/ (s \in Saver /\ pc[s] = "swap" /\ req[s].db = d)
<1>1. CASE s \in Database
  BY <1>1, DatabasesAssumption, Distinct DEF SaveInv, Exists
<1>2. CASE s \in Request
  <2>1. s \in Saver
    BY <1>2, Distinct DEF SaveInv, Absent
  <2>2. pc[s] = "swap" /\ InitialName[req[s].db] = InitialName[d]
    BY <2>1, Distinct DEF IdentityInv, SaveInv, Saver
  <2> QED
    BY <2>1, <2>2, DatabasesAssumption DEF SaveInv
<1> QED
  BY <1>1, <1>2 DEF RowId

LEMMA SaverIdentity ==
  ASSUME OnlySaves, TypeOK, SaveInv, IdentityInv, NEW p \in Saver, Step(p)
  PROVE  IdentityInv'
<1> USE Distinct DEF TypeOK, Types, Saver, Goto, Stop, RowId
<1>1. CASE CreateDatabase(p) \/ RecordUrl(p)
  <2>1. /\ \A r \in RowId : rows'[r].name = IF rows'[p].name # rows[p].name /\ r = p
                                            THEN p ELSE rows[r].name
        /\ rows'[p].name # rows[p].name => ~NameTaken(p, p)
    BY <1>1 DEF CreateDatabase, RecordUrl, OwnName, Row
  <2>2. pc[p] \notin {"rename", "swap"} /\ pc'[p] # "swap"
    BY <1>1 DEF CreateDatabase, RecordUrl
  <2>3. Private(p) /\ p \notin Database
    BY SaverStep
  <2>4. UniqueNames'
    BY <2>1 DEF IdentityInv, UniqueNames, Exists, NameTaken
  <2>5. \A q \in Saver : pc'[q] # "swap" => rows'[q].name \in {None, q}
    BY <2>1, <2>2, <2>3 DEF IdentityInv, Private
  <2>6. IdentityRestored'
    BY <2>1, <2>2, <2>3 DEF IdentityInv, IdentityRestored, Exists, Private
  <2> QED
    BY <2>4, <2>5, <2>6 DEF IdentityInv
<1>2. CASE DeleteRow(p)
  BY <1>2 DEF DeleteRow, SaveInv, IdentityInv, UniqueNames, IdentityRestored, Exists,
              Absent
<1>3. CASE RenameSaved(p)
  <2> DEFINE d == req[p].db
  <2>1. d \in Database /\ req[p].snap.name = InitialName[d]
    BY <1>3 DEF RenameSaved, SaveInv
  <2>2. CASE NameTaken(InitialName[d], p)
    <3>1. PICK s \in RowId \ {p} : rows[s].name = InitialName[d]
      BY <2>2 DEF NameTaken
    <3>2. Exists(d) \/ (s \in Saver /\ pc[s] = "swap" /\ req[s].db = d)
      BY <2>1, <3>1, WhoHasTheName DEF Exists
    <3>3. UNCHANGED <<rows, req>> /\ pc' = [pc EXCEPT ![p] = "abort"]
      BY <1>3, <2>1, <2>2 DEF RenameSaved
    <3> QED
      BY <1>3, <2>1, <3>1, <3>2, <3>3
      DEF RenameSaved, IdentityInv, UniqueNames, IdentityRestored, Exists
  <2>3. CASE ~NameTaken(InitialName[d], p)
    BY <1>3, <2>1, <2>3
    DEF RenameSaved, NameTaken, IdentityInv, UniqueNames, IdentityRestored, Exists
  <2> QED
    BY <2>2, <2>3
<1>4. CASE UpdateId(p)
  <2>1. req[p].db \in Database /\ rows[p].name = InitialName[req[p].db]
    BY <1>4 DEF UpdateId, SaveInv
  <2>2. ~Exists(req[p].db)
    BY <2>1 DEF SaveInv, IdentityInv, UniqueNames, Exists
  <2>3. rows' = [rows EXCEPT ![req[p].db] = rows[p], ![p] = Absent]
    BY <1>4, <2>2 DEF UpdateId
  <2> QED
    BY <1>4, <2>1, <2>2, <2>3
    DEF UpdateId, IdentityInv, UniqueNames, IdentityRestored, Exists, Absent
<1>5. CASE ~(CreateDatabase(p) \/ RecordUrl(p) \/ DeleteRow(p) \/ RenameSaved(p)
             \/ UpdateId(p))
  <2>1. /\ rows' = rows
        /\ pc[p] \notin {"rename", "swap"} /\ pc'[p] # "swap"
    BY <1>5
    DEF Step, SaveInv, RefuseSave, FindLocked, AcquireLock, Reload, StoreObject,
        InsertRow, CopyObject, DeleteSource, UpdateRow, RemoveLock, EraseObject,
        CheckUnlocked, Relock, Release
  <2> QED
    BY <2>1, SaverStep, QuietStep DEF Private
<1> QED
  BY <1>1, <1>2, <1>3, <1>4, <1>5

LEMMA NextIdentity ==
  ASSUME OnlySaves, "postgres" \notin Faults, "crash" \notin Faults,
         TypeOK, SaveInv, IdentityInv, [Next]_vars
  PROVE  IdentityInv'
<1>1. ASSUME NEW p \in Saver, Step(p) PROVE IdentityInv'
  BY <1>1, SaverIdentity
<1>2. ASSUME NEW p \in Request, Begin(p) PROVE IdentityInv'
  <2>1. rows' = rows /\ pc[p] = "idle" /\ pc'[p] # "swap"
    BY <1>2 DEF Begin, SaveAsBegin, UploadBegin, SaveBegin, CopyOrUpdateBegin,
                DeleteBegin, UnlockBegin, LockDatabase, Goto, TypeOK, Types
  <2>2. \A q \in Request \ {p} : req'[q] = req[q] /\ pc'[q] = pc[q]
    BY <1>2 DEF Begin, SaveAsBegin, UploadBegin, SaveBegin, CopyOrUpdateBegin,
                DeleteBegin, UnlockBegin, LockDatabase, Goto, TypeOK, Types
  <2> QED
    BY <2>1, <2>2, QuietStep DEF Saver
<1>3. ASSUME NEW p \in Request \ Saver, Step(p) PROVE IdentityInv'
  <2>1. UNCHANGED <<rows, req>> /\ \A q \in Saver : pc'[q] = pc[q]
    BY <1>3
    DEF TypeOK, Types, SaveInv, Ended, Saver, Goto, Step, RefuseSave, FindLocked,
        AcquireLock, Reload, CreateDatabase, StoreObject, RecordUrl, InsertRow,
        CopyObject, DeleteSource, UpdateRow, RemoveLock, EraseObject, CheckUnlocked,
        DeleteRow, RenameSaved, UpdateId, Relock, Release
  <2> QED
    BY <2>1, QuietStep
<1>4. ASSUME NEW p \in Request, Fault(p) PROVE IdentityInv'
  BY <1>4, QuietStep
  DEF Fault, StorageFault, AnswerLost, PostgresFault, ClientGone, Stop, Goto, Saver, TypeOK, Types
<1>5. CASE UNCHANGED vars \/ \E i \in Instance : DeleteDeploymentInstance(i)
  BY <1>5, QuietStep DEF vars, DeleteDeploymentInstance
<1> QED
  BY <1>1, <1>2, <1>3, <1>4, <1>5 DEF Next, Crash

\* While saves of a database overlap, and some fail in S3 or in the pod, or their
\* clients leave, a record that is away is always one UpdateId from coming back.
THEOREM IdentityKept ==
  ASSUME OnlySaves, "postgres" \notin Faults, "crash" \notin Faults
  PROVE  Spec => []IdentityRestored
<1>1. Init => TypeOK /\ SaveInv /\ IdentityInv
  BY InitType, InitSaves, InitIdentity
<1>2. TypeOK /\ SaveInv /\ IdentityInv /\ [Next]_vars
        => (TypeOK /\ SaveInv /\ IdentityInv)'
  BY NextType, NextSaves, NextIdentity
<1>3. IdentityInv => IdentityRestored
  BY DEF IdentityInv
<1> QED
  BY <1>1, <1>2, <1>3, PTL DEF Spec

\* The reason for it: names are unique, so at most one save at a time has a record under
\* the name of a database, the one that is to become the database.
THEOREM OneSaveSwaps ==
  ASSUME OnlySaves, "postgres" \notin Faults, "crash" \notin Faults
  PROVE  Spec => []IdentityInv
<1>1. Init => TypeOK /\ SaveInv /\ IdentityInv
  BY InitType, InitSaves, InitIdentity
<1>2. TypeOK /\ SaveInv /\ IdentityInv /\ [Next]_vars
        => (TypeOK /\ SaveInv /\ IdentityInv)'
  BY NextType, NextSaves, NextIdentity
<1> QED
  BY <1>1, <1>2, PTL DEF Spec

-----------------------------------------------------------------------------
(* And it does come back: the fairness of FairSpec, with what enables a    *)
(* request's next step written out.                                        *)

\* A request under way takes its next step some time, or is over before.  Every label but
\* the last has a step in every state, so this is WF_vars(Step(p)) for each request.
Goes      == \A p \in Request : <>(pc[p] \in Ended) \/ <><<Step(p)>>_vars
Scheduled == []Goes

Renames(p, d) == pc[p] = "rename" /\ req[p].db = d
Swaps(p, d)   == pc[p] = "swap" /\ req[p].db = d
SomeSwaps(d)  == \E p \in Saver : Swaps(p, d)

Identified == TypeOK /\ SaveInv /\ IdentityInv

LEMMA AlwaysIdentified ==
  ASSUME OnlySaves, "postgres" \notin Faults, "crash" \notin Faults
  PROVE  Spec => []Identified
<1>1. Init => Identified
  BY InitType, InitSaves, InitIdentity DEF Identified
<1>2. Identified /\ [Next]_vars => Identified'
  BY NextType, NextSaves, NextIdentity DEF Identified
<1> QED
  BY <1>1, <1>2, PTL DEF Spec

\* Nobody but the save itself takes it from its place before the swap.
LEMMA KeepsPlace ==
  ASSUME "postgres" \notin Faults, "crash" \notin Faults, TypeOK,
         NEW p \in Saver, pc[p] \in {"rename", "swap"}, [Next]_vars, ~Step(p)
  PROVE  pc'[p] = pc[p] /\ req'[p] = req[p]
<1> USE DEF TypeOK, Types, Saver, Goto, Stop
<1>1. ASSUME NEW q \in Request \ {p}, Begin(q) \/ Step(q) \/ Fault(q)
      PROVE  pc'[p] = pc[p] /\ req'[p] = req[p]
  BY <1>1
  DEF Begin, SaveAsBegin, UploadBegin, SaveBegin, CopyOrUpdateBegin, DeleteBegin, UnlockBegin,
      LockDatabase, Step, RefuseSave, FindLocked, AcquireLock, Reload, CreateDatabase,
      StoreObject, RecordUrl, InsertRow, CopyObject, DeleteSource, UpdateRow, RemoveLock,
      EraseObject, CheckUnlocked, DeleteRow, RenameSaved, UpdateId, Relock, Release,
      Fault, StorageFault, AnswerLost, PostgresFault, ClientGone
<1>2. ~(Begin(p) \/ Fault(p))
  BY DEF Begin, SaveAsBegin, UploadBegin, SaveBegin, CopyOrUpdateBegin, DeleteBegin,
         UnlockBegin, LockDatabase, Fault, StorageFault, AnswerLost, PostgresFault, ClientGone
<1> QED
  BY <1>1, <1>2 DEF Next, Crash, DeleteDeploymentInstance, vars

\* The swap of a save succeeds.
LEMMA SwapReturns ==
  ASSUME Identified, NEW d \in Database, NEW p \in Saver, Swaps(p, d), Step(p)
  PROVE  Exists(d)'
<1>1. /\ rows[p].name = InitialName[d] /\ InitialName[d] # None
      /\ p # d /\ d \in RowId /\ p \in RowId
  BY Distinct, DatabasesAssumption
  DEF Identified, SaveInv, Swaps, RowId, Saver, TypeOK, Types, FileName
<1>2. ~Exists(d)
  BY <1>1 DEF Identified, SaveInv, IdentityInv, UniqueNames, Exists
<1>3. UpdateId(p)
  BY DEF Swaps, Step, RefuseSave, FindLocked, AcquireLock, Reload, CreateDatabase,
         StoreObject, RecordUrl, InsertRow, CopyObject, DeleteSource, UpdateRow, RemoveLock,
         EraseObject, CheckUnlocked, DeleteRow, RenameSaved, Relock, Release
<1>4. rows' = [rows EXCEPT ![d] = rows[p], ![p] = Absent]
  BY <1>2, <1>3 DEF UpdateId, Swaps
<1> QED
  BY <1>1, <1>4 DEF Exists, Identified, TypeOK, Types

\* The rename of a save makes it the one that swaps, unless another is.
LEMMA RenameSwaps ==
  ASSUME OnlySaves, Identified, NEW d \in Database, NEW p \in Saver, Renames(p, d), Step(p)
  PROVE  Exists(d)' \/ SomeSwaps(d)'
<1>1. RenameSaved(p)
  BY DEF Renames, Step, RefuseSave, FindLocked, AcquireLock, Reload, CreateDatabase,
         StoreObject, RecordUrl, InsertRow, CopyObject, DeleteSource, UpdateRow, RemoveLock,
         EraseObject, CheckUnlocked, DeleteRow, UpdateId, Relock, Release
<1>2. req[p].snap.name = InitialName[d] /\ p \in Request
  BY DEF Identified, SaveInv, Renames, Saver
<1>3. CASE NameTaken(InitialName[d], p)
  <2>1. PICK s \in RowId : s # p /\ rows[s].name = InitialName[d]
    BY <1>3 DEF NameTaken
  <2>2. UNCHANGED <<rows, req>> /\ \A q \in Request \ {p} : pc'[q] = pc[q]
    BY <1>1, <1>2, <1>3 DEF RenameSaved, Stop, Goto, Identified, TypeOK, Types
  <2>3. CASE s = d
    BY <2>1, <2>2, <2>3, Distinct, DatabasesAssumption DEF Exists, FileName
  <2>4. CASE s \in Saver /\ pc[s] = "swap" /\ req[s].db = d
    BY <2>1, <2>2, <2>4 DEF SomeSwaps, Swaps, Saver
  <2> QED
    BY <2>1, <2>3, <2>4, WhoHasTheName DEF Identified
<1>4. CASE ~NameTaken(InitialName[d], p)
  <2>1. pc'[p] = "swap" /\ req' = req
    BY <1>1, <1>2, <1>4 DEF RenameSaved, Goto, Identified, TypeOK, Types
  <2> QED
    BY <2>1 DEF SomeSwaps, Swaps, Renames
<1> QED
  BY <1>3, <1>4

\* However many saves of a database overlap, and whatever fails in S3 or in the pod: when a
\* save has deleted the record, the database is there again under its id some time later.
THEOREM AwayComesBack ==
  ASSUME OnlySaves, "postgres" \notin Faults, "crash" \notin Faults
  PROVE  Spec /\ Scheduled => DatabaseComesBack
<1>1. ASSUME NEW d \in Database
      PROVE  [][Next]_vars /\ []Goes /\ []Identified => [](~Exists(d) => <>Exists(d))
  <2> SUFFICES ASSUME [][Next]_vars, []Goes, []Identified
               PROVE  [](~Exists(d) => <>Exists(d))
    OBVIOUS
  <2>1. SomeSwaps(d) => <>Exists(d)
    <3>1. \A p \in Saver : Swaps(p, d) => <>Exists(d)
      <4> SUFFICES ASSUME NEW p \in Saver PROVE Swaps(p, d) => <>Exists(d)
        OBVIOUS
      <4>1. Goes
        BY PTL
      <4>2. <>(pc[p] \in Ended) \/ <><<Step(p)>>_vars
        BY <4>1 DEF Goes, Saver
      <4>3. Identified /\ Swaps(p, d) /\ [Next]_vars => Exists(d)' \/ Swaps(p, d)'
        BY KeepsPlace, SwapReturns DEF Swaps, Identified
      <4>4. Identified /\ Swaps(p, d) /\ <<Step(p)>>_vars => Exists(d)'
        BY SwapReturns
      <4>5. Swaps(p, d) => ~(pc[p] \in Ended)
        BY DEF Swaps, Ended
      <4> QED
        BY <4>2, <4>3, <4>4, <4>5, PTL
    <3> QED
      BY <3>1 DEF SomeSwaps
  <2>2. \A p \in Saver : Renames(p, d) => <>Exists(d)
    <3> SUFFICES ASSUME NEW p \in Saver PROVE Renames(p, d) => <>Exists(d)
      OBVIOUS
    <3>1. Goes
      BY PTL
    <3>2. <>(pc[p] \in Ended) \/ <><<Step(p)>>_vars
      BY <3>1 DEF Goes, Saver
    <3>3. Identified /\ Renames(p, d) /\ [Next]_vars
            => Exists(d)' \/ SomeSwaps(d)' \/ Renames(p, d)'
      BY KeepsPlace, RenameSwaps DEF Renames, Identified
    <3>4. Identified /\ Renames(p, d) /\ <<Step(p)>>_vars => Exists(d)' \/ SomeSwaps(d)'
      BY RenameSwaps
    <3>5. Renames(p, d) => ~(pc[p] \in Ended)
      BY DEF Renames, Ended
    <3> QED
      BY <2>1, <3>2, <3>3, <3>4, <3>5, PTL
  <2>3. Identified => Exists(d) \/ SomeSwaps(d) \/ \E p \in Saver : Renames(p, d)
    BY DEF Identified, IdentityInv, IdentityRestored, SomeSwaps, Swaps, Renames
  <2>4. (\E p \in Saver : Renames(p, d)) => <>Exists(d)
    BY <2>2
  <2> QED
    BY <2>1, <2>3, <2>4, PTL
<1>2. ASSUME NEW d \in Database PROVE Spec /\ Scheduled => (~Exists(d) ~> Exists(d))
  BY <1>1, AlwaysIdentified, PTL DEF Spec, Scheduled
<1> QED
  BY <1>2 DEF DatabaseComesBack
-----------------------------------------------------------------------------
(* The objects of the records, for any operations and any faults. *)

\* A record is not New any more when its url is recorded.
New(p) == pc[p] \in {"idle", "ensure", "reload", "create", "dump", "record"}

\* A url names the object of the record's own name.
KeysNamed == \A r \in RowId : rows[r].key \in {None, rows[r].name}

\* What a request carries, and when it writes a url.
CarriesKey(p) ==
  /\ req[p].db \notin Saver
  /\ req[p].snap.key \in {None, req[p].snap.name}
  /\ pc[p] = "store" \/ (pc[p] = "unlink" /\ Op[p] # "save") => req[p].snap.key # None
  /\ pc[p] \in {"rename", "swap"} => p \in Saver
  /\ pc[p] = "swap" => rows[p].name = req[p].snap.name /\ rows[p].key = req[p].snap.key

\* Until its url is recorded, a new record has its own name for all who have read it.
NewKeepsName(p) ==
  New(p) => /\ rows[p].name \in {None, OwnName(p)} /\ rows[p].key = None
            /\ \A q \in Request : req[q].db = p => /\ req[q].snap.name \in {None, OwnName(p)}
                                                   /\ req[q].snap.key = None

KeyInv ==
  /\ UniqueNames /\ KeysNamed
  /\ \A p \in Request : CarriesKey(p) /\ NewKeepsName(p)

LEMMA InitKeys == Init => KeyInv
<1> SUFFICES ASSUME Init PROVE KeyInv
  OBVIOUS
<1>1. \A r \in RowId : /\ rows[r].name = IF r \in Database THEN InitialName[r] ELSE None
                       /\ rows[r].key = rows[r].name
  BY DEF Init, Absent
<1>2. UniqueNames
  BY <1>1, DatabasesAssumption DEF UniqueNames, Exists
<1>3. KeysNamed
  BY <1>1 DEF KeysNamed
<1>4. \A p \in Request : rows[p].name = None /\ rows[p].key = None
  BY <1>1, Distinct DEF RowId
<1>5. \A p \in Request : req[p].db = None /\ req[p].snap.key = None /\ pc[p] = "idle"
  BY DEF Init, Idle, NoLoad
<1>6. None \notin Saver /\ None \notin Request
  BY DatabasesAssumption DEF Saver, RowId
<1> QED
  BY <1>2, <1>3, <1>4, <1>5, <1>6 DEF KeyInv, CarriesKey, NewKeepsName

\* Writing a record under a name that no other has.
LEMMA WriteRow ==
  ASSUME Types, UniqueNames, KeysNamed, NEW r \in RowId, NEW v \in Row,
         rows' = [rows EXCEPT ![r] = v], v.key \in {None, v.name},
         v.name = None \/ v.name = rows[r].name \/ ~NameTaken(v.name, r)
  PROVE  UniqueNames' /\ KeysNamed'
<1>1. rows'[r] = v /\ \A s \in RowId \ {r} : rows'[s] = rows[s]
  BY DEF Types
<1>2. \A s \in RowId \ {r} : v.name = None \/ rows[s].name # v.name
  BY DEF UniqueNames, Exists, NameTaken
<1>3. UniqueNames'
  BY <1>1, <1>2 DEF UniqueNames, Exists
<1> QED
  BY <1>1, <1>3 DEF KeysNamed

\* A step of p that writes no record, and moves p nowhere where it would have to know more.
LEMMA QuietKeys ==
  ASSUME KeyInv, NEW p \in Request, UNCHANGED <<rows, req>>,
         \A q \in Request \ {p} : pc'[q] = pc[q],
         New(p)' => New(p),
         pc'[p] = "store" \/ (pc'[p] = "unlink" /\ Op[p] # "save") => req[p].snap.key # None,
         pc'[p] = "rename" => p \in Saver, pc'[p] # "swap"
  PROVE  KeyInv'
<1>1. UniqueNames' /\ KeysNamed'
  BY DEF KeyInv, UniqueNames, KeysNamed, Exists
<1>2. CarriesKey(p)'
  BY DEF KeyInv, CarriesKey
<1>3. \A q \in Request \ {p} : CarriesKey(q)'
  BY DEF KeyInv, CarriesKey
<1>4. \A q \in Request : NewKeepsName(q)'
  BY DEF KeyInv, NewKeepsName, New, OwnName
<1> QED
  BY <1>1, <1>2, <1>3, <1>4 DEF KeyInv

\* A step that has p read a record, or forget what it has read.
LEMMA ReadKeys ==
  ASSUME TypeOK, KeyInv, NEW p \in Request, NEW x \in Pending, NEW l \in Label,
         UNCHANGED rows, Goto(p, l), req' = [req EXCEPT ![p] = x],
         l \notin {"store", "unlink", "rename", "swap"}, x.db \notin Saver,
         \/ x.snap.name = None /\ x.snap.key = None
         \/ x.db \in RowId /\ x.snap = Load(x.db)
         \/ x.db = req[p].db /\ x.snap = req[p].snap,
         New(p)' => New(p)
  PROVE  KeyInv'
<1>1. /\ pc'[p] = l /\ req'[p] = x
      /\ \A q \in Request \ {p} : pc'[q] = pc[q] /\ req'[q] = req[q]
  BY DEF Goto, TypeOK, Types
<1>2. UniqueNames' /\ KeysNamed'
  BY DEF KeyInv, UniqueNames, KeysNamed, Exists
<1>3. CarriesKey(p)'
  <2>1. x.snap.key \in {None, x.snap.name}
    <3>1. CASE x.db \in RowId /\ x.snap = Load(x.db)
      BY <3>1 DEF KeyInv, KeysNamed, Load
    <3> QED
      BY <3>1 DEF KeyInv, CarriesKey
  <2> QED
    BY <1>1, <2>1 DEF CarriesKey
<1>4. \A q \in Request \ {p} : CarriesKey(q)'
  BY <1>1 DEF KeyInv, CarriesKey
<1>5. ASSUME NEW q \in Request PROVE NewKeepsName(q)'
  <2> SUFFICES ASSUME New(q)' PROVE NewKeepsName(q)'
    BY DEF NewKeepsName
  <2>1. New(q) /\ NewKeepsName(q) /\ q \in RowId
    BY <1>1 DEF New, KeyInv, RowId
  <2>2. x.db = q => x.snap.name \in {None, OwnName(q)} /\ x.snap.key = None
    <3>1. CASE x.db \in RowId /\ x.snap = Load(x.db)
      BY <2>1, <3>1 DEF NewKeepsName, Load
    <3> QED
      BY <2>1, <3>1 DEF NewKeepsName
  <2> QED
    BY <1>1, <2>1, <2>2 DEF NewKeepsName, OwnName
<1> QED
  BY <1>2, <1>3, <1>4, <1>5 DEF KeyInv
\* A step of p that writes the record r, its own or the one it has read.
LEMMA WriteKeys ==
  ASSUME TypeOK, KeyInv, NEW p \in Request, NEW r \in RowId, NEW v \in Row, NEW l \in Label,
         UNCHANGED req, Goto(p, l), rows' = [rows EXCEPT ![r] = v],
         r \notin Saver \ {p}, v.key \in {None, v.name},
         v.name = None \/ v.name = rows[r].name \/ ~NameTaken(v.name, r),
         r \in Request /\ New(r)' => v.name \in {None, OwnName(r)} /\ v.key = None,
         New(p)' => New(p), l \notin {"store", "unlink"}, l \in {"rename", "swap"} => p \in Saver,
         l = "swap" => r = p /\ v.name = req[p].snap.name /\ v.key = req[p].snap.key
  PROVE  KeyInv'
<1>1. /\ pc'[p] = l /\ \A q \in Request \ {p} : pc'[q] = pc[q]
      /\ rows'[r] = v /\ \A s \in RowId \ {r} : rows'[s] = rows[s]
      /\ \A q \in Request : q \in RowId
  BY DEF Goto, TypeOK, Types, RowId
<1>2. UniqueNames' /\ KeysNamed'
  BY WriteRow DEF KeyInv, TypeOK
<1>3. CarriesKey(p)'
  BY <1>1 DEF KeyInv, CarriesKey
<1>4. \A q \in Request \ {p} : CarriesKey(q)'
  BY <1>1 DEF KeyInv, CarriesKey
<1>5. \A q \in Request : NewKeepsName(q)'
  BY <1>1 DEF KeyInv, NewKeepsName, New, OwnName
<1> QED
  BY <1>2, <1>3, <1>4, <1>5 DEF KeyInv

LEMMA UpdateIdKeys ==
  ASSUME TypeOK, KeyInv, NEW p \in Request, UpdateId(p), ~Exists(req[p].db)
  PROVE  KeyInv'
<1> DEFINE d == req[p].db
<1>1. /\ p \in Saver /\ d \notin Saver /\ d # p /\ p \in RowId
      /\ rows[p].name = req[p].snap.name /\ rows[p].key = req[p].snap.key
  BY DEF UpdateId, KeyInv, CarriesKey, RowId
<1>2. /\ rows' = [rows EXCEPT ![d] = rows[p], ![p] = Absent] /\ UNCHANGED req
      /\ pc'[p] = "relock" /\ \A q \in Request \ {p} : pc'[q] = pc[q]
  BY DEF UpdateId, Goto, TypeOK, Types
<1> HIDE DEF d
<1>3. /\ rows'[p].name = None /\ rows'[p].key = None
      /\ d \in RowId => rows'[d] = rows[p]
      /\ \A s \in RowId \ {d, p} : rows'[s] = rows[s]
  BY <1>1, <1>2 DEF TypeOK, Types, Absent
<1>4. UniqueNames' /\ KeysNamed'
  BY <1>1, <1>3 DEF KeyInv, UniqueNames, KeysNamed, Exists
<1>5. ASSUME NEW q \in Request PROVE CarriesKey(q)'
  <2>1. CarriesKey(q) /\ q \in RowId
    BY DEF KeyInv, RowId
  <2>2. CASE q = p
    BY <1>2, <2>1, <2>2 DEF CarriesKey, Saver
  <2>3. CASE q # p
    <3>1. pc'[q] = pc[q] /\ req'[q] = req[q]
      BY <1>2, <2>3
    <3>2. pc[q] = "swap" => q # d
      BY <1>1, <2>1 DEF CarriesKey
    <3>3. pc[q] = "swap" => rows'[q] = rows[q]
      BY <1>3, <2>1, <2>3, <3>2
    <3> QED
      BY <2>1, <3>1, <3>3 DEF CarriesKey, Saver
  <2> QED
    BY <2>2, <2>3
<1>6. ASSUME NEW q \in Request, New(q)' PROVE NewKeepsName(q)'
  <2>1. q # p /\ New(q) /\ NewKeepsName(q) /\ q \in RowId
    BY <1>2, <1>6 DEF New, KeyInv, RowId
  <2>2. CASE q = d
    BY <1>1, <1>2, <1>3, <2>1, <2>2 DEF NewKeepsName, OwnName, d
  <2>3. CASE q # d
    BY <1>2, <1>3, <2>1, <2>3 DEF NewKeepsName, OwnName
  <2> QED
    BY <2>2, <2>3
<1> QED
  BY <1>4, <1>5, <1>6 DEF KeyInv, NewKeepsName

LEMMA StepKeys ==
  ASSUME TypeOK, KeyInv, NEW p \in Request, Step(p) PROVE KeyInv'
<1> USE OwnNameType DEF Label, Ended
<1>1. p \in RowId /\ CarriesKey(p) /\ NewKeepsName(p) /\ p # None /\ OwnName(p) # None
  BY OwnNameType, DatabasesAssumption DEF KeyInv, RowId
<1>2. /\ pc \in [Request -> Label] /\ req[p] \in Pending /\ rows \in [RowId -> Row]
      /\ req[p].snap.name \in FileName \cup {None} /\ req[p].snap.key \in FileName \cup {None}
  BY SnapType DEF TypeOK, Types
<1>3. CASE \/ RefuseSave(p) \/ AcquireLock(p) \/ StoreObject(p) \/ RemoveLock(p)
           \/ EraseObject(p) \/ CheckUnlocked(p) \/ Relock(p) \/ Release(p)
  <2>1. /\ UNCHANGED <<rows, req>> /\ \A q \in Request \ {p} : pc'[q] = pc[q]
        /\ pc'[p] \notin {"store", "unlink", "rename", "swap"} /\ (New(p)' => New(p))
    BY <1>2, <1>3 DEF RefuseSave, AcquireLock, StoreObject, RemoveLock, EraseObject, CheckUnlocked,
                      Relock, Release, Goto, Stop, New
  <2> QED
    BY <2>1, QuietKeys
<1>4. CASE CopyObject(p) \/ DeleteSource(p)
  <2>1. /\ UNCHANGED <<rows, req>> /\ \A q \in Request \ {p} : pc'[q] = pc[q]
        /\ pc'[p] \notin {"rename", "swap"} /\ ~New(p)'
    BY <1>2, <1>4 DEF CopyObject, DeleteSource, Goto, Stop, New
  <2>2. pc'[p] = "store" \/ (pc'[p] = "unlink" /\ Op[p] # "save") => req[p].snap.key # None
    BY <1>1, <1>2, <1>4 DEF CopyObject, DeleteSource, CanCopy, Source, Goto, Stop, CarriesKey
  <2> QED
    BY <2>1, <2>2, QuietKeys
<1>5. CASE FindLocked(p)
  <2> DEFINE x == [req[p] EXCEPT !.wasLocked = TRUE]
  <2>1. x \in Pending /\ x.db = req[p].db /\ x.snap = req[p].snap
    BY <1>2 DEF Pending
  <2>2. UNCHANGED rows /\ Goto(p, "create") /\ req' = [req EXCEPT ![p] = x] /\ New(p)
    BY <1>5 DEF FindLocked, New
  <2> QED
    BY <1>1, <2>1, <2>2, ReadKeys DEF CarriesKey
<1>6. CASE Reload(p)
  <2> DEFINE x == [req[p] EXCEPT !.snap = Load(req[p].db)]
  <2>1. req[p].db \in RowId /\ New(p)
    BY <1>6 DEF Reload, TypeOK, Addressed, New
  <2>2. x \in Pending /\ x.db = req[p].db /\ x.snap = Load(x.db)
    BY <1>2, <2>1, LoadType DEF Pending, TypeOK
  <2>3. CASE Exists(req[p].db)
    BY <1>1, <1>6, <2>1, <2>2, <2>3, ReadKeys DEF Reload, CarriesKey
  <2>4. CASE ~Exists(req[p].db)
    <3>1. UNCHANGED <<rows, req>> /\ pc'[p] = "failed" /\ \A q \in Request \ {p} : pc'[q] = pc[q]
      BY <1>2, <1>6, <2>4 DEF Reload, Goto
    <3> QED
      BY <3>1, QuietKeys DEF New
  <2> QED
    BY <2>3, <2>4
<1>7. CASE UNCHANGED <<rows, req>> /\ \E l \in {"failed", "abort"} : Goto(p, l)
  <2>1. pc'[p] \in {"failed", "abort"} /\ \A q \in Request \ {p} : pc'[q] = pc[q]
    BY <1>2, <1>7 DEF Goto
  <2> QED
    BY <1>7, <2>1, QuietKeys DEF New
<1>8. CASE CreateDatabase(p)
  <2> DEFINE v == [name |-> OwnName(p), key |-> None]
  <2>1. v \in Row
    BY DEF Row
  <2>2. CASE ~NameTaken(OwnName(p), p)
    <3>1. /\ UNCHANGED req /\ Goto(p, "dump") /\ rows' = [rows EXCEPT ![p] = v] /\ New(p)
      BY <1>8, <2>2 DEF CreateDatabase, New
    <3> QED
      BY <1>1, <2>1, <2>2, <3>1, WriteKeys
  <2>3. CASE NameTaken(OwnName(p), p)
    BY <1>7, <1>8, <2>3 DEF CreateDatabase, Stop
  <2> QED
    BY <2>2, <2>3
<1>9. CASE RecordUrl(p)
  <2> DEFINE v == [rows[p] EXCEPT !.key = OwnName(p)]
  <2>1. v \in Row /\ v.name = rows[p].name /\ v.key = OwnName(p)
    BY <1>1, <1>2 DEF Row
  <2>2. CASE Exists(p)
    <3>1. rows[p].name = OwnName(p)
      BY <1>1, <1>9, <2>2 DEF RecordUrl, NewKeepsName, New, Exists
    <3>2. PICK l \in {"move", "done"} : Goto(p, l)
      BY <1>9, <2>2 DEF RecordUrl
    <3>3. UNCHANGED req /\ rows' = [rows EXCEPT ![p] = v] /\ pc'[p] = l
      BY <1>2, <1>9, <2>2, <3>2 DEF RecordUrl, Goto
    <3> QED
      BY <1>1, <2>1, <3>1, <3>2, <3>3, WriteKeys DEF New
  <2>3. CASE ~Exists(p)
    BY <1>7, <1>9, <2>3 DEF RecordUrl, Stop
  <2> QED
    BY <2>2, <2>3
<1>10. CASE InsertRow(p)
  <2> DEFINE v == [name |-> OwnName(p), key |-> OwnName(p)]
  <2>1. v \in Row
    BY DEF Row
  <2>2. CASE ~NameTaken(OwnName(p), p)
    <3>1. UNCHANGED req /\ Goto(p, "done") /\ rows' = [rows EXCEPT ![p] = v] /\ pc'[p] = "done"
      BY <1>2, <1>10, <2>2 DEF InsertRow, Goto
    <3> QED
      BY <1>1, <2>1, <2>2, <3>1, WriteKeys DEF New
  <2>3. CASE NameTaken(OwnName(p), p)
    BY <1>7, <1>10, <2>3 DEF InsertRow, Stop
  <2> QED
    BY <2>2, <2>3
<1>11. CASE UpdateRow(p)
  <2> DEFINE d == req[p].db
             v == [name |-> OwnName(p), key |-> OwnName(p)]
  <2>1. v \in Row
    BY DEF Row
  <2>2. CASE rows' # rows \/ Goto(p, "done")
    <3>1. /\ UNCHANGED req /\ rows' = [rows EXCEPT ![d] = v] /\ ~NameTaken(OwnName(p), d)
          /\ Goto(p, "done") /\ pc'[p] = "done"
      BY <1>2, <1>11, <2>2 DEF UpdateRow, Goto, Stop
    <3>2. CASE d \in RowId
      <4>1. d \notin Saver /\ req[p].snap.key # None
        BY <1>1, <1>11 DEF UpdateRow, CarriesKey
      <4>2. d \in Request => ~New(d)
        BY <4>1 DEF KeyInv, NewKeepsName
      <4>3. d \in Request => ~New(d)'
        BY <1>2, <3>1, <4>2 DEF New, Goto
      <4> QED
        BY <2>1, <3>1, <3>2, <4>1, <4>3, WriteKeys DEF New
    <3>3. CASE d \notin RowId
      <4>1. UNCHANGED rows /\ \A q \in Request \ {p} : pc'[q] = pc[q]
        BY <1>2, <3>1, <3>3 DEF Goto
      <4> QED
        BY <3>1, <4>1, QuietKeys DEF New
    <3> QED
      BY <3>2, <3>3
  <2>3. CASE rows' = rows /\ ~Goto(p, "done")
    BY <1>7, <1>11, <2>3 DEF UpdateRow, Stop
  <2> QED
    BY <2>2, <2>3
<1>12. CASE DeleteRow(p)
  <2> DEFINE d == req[p].db
  <2>1. Absent \in Row /\ Absent.name = None /\ Absent.key = None
    BY DEF Absent, Row
  <2>2. PICK l \in {"rename", "done"} : Goto(p, l) /\ (l = "rename" => p \in Saver)
    BY <1>12 DEF DeleteRow, Saver
  <2>3. UNCHANGED req /\ rows' = [rows EXCEPT ![d] = Absent] /\ pc'[p] = l
    BY <1>2, <1>12, <2>2 DEF DeleteRow, Goto
  <2>4. CASE d \in RowId
    <3>1. d \notin Saver
      BY <1>1 DEF CarriesKey
    <3> QED
      BY <2>1, <2>2, <2>3, <2>4, <3>1, WriteKeys DEF New
  <2>5. CASE d \notin RowId
    <3>1. UNCHANGED rows /\ \A q \in Request \ {p} : pc'[q] = pc[q]
      BY <1>2, <2>2, <2>3, <2>5 DEF Goto
    <3> QED
      BY <2>2, <2>3, <3>1, QuietKeys DEF New
  <2> QED
    BY <2>4, <2>5
<1>13. CASE RenameSaved(p)
  <2> DEFINE v == [name |-> req[p].snap.name, key |-> req[p].snap.key]
  <2>1. v \in Row /\ v.key \in {None, v.name} /\ p \in Saver
    BY <1>1, <1>2, <1>13 DEF Row, CarriesKey, RenameSaved
  <2>2. CASE ~NameTaken(req[p].snap.name, p)
    <3>1. UNCHANGED req /\ Goto(p, "swap") /\ rows' = [rows EXCEPT ![p] = v] /\ pc'[p] = "swap"
      BY <1>2, <1>13, <2>2 DEF RenameSaved, Goto
    <3> QED
      BY <1>1, <2>1, <2>2, <3>1, WriteKeys DEF New
  <2>3. CASE NameTaken(req[p].snap.name, p)
    BY <1>7, <1>13, <2>3 DEF RenameSaved, Stop
  <2> QED
    BY <2>2, <2>3
<1>14. CASE UpdateId(p)
  <2>1. CASE Exists(req[p].db)
    BY <1>7, <1>14, <2>1 DEF UpdateId, Stop
  <2> QED
    BY <1>14, <2>1, UpdateIdKeys
<1> QED
  BY <1>3, <1>4, <1>5, <1>6, <1>8, <1>9, <1>10, <1>11, <1>12, <1>13, <1>14 DEF Step
LEMMA NextKeys == ASSUME TypeOK, KeyInv, [Next]_vars PROVE KeyInv'
<1>1. ASSUME NEW p \in Request, Step(p) PROVE KeyInv'
  BY <1>1, StepKeys
<1>2. ASSUME NEW p \in Request, Begin(p) PROVE KeyInv'
  <2>1. CASE SaveAsBegin(p) \/ UploadBegin(p)
    <3>1. /\ UNCHANGED <<rows, req>> /\ \A q \in Request \ {p} : pc'[q] = pc[q]
          /\ pc'[p] \in {"create", "dump"} /\ New(p)
      BY <2>1 DEF SaveAsBegin, UploadBegin, Goto, TypeOK, Types, New
    <3> QED
      BY <3>1, QuietKeys
  <2>2. ASSUME NEW d \in Target, UnlockBegin(p, d) \/ LockDatabase(p, d) PROVE KeyInv'
    <3> DEFINE x == [Idle EXCEPT !.db = d]
    <3>1. /\ x \in Pending /\ x.db = d /\ x.snap.name = None /\ x.snap.key = None
          /\ d \notin Saver
      BY DatabasesAssumption DEF Idle, NoLoad, Pending, Loaded, Lock
    <3>2. PICK l \in {"unlock", "done"} :
            Goto(p, l) /\ UNCHANGED rows /\ req' = [req EXCEPT ![p] = x] /\ New(p)
      BY <2>2 DEF UnlockBegin, LockDatabase, New
    <3> QED
      BY <3>1, <3>2, ReadKeys DEF Label, Ended
  <2>3. ASSUME NEW d \in Target, SaveBegin(p, d) \/ CopyOrUpdateBegin(p, d) \/ DeleteBegin(p, d)
        PROVE  KeyInv'
    <3> DEFINE x == [Idle EXCEPT !.db = d, !.snap = Load(d)]
    <3>1. d \in RowId \ Saver
      BY DatabasesAssumption
    <3>2. x \in Pending /\ x.db = d /\ x.snap = Load(x.db)
      BY <3>1, LoadType DEF Idle, Pending, TypeOK
    <3>3. PICK l \in {"ensure", "move", "erase"} :
            Goto(p, l) /\ UNCHANGED rows /\ req' = [req EXCEPT ![p] = x] /\ New(p)
      BY <2>3 DEF SaveBegin, CopyOrUpdateBegin, DeleteBegin, New
    <3> QED
      BY <3>1, <3>2, <3>3, ReadKeys DEF Label, Ended
  <2> QED
    BY <1>2, <2>1, <2>2, <2>3 DEF Begin
<1>3. ASSUME NEW p \in Request, Fault(p) PROVE KeyInv'
  <2>1. PICK l \in {"abort", "failed", "check", "done"} : Goto(p, l) /\ UNCHANGED <<rows, req>>
    BY <1>3 DEF Fault, StorageFault, AnswerLost, PostgresFault, ClientGone, Stop, Goto
  <2>2. pc'[p] = l /\ \A q \in Request \ {p} : pc'[q] = pc[q]
    BY <2>1 DEF Goto, TypeOK, Types
  <2> QED
    BY <2>1, <2>2, QuietKeys DEF New
<1>4. CASE Crash
  <2>1. /\ UNCHANGED <<rows, req>>
        /\ \A q \in Request : pc'[q] = pc[q] \/ pc'[q] = "lost"
    BY <1>4 DEF Crash, TypeOK, Types
  <2>2. UniqueNames' /\ KeysNamed'
    BY <2>1 DEF KeyInv, UniqueNames, KeysNamed, Exists
  <2>3. \A q \in Request : CarriesKey(q)'
    BY <2>1 DEF KeyInv, CarriesKey
  <2>4. \A q \in Request : NewKeepsName(q)'
    BY <2>1 DEF KeyInv, NewKeepsName, New, OwnName
  <2> QED
    BY <2>2, <2>3, <2>4 DEF KeyInv
<1>5. CASE UNCHANGED vars \/ \E i \in Instance : DeleteDeploymentInstance(i)
  BY <1>5
  DEF vars, DeleteDeploymentInstance, KeyInv, UniqueNames, KeysNamed, Exists, CarriesKey, NewKeepsName,
      New, OwnName
<1> QED
  BY <1>1, <1>2, <1>3, <1>4, <1>5 DEF Next

\* Whatever requests of whatever kinds overlap, on whatever records, and whatever fails: no two
\* records share an object.
THEOREM ObjectsNotShared == Spec => []NoSharedObject
<1>1. Init => TypeOK /\ KeyInv
  BY InitType, InitKeys
<1>2. TypeOK /\ KeyInv /\ [Next]_vars => (TypeOK /\ KeyInv)'
  BY NextType, NextKeys
<1>3. TypeOK /\ KeyInv => NoSharedObject
  BY DEF TypeOK, KeyInv, UniqueNames, KeysNamed, NoSharedObject, Exists
<1> QED
  BY <1>1, <1>2, <1>3, PTL DEF Spec

-----------------------------------------------------------------------------
(* The urls of the records, among requests that do not save. *)

\* The requests that give a record a name.
Writer == {p \in Request : Op[p] \in {"saveAs", "upload", "copy", "update"}}

\* No request saves, and each name is used once.  With requests that lock nothing is deleted: a
\* record that is locked between the two steps of its deletion stays without its object, and so
\* does one whose lock an update cannot put back.  The statements succeed, the answers of S3
\* arrive and the server lives.
Edits ==
  /\ \A p \in Request : Op[p] # "save"
  /\ \A p \in Writer : /\ \A q \in Writer \ {p} : NewName[p] # NewName[q]
                       /\ \A d \in Database : NewName[p] # InitialName[d]
  /\ \/ \A p \in Request : Op[p] # "lock"
     \/ (\A p \in Request : Op[p] # "delete") /\ Destroyable = {}
  /\ Faults \cap {"answer", "postgres", "crash"} = {}

\* What each operation goes through.
Path(o, l) ==
  \/ o = "saveAs" /\ l \in {"create", "dump", "record"}
  \/ o = "upload" /\ l \in {"dump", "insert"}
  \/ o = "copy"   /\ l \in {"move", "insert"}
  \/ o = "update" /\ l \in {"move", "unlink", "store"}
  \/ o = "delete" /\ l \in {"erase", "check", "delete"}
  \/ o = "unlock" /\ l = "unlock"

\* The names under which a record may have its object.
Bears(r, k) ==
  \/ r \in Database /\ k = InitialName[r]
  \/ r \in Request /\ Op[r] \in {"saveAs", "upload", "copy"} /\ k = NewName[r]
  \/ \E p \in Request : Op[p] = "update" /\ req[p].db = r /\ k = NewName[p]

\* What a request has read: a record, and its object if it had one.
Knows(p) ==
  /\ pc[p] \in Ended \/ Path(Op[p], pc[p])
  /\ pc[p] = "idle" => req[p].db = None /\ req[p].snap.key = None
  /\ pc[p] \in {"move", "unlink", "store", "erase", "check", "delete"} => req[p].db \in RowId
  /\ req[p].snap.key # None => req[p].db \in RowId /\ Bears(req[p].db, req[p].snap.key)

\* Until a request is done no record and no other request has the name it gives.
Unclaimed(p) ==
  p \in Writer /\ pc[p] # "done" =>
    /\ \A r \in RowId : /\ rows[r].key # NewName[p]
                        /\ rows[r].name = NewName[p] => r = p /\ Op[p] = "saveAs"
    /\ \A q \in Request : req[q].snap.key # NewName[p]
    /\ Op[p] = "update" /\ pc[p] = "idle" => objects[NewName[p]] = None

\* When the url is written the object is there.
Stored(p) == pc[p] \in {"unlink", "store", "insert", "record"} => objects[NewName[p]] # None

\* An object under a name that a record may have is that of the record.
OwnContent ==
  \A r \in RowId, k \in FileName :
    Bears(r, k) /\ objects[k] # None => objects[k] = r \/ (r \in Request /\ Op[r] = "copy")

\* A record without its object is about to be deleted, or to have another name.
Resolves(r) ==
  rows[r].key # None =>
    /\ Bears(r, rows[r].key)
    /\ \/ objects[rows[r].key] # None
       \/ \E q \in Request : req[q].db = r /\ pc[q] \in {"store", "check", "delete"}

\* An update never fails to put back a lock, and a deletion never meets one.
NoLocks ==
  /\ \A r \in RowId : locks[r] = None
  /\ \A p \in Request : req[p].snap.lock = None

NothingGoes ==
  /\ gone = {}
  /\ \A p \in Request : pc[p] \in {"move", "unlink", "store"} => Exists(req[p].db)

LocksKept ==
  \/ NoLocks /\ \A p \in Request : Op[p] # "lock"
  \/ NothingGoes /\ Destroyable = {} /\ \A p \in Request : Op[p] # "delete"

UrlInv ==
  /\ \A p \in Request : Knows(p) /\ Unclaimed(p) /\ Stored(p)
  /\ \A r \in RowId : Resolves(r)
  /\ OwnContent

\* An update has one name, and no other request has it.
LEMMA BearsOne ==
  ASSUME Edits, NEW r \in RowId, NEW s \in RowId, NEW k, Bears(r, k), Bears(s, k)
  PROVE  r = s
<1>1. \A d, e \in Database : InitialName[d] = InitialName[e] => d = e
  BY DatabasesAssumption
<1>2. \A p, q \in Writer : NewName[p] = NewName[q] => p = q
  BY DEF Edits
<1>3. \A p \in Writer, d \in Database : NewName[p] # InitialName[d]
  BY DEF Edits
<1>4. \A p \in Request : Op[p] \in {"saveAs", "upload", "copy", "update"} => p \in Writer
  BY DEF Writer
<1> QED
  BY <1>1, <1>2, <1>3, <1>4 DEF Bears

\* A record with an object is there.
LEMMA KeyedExists == ASSUME KeyInv, NEW r \in RowId, rows[r].key # None PROVE Exists(r)
BY DEF KeyInv, KeysNamed, Exists

\* What a request goes on to.
Onward(p, l) ==
  /\ pc[p] # "done" /\ Goto(p, l) /\ l \in Label \ {"idle"}
  /\ l \in Ended \/ Path(Op[p], l)
  /\ l \in {"move", "unlink", "store", "erase", "check", "delete"} => req[p].db \in RowId

\* A step of p that leaves the records and the objects.
LEMMA QuietUrls ==
  ASSUME Types, Edits, UrlInv, NEW p \in Request, NEW l, Onward(p, l),
         UNCHANGED <<rows, objects, req>>, l \notin {"unlink", "store", "insert", "record"},
         pc[p] \in {"store", "check", "delete"} =>
           l \in {"check", "delete"} \/ \A r \in RowId : r = req[p].db => rows[r].key = None
  PROVE  UrlInv'
<1>1. pc'[p] = l /\ \A q \in Request \ {p} : pc'[q] = pc[q]
  BY DEF Types, Goto, Onward
<1>2. \A r, k : Bears(r, k)' = Bears(r, k)
  BY DEF Bears
<1>3. \A q \in Request : Knows(q)'
  BY <1>1, <1>2 DEF UrlInv, Knows, Onward
<1>4. \A q \in Request : Unclaimed(q)' /\ Stored(q)'
  BY <1>1 DEF UrlInv, Unclaimed, Stored, Onward
<1>5. \A r \in RowId : Resolves(r)'
  BY <1>1, <1>2 DEF UrlInv, Resolves
<1>6. OwnContent'
  BY <1>2 DEF UrlInv, OwnContent
<1> QED
  BY <1>3, <1>4, <1>5, <1>6 DEF UrlInv

\* A step of p that writes the record r: it gives it the name of p, and with its url p is done.
LEMMA WriteUrls ==
  ASSUME Types, Edits, UrlInv, NEW p \in Request, NEW r \in RowId, NEW v \in Row, NEW l, Onward(p, l),
         UNCHANGED <<objects, req>>, rows' = [rows EXCEPT ![r] = v],
         l \notin {"unlink", "store", "insert", "record"},
         v.key # None => /\ v.key = NewName[p] /\ Bears(r, NewName[p]) /\ p \in Writer
                         /\ objects[NewName[p]] # None /\ l = "done",
         v.name \in {None, rows[r].name} \/ (v.name = NewName[p] /\ p \in Writer),
         v.name = NewName[p] => l = "done" \/ (r = p /\ Op[p] = "saveAs"),
         pc[p] \in {"store", "check", "delete"} => req[p].db = r
  PROVE  UrlInv'
<1>1. /\ pc'[p] = l /\ (\A q \in Request \ {p} : pc'[q] = pc[q])
      /\ rows'[r] = v /\ \A s \in RowId \ {r} : rows'[s] = rows[s]
  BY DEF Types, Goto, Onward
<1>2. \A s, k : Bears(s, k)' = Bears(s, k)
  BY DEF Bears
<1>3. \A q \in Request : Knows(q)'
  BY <1>1, <1>2 DEF UrlInv, Knows, Onward
<1>4. ASSUME NEW q \in Request, q \in Writer, pc'[q] # "done" PROVE Unclaimed(q)'
  <2>1. pc[q] # "done" /\ (pc'[q] = "idle" => pc[q] = "idle")
    BY <1>1, <1>4 DEF Onward
  <2>2. p \in Writer /\ p # q => NewName[p] # NewName[q]
    BY <1>4 DEF Edits
  <2>3. NewName[q] # None
    BY DatabasesAssumption DEF FileName
  <2>4. Unclaimed(q)
    BY DEF UrlInv
  <2>5. v.key # NewName[q]
    BY <1>1, <1>4, <2>2, <2>3
  <2>6. v.name = NewName[q] => r = q /\ Op[q] = "saveAs"
    BY <1>1, <1>4, <2>1, <2>2, <2>3, <2>4 DEF Unclaimed
  <2> QED
    BY <1>1, <2>1, <2>4, <2>5, <2>6, <1>4 DEF Unclaimed
<1>5. \A q \in Request : Stored(q)'
  BY <1>1 DEF UrlInv, Stored
<1>6. ASSUME NEW s \in RowId PROVE Resolves(s)'
  <2>1. CASE s = r
    BY <1>1, <1>2, <2>1 DEF Resolves
  <2>2. CASE s # r
    <3>1. rows'[s] = rows[s] /\ Resolves(s)
      BY <1>1, <2>2 DEF UrlInv
    <3>2. \A q \in Request : req[q].db = s /\ pc[q] \in {"store", "check", "delete"} => pc'[q] = pc[q]
      BY <1>1, <2>2
    <3> QED
      BY <1>2, <3>1, <3>2 DEF Resolves
  <2> QED
    BY <2>1, <2>2
<1>7. OwnContent'
  BY <1>2 DEF UrlInv, OwnContent
<1> QED
  BY <1>3, <1>4, <1>5, <1>6, <1>7 DEF UrlInv, Unclaimed

\* A step of p that stores the object it has the name of: the record will have no other content.
LEMMA StoreUrls ==
  ASSUME Types, Edits, UrlInv, NEW p \in Writer, NEW c, NEW l, Onward(p, l),
         UNCHANGED <<rows, req>>, objects' = [objects EXCEPT ![NewName[p]] = c], c # None,
         pc[p] \notin {"idle", "store", "check", "delete"},
         \A r \in RowId : Bears(r, NewName[p]) => c = r \/ (r \in Request /\ Op[r] = "copy")
  PROVE  UrlInv'
<1>1. /\ p \in Request /\ NewName[p] \in FileName
      /\ pc'[p] = l /\ (\A q \in Request \ {p} : pc'[q] = pc[q])
      /\ objects'[NewName[p]] = c /\ \A k \in FileName \ {NewName[p]} : objects'[k] = objects[k]
  <2>1. p \in Request /\ NewName[p] \in FileName
    BY DatabasesAssumption DEF Writer, FileName
  <2>2. pc'[p] = l /\ \A q \in Request \ {p} : pc'[q] = pc[q]
    BY <2>1 DEF Types, Goto, Onward
  <2>3. objects'[NewName[p]] = c /\ \A k \in FileName \ {NewName[p]} : objects'[k] = objects[k]
    BY <2>1 DEF Types
  <2> QED
    BY <2>1, <2>2, <2>3
<1>2. \A s, k : Bears(s, k)' = Bears(s, k)
  BY DEF Bears
<1>3. \A q \in Request : Knows(q)'
  BY <1>1, <1>2 DEF UrlInv, Knows, Onward
<1>4. ASSUME NEW q \in Request, q \in Writer, pc'[q] # "done" PROVE Unclaimed(q)'
  <2>1. pc[q] # "done" /\ (pc'[q] = "idle" => pc[q] = "idle" /\ p # q)
    BY <1>1, <1>4 DEF Onward
  <2>2. p # q => NewName[p] # NewName[q]
    BY <1>4 DEF Edits
  <2>3. Unclaimed(q) /\ NewName[q] \in FileName
    BY DatabasesAssumption DEF UrlInv, FileName
  <2> QED
    BY <1>1, <1>4, <2>1, <2>2, <2>3 DEF Unclaimed
<1>5. ASSUME NEW q \in Request PROVE Stored(q)'
  <2>1. Stored(q) /\ NewName[q] \in FileName
    BY DatabasesAssumption DEF UrlInv, FileName
  <2> QED
    BY <1>1, <2>1 DEF Stored
<1>6. ASSUME NEW r \in RowId PROVE Resolves(r)'
  <2>1. Resolves(r) /\ rows[r].key \in FileName \cup {None}
    BY DEF UrlInv, Types, Row
  <2> QED
    BY <1>1, <1>2, <2>1 DEF Resolves
<1>7. OwnContent'
  BY <1>1, <1>2 DEF UrlInv, OwnContent
<1> QED
  BY <1>3, <1>4, <1>5, <1>6, <1>7 DEF UrlInv, Unclaimed

\* A step of p that erases the object that its record had: the record has had another since, or p
\* is about to give it one, or to delete it.
LEMMA EraseUrls ==
  ASSUME Types, Edits, UrlInv, NEW p \in Request, NEW l \in {"store", "check"}, Onward(p, l),
         UNCHANGED <<rows, req>>, req[p].snap.key # None,
         objects' = [objects EXCEPT ![req[p].snap.key] = None],
         pc[p] \notin {"idle", "store", "check", "delete"},
         l = "store" => objects[NewName[p]] # None /\ p \in Writer
  PROVE  UrlInv'
<1> DEFINE k == req[p].snap.key
<1>1. /\ k \in FileName
      /\ pc'[p] = l /\ (\A q \in Request \ {p} : pc'[q] = pc[q])
      /\ objects'[k] = None /\ \A j \in FileName \ {k} : objects'[j] = objects[j]
  BY SnapType DEF Types, Goto, Onward
<1>2. \A s, j : Bears(s, j)' = Bears(s, j)
  BY DEF Bears
<1>3. \A q \in Request : Knows(q)'
  BY <1>1, <1>2 DEF UrlInv, Knows, Onward
<1>4. \A q \in Writer : pc[q] # "done" => k # NewName[q]
  BY DEF UrlInv, Unclaimed, Writer
<1>5. req[p].db \in RowId /\ Bears(req[p].db, k)
  BY DEF UrlInv, Knows, Onward
<1> HIDE DEF k
<1>6. ASSUME NEW q \in Request, q \in Writer, pc'[q] # "done" PROVE Unclaimed(q)'
  <2>1. pc[q] # "done" /\ (pc'[q] = "idle" => pc[q] = "idle" /\ p # q)
    BY <1>1, <1>6 DEF Onward
  <2>2. Unclaimed(q) /\ NewName[q] \in FileName
    BY DatabasesAssumption DEF UrlInv, FileName
  <2> QED
    BY <1>1, <1>4, <1>6, <2>1, <2>2 DEF Unclaimed
<1>7. ASSUME NEW q \in Request, pc'[q] \in {"unlink", "store", "insert", "record"}
      PROVE  objects'[NewName[q]] # None
  <2>1. NewName[q] \in FileName /\ q \in Writer
    <3>1. CASE q = p
      BY <1>1, <1>7, <3>1, DatabasesAssumption DEF FileName
    <3>2. CASE q # p
      <4>1. Knows(q) /\ pc[q] = pc'[q]
        BY <1>1, <3>2 DEF UrlInv
      <4> QED
        BY <1>7, <4>1, DatabasesAssumption DEF Knows, Path, Ended, Writer, FileName
    <3> QED
      BY <3>1, <3>2
  <2>2. objects[NewName[q]] # None /\ pc[q] # "done"
    BY <1>1, <1>7 DEF UrlInv, Stored, Onward
  <2> QED
    BY <1>1, <1>4, <2>1, <2>2
<1>8. ASSUME NEW r \in RowId, rows[r].key # None PROVE Resolves(r)'
  <2>1. Resolves(r) /\ rows[r].key \in FileName
    BY <1>8 DEF UrlInv, Types, Row
  <2>2. CASE rows[r].key = k
    <3>1. r = req[p].db
      BY <1>5, <1>8, <2>1, <2>2, BearsOne DEF Resolves
    <3> QED
      BY <1>1, <1>2, <2>1, <3>1 DEF Resolves
  <2>3. CASE rows[r].key # k
    BY <1>1, <1>2, <2>1, <2>3 DEF Resolves
  <2> QED
    BY <2>2, <2>3
<1>9. OwnContent'
  BY <1>1, <1>2 DEF UrlInv, OwnContent
<1> QED
  BY <1>3, <1>6, <1>7, <1>8, <1>9 DEF UrlInv, Unclaimed, Stored, Resolves

\* A step that has p read a record.
LEMMA ReadUrls ==
  ASSUME Types, Edits, UrlInv, NEW p \in Request, NEW d \in RowId, NEW x \in Pending, NEW l,
         pc[p] = "idle", Goto(p, l), l \in Label, Path(Op[p], l) \/ (l = "done" /\ p \notin Writer),
         l \notin {"unlink", "store", "insert", "record"},
         UNCHANGED <<rows, objects>>, req' = [req EXCEPT ![p] = x],
         x.db = d, x.snap.key \in {None, rows[d].key}
  PROVE  UrlInv'
<1>1. /\ pc'[p] = l /\ l # "idle" /\ (\A q \in Request \ {p} : pc'[q] = pc[q])
      /\ req'[p] = x /\ \A q \in Request \ {p} : req'[q] = req[q]
  BY DEF Types, Goto, Path
<1>2. req[p].db = None /\ None \notin RowId /\ \A q \in Request : NewName[q] # None
  BY DatabasesAssumption DEF UrlInv, Knows, FileName
<1>3. \A r \in RowId : \A k : Bears(r, k)' <=> Bears(r, k) \/ (Op[p] = "update" /\ r = d /\ k = NewName[p])
  BY <1>1, <1>2 DEF Bears
<1>4. Knows(p)'
  <2>1. x.snap.key # None => Bears(d, x.snap.key)
    BY DEF UrlInv, Resolves
  <2> QED
    BY <1>1, <1>3, <2>1 DEF Knows, Ended
<1>5. ASSUME NEW q \in Request \ {p} PROVE Knows(q)'
  <2>1. Knows(q) /\ req[q].snap.key \in FileName \cup {None}
    BY SnapType DEF UrlInv
  <2>2. req[q].db \in RowId /\ Bears(req[q].db, req[q].snap.key) => Bears(req[q].db, req[q].snap.key)'
    BY <1>1, <1>3
  <2> QED
    BY <1>1, <2>1, <2>2 DEF Knows
<1>6. ASSUME NEW q \in Request, q \in Writer, pc'[q] # "done" PROVE Unclaimed(q)'
  <2>1. Unclaimed(q) /\ pc[q] # "done" /\ (pc'[q] = "idle" => pc[q] = "idle")
    BY <1>1, <1>6 DEF UrlInv
  <2> QED
    BY <1>1, <1>2, <1>6, <2>1 DEF Unclaimed
<1>7. \A q \in Request : Stored(q)'
  BY <1>1 DEF UrlInv, Stored
<1>8. ASSUME NEW r \in RowId PROVE Resolves(r)'
  <2>1. Resolves(r)
    BY DEF UrlInv
  <2>2. \A q \in Request : req[q].db = r => q # p
    BY <1>2
  <2> QED
    BY <1>1, <1>3, <2>1, <2>2 DEF Resolves
<1>9. OwnContent'
  <2>1. Op[p] = "update" => objects[NewName[p]] = None
    BY DEF UrlInv, Unclaimed, Writer
  <2> QED
    BY <1>3, <2>1 DEF UrlInv, OwnContent
<1> QED
  BY <1>4, <1>5, <1>6, <1>7, <1>8, <1>9 DEF UrlInv, Unclaimed

LEMMA BeginUrls ==
  ASSUME Types, Edits, UrlInv, NEW p \in Request, Begin(p) PROVE UrlInv'
<1>1. CASE SaveAsBegin(p) \/ UploadBegin(p)
  <2>1. PICK l \in {"create", "dump"} :
          Goto(p, l) /\ Path(Op[p], l) /\ pc[p] = "idle" /\ UNCHANGED <<rows, objects, req>>
    BY <1>1 DEF SaveAsBegin, UploadBegin, Path
  <2>2. Onward(p, l)
    BY <2>1 DEF Onward, Label, Ended
  <2> QED
    BY <2>1, <2>2, QuietUrls
<1>2. ASSUME NEW d \in Target, CopyOrUpdateBegin(p, d) \/ DeleteBegin(p, d) PROVE UrlInv'
  <2> DEFINE x == [Idle EXCEPT !.db = d, !.snap = Load(d)]
  <2>1. d \in RowId
    BY DatabasesAssumption
  <2>2. x \in Pending /\ x.db = d /\ x.snap.key = rows[d].key
    BY <2>1, LoadType DEF Idle, Pending, Load
  <2> HIDE DEF x
  <2>3. PICK l \in {"move", "erase"} :
          /\ Goto(p, l) /\ Path(Op[p], l) /\ pc[p] = "idle" /\ UNCHANGED <<rows, objects>>
          /\ req' = [req EXCEPT ![p] = x]
    BY <1>2 DEF CopyOrUpdateBegin, DeleteBegin, Path, x
  <2> QED
    BY <2>1, <2>2, <2>3, ReadUrls DEF Label
<1>3. ASSUME NEW d \in Target, UnlockBegin(p, d) \/ LockDatabase(p, d) PROVE UrlInv'
  <2> DEFINE x == [Idle EXCEPT !.db = d]
  <2>1. d \in RowId
    BY DatabasesAssumption
  <2>2. x \in Pending /\ x.db = d /\ x.snap.key = None
    BY <2>1 DEF Idle, NoLoad, Pending, Loaded, Lock
  <2> HIDE DEF x
  <2>3. PICK l \in {"unlock", "done"} :
          /\ Goto(p, l) /\ (Path(Op[p], l) \/ (l = "done" /\ p \notin Writer)) /\ pc[p] = "idle"
          /\ UNCHANGED <<rows, objects>> /\ req' = [req EXCEPT ![p] = x]
    BY <1>3 DEF UnlockBegin, LockDatabase, Path, x, Writer
  <2> QED
    BY <2>1, <2>2, <2>3, ReadUrls DEF Label, Ended
<1>4. ASSUME NEW d \in Target PROVE ~SaveBegin(p, d)
  BY DEF SaveBegin, Edits
<1> QED
  BY <1>1, <1>2, <1>3, <1>4 DEF Begin

\* A step goes on along the path of its operation.
LEMMA StepPath ==
  ASSUME Edits, UrlInv, NEW p \in Request, Step(p)
  PROVE  /\ pc[p] \notin Ended /\ Path(Op[p], pc[p]) /\ Op[p] # "save" /\ OwnName(p) = NewName[p]
         /\ \/ CreateDatabase(p) \/ StoreObject(p) \/ RecordUrl(p) \/ InsertRow(p)
            \/ CopyObject(p) \/ DeleteSource(p) \/ UpdateRow(p)
            \/ RemoveLock(p) \/ EraseObject(p) \/ CheckUnlocked(p) \/ DeleteRow(p)
<1>1. Op[p] # "save" /\ OwnName(p) = NewName[p]
  BY DEF Edits, OwnName
<1>2. pc[p] \notin Ended
  BY DEF Step, RefuseSave, FindLocked, AcquireLock, Reload, CreateDatabase, StoreObject, RecordUrl,
         InsertRow, CopyObject, DeleteSource, UpdateRow, RemoveLock, EraseObject, CheckUnlocked,
         DeleteRow, RenameSaved, UpdateId, Relock, Release, Ended
<1>3. Path(Op[p], pc[p])
  BY <1>2 DEF UrlInv, Knows
<1>4. pc[p] \notin {"ensure", "reload", "rename", "swap", "relock", "release", "abort"}
  BY <1>3 DEF Path
<1> QED
  BY <1>1, <1>2, <1>3, <1>4 DEF Step, RefuseSave, FindLocked, AcquireLock, Reload, RenameSaved, UpdateId,
                               Relock, Release

\* A step that ends the operation before its row is written.
LEMMA StopUrls ==
  ASSUME Types, Edits, UrlInv, NEW p \in Request, pc[p] \notin Ended, Stop(p),
         UNCHANGED <<rows, objects, req>>,
         pc[p] \in {"store", "check", "delete"} => \A r \in RowId : r = req[p].db => rows[r].key = None
  PROVE  UrlInv'
<1>1. Goto(p, "failed")
  BY DEF Stop, Saver, Edits
<1>2. Onward(p, "failed")
  BY <1>1 DEF Onward, Label, Ended
<1> QED
  BY <1>2, QuietUrls

LEMMA RowUrls ==
  ASSUME Types, KeyInv, Edits, UrlInv, NEW p \in Request, Step(p),
         CreateDatabase(p) \/ RecordUrl(p) \/ InsertRow(p)
  PROVE  UrlInv'
<1> USE StepPath
<1>1. /\ p \in RowId /\ NewName[p] \in FileName /\ p \in Writer /\ Knows(p) /\ Stored(p) /\ Unclaimed(p)
      /\ pc[p] \in {"create", "record", "insert"}
  BY DatabasesAssumption
  DEF CreateDatabase, RecordUrl, InsertRow, UrlInv, RowId, FileName, Writer, Path
<1>2. CASE UNCHANGED rows /\ Stop(p)
  BY <1>1, <1>2, StopUrls DEF CreateDatabase, RecordUrl, InsertRow
<1>3. CASE CreateDatabase(p) /\ ~NameTaken(OwnName(p), p)
  <2> DEFINE v == [name |-> NewName[p], key |-> None]
  <2>1. v \in Row /\ v.name = NewName[p] /\ v.key = None
    BY <1>1 DEF Row
  <2>2. rows' = [rows EXCEPT ![p] = v] /\ Goto(p, "dump") /\ UNCHANGED <<objects, req>> /\ Op[p] = "saveAs"
    BY <1>3 DEF CreateDatabase, Path
  <2>3. Onward(p, "dump")
    BY <1>1, <2>2 DEF Onward, Label, Path
  <2> HIDE DEF v
  <2> QED
    BY <1>1, <2>1, <2>2, <2>3, WriteUrls
<1>4. CASE RecordUrl(p) /\ Exists(p)
  <2> DEFINE v == [rows[p] EXCEPT !.key = NewName[p]]
  <2>1. v \in Row /\ v.name = rows[p].name /\ v.key = NewName[p]
    BY <1>1 DEF Types, Row
  <2>2. rows' = [rows EXCEPT ![p] = v] /\ Goto(p, "done") /\ UNCHANGED <<objects, req>>
    BY <1>4 DEF RecordUrl
  <2>3. Onward(p, "done")
    BY <1>1, <2>2 DEF Onward, Label, Ended
  <2>4. Bears(p, NewName[p]) /\ objects[NewName[p]] # None
    BY <1>1, <1>4 DEF RecordUrl, Bears, Stored, Path
  <2> HIDE DEF v
  <2> QED
    BY <1>1, <2>1, <2>2, <2>3, <2>4, WriteUrls
<1>5. CASE InsertRow(p) /\ ~NameTaken(OwnName(p), p)
  <2> DEFINE v == [name |-> NewName[p], key |-> NewName[p]]
  <2>1. v \in Row /\ v.name = NewName[p] /\ v.key = NewName[p]
    BY <1>1 DEF Row
  <2>2. rows' = [rows EXCEPT ![p] = v] /\ Goto(p, "done") /\ UNCHANGED <<objects, req>>
    BY <1>5 DEF InsertRow
  <2>3. Onward(p, "done")
    BY <1>1, <2>2 DEF Onward, Label, Ended
  <2>4. Bears(p, NewName[p]) /\ objects[NewName[p]] # None
    BY <1>1, <1>5 DEF InsertRow, Bears, Stored, Path
  <2> HIDE DEF v
  <2> QED
    BY <1>1, <2>1, <2>2, <2>3, <2>4, WriteUrls
<1> QED
  BY <1>2, <1>3, <1>4, <1>5 DEF CreateDatabase, RecordUrl, InsertRow

LEMMA ObjectUrls ==
  ASSUME Types, KeyInv, Edits, UrlInv, NEW p \in Request, Step(p),
         StoreObject(p) \/ CopyObject(p) \/ DeleteSource(p) \/ EraseObject(p)
  PROVE  UrlInv'
<1> USE StepPath
<1>1. /\ p \in RowId /\ NewName[p] \in FileName /\ Knows(p) /\ Stored(p) /\ Unclaimed(p)
      /\ pc[p] \in {"dump", "move", "unlink", "erase"} /\ UNCHANGED <<rows, req>>
  BY DatabasesAssumption
  DEF StoreObject, CopyObject, DeleteSource, EraseObject, UrlInv, RowId, FileName
<1>2. CASE UNCHANGED objects /\ Stop(p)
  BY <1>1, <1>2, StopUrls
<1>3. CASE StoreObject(p) /\ ~(UNCHANGED objects /\ Stop(p))
  <2>1. p \in Writer /\ Op[p] \in {"saveAs", "upload"} /\ p # None
    BY <1>3, DatabasesAssumption DEF StoreObject, Writer, Path, RowId
  <2>2. PICK l \in {"insert", "record"} : Goto(p, l) /\ Path(Op[p], l)
    BY <1>3, <2>1 DEF StoreObject, Path
  <2>3. Onward(p, l) /\ objects' = [objects EXCEPT ![NewName[p]] = p]
    BY <1>1, <1>3, <2>2 DEF Onward, Label, StoreObject
  <2>4. \A r \in RowId : Bears(r, NewName[p]) => p = r
    BY <1>1, <2>1, BearsOne DEF Bears
  <2> QED
    BY <1>1, <2>1, <2>3, <2>4, StoreUrls
<1>4. CASE CopyObject(p) /\ ~(UNCHANGED objects /\ Stop(p))
  <2>1. p \in Writer /\ Op[p] \in {"copy", "update"} /\ req[p].db \in RowId
    BY <1>1, <1>4 DEF CopyObject, Writer, Path, Knows
  <2>2. /\ Source(p) = req[p].snap.key /\ Destination(p) = NewName[p]
    BY <2>1 DEF Source, Destination
  <2>3. req[p].snap.key \in FileName /\ objects[req[p].snap.key] # None
    BY <1>4, <2>2, SnapType DEF CopyObject, CanCopy
  <2>4. PICK l \in {"insert", "unlink"} : Goto(p, l) /\ Path(Op[p], l)
    BY <1>4, <2>1 DEF CopyObject, Path
  <2>5. Onward(p, l) /\ objects' = [objects EXCEPT ![NewName[p]] = objects[req[p].snap.key]]
    BY <1>1, <1>4, <2>1, <2>2, <2>4 DEF Onward, Label, CopyObject
  <2>6. ASSUME NEW r \in RowId, Bears(r, NewName[p])
        PROVE  objects[req[p].snap.key] = r \/ (r \in Request /\ Op[r] = "copy")
    <3>1. CASE Op[p] = "copy"
      BY <1>1, <2>6, <3>1, BearsOne DEF Bears
    <3>2. CASE Op[p] = "update"
      <4>1. Bears(req[p].db, NewName[p])
        BY <3>2 DEF Bears
      <4>2. r = req[p].db
        BY <2>1, <2>6, <4>1, BearsOne
      <4>3. Bears(r, req[p].snap.key)
        BY <1>1, <2>3, <4>2, DatabasesAssumption DEF Knows
      <4> QED
        BY <2>3, <4>3 DEF UrlInv, OwnContent
    <3> QED
      BY <2>1, <3>1, <3>2
  <2> QED
    BY <1>1, <2>1, <2>3, <2>5, <2>6, StoreUrls
<1>5. CASE DeleteSource(p)
  <2>1. p \in Writer /\ Op[p] = "update" /\ req[p].db \in RowId /\ Source(p) = req[p].snap.key
    BY <1>1, <1>5 DEF DeleteSource, Writer, Path, Knows, Source
  <2>2. req[p].snap.key # None
    BY <1>5, <2>1 DEF DeleteSource, KeyInv, CarriesKey
  <2>3. Goto(p, "store") /\ objects' = [objects EXCEPT ![req[p].snap.key] = None]
    BY <1>5, <2>1 DEF DeleteSource
  <2>4. Onward(p, "store")
    BY <1>1, <2>1, <2>3 DEF Onward, Label, Path
  <2>5. objects[NewName[p]] # None
    BY <1>1, <1>5 DEF DeleteSource, Stored
  <2> QED
    BY <1>1, <2>1, <2>2, <2>3, <2>4, <2>5, EraseUrls
<1>6. CASE EraseObject(p)
  <2>1. Op[p] = "delete" /\ req[p].db \in RowId /\ Goto(p, "check")
    BY <1>1, <1>6 DEF EraseObject, Path, Knows
  <2>2. Onward(p, "check")
    BY <1>1, <2>1 DEF Onward, Label, Path
  <2>3. CASE req[p].snap.key = None
    <3>1. UNCHANGED objects
      <4>1. None \notin FileName
        BY DatabasesAssumption
      <4>2. objects' = [k \in FileName |-> objects[k]]
        BY <1>6, <2>3, <4>1 DEF EraseObject
      <4> QED
        BY <4>2 DEF Types
    <3> QED
      BY <1>1, <2>2, <3>1, QuietUrls
  <2>4. CASE req[p].snap.key # None
    <3>1. objects' = [objects EXCEPT ![req[p].snap.key] = None]
      BY <1>6 DEF EraseObject, Types
    <3> QED
      BY <1>1, <2>2, <2>4, <3>1, EraseUrls
  <2> QED
    BY <2>3, <2>4
<1> QED
  BY <1>2, <1>3, <1>4, <1>5, <1>6

\* Nothing stops an update at its row, nor the deletion of a row that is there.
LEMMA NeverStops ==
  ASSUME Types, Edits, UrlInv, LocksKept, NEW p \in Request, pc[p] = "store", Op[p] = "update"
  PROVE  LET l == req[p].snap.lock IN
         /\ ~NameTaken(NewName[p], req[p].db)
         /\ ~(l # None /\ locks[req[p].db] = None /\ (~Exists(req[p].db) \/ l.instance \in gone))
<1>1. Unclaimed(p) /\ p \in Writer /\ p \in Request
  BY DEF UrlInv, Writer
<1>2. ~NameTaken(NewName[p], req[p].db)
  BY <1>1 DEF Unclaimed, NameTaken
<1> QED
  BY <1>2 DEF LocksKept, NoLocks, NothingGoes

LEMMA LastUrls ==
  ASSUME Types, KeyInv, Edits, UrlInv, LocksKept, NEW p \in Request, Step(p),
         UpdateRow(p) \/ RemoveLock(p) \/ CheckUnlocked(p) \/ DeleteRow(p)
  PROVE  UrlInv'
<1> USE StepPath
<1>1. Knows(p) /\ Stored(p) /\ NewName[p] \in FileName
  BY DatabasesAssumption DEF UrlInv, FileName
<1>2. CASE UpdateRow(p)
  <2> DEFINE v == [name |-> NewName[p], key |-> NewName[p]]
  <2>1. Op[p] = "update" /\ p \in Writer /\ pc[p] = "store" /\ req[p].db \in RowId
    BY <1>1, <1>2 DEF UpdateRow, Path, Writer, Knows
  <2>2. rows' = [rows EXCEPT ![req[p].db] = v] /\ Goto(p, "done") /\ UNCHANGED <<objects, req>>
    BY <1>2, <2>1, NeverStops DEF UpdateRow
  <2>3. v \in Row /\ v.name = NewName[p] /\ v.key = NewName[p]
    BY <1>1 DEF Row
  <2>4. Onward(p, "done")
    BY <2>1, <2>2 DEF Onward, Label, Ended
  <2>5. Bears(req[p].db, NewName[p]) /\ objects[NewName[p]] # None
    BY <1>1, <2>1 DEF Bears, Stored
  <2> HIDE DEF v
  <2> QED
    BY <2>1, <2>2, <2>3, <2>4, <2>5, WriteUrls
<1>3. CASE RemoveLock(p)
  <2>1. PICK l \in {"done", "failed"} :
          Goto(p, l) /\ pc[p] = "unlock" /\ UNCHANGED <<rows, objects, req>>
    BY <1>3 DEF RemoveLock
  <2>2. Onward(p, l)
    BY <2>1 DEF Onward, Label, Ended
  <2> QED
    BY <2>1, <2>2, QuietUrls
<1>4. CASE CheckUnlocked(p)
  <2>1. /\ Op[p] = "delete" /\ pc[p] = "check" /\ req[p].db \in RowId
        /\ UNCHANGED <<rows, objects, req>>
    BY <1>1, <1>4 DEF CheckUnlocked, Path, Knows
  <2>2. locks[req[p].db] = None
    BY <2>1 DEF LocksKept, NoLocks
  <2>3. CASE Exists(req[p].db)
    <3>1. Goto(p, "delete")
      BY <1>4, <2>2, <2>3 DEF CheckUnlocked
    <3>2. Onward(p, "delete")
      BY <2>1, <3>1 DEF Onward, Label, Path
    <3> QED
      BY <2>1, <3>2, QuietUrls
  <2>4. CASE ~Exists(req[p].db)
    <3>1. Stop(p)
      BY <1>4, <2>4 DEF CheckUnlocked
    <3>2. rows[req[p].db].key = None
      BY <2>1, <2>4, KeyedExists
    <3> QED
      BY <2>1, <3>1, <3>2, StopUrls DEF Ended
  <2> QED
    BY <2>3, <2>4
<1>5. CASE DeleteRow(p)
  <2>1. /\ Op[p] = "delete" /\ pc[p] = "delete" /\ req[p].db \in RowId /\ Goto(p, "done")
        /\ UNCHANGED <<objects, req>> /\ rows' = [rows EXCEPT ![req[p].db] = Absent]
    BY <1>1, <1>5 DEF DeleteRow, Path, Knows
  <2>2. Absent \in Row /\ Absent.name = None /\ Absent.key = None
    BY DEF Absent, Row
  <2>3. Onward(p, "done")
    BY <2>1 DEF Onward, Label, Ended
  <2>4. NewName[p] # None
    BY <1>1, DatabasesAssumption
  <2> QED
    BY <2>1, <2>2, <2>3, <2>4, WriteUrls
<1> QED
  BY <1>2, <1>3, <1>4, <1>5

\* A record that is there stays, when nothing deletes it.
LEMMA RowsStay ==
  ASSUME Types, Edits, UrlInv, NEW p \in Request, Step(p), Op[p] # "delete", NEW r \in RowId, Exists(r)
  PROVE  Exists(r)'
<1>1. OwnName(p) # None /\ ~DeleteRow(p) /\ p \in RowId
  BY OwnNameType, StepPath, DatabasesAssumption DEF DeleteRow, Path, RowId
<1>2. CASE CreateDatabase(p) \/ InsertRow(p) \/ UpdateRow(p)
  <2>1. UNCHANGED rows \/ \E s, k : rows' = [rows EXCEPT ![s] = [name |-> OwnName(p), key |-> k]]
    BY <1>2 DEF CreateDatabase, InsertRow, UpdateRow
  <2> QED
    BY <1>1, <2>1 DEF Types, Exists
<1>3. CASE RecordUrl(p)
  <2>1. UNCHANGED rows \/ rows' = [rows EXCEPT ![p].key = OwnName(p)]
    BY <1>3 DEF RecordUrl
  <2> QED
    BY <1>1, <2>1 DEF Types, Exists, Row
<1>4. CASE \/ StoreObject(p) \/ CopyObject(p) \/ DeleteSource(p) \/ RemoveLock(p) \/ EraseObject(p)
           \/ CheckUnlocked(p)
  BY <1>4 DEF Exists, StoreObject, CopyObject, DeleteSource, RemoveLock, EraseObject, CheckUnlocked
<1> QED
  BY <1>1, <1>2, <1>3, <1>4, StepPath

LEMMA StepUnlocked ==
  ASSUME Types, Edits, UrlInv, NoLocks, NEW p \in Request, Step(p) PROVE NoLocks'
<1>1. UNCHANGED req
  BY StepPath
  DEF CreateDatabase, StoreObject, RecordUrl, InsertRow, CopyObject, DeleteSource, UpdateRow, RemoveLock,
      EraseObject, CheckUnlocked, DeleteRow
<1> SUFFICES \A r \in RowId : locks'[r] = None
  BY <1>1 DEF NoLocks
<1>2. CASE UpdateRow(p)
  <2>1. UNCHANGED locks \/ locks' = [locks EXCEPT ![req[p].db] = @]
    BY <1>2 DEF NoLocks, UpdateRow
  <2> QED
    BY <2>1 DEF Types, NoLocks
<1>3. CASE RemoveLock(p)
  <2>1. locks' = [locks EXCEPT ![req[p].db] = None]
    BY <1>3 DEF RemoveLock
  <2> QED
    BY <2>1 DEF Types, NoLocks
<1>4. CASE DeleteRow(p)
  <2>1. locks' = [locks EXCEPT ![req[p].db] = None]
    BY <1>4 DEF DeleteRow
  <2> QED
    BY <2>1 DEF Types, NoLocks
<1>5. CASE \/ CreateDatabase(p) \/ StoreObject(p) \/ RecordUrl(p) \/ InsertRow(p) \/ CopyObject(p)
           \/ DeleteSource(p) \/ EraseObject(p) \/ CheckUnlocked(p)
  BY <1>5
  DEF CreateDatabase, StoreObject, RecordUrl, InsertRow, CopyObject, DeleteSource, EraseObject,
      CheckUnlocked, NoLocks
<1> QED
  BY <1>2, <1>3, <1>4, <1>5, StepPath

LEMMA StepStays ==
  ASSUME Types, Edits, UrlInv, NothingGoes, NEW p \in Request, Step(p), Op[p] # "delete"
  PROVE  NothingGoes'
<1>1. UNCHANGED <<req, gone>>
  BY StepPath
  DEF CreateDatabase, StoreObject, RecordUrl, InsertRow, CopyObject, DeleteSource, UpdateRow, RemoveLock,
      EraseObject, CheckUnlocked, DeleteRow
<1>2. ASSUME NEW q \in Request, pc'[q] \in {"move", "unlink", "store"}
      PROVE  pc[q] \in {"move", "unlink", "store"} /\ req[q].db \in RowId
  <2>1. pc[q] \in {"move", "unlink", "store"}
    BY <1>2, StepPath
    DEF Types, CreateDatabase, StoreObject, RecordUrl, InsertRow, CopyObject, DeleteSource, UpdateRow,
        RemoveLock, EraseObject, CheckUnlocked, DeleteRow, Goto, Stop, Path
  <2> QED
    BY <2>1 DEF UrlInv, Knows
<1> QED
  BY <1>1, <1>2, RowsStay DEF NothingGoes

LEMMA BeginLocks ==
  ASSUME Types, Edits, UrlInv, LocksKept, NEW p \in Request, Begin(p) PROVE LocksKept'
<1>1. ~\E d \in Target : SaveBegin(p, d)
  BY DEF SaveBegin, Edits
<1>2. CASE NoLocks /\ \A q \in Request : Op[q] # "lock"
  <2>1. UNCHANGED locks
    BY <1>1, <1>2 DEF Begin, SaveAsBegin, UploadBegin, CopyOrUpdateBegin, DeleteBegin, UnlockBegin,
                      LockDatabase
  <2>2. \/ UNCHANGED req
        \/ \E d \in RowId : \/ req' = [req EXCEPT ![p] = [Idle EXCEPT !.db = d, !.snap = Load(d)]]
                            \/ req' = [req EXCEPT ![p] = [Idle EXCEPT !.db = d]]
    <3>1. Target \subseteq RowId
      BY DatabasesAssumption
    <3> QED
      BY <1>1, <1>2, <3>1 DEF Begin, SaveAsBegin, UploadBegin, CopyOrUpdateBegin, DeleteBegin,
                              UnlockBegin, LockDatabase
  <2>3. ASSUME NEW q \in Request PROVE req'[q].snap.lock = None
    <3>1. req[q].snap.lock = None
      BY <1>2 DEF NoLocks
    <3>2. CASE UNCHANGED req
      BY <3>1, <3>2
    <3>3. ASSUME NEW d \in RowId, req' = [req EXCEPT ![p] = [Idle EXCEPT !.db = d, !.snap = Load(d)]]
          PROVE  req'[q].snap.lock = None
      <4>1. req'[q] = IF q = p THEN [Idle EXCEPT !.db = d, !.snap = Load(d)] ELSE req[q]
        BY <3>3 DEF Types
      <4>2. [Idle EXCEPT !.db = d, !.snap = Load(d)].snap.lock = None
        BY <1>2 DEF NoLocks, Idle, Load
      <4> QED
        BY <3>1, <4>1, <4>2
    <3>4. ASSUME NEW d \in RowId, req' = [req EXCEPT ![p] = [Idle EXCEPT !.db = d]]
          PROVE  req'[q].snap.lock = None
      <4>1. req'[q] = IF q = p THEN [Idle EXCEPT !.db = d] ELSE req[q]
        BY <3>4 DEF Types
      <4>2. [Idle EXCEPT !.db = d].snap.lock = None
        BY DEF Idle, NoLoad
      <4> QED
        BY <3>1, <4>1, <4>2
    <3> QED
      BY <2>2, <3>2, <3>3, <3>4
  <2> QED
    BY <1>2, <2>1, <2>3 DEF LocksKept, NoLocks
<1>3. CASE NothingGoes /\ Destroyable = {} /\ \A q \in Request : Op[q] # "delete"
  <2>1. UNCHANGED <<rows, gone>>
    BY <1>1, <1>3 DEF Begin, SaveAsBegin, UploadBegin, CopyOrUpdateBegin, DeleteBegin, UnlockBegin,
                      LockDatabase
  <2>2. \A q \in Request \ {p} : req'[q] = req[q] /\ pc'[q] = pc[q]
    BY <1>1, <1>3 DEF Types, Goto, Begin, SaveAsBegin, UploadBegin, CopyOrUpdateBegin, DeleteBegin,
                      UnlockBegin, LockDatabase
  <2>3. pc'[p] \in {"move", "unlink", "store"} => Exists(req'[p].db)
    <3>1. pc'[p] \in {"move", "unlink", "store"} => \E d \in Target : CopyOrUpdateBegin(p, d)
      BY <1>1, <1>3 DEF Types, Goto, Begin, SaveAsBegin, UploadBegin, CopyOrUpdateBegin, DeleteBegin,
                        UnlockBegin, LockDatabase
    <3>2. ASSUME NEW d \in Target, CopyOrUpdateBegin(p, d) PROVE Exists(req'[p].db)
      <4>1. req' = [req EXCEPT ![p] = [Idle EXCEPT !.db = d, !.snap = Load(d)]] /\ Exists(d)
        BY <3>2 DEF CopyOrUpdateBegin
      <4>2. req'[p].db = d
        BY <4>1 DEF Types, Idle
      <4> QED
        BY <4>1, <4>2
    <3> QED
      BY <3>1, <3>2
  <2> QED
    BY <1>3, <2>1, <2>2, <2>3 DEF LocksKept, NothingGoes, Exists
<1> QED
  BY <1>2, <1>3 DEF LocksKept

LEMMA NextUrls ==
  ASSUME Types, KeyInv, Edits, UrlInv, LocksKept, [Next]_vars PROVE (UrlInv /\ LocksKept)'
<1>1. ASSUME NEW p \in Request, Begin(p) PROVE (UrlInv /\ LocksKept)'
  BY <1>1, BeginUrls, BeginLocks
<1>2. ASSUME NEW p \in Request, Step(p) PROVE (UrlInv /\ LocksKept)'
  <2>1. UrlInv'
    BY <1>2, StepPath, RowUrls, ObjectUrls, LastUrls
  <2>2. LocksKept'
    BY <1>2, StepUnlocked, StepStays DEF LocksKept
  <2> QED
    BY <2>1, <2>2
<1>3. ASSUME NEW p \in Request, Fault(p) PROVE (UrlInv /\ LocksKept)'
  <2>1. StorageFault(p)
    <3>1. ~PostgresFault(p) /\ ~AnswerLost(p)
      BY DEF PostgresFault, AnswerLost, Edits
    <3>2. ~ClientGone(p)
      BY DEF ClientGone, UrlInv, Knows, Path, Ended
    <3> QED
      BY <1>3, <3>1, <3>2 DEF Fault
  <2>2. /\ pc[p] \in {"dump", "move", "unlink", "erase"} /\ Stop(p)
        /\ UNCHANGED <<rows, locks, objects, gone, req>>
    BY <2>1 DEF StorageFault
  <2>3. UrlInv'
    BY <2>2, StopUrls DEF Ended
  <2>4. \A q \in Request : pc'[q] = pc[q] \/ pc'[q] \in {"abort", "failed"}
    BY <2>2 DEF Stop, Goto, Types
  <2>5. LocksKept'
    BY <2>2, <2>4 DEF LocksKept, NoLocks, NothingGoes, Exists
  <2> QED
    BY <2>3, <2>5
<1>4. ~Crash
  BY DEF Crash, Edits
<1>5. ASSUME UNCHANGED <<rows, objects, pc, req>> PROVE UrlInv'
  BY <1>5
  DEF UrlInv, Knows, Unclaimed, Stored, Resolves, OwnContent, Bears
<1>6. ASSUME NEW i \in Instance, DeleteDeploymentInstance(i) PROVE (UrlInv /\ LocksKept)'
  <2>1. UrlInv'
    BY <1>5, <1>6 DEF DeleteDeploymentInstance
  <2>2. LocksKept'
    BY <1>6 DEF DeleteDeploymentInstance, LocksKept, NoLocks, NothingGoes
  <2> QED
    BY <2>1, <2>2
<1>7. CASE UNCHANGED vars
  BY <1>5, <1>7 DEF vars, LocksKept, NoLocks, NothingGoes, Exists
<1> QED
  BY <1>1, <1>2, <1>3, <1>4, <1>6, <1>7 DEF Next

LEMMA InitUrls == ASSUME Edits, Init PROVE UrlInv /\ LocksKept
<1>1. \A p \in Request : /\ pc[p] = "idle" /\ req[p] = Idle
                         /\ NewName[p] \in FileName /\ NewName[p] # None
  BY DatabasesAssumption DEF Init, FileName
<1>2. \A r \in RowId : /\ locks[r] = None
                       /\ rows[r].name = IF r \in Database THEN InitialName[r] ELSE None
                       /\ rows[r].key = rows[r].name
  BY DEF Init, Absent
<1>3. \A k \in FileName : objects[k] # None => \E d \in Database : InitialName[d] = k /\ objects[k] = d
  BY DEF Init
<1>4. ASSUME NEW d \in Database PROVE objects[InitialName[d]] # None
  <2>1. InitialName[d] \in FileName
    BY DatabasesAssumption DEF FileName
  <2>2. (CHOOSE e \in Database : InitialName[e] = InitialName[d]) \in Database
    OBVIOUS
  <2>3. None \notin Database
    BY DatabasesAssumption DEF RowId
  <2> QED
    BY <2>1, <2>2, <2>3 DEF Init
<1>5. ASSUME NEW p \in Request PROVE Knows(p) /\ Unclaimed(p) /\ Stored(p)
  <2>1. Knows(p) /\ Stored(p)
    BY <1>1 DEF Knows, Stored, Idle, NoLoad, Ended
  <2>2. Unclaimed(p)
    <3> SUFFICES ASSUME p \in Writer PROVE Unclaimed(p)
      BY DEF Unclaimed
    <3>1. \A d \in Database : NewName[p] # InitialName[d]
      BY DEF Edits
    <3>2. \A r \in RowId : rows[r].key # NewName[p] /\ rows[r].name # NewName[p]
      BY <1>1, <1>2, <3>1
    <3>3. objects[NewName[p]] = None
      BY <1>1, <1>3, <3>1
    <3> QED
      BY <1>1, <3>2, <3>3 DEF Unclaimed, Idle, NoLoad
  <2> QED
    BY <2>1, <2>2
<1>6. ASSUME NEW r \in RowId PROVE Resolves(r)
  BY <1>2, <1>4 DEF Resolves, Bears
<1>7. OwnContent
  <2> SUFFICES ASSUME NEW r \in RowId, NEW k \in FileName, Bears(r, k), objects[k] # None
               PROVE  objects[k] = r
    BY DEF OwnContent
  <2>1. PICK d \in Database : InitialName[d] = k /\ objects[k] = d
    BY <1>3
  <2>2. d \in RowId /\ Bears(d, k)
    BY <2>1 DEF RowId, Bears
  <2> QED
    BY <2>1, <2>2, BearsOne
<1>8. LocksKept
  BY <1>1, <1>2 DEF Edits, LocksKept, NoLocks, NothingGoes, Idle, NoLoad, Init
<1> QED
  BY <1>5, <1>6, <1>7, <1>8 DEF UrlInv

\* Whatever uploads, copies, renames, saves under another name and deletions overlap, each under a
\* name of its own, and wherever S3 fails: when all have ended every url names an object, the one
\* stored for its record.
THEOREM UrlsAlwaysResolve ==
  ASSUME Edits
  PROVE  Spec => []UrlsResolve
<1>1. Init => TypeOK /\ KeyInv /\ UrlInv /\ LocksKept
  BY InitType, InitKeys, InitUrls
<1>2. TypeOK /\ KeyInv /\ UrlInv /\ LocksKept /\ [Next]_vars
        => (TypeOK /\ KeyInv /\ UrlInv /\ LocksKept)'
  BY NextType, NextKeys, NextUrls DEF TypeOK
<1>3. TypeOK /\ UrlInv => UrlsResolve
  <2> SUFFICES ASSUME TypeOK, UrlInv, AtRest, NEW r \in RowId, rows[r].key # None
               PROVE  IF r \in Request /\ Op[r] = "copy" THEN objects[rows[r].key] # None
                                                         ELSE objects[rows[r].key] = r
    BY DEF UrlsResolve
  <2>1. Resolves(r) /\ rows[r].key \in FileName
    BY DEF UrlInv, TypeOK, Types, Row
  <2>2. \A q \in Request : pc[q] \notin {"store", "check", "delete"}
    BY DEF AtRest, Ended
  <2>3. Bears(r, rows[r].key) /\ objects[rows[r].key] # None
    BY <2>1, <2>2 DEF Resolves
  <2> QED
    BY <2>1, <2>3 DEF UrlInv, OwnContent
<1> QED
  BY <1>1, <1>2, <1>3, PTL DEF Spec

-----------------------------------------------------------------------------
(* One save at a time, with users who lock around it, implements DatabaseStore. *)

OneSave == /\ \A p \in Request : Op[p] \in {"save", "lock"}
           /\ \A p, q \in Saver : p = q
           /\ Destroyable = {}

Taken  == {By[q] : q \in Request} \cup {None}
Locked == {"reload", "create", "dump", "record", "move"}

\* A lock that is there is one a request may take; a save that has not yet moved its
\* dump holds the lock of its database, which nobody takes from it, and its dump is
\* nobody's content.
StoreInv ==
  /\ gone = {}
  /\ \A d \in Database : locks[d] \in Taken
  /\ \A p \in Request \ Saver : pc[p] \in Ended
  /\ \A p \in Saver :
       /\ req[p].snap.lock \in Taken
       /\ pc[p] = "ensure" /\ req[p].snap.lock # None => locks[req[p].db] = req[p].snap.lock
       /\ pc[p] \in Locked => locks[req[p].db] = By[p]
       /\ pc[p] \in Locked \cup {"idle", "ensure"} =>
            \A d \in Database : objects[InitialName[d]] # p

LEMMA InitStore == Init => StoreInv /\ Store!Init
<1> SUFFICES ASSUME Init PROVE StoreInv /\ Store!Init
  OBVIOUS
<1>1. \A d \in Database : objects[InitialName[d]] = d
  <2>1. \A d, e \in Database : InitialName[e] = InitialName[d] => e = d
    BY DatabasesAssumption
  <2> QED
    BY <2>1, Distinct DEF Init, FileName
<1>2. \A d \in Database : locks[d] = None
  BY DEF Init, RowId
<1>3. StoreInv
  <2>1. \A p \in Saver : pc[p] = "idle" /\ req[p].snap.lock = None
    BY DEF Init, Idle, NoLoad, Saver
  <2>2. \A p \in Saver, d \in Database : d # p
    BY Distinct DEF Saver
  <2>3. gone = {} /\ \A p \in Request : pc[p] \in Ended
    BY DEF Init, Ended
  <2> QED
    BY <1>1, <1>2, <2>1, <2>2, <2>3 DEF StoreInv, Taken, Locked
<1> QED
  BY <1>1, <1>2, <1>3 DEF Store!Init

\* What a step of the tables and the bucket is in the store.
SameLocks    == \A d \in Database : locks'[d] = locks[d]
SameContents == \A d \in Database : objects'[InitialName[d]] = objects[InitialName[d]]

LEMMA StoreStutter ==
  ASSUME SameLocks, SameContents PROVE UNCHANGED Store!vars
BY DEF SameLocks, SameContents, Store!vars

LEMMA StoreFree ==
  ASSUME SameContents, NEW d \in Database,
         locks'[d] = None, \A e \in Database \ {d} : locks'[e] = locks[e]
  PROVE  [Store!Next]_Store!vars
<1>1. CASE locks[d] = None
  BY <1>1, StoreStutter DEF SameLocks
<1>2. CASE locks[d] # None
  <2>1. Store!Free(d)
    BY <1>2 DEF SameContents, Store!Free
  <2> QED
    BY <2>1 DEF Store!Next
<1> QED
  BY <1>1, <1>2

LEMMA StoreAcquire ==
  ASSUME SameContents, NEW d \in Database, locks[d] = None,
         locks'[d] \in Taken, \A e \in Database \ {d} : locks'[e] = locks[e]
  PROVE  [Store!Next]_Store!vars
<1>1. CASE locks'[d] = None
  BY <1>1, StoreStutter DEF SameLocks
<1>2. ASSUME NEW q \in Request, locks'[d] = By[q] PROVE Store!Next
  <2>1. Store!Acquire(d, By[q])
    BY <1>2 DEF SameContents, Store!Acquire
  <2>2. q \in DOMAIN By
    BY DatabasesAssumption
  <2> QED
    BY <2>1, <2>2 DEF Store!Next
<1> QED
  BY <1>1, <1>2 DEF Taken

LEMMA StoreInstall ==
  ASSUME SameLocks, NEW d \in Database, NEW p \in Saver, locks[d] = By[p],
         \A e \in Database : objects[InitialName[e]] # p,
         objects'[InitialName[d]] = p,
         \A e \in Database \ {d} : objects'[InitialName[e]] = objects[InitialName[e]]
  PROVE  Store!Next
<1>1. Store!Install(d, p)
  BY DEF SameLocks, Store!Install
<1> QED
  BY <1>1 DEF Store!Next

\* The steps of the save before its dump is moved.
LEMMA BeforeMove ==
  ASSUME OneSave, TypeOK, SaveInv, StoreInv, NEW p \in Saver,
         \/ RefuseSave(p) \/ FindLocked(p) \/ AcquireLock(p) \/ Reload(p)
         \/ CreateDatabase(p) \/ StoreObject(p) \/ RecordUrl(p)
  PROVE  StoreInv' /\ [Store!Next]_Store!vars
<1> DEFINE d == req[p].db
<1>1. /\ d \in Database /\ p \in Request /\ p \notin Name /\ Op[p] = "save"
      /\ pc \in [Request -> Label] /\ req \in [Request -> Pending] /\ locks \in [RowId -> Lock]
      /\ objects \in [FileName -> Content \cup {None}] /\ d \in RowId
      /\ \A e \in Database : InitialName[e] \in Name /\ InitialName[e] # p
  BY Distinct DEF TypeOK, Types, SaveInv, Saver, RefuseSave, FindLocked, AcquireLock, Reload,
                  CreateDatabase, StoreObject, RecordUrl, RowId
<1>2. \A q \in Saver : q = p
  BY DEF OneSave
<1>3. SameContents
  BY <1>1 DEF SameContents, RefuseSave, FindLocked, AcquireLock, Reload, CreateDatabase,
              StoreObject, RecordUrl, OwnName, FileName
<1>4. gone' = {} /\ \A q \in Request \ Saver : pc'[q] \in Ended
  BY <1>1 DEF StoreInv, RefuseSave, FindLocked, AcquireLock, Reload, CreateDatabase, StoreObject,
              RecordUrl, Goto, Stop
<1>5. CASE RefuseSave(p) \/ CreateDatabase(p) \/ StoreObject(p) \/ RecordUrl(p)
  <2>1. UNCHANGED <<locks, req>>
    BY <1>5 DEF RefuseSave, CreateDatabase, StoreObject, RecordUrl
  <2>2. pc'[p] \in {"failed", "abort"} \/ (pc[p] \in Locked /\ pc'[p] \in Locked)
    BY <1>1, <1>5 DEF RefuseSave, CreateDatabase, StoreObject, RecordUrl, Goto, Stop, Locked
  <2>3. StoreInv'
    BY <1>2, <1>3, <1>4, <2>1, <2>2 DEF StoreInv, SameContents, Locked
  <2> QED
    BY <1>3, <2>1, <2>3, StoreStutter DEF SameLocks
<1>6. CASE FindLocked(p)
  <2>1. /\ UNCHANGED locks /\ req'[p].db = d /\ req'[p].snap = req[p].snap
        /\ pc[p] = "ensure" /\ pc'[p] = "create" /\ locks[d] = By[p]
    <3>1. By[p] # None
      BY <1>1, DatabasesAssumption
    <3> QED
      BY <1>1, <1>6, <3>1 DEF FindLocked, Goto, Pending, StoreInv
  <2>2. StoreInv'
    BY <1>2, <1>3, <1>4, <2>1 DEF StoreInv, SameContents, Locked
  <2> QED
    BY <1>3, <2>1, <2>2, StoreStutter DEF SameLocks
<1>7. CASE AcquireLock(p)
  <2>1. /\ locks[d] = None /\ locks'[d] = By[p] /\ UNCHANGED req
        /\ \A e \in Database \ {d} : locks'[e] = locks[e]
        /\ pc[p] = "ensure" /\ pc'[p] = "reload"
    BY <1>1, <1>7 DEF AcquireLock, Lockable, Goto
  <2>2. StoreInv'
    BY <1>1, <1>2, <1>3, <1>4, <2>1 DEF StoreInv, SameContents, Locked, Taken
  <2> QED
    BY <1>1, <1>3, <2>1, <2>2, StoreAcquire DEF Taken
<1>8. CASE Reload(p)
  <2>1. /\ UNCHANGED locks /\ pc[p] = "reload" /\ pc'[p] \in {"create", "failed"}
        /\ \/ req'[p] = req[p]
           \/ req'[p].db = d /\ req'[p].snap.lock = locks[d]
    BY <1>1, <1>8 DEF Reload, Load, Goto, Pending
  <2>2. StoreInv'
    BY <1>1, <1>2, <1>3, <1>4, <2>1 DEF StoreInv, SameContents, Locked
  <2> QED
    BY <1>3, <2>1, <2>2, StoreStutter DEF SameLocks
<1> QED
  BY <1>5, <1>6, <1>7, <1>8

\* The move, and what comes after it.
LEMMA FromMove ==
  ASSUME OneSave, TypeOK, SaveInv, StoreInv, NEW p \in Saver,
         \/ CopyObject(p) \/ DeleteSource(p) \/ RemoveLock(p) \/ CheckUnlocked(p)
         \/ DeleteRow(p) \/ RenameSaved(p) \/ UpdateId(p) \/ Relock(p) \/ Release(p)
  PROVE  StoreInv' /\ [Store!Next]_Store!vars
<1> DEFINE d == req[p].db
<1>1. /\ d \in Database /\ p \in Request /\ p \notin Name /\ Op[p] = "save"
      /\ pc \in [Request -> Label] /\ locks \in [RowId -> Lock] /\ d \in RowId
      /\ objects \in [FileName -> Content \cup {None}]
      /\ req[p].snap.name = InitialName[d]
  BY Distinct, DatabasesAssumption
     DEF TypeOK, Types, SaveInv, Saver, CopyObject, DeleteSource, RemoveLock, CheckUnlocked,
         DeleteRow, RenameSaved, UpdateId, Relock, Release, RowId
<1>0. \A e \in Database : /\ InitialName[e] \in FileName /\ InitialName[e] # p
                          /\ InitialName[e] = InitialName[d] => e = d
  BY <1>1, Distinct, DatabasesAssumption DEF FileName
<1>2. \A q \in Saver : q = p
  BY DEF OneSave
<1>3. UNCHANGED req /\ gone' = {}
  BY DEF StoreInv, CopyObject, DeleteSource, RemoveLock, CheckUnlocked, DeleteRow, RenameSaved,
         UpdateId, Relock, Release
<1>4. /\ pc'[p] \notin Locked \cup {"idle", "ensure"}
      /\ \A q \in Request \ Saver : pc'[q] = pc[q]
  BY <1>1 DEF CopyObject, DeleteSource, RemoveLock, CheckUnlocked, DeleteRow, RenameSaved,
              UpdateId, Relock, Release, Goto, Stop, Locked
<1>5. ASSUME \A e \in Database : locks'[e] \in Taken PROVE StoreInv'
  BY <1>2, <1>3, <1>4, <1>5 DEF StoreInv
<1>6. CASE CopyObject(p)
  <2>1. SameLocks /\ \A e \in Database : locks'[e] \in Taken
    BY <1>6 DEF CopyObject, SameLocks, StoreInv
  <2>2. CASE CanCopy(p)
    <3>1. objects[p] = p
      BY <1>1, <2>2 DEF CanCopy, Source, SaveInv
    <3>2. objects' = [objects EXCEPT ![InitialName[d]] = p]
      BY <1>1, <1>6, <2>2, <3>1 DEF CopyObject, Source, Destination
    <3>3. locks[d] = By[p] /\ \A e \in Database : objects[InitialName[e]] # p
      BY <1>6 DEF CopyObject, StoreInv, Locked
    <3>4. /\ objects'[InitialName[d]] = p
          /\ \A e \in Database \ {d} : objects'[InitialName[e]] = objects[InitialName[e]]
      BY <1>0, <1>1, <3>2
    <3> QED
      BY <1>1, <1>5, <2>1, <3>3, <3>4, StoreInstall
  <2>3. CASE ~CanCopy(p)
    BY <1>5, <1>6, <2>1, <2>3, StoreStutter DEF CopyObject, SameContents
  <2> QED
    BY <2>2, <2>3
<1>7. CASE DeleteSource(p)
  <2>1. SameLocks /\ \A e \in Database : locks'[e] \in Taken
    BY <1>7 DEF DeleteSource, SameLocks, StoreInv
  <2>2. SameContents
    BY <1>0, <1>1, <1>7 DEF DeleteSource, Source, SameContents
  <2> QED
    BY <1>5, <2>1, <2>2, StoreStutter
<1>8. CASE RemoveLock(p) \/ DeleteRow(p) \/ CheckUnlocked(p) \/ RenameSaved(p) \/ UpdateId(p)
           \/ Release(p)
  <2>1. SameContents
    BY <1>8 DEF RemoveLock, DeleteRow, CheckUnlocked, RenameSaved, UpdateId, Release, SameContents
  <2>2. CASE locks' = [locks EXCEPT ![d] = None]
    <3>1. locks'[d] = None /\ \A e \in Database \ {d} : locks'[e] = locks[e]
      BY <1>1, <2>2 DEF RowId
    <3>2. \A e \in Database : locks'[e] \in Taken
      BY <3>1 DEF StoreInv, Taken
    <3> QED
      BY <1>1, <1>5, <2>1, <3>1, <3>2, StoreFree
  <2>3. CASE UNCHANGED locks
    BY <1>5, <2>1, <2>3, StoreStutter DEF SameLocks, StoreInv
  <2> QED
    BY <1>8, <2>2, <2>3 DEF RemoveLock, DeleteRow, CheckUnlocked, RenameSaved, UpdateId, Release
<1>9. CASE Relock(p)
  <2>1. SameContents
    BY <1>9 DEF Relock, SameContents
  <2>2. CASE UNCHANGED locks
    BY <1>5, <2>1, <2>2, StoreStutter DEF SameLocks, StoreInv
  <2>3. CASE locks' # locks
    <3>1. locks[d] = None /\ locks' = [locks EXCEPT ![d] = req[p].snap.lock]
      BY <1>9, <2>3 DEF Relock, Lockable
    <3>2. /\ locks'[d] = req[p].snap.lock /\ locks'[d] \in Taken
          /\ \A e \in Database \ {d} : locks'[e] = locks[e]
      BY <1>1, <3>1 DEF RowId, StoreInv
    <3>3. \A e \in Database : locks'[e] \in Taken
      BY <3>2 DEF StoreInv
    <3> QED
      BY <1>1, <1>5, <2>1, <3>1, <3>2, <3>3, StoreAcquire
  <2> QED
    BY <2>2, <2>3
<1> QED
  BY <1>6, <1>7, <1>8, <1>9

\* Requests that arrive: only a lock touches the store, and it takes a free one.
LEMMA BeginStore ==
  ASSUME OneSave, TypeOK, SaveInv, StoreInv, NEW p \in Request, Begin(p)
  PROVE  StoreInv' /\ [Store!Next]_Store!vars
<1>1. PICK d \in Target : SaveBegin(p, d) \/ LockDatabase(p, d)
  BY DEF OneSave, Begin, SaveAsBegin, UploadBegin, CopyOrUpdateBegin, DeleteBegin, UnlockBegin
<1>2. d \in Database
  BY <1>1, DatabasesAssumption
     DEF SaveBegin, LockDatabase, Lockable, SaveInv, Exists, Absent, RowId, Saver
<1>3. /\ SameContents /\ gone' = {}
      /\ \A q \in Request \ Saver : pc'[q] \in Ended
  BY <1>1 DEF SaveBegin, LockDatabase, SameContents, StoreInv, TypeOK, Types, Goto, Saver, Ended
<1>4. /\ pc \in [Request -> Label] /\ req \in [Request -> Pending] /\ locks \in [RowId -> Lock]
  BY DEF TypeOK, Types
<1>5. CASE SaveBegin(p, d)
  <2>1. p \in Saver /\ \A q \in Saver : q = p
    BY <1>5 DEF SaveBegin, Saver, OneSave
  <2>2. /\ UNCHANGED locks /\ pc[p] = "idle" /\ pc'[p] = "ensure"
        /\ req'[p].db = d /\ req'[p].snap.lock = locks[d]
    BY <1>4, <1>5 DEF SaveBegin, Goto, Load, Idle
  <2>3. StoreInv'
    BY <1>2, <1>3, <2>1, <2>2 DEF StoreInv, SameContents, Locked
  <2> QED
    BY <1>3, <2>2, <2>3, StoreStutter DEF SameLocks
<1>6. CASE LockDatabase(p, d)
  <2>1. /\ locks[d] = None /\ locks' = [locks EXCEPT ![d] = By[p]]
        /\ \A q \in Saver : q # p /\ pc'[q] = pc[q] /\ req'[q] = req[q]
    BY <1>4, <1>6 DEF LockDatabase, Lockable, Goto, Saver
  <2>2. locks'[d] = By[p] /\ \A e \in Database \ {d} : locks'[e] = locks[e]
    BY <1>2, <1>4, <2>1 DEF RowId
  <2>3. \A q \in Saver : By[q] # None
    BY DatabasesAssumption DEF Saver
  <2>4. \A q \in Saver : pc[q] # "idle" => req[q].db \in Database
    BY DEF SaveInv
  <2>5. StoreInv'
    BY <1>2, <1>3, <2>1, <2>2, <2>3, <2>4 DEF StoreInv, SameContents, Locked, Taken
  <2> QED
    BY <1>2, <1>3, <2>1, <2>2, <2>5, StoreAcquire DEF Taken
<1> QED
  BY <1>1, <1>5, <1>6

\* A move whose answer is lost installs the dump.
LEMMA LostStore ==
  ASSUME OneSave, TypeOK, SaveInv, StoreInv, NEW p \in Request, AnswerLost(p)
  PROVE  StoreInv' /\ [Store!Next]_Store!vars
<1> DEFINE d == req[p].db
<1>1. /\ p \in Saver /\ UNCHANGED <<rows, locks, gone, req>>
      /\ \A q \in Saver : q = p
      /\ pc'[p] = "abort" /\ \A q \in Request \ {p} : pc'[q] = pc[q]
  BY LostPrivate DEF AnswerLost, Stop, Goto, OneSave, TypeOK, Types
<1>2. StoreInv'
  BY <1>1 DEF StoreInv, Locked
<1>3. SameLocks
  BY <1>1 DEF SameLocks
<1>4. CASE \A k \in Name : objects'[k] = objects[k]
  <2>1. SameContents
    BY <1>4, Distinct DEF SameContents
  <2> QED
    BY <1>2, <1>3, <2>1, StoreStutter
<1>5. CASE pc[p] = "move" /\ objects' = [objects EXCEPT ![InitialName[d]] = p]
  <2>1. d \in Database /\ locks[d] = By[p] /\ \A e \in Database : objects[InitialName[e]] # p
    BY <1>1, <1>5 DEF StoreInv, Locked, SaveInv
  <2>2. \A e \in Database : /\ InitialName[e] \in FileName
                            /\ InitialName[e] = InitialName[d] => e = d
    BY <2>1, Distinct, DatabasesAssumption DEF FileName
  <2>3. /\ objects'[InitialName[d]] = p
        /\ \A e \in Database \ {d} : objects'[InitialName[e]] = objects[InitialName[e]]
    BY <1>5, <2>1, <2>2 DEF TypeOK, Types
  <2> QED
    BY <1>1, <1>2, <1>3, <2>1, <2>3, StoreInstall
<1> QED
  BY <1>4, <1>5, LostPrivate

\* Other failures and the end of the server end the save or lead it past the move.
LEMMA FaultStore ==
  ASSUME OneSave, TypeOK, SaveInv, StoreInv,
         Crash \/ \E p \in Request : Fault(p) /\ ~AnswerLost(p)
  PROVE  StoreInv' /\ [Store!Next]_Store!vars
<1>1. UNCHANGED <<locks, objects, gone, req>>
  BY DEF Crash, Fault, StorageFault, PostgresFault, ClientGone
<1>2. pc \in [Request -> Label]
  BY DEF TypeOK, Types
<1>0. \A q \in Request \ Saver : pc'[q] \in Ended
  <2>1. CASE Crash
    BY <1>2, <2>1 DEF Crash, Ended
  <2>2. ASSUME NEW p \in Request, Fault(p), ~AnswerLost(p)
        PROVE  p \in Saver /\ \A q \in Request \ {p} : pc'[q] = pc[q]
    BY <1>2, <2>2 DEF Fault, StorageFault, PostgresFault, ClientGone, Stop, Goto, StoreInv, Ended
  <2> QED
    BY <2>1, <2>2 DEF StoreInv
<1>3. \A q \in Saver : pc'[q] = pc[q] \/ pc'[q] \notin Locked \cup {"idle", "ensure"}
  <2>1. CASE Crash
    BY <1>2, <2>1 DEF Crash, Saver, Locked
  <2>2. ASSUME NEW p \in Request, Fault(p), ~AnswerLost(p)
        PROVE  \A q \in Saver : pc'[q] = pc[q] \/ pc'[q] \notin Locked \cup {"idle", "ensure"}
    BY <1>2, <2>2 DEF Fault, StorageFault, PostgresFault, ClientGone, Stop, Goto, Saver, Locked
  <2> QED
    BY <2>1, <2>2
<1>4. StoreInv'
  BY <1>0, <1>1, <1>3 DEF StoreInv
<1> QED
  BY <1>1, <1>4, StoreStutter DEF SameLocks, SameContents

LEMMA NextStore ==
  ASSUME OneSave, TypeOK, SaveInv, StoreInv, [Next]_vars
  PROVE  StoreInv' /\ [Store!Next]_Store!vars
<1>1. ASSUME NEW p \in Request, Step(p) PROVE StoreInv' /\ [Store!Next]_Store!vars
  <2>1. p \in Saver
    BY <1>1 DEF StoreInv, Ended, Step, RefuseSave, FindLocked, AcquireLock,
       Reload, CreateDatabase, StoreObject, RecordUrl, InsertRow, CopyObject, DeleteSource,
       UpdateRow, RemoveLock, EraseObject, CheckUnlocked, DeleteRow, RenameSaved, UpdateId,
       Relock, Release
  <2> QED
    BY <1>1, <2>1, BeforeMove, FromMove DEF Step, SaveInv, InsertRow, UpdateRow, EraseObject
<1>2. ~ \E i \in Instance : DeleteDeploymentInstance(i)
  BY DEF OneSave, DeleteDeploymentInstance
<1>3. CASE UNCHANGED vars
  <2>1. StoreInv'
    BY <1>3 DEF vars, StoreInv
  <2> QED
    BY <1>3, <2>1, StoreStutter DEF vars, SameLocks, SameContents
<1> QED
  BY <1>1, <1>2, <1>3, BeginStore, LostStore, FaultStore DEF Next

\* One save at a time, with users who lock around it, keeps the promise of DatabaseStore,
\* wherever its calls fail and wherever the server stops: the content of a database is
\* replaced as a whole, once, and for the holder of its lock.
THEOREM ImplementsStore ==
  ASSUME OneSave
  PROVE  Spec => StoreSpec
<1>1. OnlySaves
  BY DEF OneSave, OnlySaves
<1>2. Init => TypeOK /\ SaveInv /\ StoreInv /\ Store!Init
  BY InitType, InitSaves, InitStore
<1>3. TypeOK /\ SaveInv /\ StoreInv /\ [Next]_vars
        => (TypeOK /\ SaveInv /\ StoreInv)' /\ [Store!Next]_Store!vars
  BY <1>1, NextType, NextSaves, NextStore
<1> QED
  BY <1>2, <1>3, PTL DEF Spec, StoreSpec, Store!Spec

-----------------------------------------------------------------------------
(* Overlapping saves for different holders leave no lock behind. *)

DistinctHolders == /\ \A p, q \in Saver : By[p] = By[q] => p = q
                   /\ Faults \subseteq {"storage", "answer"}

\* A user has locked the record for this holder.
LockedFor(r, h) ==
  \E q \in Request : Op[q] = "lock" /\ pc[q] = "done" /\ req[q].db = r /\ By[q] = h

\* A save that takes, or has tried to take, the lock itself.
Takes(s) == pc[s] \notin {"idle", "ensure"} /\ ~req[s].wasLocked

Known(r, h) == LockedFor(r, h) \/ \E s \in Saver : By[s] = h /\ Takes(s)

\* A save that is going to release the lock of the record.
Releases(r) ==
  \E s \in Saver : pc[s] \notin Ended \cup {"ensure"} /\ ~req[s].wasLocked /\ req[s].db = r

\* What a save has read of the lock, and whether it has found its own.
HasRead(p) ==
  /\ locks[p] = None
  /\ req[p].snap.lock # None => Known(req[p].db, req[p].snap.lock)
  /\ pc[p] \in {"idle", "ensure", "reload"} => ~req[p].wasLocked
  /\ req[p].wasLocked =>
       req[p].snap.lock = By[p] /\ LockedFor(req[p].db, By[p])

\* A lock, and one that a save has read, is a user's or a save's for the same holder; a
\* save that found its lock found a user's, as no other save has its holder.  A lock
\* that is no user's has a save under way that releases it.
LeakInv ==
  /\ \A r \in RowId : locks[r] # None =>
       /\ Exists(r)
       /\ Known(r, locks[r])
       /\ LockedFor(r, locks[r]) \/ Releases(r)
  /\ \A p \in Saver : HasRead(p)

LEMMA InitLeak == Init => LeakInv
BY DEF Init, LeakInv, HasRead, Idle, NoLoad, Saver, RowId

\* What a step keeps of who has locked, and of who holds.
LEMMA KnownStays ==
  ASSUME \A q \in Request : pc[q] \notin {"idle", "ensure"} =>
           /\ req'[q].db = req[q].db /\ req'[q].wasLocked = req[q].wasLocked
           /\ pc'[q] \notin {"idle", "ensure"},
         \A q \in Request : Op[q] = "lock" /\ pc[q] = "done" => pc'[q] = "done",
         NEW r, NEW h
  PROVE  /\ LockedFor(r, h) => LockedFor(r, h)'
         /\ Known(r, h) => Known(r, h)'
BY DEF LockedFor, Known, Takes, Saver

LEMMA SaverLeak ==
  ASSUME OnlySaves, DistinctHolders, TypeOK, SaveInv, LeakInv, NEW p \in Saver, Step(p)
  PROVE  LeakInv'
<1> DEFINE d == req[p].db
<1>0. ~InsertRow(p) /\ ~UpdateRow(p) /\ ~EraseObject(p)
  BY DEF SaveInv, InsertRow, UpdateRow, EraseObject
<1>1. /\ d \in Database /\ d \in RowId /\ d # p /\ p \in Request /\ p \in RowId /\ Op[p] = "save"
      /\ pc \in [Request -> Label] /\ req \in [Request -> Pending] /\ locks \in [RowId -> Lock]
      /\ rows \in [RowId -> Row] /\ pc[p] \notin Ended
  BY Distinct, <1>0
     DEF TypeOK, Types, SaveInv, Saver, RowId, Ended, Step, RefuseSave, FindLocked, AcquireLock, Reload,
         CreateDatabase, StoreObject, RecordUrl, CopyObject, DeleteSource, RemoveLock,
         CheckUnlocked, DeleteRow, RenameSaved, UpdateId, Relock, Release
<1>2. \A q \in Request \ {p} : req'[q] = req[q] /\ pc'[q] = pc[q]
  BY SaverStep DEF Private
\* What the save has read.
<1>4. /\ req'[p].db = d
      /\ FindLocked(p) \/ req'[p].wasLocked = req[p].wasLocked
      /\ \/ req'[p].snap = req[p].snap
         \/ Reload(p) /\ req'[p].snap.lock = locks[d]
  <2>1. CASE FindLocked(p)
    BY <1>1, <2>1 DEF FindLocked, Pending
  <2>2. CASE Reload(p)
    BY <1>1, <2>2 DEF Reload, Load, Pending
  <2>3. CASE ~FindLocked(p) /\ ~Reload(p)
    BY <1>0, <2>3
       DEF Step, RefuseSave, AcquireLock, CreateDatabase, StoreObject, RecordUrl,
           CopyObject, DeleteSource, RemoveLock, CheckUnlocked, DeleteRow, RenameSaved, UpdateId,
           Relock, Release
  <2> QED
    BY <2>1, <2>2, <2>3
<1>5. pc'[p] \notin {"idle", "ensure"}
  BY <1>0, <1>1
     DEF Step, RefuseSave, FindLocked, AcquireLock, Reload, CreateDatabase, StoreObject, RecordUrl,
         CopyObject, DeleteSource, RemoveLock, CheckUnlocked, DeleteRow, RenameSaved, UpdateId,
         Relock, Release, Goto, Stop
<1>6. /\ pc[p] # "ensure" => req'[p].wasLocked = req[p].wasLocked
      /\ pc'[p] = "reload" => pc[p] = "ensure" /\ req' = req
  BY <1>0, <1>1, <1>4
     DEF Step, RefuseSave, FindLocked, AcquireLock, Reload, CreateDatabase, StoreObject, RecordUrl,
         CopyObject, DeleteSource, RemoveLock, CheckUnlocked, DeleteRow, RenameSaved, UpdateId,
         Relock, Release, Goto, Stop
<1>7. \A r, h : (LockedFor(r, h) => LockedFor(r, h)') /\ (Known(r, h) => Known(r, h)')
  BY <1>1, <1>2, <1>4, <1>5, <1>6, KnownStays
\* What becomes of locks and rows.
<1>8. \/ UNCHANGED locks
      \/ locks' = [locks EXCEPT ![d] = None]
      \/ AcquireLock(p) /\ locks' = [locks EXCEPT ![d] = By[p]] /\ Exists(d)
      \/ Relock(p) /\ locks' = [locks EXCEPT ![d] = req[p].snap.lock] /\ Exists(d)
            /\ req[p].snap.lock # None
  BY <1>0
     DEF Step, RefuseSave, FindLocked, AcquireLock, Reload, CreateDatabase, StoreObject, RecordUrl,
         CopyObject, DeleteSource, RemoveLock, CheckUnlocked, DeleteRow, RenameSaved, UpdateId,
         Relock, Release, Lockable
<1>9. locks'[p] = None
  BY <1>1, <1>8 DEF LeakInv, HasRead
<1>10. ASSUME NEW r \in RowId, locks'[r] # None PROVE Exists(r)'
  <2>1. Exists(r) /\ r # p
    BY <1>1, <1>8, <1>9, <1>10 DEF LeakInv, HasRead
  <2>2. CASE DeleteRow(p)
    <3>1. r # d
      BY <1>1, <1>10, <2>2 DEF DeleteRow
    <3> QED
      BY <1>1, <2>1, <2>2, <3>1 DEF DeleteRow, Exists
  <2>3. CASE UpdateId(p)
    <3>1. rows[p].name # None
      BY <1>1, <2>3, Distinct DEF UpdateId, SaveInv
    <3> QED
      BY <1>1, <2>1, <2>3, <3>1 DEF UpdateId, Exists
  <2>4. CASE ~DeleteRow(p) /\ ~UpdateId(p)
    <3>1. rows'[r] = rows[r]
      BY <1>0, <1>1, <2>1, <2>4
         DEF Step, RefuseSave, FindLocked, AcquireLock, Reload, CreateDatabase, StoreObject,
             RecordUrl, CopyObject, DeleteSource, RemoveLock, CheckUnlocked, RenameSaved,
             Relock, Release
    <3> QED
      BY <2>1, <3>1 DEF Exists
  <2> QED
    BY <2>2, <2>3, <2>4
\* The save releases what it has taken, unless there is nothing left to release.
<1>11. ASSUME NEW r \in RowId, locks'[r] # None, Releases(r) PROVE Releases(r)'
  <2>1. PICK s \in Saver : pc[s] \notin Ended \cup {"ensure"} /\ ~req[s].wasLocked /\ req[s].db = r
    BY <1>11 DEF Releases
  <2>2. CASE s # p
    BY <1>2, <2>1, <2>2 DEF Releases, Saver
  <2>3. CASE s = p
    <3>1. pc'[p] \notin Ended
      <4>1. CASE Release(p)
        BY <1>1, <1>11, <2>1, <2>3, <4>1 DEF Release
      <4>2. CASE Reload(p)
        <5>1. Exists(d)
          BY <1>1, <1>11, <2>1, <2>3, <4>2 DEF Reload, LeakInv, HasRead
        <5> QED
          BY <1>1, <4>2, <5>1 DEF Reload, Goto, Ended
      <4>3. CASE ~Release(p) /\ ~Reload(p)
        BY <1>0, <1>1, <2>1, <2>3, <4>3
           DEF Step, RefuseSave, FindLocked, AcquireLock, CreateDatabase, StoreObject, RecordUrl,
               CopyObject, DeleteSource, RemoveLock, CheckUnlocked, DeleteRow, RenameSaved,
               UpdateId, Relock, Goto, Stop, Ended
      <4> QED
        BY <4>1, <4>2, <4>3
    <3> QED
      BY <1>4, <1>5, <1>6, <2>1, <2>3, <3>1 DEF Releases, Ended
  <2> QED
    BY <2>2, <2>3
<1>12. ASSUME NEW r \in RowId, NEW h, h = locks'[r], h # None
       PROVE  (Known(r, h) /\ (LockedFor(r, h) \/ Releases(r)))'
  <2>1. CASE locks'[r] = locks[r]
    BY <1>7, <1>11, <1>12, <2>1 DEF LeakInv, HasRead
  <2>2. CASE AcquireLock(p) /\ r = d /\ h = By[p]
    <3>1. ~req'[p].wasLocked /\ pc'[p] = "reload"
      BY <1>1, <2>2 DEF AcquireLock, Goto, LeakInv, HasRead
    <3>2. Known(r, h)'
      BY <2>2, <3>1 DEF Known, Takes
    <3>3. Releases(r)'
      BY <1>4, <2>2, <3>1 DEF Releases, Ended
    <3> QED
      BY <2>2, <3>2, <3>3
  <2>3. CASE Relock(p) /\ r = d /\ h = req[p].snap.lock
    <3>1. Known(r, h)'
      <4>1. Known(r, h)
        BY <1>12, <2>3 DEF LeakInv, HasRead, Known, LockedFor
      <4> QED
        BY <1>7, <4>1
    <3>2. CASE req[p].wasLocked
      <4>1. LockedFor(r, h)
        BY <2>3, <3>2 DEF LeakInv, HasRead, LockedFor
      <4> QED
        BY <1>7, <3>1, <4>1
    <3>3. CASE ~req[p].wasLocked
      <4>1. pc'[p] \notin Ended
        BY <1>1, <2>3 DEF Relock, Goto, Stop, Ended
      <4>2. pc[p] = "relock"
        BY <2>3 DEF Relock
      <4>3. Releases(r)'
        BY <1>4, <1>5, <1>6, <2>3, <3>3, <4>1, <4>2 DEF Releases
      <4> QED
        BY <3>1, <4>3
    <3> QED
      BY <3>2, <3>3
  <2> QED
    BY <1>1, <1>8, <1>12, <2>1, <2>2, <2>3
<1>13. ASSUME NEW q \in Saver PROVE HasRead(q)'
  <2>1. CASE q # p
    <3>1. q \in Request \ {p} /\ q # d /\ q \in RowId
      BY <1>1, <2>1, Distinct DEF Saver, RowId
    <3>2. locks'[q] = None
      BY <1>1, <1>8, <3>1 DEF LeakInv, HasRead
    <3> QED
      BY <1>2, <1>7, <3>1, <3>2 DEF LeakInv, HasRead
  <2>2. CASE q = p /\ FindLocked(p)
    <3>1. /\ pc[p] = "ensure" /\ req[p].snap.lock = By[p] /\ By[p] # None
          /\ req'[p].snap = req[p].snap /\ pc'[p] = "create"
      <4>1. By[p] # None
        BY <1>1, DatabasesAssumption
      <4>2. req[p] \in Pending
        BY <1>1
      <4>3. pc[p] = "ensure" /\ req[p].snap.lock = By[p] /\ pc'[p] = "create"
        BY <1>1, <2>2 DEF FindLocked, Goto
      <4>4. req'[p].snap = req[p].snap
        BY <1>1, <2>2, <4>2 DEF FindLocked, Pending
      <4> QED
        BY <4>1, <4>3, <4>4
    <3>2. LockedFor(d, By[p])
      <4>1. Known(d, By[p])
        BY <3>1 DEF LeakInv, HasRead
      <4>2. \A s \in Saver : By[s] = By[p] => ~Takes(s)
        BY <3>1 DEF DistinctHolders, Takes
      <4> QED
        BY <4>1, <4>2 DEF Known
    <3> QED
      BY <1>4, <1>7, <1>9, <2>2, <3>1, <3>2 DEF HasRead, Known
  <2>3. CASE q = p /\ Reload(p)
    <3>1. pc[p] = "reload" /\ ~req'[p].wasLocked
      BY <1>6, <2>3 DEF Reload, LeakInv, HasRead
    <3>2. req'[p].snap.lock # None => Known(d, req'[p].snap.lock)
      BY <1>1, <1>4 DEF LeakInv, HasRead
    <3> QED
      BY <1>4, <1>7, <1>9, <2>3, <3>1, <3>2 DEF HasRead
  <2>4. CASE q = p /\ ~FindLocked(p) /\ ~Reload(p)
    <3>1. req'[p].snap = req[p].snap /\ req'[p].wasLocked = req[p].wasLocked /\ req'[p].db = d
      BY <1>4, <2>4
    <3>2. pc'[p] \in {"idle", "ensure", "reload"} => ~req'[p].wasLocked
      BY <1>5, <1>6, <3>1 DEF LeakInv, HasRead
    <3> QED
      BY <1>7, <1>9, <2>4, <3>1, <3>2 DEF LeakInv, HasRead
  <2> QED
    BY <2>1, <2>2, <2>3, <2>4
<1> QED
  BY <1>10, <1>12, <1>13 DEF LeakInv

\* Users who lock and unlock, and saves that begin.
LEMMA BeginLeak ==
  ASSUME OnlySaves, TypeOK, SaveInv, LeakInv, NEW p \in Request, Begin(p)
  PROVE  LeakInv'
<1>0. /\ pc \in [Request -> Label] /\ req \in [Request -> Pending] /\ locks \in [RowId -> Lock]
  BY DEF TypeOK, Types
<1>1. PICK d \in Target : SaveBegin(p, d) \/ UnlockBegin(p, d) \/ LockDatabase(p, d)
  BY DEF OnlySaves, Begin, SaveAsBegin, UploadBegin, CopyOrUpdateBegin, DeleteBegin
<1>2. d \in RowId /\ d \notin Saver /\ \A q \in Saver : q \in RowId /\ q \in Request
  BY DatabasesAssumption DEF RowId, Saver
<1>3. /\ pc[p] = "idle" /\ UNCHANGED rows /\ Op[p] \in {"save", "unlock", "lock"}
      /\ \A q \in Request \ {p} : req'[q] = req[q] /\ pc'[q] = pc[q]
  BY <1>0, <1>1 DEF SaveBegin, UnlockBegin, LockDatabase, Goto
<1>4. \A r, h : (LockedFor(r, h) => LockedFor(r, h)') /\ (Known(r, h) => Known(r, h)')
  BY <1>3, KnownStays
<1>5. ASSUME NEW r \in RowId, Releases(r) PROVE Releases(r)'
  <2>1. PICK s \in Saver : pc[s] \notin Ended \cup {"ensure"} /\ ~req[s].wasLocked /\ req[s].db = r
    BY <1>5 DEF Releases
  <2>2. s # p
    BY <1>3, <2>1 DEF Ended
  <2> QED
    BY <1>2, <1>3, <2>1, <2>2 DEF Releases
<1>6. CASE SaveBegin(p, d)
  <2>1. /\ UNCHANGED locks /\ p \in Saver /\ pc'[p] = "ensure"
        /\ req'[p].db = d /\ req'[p].snap.lock = locks[d] /\ req'[p].wasLocked = FALSE
    BY <1>0, <1>6 DEF SaveBegin, Goto, Load, Idle, Saver
  <2>2. ASSUME NEW q \in Saver PROVE HasRead(q)'
    <3>1. CASE q # p
      BY <1>2, <1>3, <1>4, <2>1, <3>1 DEF LeakInv, HasRead
    <3>2. CASE q = p
      <4>1. (req[p].snap.lock # None => Known(req[p].db, req[p].snap.lock))'
        <5> SUFFICES ASSUME NEW h, h = req'[p].snap.lock, h # None PROVE Known(d, h)'
          BY <2>1 DEF Known, LockedFor
        <5>1. Known(d, h)
          BY <1>2, <2>1 DEF LeakInv, Known, LockedFor
        <5> QED
          BY <1>4, <5>1
      <4> QED
        BY <2>1, <3>2, <4>1 DEF LeakInv, HasRead
    <3> QED
      BY <3>1, <3>2
  <2>3. ASSUME NEW r \in RowId, locks[r] # None
        PROVE  (Exists(r) /\ Known(r, locks[r]) /\ (LockedFor(r, locks[r]) \/ Releases(r)))'
    BY <1>3, <1>4, <1>5, <2>1, <2>3 DEF LeakInv, Exists
  <2> QED
    BY <2>1, <2>2, <2>3 DEF LeakInv
<1>7. CASE UnlockBegin(p, d) \/ LockDatabase(p, d)
  <2>1. /\ p \notin Saver
        /\ \/ UNCHANGED locks
           \/ /\ LockDatabase(p, d) /\ locks' = [locks EXCEPT ![d] = By[p]]
              /\ Exists(d) /\ Op[p] = "lock" /\ pc'[p] = "done" /\ req'[p].db = d
    BY <1>0, <1>7 DEF UnlockBegin, LockDatabase, Lockable, Goto, Idle, Saver
  <2>2. ASSUME NEW q \in Saver PROVE HasRead(q)'
    BY <1>0, <1>2, <1>3, <1>4, <2>1 DEF LeakInv, HasRead
  <2>3. ASSUME NEW r \in RowId, NEW h, h = locks'[r], h # None
        PROVE  (Exists(r) /\ Known(r, h) /\ (LockedFor(r, h) \/ Releases(r)))'
    <3>1. CASE h = locks[r]
      <4>1. Exists(r)' /\ Known(r, h) /\ (LockedFor(r, h) \/ Releases(r))
        BY <1>3, <2>3, <3>1 DEF LeakInv, Exists, Known, LockedFor
      <4> QED
        BY <1>4, <1>5, <4>1
    <3>2. CASE h # locks[r]
      <4>1. LockedFor(r, h)' /\ Exists(r)'
        BY <1>0, <1>2, <1>3, <2>1, <2>3, <3>2 DEF LockedFor, Exists
      <4> QED
        BY <4>1 DEF Known
    <3> QED
      BY <3>1, <3>2
  <2> QED
    BY <2>2, <2>3 DEF LeakInv
<1> QED
  BY <1>1, <1>6, <1>7

\* Locks that go, and saves that go on under way, leak nothing.
LEMMA LeakStays ==
  ASSUME LeakInv, UNCHANGED <<rows, req>>,
         \A r \in RowId : locks'[r] = locks[r] \/ locks'[r] = None,
         \A q \in Saver : \/ pc'[q] = pc[q]
                          \/ pc[q] \notin Ended \cup {"ensure", "reload"} /\ pc'[q] = "abort",
         \A q \in Request : Op[q] = "lock" /\ pc[q] = "done" => pc'[q] = "done"
  PROVE  LeakInv'
<1>1. \A q \in Saver : q \in RowId /\ q \in Request
  BY DEF Saver, RowId
<1>2. \A r, h : (LockedFor(r, h) => LockedFor(r, h)') /\ (Known(r, h) => Known(r, h)')
  BY DEF LockedFor, Known, Takes
<1>3. \A r : Releases(r) => Releases(r)'
  BY DEF Releases, Ended
<1>4. ASSUME NEW q \in Saver PROVE HasRead(q)'
  BY <1>1, <1>2 DEF LeakInv, HasRead
<1>5. ASSUME NEW r \in RowId, locks'[r] # None
      PROVE  (Exists(r) /\ Known(r, locks[r]) /\ (LockedFor(r, locks[r]) \/ Releases(r)))'
  <2> DEFINE h == locks[r]
  <2>1. locks'[r] = locks[r]
    BY <1>5
  <2> QED
    BY <1>2, <1>3, <1>5, <2>1 DEF LeakInv, Exists, Known, LockedFor, Releases, Takes
<1> QED
  BY <1>4, <1>5 DEF LeakInv

LEMMA NextLeak ==
  ASSUME OnlySaves, DistinctHolders, TypeOK, SaveInv, LeakInv, [Next]_vars
  PROVE  LeakInv'
<1>0. /\ pc \in [Request -> Label] /\ locks \in [RowId -> Lock]
  BY DEF TypeOK, Types
<1>1. ASSUME NEW p \in Request \ Saver, Step(p) PROVE LeakInv'
  <2>1. RemoveLock(p)
    BY <1>1
    DEF SaveInv, Ended, Step, RefuseSave, FindLocked, AcquireLock, Reload,
        CreateDatabase, StoreObject, RecordUrl, InsertRow, CopyObject, DeleteSource, UpdateRow,
        EraseObject, CheckUnlocked, DeleteRow, RenameSaved, UpdateId, Relock, Release
  <2>2. /\ UNCHANGED <<rows, req>> /\ pc[p] = "unlock"
        /\ \A q \in Request \ {p} : pc'[q] = pc[q]
        /\ \A r \in RowId : locks'[r] = locks[r] \/ locks'[r] = None
    BY <1>0, <2>1 DEF RemoveLock, Goto
  <2> QED
    BY <1>1, <2>2, LeakStays DEF Saver
<1>2. ASSUME NEW p \in Request, Fault(p) PROVE LeakInv'
  <2>1. StorageFault(p) \/ AnswerLost(p)
    BY <1>2 DEF DistinctHolders, Fault, PostgresFault, ClientGone
  <2>2. p \in Saver /\ UNCHANGED <<rows, req, locks>>
    BY <2>1 DEF StorageFault, AnswerLost, SaveInv, Ended
  <2>3. /\ pc[p] \notin Ended \cup {"ensure", "reload"} /\ pc'[p] = "abort"
        /\ \A q \in Request \ {p} : pc'[q] = pc[q]
    BY <1>0, <2>1, <2>2 DEF StorageFault, AnswerLost, Stop, Goto, Ended
  <2> QED
    BY <2>2, <2>3, LeakStays DEF Saver
<1>3. CASE Crash
  BY <1>3 DEF DistinctHolders, Crash
<1>4. CASE \E i \in Instance : DeleteDeploymentInstance(i)
  <2>1. /\ UNCHANGED <<rows, pc, req>>
        /\ \A r \in RowId : locks'[r] = locks[r] \/ locks'[r] = None
    BY <1>4 DEF DeleteDeploymentInstance
  <2> QED
    BY <2>1, LeakStays
<1>5. CASE UNCHANGED vars
  BY <1>5, LeakStays DEF vars
<1> QED
  BY <1>1, <1>2, <1>3, <1>4, <1>5, SaverLeak, BeginLeak DEF Next

\* However many saves for different holders overlap with each other, with users who lock
\* and unlock, with failures of S3 and of the pods and with instances that are deleted:
\* when all have ended, every lock is one that a user has asked for.
THEOREM NoLockLeft ==
  ASSUME OnlySaves, DistinctHolders
  PROVE  Spec => []NoLeakedLock
<1>1. Init => TypeOK /\ SaveInv /\ LeakInv
  BY InitType, InitSaves, InitLeak
<1>2. TypeOK /\ SaveInv /\ LeakInv /\ [Next]_vars => (TypeOK /\ SaveInv /\ LeakInv)'
  BY NextType, NextSaves, NextLeak
<1>3. LeakInv => NoLeakedLock
  <2> SUFFICES ASSUME LeakInv, AtRest, NEW r \in RowId, locks[r] # None
               PROVE  LockedFor(r, locks[r])
    BY DEF NoLeakedLock, LockedFor
  <2>1. ~Releases(r)
    BY DEF Releases, AtRest, Saver
  <2> QED
    BY <2>1 DEF LeakInv
<1> QED
  BY <1>1, <1>2, <1>3, PTL DEF Spec
=============================================================================
