------------------------------ MODULE Databases ------------------------------
(***************************************************************************)
(* Database records, their locks and their S3 objects (src/pkg/database).  *)
(*                                                                         *)
(* Every HTTP request is a member of Request and performs the operation    *)
(* Op gives it.  One action is one call that is atomic for the others: an  *)
(* SQL statement or transaction, or an S3 request.  Between two of them    *)
(* any other request may run; what a request has read stays in its req.    *)
(*                                                                         *)
(* All records live in one group, so the S3 key "group/name" of a record   *)
(* is written as the name.  The name of a save's temporary record is a     *)
(* fresh UUID: it is written as the request itself.                        *)
(***************************************************************************)
EXTENDS Naturals

CONSTANTS
  Database,     \* ids of the records that exist initially
  InitialName,  \* [Database -> Name]: their names
  Name,         \* the names users choose
  Instance,     \* deployment instances
  User,
  Admin,        \* users who administer the group
  Request,      \* the requests of a run
  Op,           \* [Request -> Operation]: what a request does,
  By,           \* [Request -> Holder]: for which instance and user,
  NewName,      \* [Request -> Name]: and the name it gives to a record
  Target,       \* the records users address
  Destroyable,  \* instances that may be deleted while requests run
  Faults,       \* the faults of a run
  None

Holder    == [instance : Instance, user : User]
Operation == {"save", "saveAs", "upload", "copy",
              "lock", "unlock", "delete", "update"}
FaultKind == {"storage", "answer", "postgres", "cancel", "crash"}
RowId     == Database \cup Request  \* a request names the row it inserts
FileName  == Name \cup Request
Content   == RowId                  \* whose dump or upload the bytes are
Saver     == {p \in Request : Op[p] = "save"}

ASSUME DatabasesAssumption ==
  /\ InitialName \in [Database -> Name]
  /\ \A d, e \in Database : InitialName[d] = InitialName[e] => d = e
  /\ Op \in [Request -> Operation]
  /\ By \in [Request -> Holder]
  /\ NewName \in [Request -> Name]
  /\ Target \subseteq RowId \ Saver
  /\ (Database \cup Name) \cap Request = {}
  /\ None \notin RowId \cup FileName \cup Holder
  /\ Faults \subseteq FaultKind

VARIABLES
  rows,     \* table databases: id -> [name, key]; key is the object the url names
  locks,    \* table locks: id -> holder or None
  objects,  \* the S3 bucket: key -> content or None
  gone,     \* instances whose row has been deleted
  pc,       \* where each request is
  req       \* what each request carries: its arguments and what it has read

vars == <<rows, locks, objects, gone, pc, req>>

Absent  == [name |-> None, key |-> None]
NoLoad  == [name |-> None, key |-> None, lock |-> None]
Idle    == [db |-> None, snap |-> NoLoad, wasLocked |-> FALSE]
Lock    == Holder \cup {None}
Row     == [name : FileName \cup {None}, key : FileName \cup {None}]
Loaded  == [name : FileName \cup {None}, key : FileName \cup {None}, lock : Lock]
Pending == [db : RowId \cup {None}, snap : Loaded, wasLocked : BOOLEAN]

\* The name of the record a request writes, and the name of its object.
OwnName(p) == IF Op[p] = "save" THEN p ELSE NewName[p]

Exists(r) == rows[r].name # None

\* Mutant: no unique index on the name.
NameNeverTaken(n, r) == FALSE

\* The unique indices on (name, group) and on the slug made of them.
NameTaken(n, r) == \E s \in RowId \ {r} : rows[s].name = n

\* Mutant: the lock is not preloaded, and its holder stays undefined.
LoadWithoutLock(r) == [name |-> rows[r].name, key |-> rows[r].key]

\* What FindById returns.
Load(r) == [name |-> rows[r].name, key |-> rows[r].key, lock |-> locks[r]]

\* The transaction of repository.Lock succeeds: the row is there, unlocked, and
\* the foreign key to the instance holds.
Lockable(r, h) == Exists(r) /\ locks[r] = None /\ h.instance \notin gone

Init ==
  /\ rows = [r \in RowId |-> IF r \in Database
                             THEN [name |-> InitialName[r], key |-> InitialName[r]]
                             ELSE Absent]
  /\ locks = [r \in RowId |-> None]
  /\ objects = [k \in FileName |->
                  IF \E d \in Database : InitialName[d] = k
                  THEN CHOOSE d \in Database : InitialName[d] = k
                  ELSE None]
  /\ gone = {}
  /\ pc = [p \in Request |-> "idle"]
  /\ req = [p \in Request |-> Idle]

Goto(p, l) == pc' = [pc EXCEPT ![p] = l]

\* A failing call ends the operation; SaveLocked still runs its deferred Unlock.
Stop(p) == Goto(p, IF p \in Saver THEN "abort" ELSE "failed")

-----------------------------------------------------------------------------
(* The requests arrive: what the handler reads before it calls the service. *)

SaveBegin(p, d) ==
  /\ pc[p] = "idle" /\ Op[p] = "save"
  /\ Exists(d) /\ By[p].instance \notin gone
  /\ req' = [req EXCEPT ![p] = [Idle EXCEPT !.db = d, !.snap = Load(d)]]
  /\ Goto(p, "ensure")
  /\ UNCHANGED <<rows, locks, objects, gone>>

SaveAsBegin(p) ==
  /\ pc[p] = "idle" /\ Op[p] = "saveAs"
  /\ By[p].instance \notin gone
  /\ Goto(p, "create")
  /\ UNCHANGED <<rows, locks, objects, gone, req>>

UploadBegin(p) ==
  /\ pc[p] = "idle" /\ Op[p] = "upload"
  /\ Goto(p, "dump")
  /\ UNCHANGED <<rows, locks, objects, gone, req>>

\* Copy and Update read the record, then copy its object.  Neither looks at
\* the lock.
CopyOrUpdateBegin(p, d) ==
  /\ pc[p] = "idle" /\ Op[p] \in {"copy", "update"}
  /\ Exists(d)
  /\ req' = [req EXCEPT ![p] = [Idle EXCEPT !.db = d, !.snap = Load(d)]]
  /\ Goto(p, "move")
  /\ UNCHANGED <<rows, locks, objects, gone>>

DeleteBegin(p, d) ==
  /\ pc[p] = "idle" /\ Op[p] = "delete"
  /\ Exists(d) /\ locks[d] = None
  /\ req' = [req EXCEPT ![p] = [Idle EXCEPT !.db = d, !.snap = Load(d)]]
  /\ Goto(p, "erase")
  /\ UNCHANGED <<rows, locks, objects, gone>>

UnlockBegin(p, d) ==
  /\ pc[p] = "idle" /\ Op[p] = "unlock"
  /\ locks[d] # None
  /\ By[p].user \in Admin \/ By[p].user = locks[d].user
  /\ req' = [req EXCEPT ![p] = [Idle EXCEPT !.db = d]]
  /\ Goto(p, "unlock")
  /\ UNCHANGED <<rows, locks, objects, gone>>

LockDatabase(p, d) ==
  /\ pc[p] = "idle" /\ Op[p] = "lock"
  /\ Lockable(d, By[p])
  /\ locks' = [locks EXCEPT ![d] = By[p]]
  /\ req' = [req EXCEPT ![p] = [Idle EXCEPT !.db = d]]
  /\ Goto(p, "done")
  /\ UNCHANGED <<rows, objects, gone>>

-----------------------------------------------------------------------------
(* EnsureLocked: decided on the lock read with the record, then Lock and reload. *)

RefuseSave(p) ==
  /\ pc[p] = "ensure"
  /\ LET l == req[p].snap.lock
     IN  IF l = None THEN ~Lockable(req[p].db, By[p])
                     ELSE l # By[p]
  /\ Goto(p, "failed")
  /\ UNCHANGED <<rows, locks, objects, gone, req>>

\* Mutant: any lock will do.
FindLockedByAnyone(p) ==
  /\ pc[p] = "ensure"
  /\ req[p].snap.lock # None
  /\ req' = [req EXCEPT ![p].wasLocked = TRUE]
  /\ Goto(p, "create")
  /\ UNCHANGED <<rows, locks, objects, gone>>

FindLocked(p) ==
  /\ pc[p] = "ensure"
  /\ req[p].snap.lock = By[p]
  /\ req' = [req EXCEPT ![p].wasLocked = TRUE]
  /\ Goto(p, "create")
  /\ UNCHANGED <<rows, locks, objects, gone>>

AcquireLock(p) ==
  /\ pc[p] = "ensure"
  /\ req[p].snap.lock = None
  /\ Lockable(req[p].db, By[p])
  /\ locks' = [locks EXCEPT ![req[p].db] = By[p]]
  /\ Goto(p, "reload")
  /\ UNCHANGED <<rows, objects, gone, req>>

Reload(p) ==
  /\ pc[p] = "reload"
  /\ IF Exists(req[p].db)
     THEN /\ req' = [req EXCEPT ![p].snap = Load(req[p].db)]
          /\ Goto(p, "create")
     ELSE /\ Goto(p, "failed")
          /\ UNCHANGED req
  /\ UNCHANGED <<rows, locks, objects, gone>>

-----------------------------------------------------------------------------
(* The record and the object of a save, a save-as or an upload. *)

CreateDatabase(p) ==
  /\ pc[p] = "create"
  /\ IF NameTaken(OwnName(p), p)
     THEN /\ Stop(p)
          /\ UNCHANGED rows
     ELSE /\ rows' = [rows EXCEPT ![p] = [name |-> OwnName(p), key |-> None]]
          /\ Goto(p, "dump")
  /\ UNCHANGED <<locks, objects, gone, req>>

\* StreamUpload of the dump or of the request body.  The dump runs in a pod of
\* the instance and fails when the instance is gone.
StoreObject(p) ==
  /\ pc[p] = "dump"
  /\ IF Op[p] # "upload" /\ By[p].instance \in gone
     THEN /\ Stop(p)
          /\ UNCHANGED objects
     ELSE /\ objects' = [objects EXCEPT ![OwnName(p)] = p]
          /\ Goto(p, IF Op[p] = "upload" THEN "insert" ELSE "record")
  /\ UNCHANGED <<rows, locks, gone, req>>

\* Mutant: the original is deleted before its object is replaced.
RecordUrlDeletingFirst(p) ==
  /\ pc[p] = "record"
  /\ rows' = [rows EXCEPT ![p].key = OwnName(p), ![req[p].db] = Absent]
  /\ Goto(p, IF Op[p] = "save" THEN "move" ELSE "done")
  /\ UNCHANGED <<locks, objects, gone, req>>

\* Dump reads the record back and saves it with its url.
RecordUrl(p) ==
  /\ pc[p] = "record"
  /\ IF Exists(p)
     THEN /\ rows' = [rows EXCEPT ![p].key = OwnName(p)]
          /\ Goto(p, IF Op[p] = "save" THEN "move" ELSE "done")
     ELSE /\ Stop(p)
          /\ UNCHANGED rows
  /\ UNCHANGED <<locks, objects, gone, req>>

InsertRow(p) ==
  /\ pc[p] = "insert"
  /\ IF NameTaken(OwnName(p), p)
     THEN /\ Stop(p)
          /\ UNCHANGED rows
     ELSE /\ rows' = [rows EXCEPT ![p] = [name |-> OwnName(p), key |-> OwnName(p)]]
          /\ Goto(p, "done")
  /\ UNCHANGED <<locks, objects, gone, req>>

-----------------------------------------------------------------------------
(* S3 Copy and Move.  A save moves its dump over the original's key, Update *)
(* moves the object to the key of the new name, Copy only copies.           *)

Source(p)      == IF Op[p] = "save" THEN p ELSE req[p].snap.key
Destination(p) == IF Op[p] = "save" THEN req[p].snap.name ELSE OwnName(p)

\* S3 refuses a missing source and a copy of an object onto itself.
CanCopy(p) == /\ Source(p) \notin {None, Destination(p)}
              /\ objects[Source(p)] # None

CopyObject(p) ==
  /\ pc[p] = "move"
  /\ IF CanCopy(p)
     THEN /\ objects' = [objects EXCEPT ![Destination(p)] = objects[Source(p)]]
          /\ Goto(p, IF Op[p] = "copy" THEN "insert" ELSE "unlink")
     ELSE /\ Stop(p)
          /\ UNCHANGED objects
  /\ UNCHANGED <<rows, locks, gone, req>>

\* Mutant: Move deletes what it has just written.
DeleteDestination(p) ==
  /\ pc[p] = "unlink"
  /\ objects' = [objects EXCEPT ![Destination(p)] = None]
  /\ Goto(p, IF Op[p] = "save" THEN "unlock" ELSE "store")
  /\ UNCHANGED <<rows, locks, gone, req>>

DeleteSource(p) ==
  /\ pc[p] = "unlink"
  /\ objects' = [objects EXCEPT ![Source(p)] = None]
  /\ Goto(p, IF Op[p] = "save" THEN "unlock" ELSE "store")
  /\ UNCHANGED <<rows, locks, gone, req>>

\* Mutant: the url stays the one of the old name.
UpdateNameOnly(p) ==
  /\ pc[p] = "store"
  /\ rows' = [rows EXCEPT ![req[p].db].name = OwnName(p)]
  /\ Goto(p, "done")
  /\ UNCHANGED <<locks, objects, gone, req>>

\* The row write of service.Update: gorm's Save updates the row, or inserts it
\* again when it is gone, and inserts the lock that was read with it.
UpdateRow(p) ==
  /\ pc[p] = "store"
  /\ LET d    == req[p].db
         l    == req[p].snap.lock
         lost == l # None /\ locks[d] = None
     IN  IF \/ NameTaken(OwnName(p), d)
            \/ lost /\ (~Exists(d) \/ l.instance \in gone)
         THEN /\ Stop(p)
              /\ UNCHANGED <<rows, locks>>
         ELSE /\ rows' = [rows EXCEPT ![d] = [name |-> OwnName(p),
                                              key |-> OwnName(p)]]
              /\ locks' = [locks EXCEPT ![d] = IF lost THEN l ELSE @]
              /\ Goto(p, "done")
  /\ UNCHANGED <<objects, gone, req>>

-----------------------------------------------------------------------------
(* Unlock, Delete and finalizeSave. *)

\* repository.Unlock deletes the lock of the record, whoever holds it.
RemoveLock(p) ==
  /\ pc[p] = "unlock"
  /\ locks' = [locks EXCEPT ![req[p].db] = None]
  /\ Goto(p, CASE Op[p] = "save" -> "check"
               [] Op[p] # "save" /\ locks[req[p].db] # None -> "done"
               [] OTHER -> "failed")
  /\ UNCHANGED <<rows, objects, gone, req>>

EraseObject(p) ==
  /\ pc[p] = "erase"
  /\ objects' = [k \in FileName |-> IF k = req[p].snap.key THEN None ELSE objects[k]]
  /\ Goto(p, "check")
  /\ UNCHANGED <<rows, locks, gone, req>>

\* repository.Delete reads the record and refuses a locked one ...
CheckUnlocked(p) ==
  /\ pc[p] = "check"
  /\ IF Exists(req[p].db) /\ locks[req[p].db] = None
     THEN Goto(p, "delete")
     ELSE Stop(p)
  /\ UNCHANGED <<rows, locks, objects, gone, req>>

\* ... then deletes it in a transaction that does not look at the lock again.
DeleteRow(p) ==
  /\ pc[p] = "delete"
  /\ rows' = [rows EXCEPT ![req[p].db] = Absent]
  /\ locks' = [locks EXCEPT ![req[p].db] = None]
  /\ Goto(p, IF Op[p] = "save" THEN "rename" ELSE "done")
  /\ UNCHANGED <<objects, gone, req>>

\* Mutant: the temporary record keeps its name.
SkipRename(p) ==
  /\ pc[p] = "rename"
  /\ Goto(p, "swap")
  /\ UNCHANGED <<rows, locks, objects, gone, req>>

RenameSaved(p) ==
  /\ pc[p] = "rename"
  /\ IF NameTaken(req[p].snap.name, p)
     THEN /\ Stop(p)
          /\ UNCHANGED rows
     ELSE /\ rows' = [rows EXCEPT ![p] = [name |-> req[p].snap.name,
                                          key |-> req[p].snap.key]]
          /\ Goto(p, "swap")
  /\ UNCHANGED <<locks, objects, gone, req>>

\* Mutant: the two ids of UpdateId are passed the wrong way round.
UpdateIdSwapped(p) ==
  /\ pc[p] = "swap"
  /\ Goto(p, "relock")
  /\ UNCHANGED <<rows, locks, objects, gone, req>>

UpdateId(p) ==
  /\ pc[p] = "swap"
  /\ IF Exists(req[p].db)
     THEN /\ Stop(p)
          /\ UNCHANGED rows
     ELSE /\ rows' = [rows EXCEPT ![req[p].db] = rows[p], ![p] = Absent]
          /\ Goto(p, "relock")
  /\ UNCHANGED <<locks, objects, gone, req>>

Relock(p) ==
  /\ pc[p] = "relock"
  /\ LET d == req[p].db
         l == req[p].snap.lock
     IN  IF l = None
         THEN /\ Goto(p, "release")
              /\ UNCHANGED locks
         ELSE IF Lockable(d, l)
         THEN /\ locks' = [locks EXCEPT ![d] = l]
              /\ Goto(p, "release")
         ELSE /\ Stop(p)
              /\ UNCHANGED locks
  /\ UNCHANGED <<rows, objects, gone, req>>

\* Mutant: the lock is released at the end of SaveLocked, not deferred.
ReleaseOnSuccess(p) ==
  /\ pc[p] \in {"release", "abort"}
  /\ locks' = IF req[p].wasLocked \/ pc[p] = "abort"
              THEN locks ELSE [locks EXCEPT ![req[p].db] = None]
  /\ Goto(p, IF pc[p] = "release" THEN "done" ELSE "failed")
  /\ UNCHANGED <<rows, objects, gone, req>>

\* The deferred Unlock of SaveLocked, and its return.
Release(p) ==
  /\ pc[p] \in {"release", "abort"}
  /\ locks' = IF req[p].wasLocked THEN locks
                                  ELSE [locks EXCEPT ![req[p].db] = None]
  /\ Goto(p, IF pc[p] = "release" THEN "done" ELSE "failed")
  /\ UNCHANGED <<rows, objects, gone, req>>

-----------------------------------------------------------------------------
(* The environment: failing calls, a crash, the deletion of an instance. *)

\* A call to S3 or to the pod fails without effect.
StorageFault(p) ==
  /\ "storage" \in Faults
  /\ pc[p] \in {"dump", "move", "unlink", "erase"}
  /\ Stop(p)
  /\ UNCHANGED <<rows, locks, objects, gone, req>>

\* S3 does what it is asked, and the answer is lost.
AnswerLost(p) ==
  /\ "answer" \in Faults
  /\ \/ /\ pc[p] = "dump" /\ (Op[p] = "upload" \/ By[p].instance \notin gone)
        /\ objects' = [objects EXCEPT ![OwnName(p)] = p]
     \/ /\ pc[p] = "move" /\ CanCopy(p)
        /\ objects' = [objects EXCEPT ![Destination(p)] = objects[Source(p)]]
     \/ pc[p] = "unlink" /\ objects' = [objects EXCEPT ![Source(p)] = None]
     \/ /\ pc[p] = "erase"
        /\ objects' = [k \in FileName |-> IF k = req[p].snap.key THEN None ELSE objects[k]]
  /\ Stop(p)
  /\ UNCHANGED <<rows, locks, gone, req>>

\* A statement fails without effect.  A failing Unlock is only logged.
PostgresFault(p) ==
  /\ "postgres" \in Faults
  /\ \/ /\ pc[p] \in {"create", "record", "insert", "store", "check", "delete",
                      "rename", "swap", "relock"}
        /\ Stop(p)
     \/ /\ pc[p] = "unlock"
        /\ Goto(p, IF Op[p] = "save" THEN "check" ELSE "failed")
     \/ /\ pc[p] \in {"release", "abort"}
        /\ Goto(p, IF pc[p] = "release" THEN "done" ELSE "failed")
  /\ UNCHANGED <<rows, locks, objects, gone, req>>

\* The client disconnects: the reads of EnsureLocked run under the request's
\* context, its Lock does not.
ClientGone(p) ==
  /\ "cancel" \in Faults
  /\ pc[p] = "reload"
  /\ Goto(p, "failed")
  /\ UNCHANGED <<rows, locks, objects, gone, req>>

Ended == {"idle", "done", "failed", "lost"}

\* The server stops: every request under way is lost, nothing resumes it.
Crash ==
  /\ "crash" \in Faults
  /\ \E p \in Request : pc[p] \notin Ended
  /\ pc' = [p \in Request |-> IF pc[p] \in Ended THEN pc[p] ELSE "lost"]
  /\ UNCHANGED <<rows, locks, objects, gone, req>>

DeleteDeploymentInstance(i) ==
  /\ i \in Destroyable \ gone
  /\ gone' = gone \cup {i}
  /\ locks' = [r \in RowId |-> IF locks[r] # None /\ locks[r].instance = i
                               THEN None ELSE locks[r]]
  /\ UNCHANGED <<rows, objects, pc, req>>

-----------------------------------------------------------------------------
Begin(p) ==
  \/ SaveAsBegin(p) \/ UploadBegin(p)
  \/ \E d \in Target : \/ SaveBegin(p, d) \/ CopyOrUpdateBegin(p, d)
                       \/ DeleteBegin(p, d) \/ UnlockBegin(p, d)
                       \/ LockDatabase(p, d)

Step(p) ==
  \/ RefuseSave(p) \/ FindLocked(p) \/ AcquireLock(p) \/ Reload(p)
  \/ CreateDatabase(p) \/ StoreObject(p) \/ RecordUrl(p) \/ InsertRow(p)
  \/ CopyObject(p) \/ DeleteSource(p) \/ UpdateRow(p)
  \/ RemoveLock(p) \/ EraseObject(p) \/ CheckUnlocked(p) \/ DeleteRow(p)
  \/ RenameSaved(p) \/ UpdateId(p) \/ Relock(p) \/ Release(p)

Fault(p) == StorageFault(p) \/ AnswerLost(p) \/ PostgresFault(p) \/ ClientGone(p)

Next ==
  \/ \E p \in Request : Begin(p) \/ Step(p) \/ Fault(p)
  \/ Crash
  \/ \E i \in Instance : DeleteDeploymentInstance(i)

Spec == Init /\ [][Next]_vars

\* A request under way goes on: its goroutine is scheduled and each call returns.
FairSpec == Spec /\ \A p \in Request : WF_vars(Step(p))
-----------------------------------------------------------------------------
(* Properties. *)

Label == Ended \cup {"ensure", "reload", "create", "dump", "record", "insert",
                     "move", "unlink", "store", "unlock", "erase", "check",
                     "delete", "rename", "swap", "relock", "release", "abort"}

Types ==
  /\ rows \in [RowId -> Row]
  /\ locks \in [RowId -> Lock]
  /\ objects \in [FileName -> Content \cup {None}]
  /\ gone \subseteq Instance
  /\ pc \in [Request -> Label]
  /\ req \in [Request -> Pending]

\* A request that is about to lock a record, or to load it again, has its id.
Addressed == \A p \in Request : pc[p] \in {"ensure", "reload"} => req[p].db \in RowId

TypeOK == Types /\ Addressed

AtRest == \A p \in Request : pc[p] \in Ended

\* A record that finalizeSave has deleted is on its way back: some save of it is
\* between Delete and UpdateId.  However saves of one database interleave, its id
\* is never lost (service.go 500-525), as long as the statements succeed and the
\* server lives.
IdentityRestored ==
  \A d \in Database :
    ~Exists(d) => \E p \in Saver : req[p].db = d /\ pc[p] \in {"rename", "swap"}

\* The object of a database is never missing and always holds a whole dump of
\* this database: its first one or that of a save addressed to it.  A save that
\* fails or dies halfway, or two that overlap, leave no hole and no other
\* database's bytes there (finalizeSave moves over the original in S3 first).
ContentNeverLost ==
  \A d \in Database :
    \/ objects[InitialName[d]] = d
    \/ \E p \in Saver : req[p].db = d /\ objects[InitialName[d]] = p

\* When every request has ended, a lock belongs to a lock request that succeeded:
\* no save leaves its own lock behind, whether it succeeds or fails halfway.
NoLeakedLock ==
  AtRest => \A r \in RowId : locks[r] # None =>
              \E q \in Request : /\ Op[q] = "lock" /\ pc[q] = "done"
                                 /\ req[q].db = r /\ By[q] = locks[r]

\* When every request has ended, the url of every record names an object, the
\* one stored for this record: renames, copies, uploads and deletions that
\* overlap, or fail in S3, leave no dangling url.
UrlsResolve ==
  AtRest => \A r \in RowId : rows[r].key # None =>
              IF r \in Request /\ Op[r] = "copy" THEN objects[rows[r].key] # None
                                                 ELSE objects[rows[r].key] = r

\* No two records share an object, so that deleting or saving one never touches
\* the bytes of the other: urls are only as unique as names (Save, Update and
\* finalizeSave write both).
NoSharedObject ==
  \A r, s \in RowId : r # s /\ rows[r].key # None => rows[r].key # rows[s].key

\* A database that is away during a save comes back under its id.
DatabaseComesBack == \A d \in Database : ~Exists(d) ~> Exists(d)

-----------------------------------------------------------------------------
(* Why IdentityRestored and ContentNeverLost hold when requests only save,  *)
(* lock and unlock: the inductive invariants of DatabasesProofs.            *)

OnlySaves == \A p \in Request : Op[p] \in {"save", "lock", "unlock"}

\* A database keeps its name; the other requests write no record; a save holds
\* the name of its database, its dump under its own key, and swaps the id of a
\* record that bears the name.
SaveInv ==
  /\ \A d \in Database : Exists(d) => rows[d].name = InitialName[d]
  /\ \A p \in Request \ Saver : rows[p] = Absent /\ pc[p] \in Ended \cup {"unlock"}
  /\ \A p \in Saver :
       /\ objects[p] \in {None, p}
       /\ pc[p] \notin {"insert", "store", "erase"}
       /\ pc[p] = "idle" => req[p].db = None
       /\ pc[p] # "idle" => /\ req[p].db \in Database
                            /\ req[p].snap.name = InitialName[req[p].db]
       /\ pc[p] = "swap" => rows[p].name = InitialName[req[p].db]

UniqueNames ==
  \A r, s \in RowId : r # s /\ Exists(r) => rows[r].name # rows[s].name

\* Only a save about to swap has a record under the name of a database, and as
\* names are unique it meets no other there.
IdentityInv ==
  /\ UniqueNames
  /\ \A p \in Saver : pc[p] # "swap" => rows[p].name \in {None, p}
  /\ IdentityRestored

\* The bytes under a database's key and its lock, as DatabaseStore sees them.
Store == INSTANCE DatabaseStore WITH
           Save    <- Saver,
           content <- [d \in Database |-> objects[InitialName[d]]],
           lock    <- [d \in Database |-> locks[d]]

\* One save at a time, with users who lock around it, keeps the promise of
\* DatabaseStore, wherever its calls fail and wherever the server stops.
StoreSpec == Store!Spec
=============================================================================
