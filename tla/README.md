# Verification of Instance Manager

Instance Manager (IM) manages DHIS2 instances: groups of users describe a
*deployment* as a set of *instances* of *stacks*, IM installs each instance as a
Helm release, seeds it from a *database* kept in S3, saves it back there, and
destroys the deployment when its time to live is over.  This directory holds a
TLA+ model of the parts where this is hard to get right, the TLC configurations
that check it, and theorems checked by TLAPS.  Paths below are relative to the
repository; `PROJECT.json` ties every definition to the lines it models.

## 1. Inventory

| component | state | operations | talks to | hard part |
|---|---|---|---|---|
| Databases (`pkg/database`) | rows `database` and `lock` (PostgreSQL), one S3 object per record | upload, copy, update (rename), delete, lock, unlock, dump, save | S3, PostgreSQL, `pg_dump` in a pod | a save takes minutes, in the background, over a dozen calls; others rename, lock and delete meanwhile |
| Orchestration (`pkg/deployment`) | none | Save, SaveAs, deploy, update, reset | databases, instances, tokens, notifications | detached goroutines; several components changed in sequence |
| Deployments and instances (`pkg/instance`) | rows of deployments, instances, parameters; Helm releases and volumes in a cluster | save, validate, deploy, update, reset, delete, pause, resume | helmfile, Kubernetes, PostgreSQL | rows and releases must agree although calls fail, race and die in between |
| Inspector (`pkg/inspector`) | none | every two minutes, destroy what outlived its TTL | instances | acts on a list that ages, against users |
| Stacks (`pkg/stack`) | constant catalogue | find, validate the catalogue | – | `Requires` and companions span the graph that orders everything |
| Filestore (`pkg/instance/filestore.go`, backup) | objects, a record per backup, a marker object | backup, restore | S3, MinIO, pods | a pipeline of goroutines into a multipart upload; half done copies |
| Parameters (`pkg/instance`, `pkg/deployment`) | rows of parameters | resolve, store, deploy with | – | copies of what another instance provides |
| Notifications (`pkg/notification`) | rows, a counter, a RabbitMQ stream | publish, list, mark read | RabbitMQ | stored and sent in two steps; deduplication by publishing id |
| Event stream (`pkg/event`) | one consumer and channel per client | stream, resume | RabbitMQ, SSE | two goroutines and a cancelled request |
| Tokens (`pkg/token`) | refresh tokens in Redis | issue, rotate, sign out | Redis | rotation races sign-out, and itself |
| Users (`pkg/user`) | rows, two join tables | sign up, validate, reset password, update, delete, sign in, SSO | mail, Redis | whole rows and memberships written back |
| Groups, clusters (`pkg/group`, `pkg/cluster`) | rows | CRUD, membership, association | Kubernetes (namespaces), SOPS | a cluster is saved with the groups it had |
| Authorization (`internal/handler`, `internal/middleware`) | none | who may read and write | – | rules on values already read |
| Adapters, plumbing (`pkg/storage`, `internal`, `cmd/serve`, `pkg/integration`, `pkg/health`) | none | connections, migrations, binding, errors, logs, proxies | – | none |

What makes each correct: a *database*'s bytes and its id survive every save, its
lock keeps others out and goes with the save that took it, its url names its own
object; a *deployment*'s releases and volumes keep their record, its records keep
what they require, its releases start and stop in order, and an expired one goes;
a *notification* has a row and reaches its user's clients once and in order; a *refresh token* is
worth one rotation and none after a sign-out; a *password reset token* sets one password; a
*membership* is granted by somebody; a *filestore backup* is whole or not recorded, its
restore whole or not marked; a *release* runs with the parameters that are stored.

Interaction.  Handlers run concurrently, one goroutine per request; `Save` and
`SaveAs` go on in a goroutine of their own after the answer.  There is no mutex:
requests meet only in the rows, objects and releases.  A statement or a
transaction is atomic, a read followed by a write is not.  Nothing is resumed
after a restart.

## 2. Modules

| module | models |
|---|---|
| `Databases` | records, locks and objects; eight operations, each a sequence of atomic calls |
| `DatabaseStore` | what a database promises: whole content and a lock, and how one step may change them |
| `DatabasesProofs` | the theorems about `Databases` |
| `MCDatabases` | instances of `Databases` for TLC |
| `Deployments` | one deployment, its instances, releases and volumes; seven operations and the inspector |
| `DeploymentsProofs` | the theorems about `Deployments` |
| `MCDeployments` | instances of `Deployments` for TLC |
| `Notifications` | publishing to the stream, and the connections of the clients of `/events` |
| `EventFeed` | what `/events` promises a client |
| `NotificationsProofs` | the theorems about `Notifications` |
| `MCNotifications` | instances of `Notifications` for TLC |
| `Accounts` | users and their memberships; five operations |
| `Groups` | `Accounts` with groups, their administrators and clusters; fourteen operations, two of them on instances |
| `Sessions` | `Groups` with the refresh tokens in Redis: sign-in, SSO, refresh, sign-out |
| `SessionsProofs` | the theorems about `Sessions`: types and tokens |
| `AccountsProofs` | the theorems about users, memberships and clusters in `Sessions` |
| `MCSessions` | an instance of `Sessions` for TLC |
| `Backup` | the backup of a filestore: streamer, uploader, recording |
| `Restore` | `Backup` with the deploys that restore what it stored |
| `RestoreProofs` | the theorems about `Restore`, and so about `Backup` |
| `Stacks` | the catalogue, and what `stack.New` checks of it |
| `Parameters` | the parameters of instances: resolving, storing, deploying and seeding |
| `ParametersProofs` | the theorems about `Parameters` |
| `MCParameters` | an instance of `Parameters` for TLC |

### Databases

`rows` is the table `databases` (name and S3 key of each record; `Absent` where
there is none), `locks` the table `locks`, `objects` the bucket: for each key the
content, which is the record it was first stored for or the request that dumped
it.  Record ids are the initial databases and the requests that create one.
`pc[p]` names the next call of request `p` and `req[p]` what it has read: the id
it was addressed to, the row and the lock as loaded.

One action is one S3 call, one SQL statement or transaction, or one call of the
Kubernetes exec API.  So *Save* is `SaveBegin` (the handler's read), `RefuseSave`
or `FindLocked` or `AcquireLock` and `Reload` (`EnsureLocked`), `CreateDatabase`, `StoreObject`
and `RecordUrl` (`Dump`), `CopyObject` and `DeleteSource` (`S3Client.Move`),
`RemoveLock`, `CheckUnlocked`, `DeleteRow`, `RenameSaved`, `UpdateId`, `Relock`
(`finalizeSave`), and `Release` (the deferred `Unlock`).  *Delete* reads,
erases the object and then asks for the lock again; *Upload* and *Copy* store the
object and insert the row; *Update* moves the object and writes the row it had
read.  Failures: `StorageFault` (an S3 or exec call has no effect), `AnswerLost` (S3 has uploaded,
copied or deleted, and the caller gets an error), `PostgresFault` (a
statement), `ClientGone` (the request's context ends where the code still
listens to it), `Crash` (all requests under way are lost), `DeleteDeploymentInstance`
(an instance goes, and the locks it holds).

Abstracted: the slug, which the tables keep unique, is the name, as there is one
group; a dump is one value; reading the row again and saving it, in `Dump`, is
one step; a save's temporary record is nobody else's target.  Left out: the
filestore record beside a database, download links, downloads.

`DatabaseStore` has two variables, the content and the lock of each database, and
three kinds of step: take a free lock, free a lock, replace the content by a whole
dump.  `Databases!StoreSpec` maps the objects under the databases' names to the
content and the lock table to the lock.

### Deployments

`deployment` is the row (TTL and the mark of its last update), `instances` the
rows of its instances by stack (the table allows one per stack), `releases` and
`volumes` what the cluster has.  An instance's parameters are reduced to the one
that may require a companion (`STORAGE_TYPE` of `dhis2-core` requires `minio`).
`req[a]` holds the rows as they were read and the instances still to be treated.

`Valid` is `validateNoCycles`: everything needed is there, nothing twice, no cycle.
`SaveInstanceBegin` validates the value that was supplied while `InsertInstance`
stores the default when none was (`resolveParameters` comes second).
`SaveDeployment` is gorm's `Save` of a loaded deployment, which inserts the
loaded instances again when they have gone.  `DropDeployment` is a delete with the
loaded struct as condition: when the row has been updated since, it matches nothing and is no error.
Destroying is `FindInstance`, `DestroyRelease`, `DeleteVolume`, `ForgetInstance` for
each instance; when one fails, a deletion of the deployment goes on with the
next.  The topological order is any order the graph allows, since the library
promises no more.

Failures (`SyncFails`, `SyncBusy`, `DestroyFails`, `VolumeFails`, `ForgetFails`, `Crash`): an installation, or
saving its log, fails before or after the release is there; Helm is busy with the release, which counts as
success; a destruction fails before or after the release has gone; of an instance's volumes
some are deleted when a call fails; the record of what has been destroyed is not deleted; the server stops.

Left out: creating a deployment (it exists at the start), pause, resume and
restart, token refresh (its failure is a failing installation); other
parameters and the seed of a release are in `Parameters`.  Saving an instance also writes the row of its
group as it was read (`FullSaveAssociations`): this module's properties do not read groups, so that half is
`SaveInstance` and `UpdateInstance` of `Groups`.

### Notifications

`pub[p]` is the goroutine of an asynchronous operation, on its way through `Publish`:
`Create` (the row), `Number` (the counter), `Send`.  `stream` keeps all messages at
their offsets, `oldest` the first one that has not outlived the hour the stream is
declared with.  `Accept` is RabbitMQ's deduplication, external: it keeps the highest
publishing id per producer name and drops what is not above it; `seenId` outlives
the server, `counter` does not.  `late` (the operations whose message another one's later number has
overtaken) and `before` (what earlier processes had counted to) are history.

`conn[c]` is a connection on the server: `next` is where the consumer reads on,
`hold` the event with which the message handler waits at the unbuffered channel,
`write` the event the request's goroutine has taken and not yet written, `closed`
whether the handler has closed the channel.  `Disconnect` cancels the request; until
`EndStream` both goroutines go on, so an event may be written to nobody
(`TakeEvent`, `Render`), and a handler that is called twice closes the channel twice
(`Panic`), which ends the server with every connection and operation.  `last[c]` is
the client's `Last-Event-ID`; `from` and `had` are history.

`EventFeed` has the stream and, per client, what it has had.  A step gives a client
its next own event, skipping none but expired ones; only a client that has had
none may start over at the end of the stream.

Abstracted: messages are well formed; the groups of a user are constant; the
broker's own filter by group, which may let others through, is subsumed by the
client side one.  Left out: listing notifications and marking them as read.

### Accounts, Groups, Sessions

Three modules, each extending the one before with what it keeps: `users` and the join
tables `members` and `admins`; `groups`, `link` (the cluster of each group) and
`clusters`; `store`, the keys in Redis.  They are checked together, as their requests
write each other's rows.

A request is a `Begin...` action, which is what the handler reads and where it
refuses, and then one action per statement: `BeginUpdate` and `UpdateUser`, `BeginAddUser` and
`AddUser`, and so on.  `req[r]` is what it has read: the row, and the memberships where the code
preloads them (`FindById`) or not (`FindBare`).  Signing in and asking for a reset read the clusters of the
groups as well (`FindByEmail`), which `SaveByEmail` inserts again if they have gone.  `SaveUser` is gorm's `Save`: every column of the row read,
the memberships read along, and the row itself again if it has gone, unless
what it refers to has gone too.  A deletion of a user may be refused for what else refers to the user (`DeleteUser`).
`SaveInstance` and `UpdateInstance` are what saving and updating an instance write of its group: the row as it was
read, `cluster_id` included, and for an update the row of that cluster.  `UpdateUser`, `ResetPassword` and gorm's `Append`
(`AddUser`) each write what the code writes and no more.

`BeginRefresh`, `Rotate`, `Issue` are a refresh: the old key is deleted, and whoever has
deleted it goes on.  `BeginSignOut`, `Del`, `SignOut` are a sign-out, whose scan sees
every key that is there throughout, and may see others.  `LoseAnswer` is a `Del` whose answer gets
lost.  `Stop` and `Crash` end requests at any statement; `Lapse` and `Expire` are time.

`spent`, `restored`, `uses` and `issued` are history.  Passwords are named by the request that
sets them; whoever may call is not modelled beyond administrators having to exist.
Left out: reading, mailing, the claims in access tokens.

### Backup, Restore

`backend` is the kind of storage.  For `s3`, `producer`, `fetch[o]` and `writer` are
the goroutines of `writeTarGz`, and an action is one call of one of them or a hand-over through an
unbuffered channel: `TakeSmall`, `Fetched`, `HandSmall` for an object that fits in memory,
`TakeLarge`, `HandLarge` for one that is streamed, `WriteEntry`.  `failing` has the error groups in
which a goroutine has failed: their contexts are canceled, and `FetchersCanceled`,
`StreamCanceled` and `Canceled` nest as the contexts do.  `Panic` is a fetcher's send on
the channel that the producer has closed.  The other backends run commands in a pod; `staging` is the
copy that minio's needs.  `upload`, `multipart`, `stored` are `StreamUpload`, and
`record` is `FilestoreBackup`.

`Restore` adds deploys of instances seeded from the backup's database:
`EnsureBucket`, `MakeBucket`, `CheckMarker`, `PutEntry` for each entry, `RestoreEnds`, `Mark`, and
`Sync`, after which DHIS2 writes (`LiveWrite`), and makes its bucket if it has none.  The instance is new, or DHIS2 is at
work on its bucket already, as on the one that was backed up (`InitRestore`).  A deploy may also come before the database
has a filestore: it restores nothing and leaves no marker (`SkipRestore`, `SyncBare`).  `early` is history: DHIS2 was
deployed without a restore.

Abstracted: gzip, parts and sizes; a part of the tar is an entry.  Left out: `RestoreService`, which
nothing calls.

### Stacks, Parameters

`Stacks` writes the catalogue down as records: what each stack requires, the parameters it has, those
it consumes and those it provides.  `ValidateNoCycles` and
`ValidateConsumedParameters` are what `stack.New` checks; `CatalogueIsValid` assumes them, so every run evaluates them.

`Parameters` has the stored parameters `rows` and what the `releases` run with and were seeded
from.  `Resolve` adds defaults and then copies what is consumed from the instances that are stored
(`Provided`); an update reads its instance and then the others
(`UpdateInstanceResolve`); storing does not look at what it overwrites.  A deploy takes the seed from
the first instance in deployment order that has a `DATABASE_ID` (`FirstCarrier`), an update and a
reset from any (`AnyCarrier`), as rows are read in no order.  `SyncBusy` is Helm's
"another operation is in progress", which the code takes for success.

Left out: parameters whose value a provider function makes (hostnames), the values
themselves, removing instances (that is `Deployments`).

## 3. Runs

TLC checks each of these in at most three minutes; all set `CHECK_DEADLOCK FALSE`,
as requests end.  Every action fires in one of the passing runs.

| run | instance | shows |
|---|---|---|
| `saves` | 2 databases, 2 saves from different instances, a lock, an unlock, an instance that is deleted; failing storage and lost answers | `IdentityRestored`, `ContentNeverLost`, `NoLeakedLock`, `DatabaseComesBack`, and that `IdentityInv` and `SaveInv` hold |
| `save_crash` | 1 save, 3 lockers, all faults, a crash | `StoreSpec`: the save implements `DatabaseStore` |
| `edits` | 2 updates, upload, copy, save-as, delete; distinct new names; failing storage | `UrlsResolve` |
| `names` | save, update, upload, save-as, delete wanting one name; all faults | `NoSharedObject` |
| `serial` | all operations but `DeleteDeployment`, one at a time, one fault of any kind | `NoOrphans` |
| `order` | save, two deploys, both deletions, inspector, one at a time; two faults | `RunsWithRequired` |
| `deletes` | save, update, both deletions, inspector, three at once; one fault | `NoOrphans`, and that `DestroyInv` holds |
| `ttl` | both deletions, a deploy, inspector, two at once; a failing installation or a crash | `RequiredPresent`, `ExpiredGoes` |
| `stream` | two operations of two users at once, one client, two lost connections, a failing call, a crash, an expiring message | `NothingUnrecorded`, `OnlyOvertakenDropped`, `FeedSpec`: streaming implements `EventFeed`; `CaughtUp` |
| `accounts` | 2 administrators, their group and a new one, 2 clusters; any 3 requests of the 23 kinds, two at once; a fault | `ResetOnce`, `OneTime`, `SignedOut`, `ColumnsAreOwn`, `MembershipsAreGranted`, `LinksAreMade` |
| `backup` | each backend, 3 small objects and a large one, 1 fetcher; 2 deploys, one of them maybe before the filestore; a bucket that is new or live; a fault | `BackupIsWhole`, `Bounded`, `StagingRemoved`, `BackupEnds`, `MarkedIsWhole`, `RestoredOnce` |
| `parameters` | the real catalogue; 2 updates, 2 saves of one stack, a deploy, a reset, two at once; a fault | `ConsumedFresh`, `SeedsAgree`, `ReleasedIsStored` |

Bounds.  Every request runs at most once (the code has no retries; two saves are
two requests).  Two saves are the smallest number whose finalizations interleave, and the
theorems below have no bound.  Stacks are the four kinds of node of the real
graph at most: a root, one that needs it, one that needs both through a
companion.  `MaxFaults` is one or two: single failures are what the code's error
paths treat, and the second one hits a clean-up.  `MaxActive` is how many
requests overlap, `MaxTime` is one or two past the TTL: after that every moment
is alike.

In `accounts` requests choose what they do, so all pairs of operations overlap, and a third comes
before, between or after; three requests are alike (symmetry), as nothing orders them.  In `backup` a
second fetcher changes nothing that one, and the objects queueing for it, do not show; three small objects are enough
to have one written, one waiting in the fetcher and one not taken yet.  DHIS2 writes two of the four (`Rewritten`), a small
one and the large one, which tells apart what a restore finds live; one deploy may be early (`Hasty`), as that of the second
would add nothing to it.  In `parameters` the two values
tell an old copy from a new one.

In `stream` one client is enough: connections share nothing but the server, whose end
by another client's panic is, to this one, a crash.

Fairness.  `FairSpec` asks weak fairness of the steps of a request that has
begun (a goroutine runs on; a call returns, if only with an error) and, in
`Deployments`, of the clock and of the inspector's endless loop.  It asks
nothing of arrivals or failures.  In `Notifications` it asks it of each of the two goroutines of a
connection (`Consuming`, `Serving`: fairness of the two together would let an endless stream of messages keep one
event from being written), of the end of a canceled request, and of the client, which connects again when it has lost
its connection (the `retry` field of an event says when), and nothing of the publisher.  In `backup` it asks it of the goroutines together: one of those that can run does.

Restrictions, each because the property is violated without it (section 5):
`saves` has distinct holders; `edits` has distinct new names, no save and no lost answer;
`deletes` installs nothing; `ttl` has no failing destruction and no update of
the deployment; `order` and `serial` run one request at a time.

## 4. Proofs

Every theorem holds for any sets of requests, objects, stacks, clients and so on, and for any number of
failures; what it assumes of the constants is the named assumption of the module (they have
their types, ids of different kinds differ, `None` is none of them), which TLC evaluates for the instances above.
Each has the form `Spec => []P` unless it says otherwise.  `TypeOK` is proved of every component, as
`TypeCorrect`.  A theorem that restricts the requests names the restriction.

`DatabasesProofs` (`DatabasesAssumption`).

* `TypeCorrect`: `Types` alone is not inductive: a request that loads a record again
  must have an id to load, hence `Addressed`.
* `ContentKept`, `SavesOwnObject`: when requests only save, lock and unlock (`OnlySaves`), `ContentNeverLost`
  and `SaveInv`, under every fault and after any crash.  `SaveInv` is the strengthening: a database keeps
  its name while it has a row, a save knows that name, and its dump lies under a key no other
  save uses.  So a save changes the object of its own database only by the copy of its own dump, and the
  source is deleted only under the save's own key.
* `IdentityKept`, `OneSaveSwaps`: when moreover no statement fails and the server does not stop,
  `IdentityRestored` and `IdentityInv` for any number of overlapping saves.  `IdentityInv` adds that names
  are unique and that a save's record bears a database's name only right before the swap of
  ids; so of several saves that have passed the check only the first one's rename succeeds, and its
  swap finds the id free (lemmas `WhoHasTheName`, `SaverIdentity`).
* `ObjectsNotShared`: `NoSharedObject` for all eight operations.  `KeyInv`: a url names the object of the
  record's own name, and so does the row as any request has read it; a record without a url keeps its
  name until it gets one.  Names are unique, so keys are.
* `NoLockLeft`: `NoLeakedLock` when requests only save, lock and unlock, saves have distinct holders and only
  storage fails or loses answers (`DistinctHolders`).  `LeakInv`: a lock that no user has asked for has a save under way
  that will release it; and a save that found its own lock found a user's, as no other save has its holder.
* `UrlsAlwaysResolve`: `UrlsResolve` for any requests that do not save in place, when each has a name of its own, only
  storage fails, without effect, and either nobody locks or nothing is deleted (`Edits`).  The last restriction
  is the code's: a lock taken between the two steps of a deletion keeps the row but not its object, and an update that
  cannot put back the lock of an instance deleted meanwhile ends after it has moved the object.
  `UrlInv`: what a request has read of a record is still so while it moves the record's object; nobody else
  stores anything under the name a request has claimed; and a record not being worked on has its object, with its content.
* `AwayComesBack`: `DatabaseComesBack`, a liveness property, under the assumptions of `IdentityKept`: see below.
* `ImplementsStore`: `Spec => StoreSpec` for one save, with any users who lock (`OneSave`), under every
  fault.  `StoreInv`: until its dump is moved the save has the lock, and its dump is
  no database's content yet; so the move is the one `Install` of `DatabaseStore`, and every other
  step takes or frees a lock or is a stutter.

`DeploymentsProofs` (`DeploymentsAssumption`).

* `TypeCorrect`: `Types` needs `Aimed`: a request on its way through a destruction knows the stack, and one
  that stores an instance has loaded it.
* `NothingOrphaned`, `DestroysInOrder`: when requests install nothing (`InstallsNothing`: saves, both
  deletions, updates that keep the time to live; the inspector is always there), `NoOrphans` and `DestroyInv`, for
  any number at once and under every fault.  `NoOrphans` speaks of states at rest only; `DestroyInv`
  says that what has a release or a volume has a record at any time, that a request about to forget
  an instance has destroyed it, and that a deletion of the deployment in which nothing has failed still
  has in its queue everything that has a release or a volume.  The last part is what makes `DropDeployment`, which
  deletes all records at once, safe: its queue is empty, so nothing is left in the cluster.
* `NothingOrphanedAlone`: `NoOrphans` for all operations, one at a time, under every fault (`MaxActive <= 1`); a
  deployment that overlaps a deletion leaves a release without a record (section 5).  `AloneInv`: what has a release
  or a volume has a record, the request under way treats only instances that have one, and it forgets none of which something is left.
* `RequiredStays`: `RequiredPresent` for any operations one at a time, or for any number of deployments, resets,
  deletions and inspections at once, under failing installations and stops (`Careful`).  What `Careful` leaves out are the ways
  of section 5 to break it: a destruction or a deletion of a record that fails half-way, after which what it requires is forgotten; an instance saved without the
  parameter whose default needs another; a save or an update overlapping a deletion.  `RequiredInv`: the records are
  valid in every state, not only at rest; a request about to write has read what is stored and what it
  will leave is valid; nothing that is left needs the instance whose record is about to go.
* `NeverStuck`: in any state, of the instances a deployment or a destruction has still to treat one is next, so the
  loops over `DeploymentOrder` end.  `SelfFree` assumes what holds of `stack.go`: finitely many stacks and none that requires itself.
  `Queued`: the queue is one instance, or part of a graph that has been validated as it was read.  That a graph without cycles has a
  node nobody needs is `NoneNeeds`: of the sets of nodes that lack one, a smallest would have a smaller one (`FS_StrictSubsetOrderingWellFounded`).
* `RunsInOrder`: `RunsWithRequired` when one operation runs at a time, none updates or resets, and no
  destruction of a release fails (`OneAtATime`; installing, deleting volumes and records and the server may
  fail).  `OrderInv`: what a deploy no longer has in its queue runs; what runs is in the queue of a deletion of the
  deployment; nothing that runs requires what is being destroyed.

`NotificationsProofs` (`NotificationsAssumption`).

* `RecordedFirst`: `NothingUnrecorded`, by `RecordInv`: what is about to be numbered or sent has its row.
* `DropsOnlyOvertaken`: `OnlyOvertakenDropped`: of what is sent, the broker drops only what has been overtaken on its way or
  has a number that an earlier process used.  `NumberInv`: no two messages on their way have one number, and the broker has
  gone past that of none but those.
* `TypeCorrect`: every message being sent has a number that the counter has given out.
* `ImplementsFeed`: `Spec => FeedSpec`: the two goroutines of a connection, and a client that connects again with the
  last id it has seen, implement `EventFeed`.  `FeedInv` in three parts: `SentOnce`, nothing is on the stream
  twice; `Placed`, what a client has seen lies between where it subscribed and the
  end of the stream; `Reading`, of the events ahead of a client, its consumer has passed only the two that its goroutines
  hold, in their order, and expired ones.
* `ComesNearer`, a liveness theorem: see below.

`SessionsProofs` and `AccountsProofs` (`AccountsAssumption`, `GroupsAssumption`, `SessionsAssumption`) are both about `Sessions`, the
composition: any requests of the 23 kinds.

* `TypeCorrect`: memberships are of users and groups that exist, and a group's cluster exists.  For that, a request
  must have read what it is about (`Aimed`, `Fits`), an update of an instance the cluster that it links, as it saves both.
* `AcceptedOnce`, `SignedOutForGood`: `OneTime` and `SignedOut`.  `TokenInv`: a token that was accepted is gone
  from Redis, a token belongs to one user, and a request that has not ended has issued none.
  `SignOutInv`: no sign-out has listed the token of a request that
  has not ended, so what is issued later is none of the tokens it deletes.
* `ResetsOnce`: `ResetOnce`.  `ResetInv`: a reset token is one user's, in the row and in what requests have read, and the
  request that made it has ended, so none makes a token again that was spent.
* `LinksMade`, `ColumnsOwn`, `MembershipsGranted`: the action properties `LinksAreMade`, `ColumnsAreOwn`, `MembershipsAreGranted`.
  `MakerInv`: a request that signs somebody up creates the user named after it, whom
  nobody else can have read before.

`RestoreProofs` (`BackupAssumption`): `TypeCorrect`, and

* `BackupsWhole`, `StagingGone`: `BackupIsWhole` and `StagingRemoved`.  A backup has an entry for every object; the last
  may be shorter than its header says (section 5).  `PipeInv`: unless a group of goroutines has failed, every
  object is to be listed, with the producer, with a fetcher, with the writer or in the tar, and the goroutines end in order;
  `BackInv` carries this through the streamer, the uploader and the recording.
* `MarkedWhole`, `RestoresOnce`: `MarkedIsWhole` and `RestoredOnce`.  `RestInv`: a deploy about to mark has put every entry,
  and without a race only one deploy restores; that writes over nothing of DHIS2 unless DHIS2 was there before (`early`).
* `FewInMemory`: `Bounded`.  `FlightInv`: the fetchers that hold an object are at most as many as `Workers`, which needs the
  library's facts about cardinalities.
* `NeverStuck`, `OnlyForth`: the two halves of `BackupEnds` for any number of objects and fetchers.  Until the backup is over some
  goroutine can go on (`NoneWaits`, from `PipeInv` and `BackInv`: a full hand-over has a receiver, or a failure has canceled
  both); and every step of one, a failing one included, takes an object, a goroutine or the request to a later stage and
  none to an earlier one, as an object is in one place at a time (`PlaceInv`).

`ParametersProofs` (`ParametersAssumption`, `PresetAssumption`, `CatalogueIsValid`) is about any catalogue that `stack.New` accepts.

* `TypeCorrect`: every instance is stored and deployed with a value for each parameter.
* `ConsumesWhatIsStored`: `ConsumedFresh`.  `FreshInv`: what a request is about to store has of each consumed parameter what
  the provider has stored, unless that was stored since the request resolved it.
* `ReleasesWhatIsStored`: `ReleasedIsStored`.  `ReleaseInv`: while nothing has disturbed it, one request at most is
  under way, and releases differ from rows only in what it has yet to deploy.

* `SeedsFromTheDatabase`: `SeedsAgree` when of the stacks asked for only `dhis2-db` owns a `DATABASE_ID` (`OneDatabase`); `dhis2`
  has one as well, and of two databases in one deployment either may be found first.  `SeedInv` says the same of the rows.

Liveness.  The prover knows the rules of temporal logic but nothing of `ENABLED`.  Two theorems take the
fairness as an assumption in which it is written out: `Scheduled` is `[]Goes`, and `Goes` says of each action that has weak fairness
in `FairSpec` that it happens, or that its guard is false some time.  For `Databases` the guard of `Step(p)` is `pc[p] \notin
Ended`, as every label of a request under way has a step in every state; for `Notifications` the guards are `CanConsume`,
`CanServe`, `CanSubscribe` and `CanEnd`, the conjuncts of the actions that speak of the present state.

* `AwayComesBack` (`DatabasesProofs`): a database that a save has put away comes back under its own id, however many
  saves overlap.  Its record is away only between a save's `DeleteRow` and its `UpdateId`; the save's next
  step gives the record its name, which by `IdentityInv` nobody else has, and the one after that the id, which is free.
* `ComesNearer` (`NotificationsProofs`): an event that a client awaits has a distance, the connection and the messages still to
  be read before it, and there is a budget, the lost connections and crashes left.  As long as the event has neither arrived nor
  expired and the client has not subscribed anew, the distance falls some time while the budget stays, or the budget falls.

`CaughtUp` follows from the last by induction over the pairs of budget and distance, and `BackupEnds` from `NeverStuck`
and `OnlyForth` by induction over the stages of finitely many objects.  These inductions are over temporal formulas, which the
prover cannot state: they remain with TLC, in `stream` and `backup`.  So does all of `ExpiredGoes`, of which
`DeploymentsProofs!NeverStuck` is the part that concerns the order.

## 5. Where the code is weaker than one may think

No run is spent on these: TLC shows each when the restriction of section 3 that hides it is
lifted or the exception that a property states is taken out, or it was met while reading.

Databases.

* `Service.Delete` looks at the lock, erases the object, and lets the repository look at the lock
  again: a lock in between saves the row only.
* `EnsureLocked` locks, then loads with the request's context; a client that leaves in
  between leaves a lock nobody will remove.
* `finalizeSave` unlocks before it deletes, and the deferred `Unlock` removes any
  lock: of two saves one may go on without a lock, or without the other's.
* After a crash between `Delete` and `UpdateId` the database's id is gone for
  good; its bytes are not.
* An upload refused for its name has already replaced the bytes of the record of
  that name.
* The same user saving twice from one instance leaves a lock behind; an update
  during a save moves the object away from the key the save records.
* When the answer to `Move`'s delete is lost, or a statement after the move fails, the object has its new
  key and the record the old one.

Deployments.

* One failing destruction in `DeleteDeployment`, and what that instance requires is forgotten
  nevertheless; the remaining records are invalid, so neither inspector nor user can delete the deployment any more.
* A `dhis2-core` saved without `STORAGE_TYPE` is validated without it and stored with
  `minio`; the deployment can then be neither deployed nor deleted until a `minio`
  is added.
* The inspector destroys a deployment whose TTL was raised after it read its list, and one that was
  updated with a TTL of 0 at once.
* A deployment in progress installs a release whose record was deleted meanwhile.
* Saving an instance while the one it requires is deleted leaves an invalid
  deployment; so does an update that writes back deleted instances, when the
  server stops during the deletion it raced.

Parameters.

* Storing a database instance leaves what `minio` and `dhis2-core` have copied of it, until each is
  updated itself; updating or resetting one of them may then seed it from `minio`'s old `DATABASE_ID`.
* "In progress" counts as success, so the release keeps the parameters of the other operation.
* The default of `GOOGLE_AUTH_PROJECT_ID` is read from the variable of the client id (`stack.go:255`).

Notifications and events.

* The publisher counts from 1 in every process under one producer name: after a restart RabbitMQ
  drops its messages as duplicates until the counter has passed the highest id of the process before.
* Two operations publishing at once may send in the other order than they have
  counted, and the lower id is dropped.
* The second message a handler is called with after its request was canceled
  closes a closed channel; the panic stops the server.

Users, groups, clusters, sessions.

* Of two overlapping requests on one user the later statement puts back what the earlier changed: an
  address, a password reset token, a membership that was revoked, the user itself when it was
  deleted and has no memberships.  Hence the exceptions in `ColumnsAreOwn`, `MembershipsAreGranted`, `ResetOnce`.
* Two requests that present one reset token at once both set a password.
* Removing a cluster from a group clears whichever cluster the group has by then; saving an instance, which any member of
  the group may, puts back the one it had when the deployment was read, after an administrator has changed it (`LinksAreMade`
  allows it); and a cluster that was deleted meanwhile comes back with an instance, a sign-in or a reset request.
* `cluster/handler.go:138` and `:170` answer an invalid id with an error and go on with id 0.
* A refresh between its `Del` and its `Set` while the user signs out leaves a session; a `Set` that fails after
  the `Del` signs the user out.
* A sign-up whose mail fails leaves the account, and the reset mail is sent before its token is saved.
* The tokens of an SSO sign-in lack the user's groups.
* The gorm tags of `Cluster.Groups` and `Group.Cluster` disagree on deleting a cluster that groups have; the
  model allows both.

Filestore.

* An error of the listing (or a failed writer or uploader), while a fetcher holds an object, closes the channel the fetcher
  sends to: the server may panic.
* One object more than `filestoreMaxBufferedObject`'s comment counts is in memory (`Bounded`).
* A large object that has shrunk since it was listed as the last leaves a tar with a short last entry: the
  error of closing is dropped, the backup is recorded, and its restore fails.
* The uploader takes `io.ErrUnexpectedEOF` of a pod's connection for the end: a cut tar is completed under the key of
  the backup, although it is then not recorded; an earlier backup of that name has been overwritten.
* Aborting an upload uses the context that has been canceled, which leaves the multipart upload open.
* Two deploys may restore at once, the later over what DHIS2 has written since; the marker says that
  some backup was restored, not which; and a bucket that was live before its first deploy with
  a filestore has no marker and is written over, which are the two exceptions of `RestoredOnce`.

## 6. Not modelled

* Workloads: pause, resume, restart, scaling and the status of instances (`kubernetes.go`) read and write
  replica counts in Kubernetes and nothing else; they meet the rest only in the release they belong to.
* The filestore record beside a database in copy, rename and delete: a second pair of the statements that
  `Databases` has for the first.
* What else gorm writes along: the users and groups that a loaded deployment or database has are inserted again when they
  have gone, as `Groups` shows for users and clusters; and which databases and deployments keep a user from being
  deleted, or go along (`DeleteUser` is refused or not).
* What requests may do beyond the rules named above; access tokens and their claims; handlers that only read.
* Integrations, health, HTTP plumbing, configuration, test support: no state.  Charts, stacks and
  scripts: declarative input and wrappers.

Left to prove: what `ExpiredGoes` needs beyond `NeverStuck`, and `ContentNeverLost`, `IdentityRestored` and `NoLeakedLock` for
mixes of operations that include deletions and renames of other databases.
