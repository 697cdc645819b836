-------------------------------- MODULE Backup --------------------------------
(***************************************************************************)
(* The backup of a DHIS2 filestore (src/pkg/instance/filestore.go,         *)
(* backupService.go, minioBackupSource.go): a streamer writes a gzip'd tar *)
(* of the objects into a pipe, from which an uploader reads the parts of a *)
(* multipart upload.                                                       *)
(*                                                                         *)
(* The streamer of the s3 backend is a pipeline of goroutines of its own:  *)
(* a producer takes the listed objects and starts fetchers, who read small *)
(* objects into memory; a writer puts what it is handed into the tar, and  *)
(* reads the large objects itself.  The other backends run tar in a pod.   *)
(* One action is one call, or one hand-over through an unbuffered channel. *)
(***************************************************************************)
EXTENDS Naturals, FiniteSets

CONSTANTS
  Object,     \* of the filestore
  Large,      \* those larger than filestoreMaxBufferedObject
  Workers,    \* filestoreReadWorkers
  Backends,   \* the values of STORAGE_TYPE
  MaxFaults,  \* bound: failing calls
  None

ASSUME BackupAssumption ==
  /\ Large \subseteq Object
  /\ Workers \in Nat \ {0} /\ MaxFaults \in Nat
  /\ Backends \subseteq {"s3", "minio", "filesystem"}
  /\ Object \cap {None, "range", "wait", "ended"} = {}

VARIABLES
  backend,
  left,      \* the objects that are yet to be listed
  producer,  \* "range", "wait", "ended", or the large object it hands over
  fetch,     \* object -> what its fetcher is at
  failing,   \* the groups of goroutines that have failed, and so are canceled
  writer,    \* "range", "ended", or the object it writes
  entries,   \* the objects that are whole in the tar
  torn,      \* the object whose entry is shorter than its header says, or None
  shrunk,    \* the objects that have become shorter since they were listed
  staging,   \* the copy of the objects in minio's pod: "none", "there", "removed", "stays"
  stream,    \* the streamer: "run", "remove", "fail", "ok", "error"
  upload,    \* the uploader: "start", "run", "done", "failed"
  multipart, \* the upload is open at S3
  stored,    \* the object of the backup is there
  record,    \* FilestoreBackup: "none", "row", "linked", "failed"
  down,      \* the server has panicked
  faults

pipeline == <<left, producer, fetch, failing, writer, entries, torn>>
pod      == <<staging>>
uploader == <<upload, multipart, stored>>
around   == <<shrunk, record, down, faults>>
vars     == <<backend, pipeline, pod, stream, uploader, around>>

Init ==
  /\ backend \in Backends
  /\ left = Object
  /\ producer = "range"
  /\ fetch = [o \in Object |-> "none"]
  /\ failing = {}
  /\ writer = "range"
  /\ entries = {} /\ torn = None
  /\ shrunk = {}
  /\ staging = "none"
  /\ stream = "run"
  /\ upload = "start" /\ multipart = FALSE /\ stored = FALSE
  /\ record = "none"
  /\ down = FALSE
  /\ faults = 0

Up      == ~down
Fault   == faults < MaxFaults /\ faults' = faults + 1

\* The contexts: PerformBackup's, writeTarGz's in it, the fetchers' in that.
Canceled == stream = "error" \/ upload = "failed"

\* Mutant: the goroutines of writeTarGz are not of one errgroup.
NotGrouped == Canceled

StreamCanceled == Canceled \/ "stream" \in failing

FetchersCanceled == StreamCanceled \/ "fetchers" \in failing

\* A call fails by itself, or as its context is canceled.
Breaks(canceled) == IF canceled THEN UNCHANGED faults ELSE Fault

-----------------------------------------------------------------------------
(* The producer. *)

Running  == Up /\ backend = "s3" /\ stream = "run"
InFlight == {o \in Object : fetch[o] \in {"read", "send"}}

\* Mutant: the fetchers are not limited.
AnySlot == TRUE

FreeSlot == Cardinality(InFlight) < Workers

TakeSmall(o) ==
  /\ Running /\ producer = "range" /\ o \in left \ Large
  /\ FreeSlot
  /\ left' = left \ {o}
  /\ fetch' = [fetch EXCEPT ![o] = "read"]
  /\ UNCHANGED <<backend, producer, failing, writer, entries, torn, pod, stream, uploader, around>>

\* Mutant: every object is streamed.
AnySize(o) == TRUE

IsLarge(o) == o \in Large

TakeLarge(o) ==
  /\ Running /\ producer = "range" /\ o \in left /\ IsLarge(o)
  /\ left' = left \ {o}
  /\ producer' = o
  /\ UNCHANGED <<backend, fetch, failing, writer, entries, torn, pod, stream, uploader, around>>

HandLarge(o) ==
  /\ Running /\ producer = o /\ o \in Large /\ writer = "range"
  /\ producer' = "range"
  /\ writer' = o
  /\ UNCHANGED <<backend, left, fetch, failing, entries, torn, pod, stream, uploader, around>>

\* The producer returns an error: results is closed first, whatever the fetchers are at.
ReturnError ==
  /\ producer' = "ended"
  /\ failing' = failing \cup {"stream"}
  /\ UNCHANGED <<backend, left, fetch, writer, entries, torn, pod, stream, uploader, shrunk, record, down>>

\* Mutant: whoever consumes the listing takes an error for its end.
ListEnds == producer' = "wait" /\ UNCHANGED <<backend, left, fetch, failing, writer, entries, torn,
                                              pod, stream, uploader, shrunk, record, down>>

ListError == ReturnError

ListFails ==
  /\ Running /\ producer = "range"
  /\ Breaks(Canceled)
  /\ ListError

LargeCanceled ==
  /\ Running /\ producer \in Large /\ FetchersCanceled
  /\ ReturnError
  /\ UNCHANGED faults

\* The listing is over, or its goroutine has seen that the backup is canceled.
ListCloses ==
  /\ Running /\ producer = "range"
  /\ left = {} \/ Canceled
  /\ producer' = "wait"
  /\ UNCHANGED <<backend, left, fetch, failing, writer, entries, torn, pod, stream, uploader, around>>

Waited ==
  /\ Running /\ producer = "wait" /\ InFlight = {}
  /\ producer' = "ended"
  /\ failing' = IF "fetchers" \in failing THEN failing \cup {"stream"} ELSE failing
  /\ UNCHANGED <<backend, left, fetch, writer, entries, torn, pod, stream, uploader, around>>

-----------------------------------------------------------------------------
(* The fetchers.  After an error of the producer's they outlive writeTarGz. *)

Fetching == Up /\ backend = "s3"

Fetched(o) ==
  /\ Fetching /\ fetch[o] = "read"
  /\ fetch' = [fetch EXCEPT ![o] = "send"]
  /\ UNCHANGED <<backend, left, producer, failing, writer, entries, torn, pod, stream, uploader, around>>

FetchFails(o) ==
  /\ Fetching /\ fetch[o] = "read"
  /\ Breaks(FetchersCanceled)
  /\ fetch' = [fetch EXCEPT ![o] = "end"]
  /\ failing' = failing \cup {"fetchers"}
  /\ UNCHANGED <<backend, left, producer, writer, entries, torn, pod, stream, uploader, shrunk, record, down>>

HandSmall(o) ==
  /\ Running /\ fetch[o] = "send" /\ writer = "range" /\ producer # "ended"
  /\ fetch' = [fetch EXCEPT ![o] = "end"]
  /\ writer' = o
  /\ UNCHANGED <<backend, left, producer, failing, entries, torn, pod, stream, uploader, around>>

FetchCanceled(o) ==
  /\ Fetching /\ fetch[o] = "send" /\ FetchersCanceled
  /\ fetch' = [fetch EXCEPT ![o] = "end"]
  /\ failing' = failing \cup {"fetchers"}
  /\ UNCHANGED <<backend, left, producer, writer, entries, torn, pod, stream, uploader, around>>

\* A send on a closed channel.
Panic(o) ==
  /\ Fetching /\ fetch[o] = "send" /\ producer = "ended"
  /\ down' = TRUE
  /\ UNCHANGED <<backend, pipeline, pod, stream, uploader, shrunk, record, faults>>

-----------------------------------------------------------------------------
(* The writer. *)

\* DHIS2 replaces an object while it is backed up.
Shrink(o) ==
  /\ Up /\ stream = "run" /\ o \in Large \ shrunk
  /\ shrunk' = shrunk \cup {o}
  /\ UNCHANGED <<backend, pipeline, pod, stream, uploader, record, down, faults>>

\* The next header is refused if the entry before it is too short.
Writable == torn = None

WriteEntry(o) ==
  /\ Running /\ writer = o /\ Writable
  /\ writer' = "range"
  /\ IF o \in Large \cap shrunk
     THEN torn' = o /\ UNCHANGED entries
     ELSE entries' = entries \cup {o} /\ UNCHANGED torn
  /\ UNCHANGED <<backend, left, producer, fetch, failing, pod, stream, uploader, around>>

WriteFails(o) ==
  /\ Running /\ writer = o
  /\ Breaks(~Writable \/ upload = "failed" \/ (o \in Large /\ StreamCanceled))
  /\ writer' = "ended"
  /\ failing' = failing \cup {"stream"}
  /\ UNCHANGED <<backend, left, producer, fetch, entries, torn, pod, stream, uploader, shrunk, record, down>>

WriterEnds ==
  /\ Running /\ writer = "range" /\ producer = "ended"
  /\ writer' = "ended"
  /\ UNCHANGED <<backend, left, producer, fetch, failing, entries, torn, pod, stream, uploader, around>>

\* writeTarGz returns, once both have; errors of closing the tar are ignored.
StreamEnds ==
  /\ Running /\ producer = "ended" /\ writer = "ended"
  /\ stream' = IF "stream" \in failing THEN "error" ELSE "ok"
  /\ UNCHANGED <<backend, pipeline, pod, uploader, around>>

-----------------------------------------------------------------------------
(* Streaming from a pod. *)

Filesystem == Up /\ backend = "filesystem" /\ stream = "run"
Minio      == Up /\ backend = "minio" /\ stream = "run"

TarFromPod ==
  /\ Filesystem \/ (Minio /\ staging = "there")
  /\ entries' = Object
  /\ stream' = IF backend = "minio" THEN "remove" ELSE "ok"
  /\ UNCHANGED <<backend, left, producer, fetch, failing, writer, torn, pod, uploader, around>>

\* mktemp, and mirroring into it.
Mirror ==
  /\ Minio /\ staging = "none"
  /\ staging' = "there"
  /\ UNCHANGED <<backend, pipeline, stream, uploader, around>>

PodFails ==
  /\ Filesystem \/ Minio
  /\ Breaks(Canceled)
  /\ \/ UNCHANGED staging
     \/ Minio /\ staging' = "there"
  /\ stream' = IF staging' = "there" THEN "fail" ELSE "error"
  /\ UNCHANGED <<backend, pipeline, uploader, shrunk, record, down>>

\* Mutant: the staging directory is removed by the last command only.
RemoveAfterTar == stream = "remove"

RemoveDeferred == stream \in {"remove", "fail"}

\* Detached from the context of the backup; its own failure is ignored.
RemoveStaging ==
  /\ Up /\ stream \in {"remove", "fail"}
  /\ \/ staging' = (IF RemoveDeferred THEN "removed" ELSE "there") /\ UNCHANGED faults
     \/ Fault /\ staging' = "stays"
  /\ stream' = IF stream = "remove" THEN "ok" ELSE "error"
  /\ UNCHANGED <<backend, pipeline, uploader, shrunk, record, down>>

-----------------------------------------------------------------------------
(* StreamUpload, and recording the backup. *)

Initiate ==
  /\ Up /\ upload = "start"
  /\ upload' = "run" /\ multipart' = TRUE
  /\ UNCHANGED <<backend, pipeline, pod, stream, stored, around>>

InitiateFails ==
  /\ Up /\ upload = "start" /\ Breaks(Canceled)
  /\ upload' = "failed"
  /\ UNCHANGED <<backend, pipeline, pod, stream, multipart, stored, shrunk, record, down>>

\* A part fails, or the pipe was closed with an error; aborting the upload uses the same
\* context, and its failure is ignored.  Or the answer to completing it is lost.
UploadFails ==
  /\ Up /\ upload = "run"
  /\ Breaks(Canceled)
  /\ upload' = "failed"
  /\ \/ UNCHANGED <<multipart, stored>>
     \/ ~Canceled /\ multipart' = FALSE /\ UNCHANGED stored
     \/ stream = "ok" /\ multipart' = FALSE /\ stored' = TRUE
  /\ UNCHANGED <<backend, pipeline, pod, stream, shrunk, record, down>>

\* What comes out of the pipe has an end; a tar that a pod's connection cuts short may
\* have one too, as the uploader takes io.ErrUnexpectedEOF for it.
Complete ==
  /\ Up /\ upload = "run"
  /\ stream = "ok" \/ (stream = "error" /\ backend # "s3")
  /\ upload' = "done" /\ multipart' = FALSE /\ stored' = TRUE
  /\ UNCHANGED <<backend, pipeline, pod, stream, around>>

Succeeded == upload = "done" /\ stream = "ok"

RecordBackup ==
  /\ Up /\ record = "none" /\ Succeeded
  /\ record' = "row"
  /\ UNCHANGED <<backend, pipeline, pod, stream, uploader, shrunk, down, faults>>

LinkBackup ==
  /\ Up /\ record = "row"
  /\ record' = "linked"
  /\ UNCHANGED <<backend, pipeline, pod, stream, uploader, shrunk, down, faults>>

\* g.Wait returns an error of either.
BackupFailed == Canceled /\ upload \in {"done", "failed"} /\ stream \in {"ok", "error"}

RecordFails ==
  /\ Up
  /\ \/ record = "row" /\ Fault
     \/ record = "none" /\ Succeeded /\ Fault
     \/ record = "none" /\ BackupFailed /\ UNCHANGED faults
  /\ record' = "failed"
  /\ UNCHANGED <<backend, pipeline, pod, stream, uploader, shrunk, down>>

Back ==
  \/ \E o \in Object :
       \/ TakeSmall(o) \/ TakeLarge(o)  \/ HandLarge(o) \/ Fetched(o)    \/ FetchFails(o)
       \/ HandSmall(o) \/ FetchCanceled(o) \/ Panic(o)  \/ WriteEntry(o) \/ WriteFails(o)
       \/ Shrink(o)
  \/ ListFails    \/ LargeCanceled \/ ListCloses  \/ Waited       \/ WriterEnds \/ StreamEnds
  \/ Mirror       \/ TarFromPod    \/ PodFails    \/ RemoveStaging
  \/ Initiate     \/ InitiateFails \/ UploadFails \/ Complete
  \/ RecordBackup \/ LinkBackup    \/ RecordFails

-----------------------------------------------------------------------------
(* Properties. *)

Whole == left = {} /\ entries \cup ({torn} \ {None}) = Object

\* What a bucket is saved as has an entry for every object that was listed, if the bucket
\* is an external one or the backup is recorded: an error of a listing, of reading or of
\* writing never ends in an upload that is complete, and a backup that is not stored is
\* neither recorded nor linked to its database (writeTarGz, PerformBackup, FilestoreBackup).
BackupIsWhole ==
  /\ backend = "s3" /\ stored => Whole
  /\ record \in {"row", "linked"} => stored /\ entries \cup ({torn} \ {None}) = Object

\* The objects held in memory at once: one more than the comment on
\* filestoreMaxBufferedObject allows, as a fetcher's slot is free once it has handed
\* its object to the writer.
Bounded ==
  Cardinality({o \in Object \ Large : writer = o \/ fetch[o] \in {"read", "send"}}) <= Workers + 1

\* The staging copy in minio's pod outlives the backup, canceled and failed ones included,
\* only if removing it failed (minioExecSource).
StagingRemoved == stream \in {"ok", "error"} => staging # "there"

\* No goroutine of a backup waits forever for another: the backup ends, whatever fails,
\* unless the server panics (PerformBackup, writeTarGz).
BackupEnds == <>(down \/ record \in {"linked", "failed"})
===============================================================================
