----------------------------- MODULE RestoreProofs -----------------------------
(***************************************************************************)
(* Proofs about Backup and Restore, for any objects, any number of         *)
(* fetchers and of deploys, and any failures.                              *)
(***************************************************************************)
EXTENDS Restore, FiniteSetTheorems, TLAPS

\* The backup, and the restore.
BackTypes ==
  /\ backend \in Backends
  /\ left \subseteq Object /\ entries \subseteq Object /\ shrunk \subseteq Large
  /\ producer \in {"range", "wait", "ended"} \cup Large
  /\ fetch \in [Object -> {"none", "read", "send", "end"}]
  /\ failing \subseteq {"stream", "fetchers"}
  /\ writer \in {"range", "ended"} \cup Object
  /\ torn \in {None} \cup Large
  /\ staging \in {"none", "there", "removed", "stays"}
  /\ stream \in {"run", "remove", "fail", "ok", "error"}
  /\ upload \in {"start", "run", "done", "failed"}
  /\ record \in {"none", "row", "linked", "failed"}
  /\ multipart \in BOOLEAN /\ stored \in BOOLEAN /\ down \in BOOLEAN
  /\ faults \in 0..MaxFaults

RestTypes ==
  /\ bucket \in BOOLEAN /\ marker \in BOOLEAN /\ running \in BOOLEAN
  /\ raced \in BOOLEAN /\ early \in BOOLEAN
  /\ deploy \in [Deploy -> Calls \cup {"done", "failed"}]
  /\ put \in [Deploy -> SUBSET Object]
  /\ content \in [Object -> {"none", "backup", "live"}]
  /\ overwritten \subseteq Object

Types == BackTypes /\ RestTypes

\* The actions of the streamer of the s3 backend.
Producer == \/ \E o \in Object : TakeSmall(o) \/ TakeLarge(o) \/ HandLarge(o)
            \/ ListFails \/ LargeCanceled \/ ListCloses \/ Waited

Fetchers == \E o \in Object : \/ Fetched(o) \/ FetchFails(o) \/ HandSmall(o) \/ FetchCanceled(o)
                              \/ Panic(o)

Writer == (\E o \in Object : Shrink(o) \/ WriteEntry(o) \/ WriteFails(o)) \/ WriterEnds \/ StreamEnds

Pod == Mirror \/ TarFromPod \/ PodFails \/ RemoveStaging

Uploader == Initiate \/ InitiateFails \/ UploadFails \/ Complete

Recorder == RecordBackup \/ LinkBackup \/ RecordFails

LEMMA BackParts == Back <=> Producer \/ Fetchers \/ Writer \/ Pod \/ Uploader \/ Recorder
BY DEF Back, Producer, Fetchers, Writer, Pod, Uploader, Recorder

LEMMA FaultType ==
  ASSUME BackTypes, Fault \/ UNCHANGED faults PROVE faults' \in 0..MaxFaults
BY BackupAssumption DEF BackTypes, Fault

LEMMA BackTyped == ASSUME BackTypes, Back PROVE BackTypes'
<1> USE DEF pipeline, pod, uploader, around
<1>1. Fault \/ UNCHANGED faults
  <2>1. CASE Producer
    BY <2>1 DEF Producer, TakeSmall, TakeLarge, HandLarge, ListFails, LargeCanceled, ListCloses,
                Waited, Breaks
  <2>2. CASE Fetchers
    BY <2>2 DEF Fetchers, Fetched, FetchFails, HandSmall, FetchCanceled, Panic, Breaks
  <2>3. CASE Writer
    BY <2>3 DEF Writer, Shrink, WriteEntry, WriteFails, WriterEnds, StreamEnds, Breaks
  <2>4. CASE Pod
    BY <2>4 DEF Pod, Mirror, TarFromPod, PodFails, RemoveStaging, Breaks
  <2>5. CASE Uploader
    BY <2>5 DEF Uploader, Initiate, InitiateFails, UploadFails, Complete, Breaks
  <2>6. CASE Recorder
    BY <2>6 DEF Recorder, RecordBackup, LinkBackup, RecordFails
  <2> QED
    BY <2>1, <2>2, <2>3, <2>4, <2>5, <2>6, BackParts
<1>2. faults' \in 0..MaxFaults
  BY <1>1, FaultType
<1> USE <1>2, BackupAssumption DEF BackTypes, ListError, ReturnError, IsLarge
<1>3. CASE Producer
  <2>1. ASSUME NEW o \in Object, TakeSmall(o) PROVE BackTypes'
    BY <2>1 DEF TakeSmall
  <2>2. ASSUME NEW o \in Object, TakeLarge(o) PROVE BackTypes'
    BY <2>2 DEF TakeLarge
  <2>3. ASSUME NEW o \in Object, HandLarge(o) PROVE BackTypes'
    BY <2>3 DEF HandLarge
  <2>4. CASE ListFails
    BY <2>4 DEF ListFails
  <2>5. CASE LargeCanceled
    BY <2>5 DEF LargeCanceled
  <2>6. CASE ListCloses
    BY <2>6 DEF ListCloses
  <2>7. CASE Waited
    BY <2>7 DEF Waited
  <2> QED
    BY <1>3, <2>1, <2>2, <2>3, <2>4, <2>5, <2>6, <2>7 DEF Producer
<1>4. CASE Fetchers
  <2>1. ASSUME NEW o \in Object, Fetched(o) PROVE BackTypes'
    BY <2>1 DEF Fetched
  <2>2. ASSUME NEW o \in Object, FetchFails(o) PROVE BackTypes'
    BY <2>2 DEF FetchFails
  <2>3. ASSUME NEW o \in Object, HandSmall(o) PROVE BackTypes'
    BY <2>3 DEF HandSmall
  <2>4. ASSUME NEW o \in Object, FetchCanceled(o) PROVE BackTypes'
    BY <2>4 DEF FetchCanceled
  <2>5. ASSUME NEW o \in Object, Panic(o) PROVE BackTypes'
    BY <2>5 DEF Panic
  <2> QED
    BY <1>4, <2>1, <2>2, <2>3, <2>4, <2>5 DEF Fetchers
<1>5. CASE Writer
  <2>1. ASSUME NEW o \in Object, Shrink(o) PROVE BackTypes'
    BY <2>1 DEF Shrink
  <2>2. ASSUME NEW o \in Object, WriteEntry(o) PROVE BackTypes'
    <3>1. entries' \subseteq Object /\ torn' \in {None} \cup Large /\ writer' = "range"
      BY <2>2 DEF WriteEntry
    <3>2. UNCHANGED <<backend, left, producer, fetch, failing, pod, stream, uploader, around>>
      BY <2>2 DEF WriteEntry
    <3> QED
      BY <3>1, <3>2
  <2>3. ASSUME NEW o \in Object, WriteFails(o) PROVE BackTypes'
    BY <2>3 DEF WriteFails
  <2>4. CASE WriterEnds
    BY <2>4 DEF WriterEnds
  <2>5. CASE StreamEnds
    BY <2>5 DEF StreamEnds
  <2> QED
    BY <1>5, <2>1, <2>2, <2>3, <2>4, <2>5 DEF Writer
<1>6. CASE Pod
  <2>1. CASE Mirror
    BY <2>1 DEF Mirror
  <2>2. CASE TarFromPod
    BY <2>2 DEF TarFromPod
  <2>3. CASE PodFails
    BY <2>3 DEF PodFails
  <2>4. CASE RemoveStaging
    BY <2>4 DEF RemoveStaging
  <2> QED
    BY <1>6, <2>1, <2>2, <2>3, <2>4 DEF Pod
<1>7. CASE Uploader
  <2>1. CASE Initiate
    BY <2>1 DEF Initiate
  <2>2. CASE InitiateFails
    BY <2>2 DEF InitiateFails
  <2>3. CASE UploadFails
    <3>1. multipart' \in BOOLEAN /\ stored' \in BOOLEAN /\ upload' = "failed"
      BY <2>3 DEF UploadFails
    <3>2. UNCHANGED <<backend, pipeline, pod, stream, shrunk, record, down>>
      BY <2>3 DEF UploadFails
    <3> QED
      BY <3>1, <3>2
  <2>4. CASE Complete
    BY <2>4 DEF Complete
  <2> QED
    BY <1>7, <2>1, <2>2, <2>3, <2>4 DEF Uploader
<1>8. CASE Recorder
  <2>1. CASE RecordBackup
    BY <2>1 DEF RecordBackup
  <2>2. CASE LinkBackup
    BY <2>2 DEF LinkBackup
  <2>3. CASE RecordFails
    BY <2>3 DEF RecordFails
  <2> QED
    BY <1>8, <2>1, <2>2, <2>3 DEF Recorder
<1> QED
  BY <1>3, <1>4, <1>5, <1>6, <1>7, <1>8, BackParts

Deploys == \E d \in Deploy : \/ SkipRestore(d) \/ SyncBare(d)
                             \/ EnsureBucket(d) \/ MakeBucket(d) \/ CheckMarker(d) \/ RestoreEnds(d)
                             \/ Mark(d) \/ Sync(d) \/ CallFails(d)
                             \/ \E o \in Object : PutEntry(d, o)

LEMMA KeepsTypes == ASSUME BackTypes, UNCHANGED vars PROVE BackTypes'
BY DEF BackTypes, vars, pipeline, pod, uploader, around

LEMMA DeploysTyped == ASSUME Types, Deploys PROVE Types'
<1> USE DEF Types, RestTypes, Step, Calls
<1>1. ASSUME NEW d \in Deploy,
             \/ EnsureBucket(d) \/ MakeBucket(d) \/ CheckMarker(d) \/ RestoreEnds(d) \/ Mark(d)
             \/ Sync(d) \/ SkipRestore(d) \/ SyncBare(d)
      PROVE  Types'
  <2>1. UNCHANGED vars
    BY <1>1 DEF EnsureBucket, MakeBucket, CheckMarker, RestoreEnds, Mark, Sync, SkipRestore,
                SyncBare
  <2>2. BackTypes'
    BY <2>1, KeepsTypes
  <2> QED
    BY <1>1, <2>2 DEF EnsureBucket, MakeBucket, CheckMarker, RestoreEnds, Mark, Sync,
                      SkipRestore, SyncBare
<1>2. ASSUME NEW d \in Deploy, CallFails(d) PROVE Types'
  <2>1. faults' \in 0..MaxFaults
    BY <1>2, FaultType DEF CallFails
  <2>2. BackTypes'
    BY <1>2, <2>1 DEF CallFails, BackTypes, pipeline, pod, uploader
  <2> QED
    BY <1>2, <2>2 DEF CallFails
<1>3. ASSUME NEW d \in Deploy, NEW o \in Object, PutEntry(d, o) PROVE Types'
  <2>1. BackTypes'
    BY <1>3, KeepsTypes DEF PutEntry
  <2> QED
    BY <1>3, <2>1 DEF PutEntry
<1> QED
  BY <1>1, <1>2, <1>3 DEF Deploys

LEMMA InitTypes == InitRestore => Types
<1> SUFFICES ASSUME InitRestore PROVE Types
  OBVIOUS
<1>1. BackTypes
  <2>1. fetch \in [Object -> {"none", "read", "send", "end"}]
    BY DEF InitRestore, Init
  <2>2. faults \in 0..MaxFaults
    BY BackupAssumption DEF InitRestore, Init
  <2>3. /\ backend \in Backends /\ left = Object /\ entries = {} /\ shrunk = {} /\ failing = {}
        /\ producer = "range" /\ writer = "range" /\ torn = None /\ staging = "none"
        /\ stream = "run" /\ upload = "start" /\ record = "none"
        /\ multipart = FALSE /\ stored = FALSE /\ down = FALSE
    BY DEF InitRestore, Init
  <2> QED
    BY <2>1, <2>2, <2>3 DEF BackTypes
<1>2. RestTypes
  BY DEF InitRestore, RestTypes, Calls
<1> QED
  BY <1>1, <1>2 DEF Types

LEMMA NextTypes == ASSUME Types, [Next]_allVars PROVE Types'
<1>1. CASE UNCHANGED allVars
  BY <1>1 DEF allVars, vars, restore, pipeline, pod, uploader, around, Types, BackTypes, RestTypes
<1>2. CASE Back /\ UNCHANGED restore
  BY <1>2, BackTyped DEF restore, Types, RestTypes
<1>3. CASE \E o \in Object : LiveWrite(o)
  BY <1>3, KeepsTypes DEF LiveWrite, Types, RestTypes
<1> QED
  BY <1>1, <1>2, <1>3, DeploysTyped DEF Next, Deploys

\* Every variable of a backup and of the deploys that restore it keeps its type.
THEOREM TypeCorrect == Spec => []TypeOK
<1>1. Types /\ [Next]_allVars => Types'
  BY NextTypes
<1>2. Types => TypeOK
  BY DEF Types, BackTypes, RestTypes, TypeOK
<1> QED
  BY <1>1, <1>2, InitTypes, PTL DEF Spec
-----------------------------------------------------------------------------
(* The backup. *)

\* An object is listed, on its way through the pipeline, or in the archive.
Held(o) == \/ o \in left \cup entries \/ producer = o \/ fetch[o] \in {"read", "send"}
           \/ writer = o \/ torn = o

\* No object is lost unless a group of goroutines has failed; the goroutines end in their
\* order, the failure of the fetchers with that of the streamer.
PipeInv ==
  /\ stream \notin {"remove", "fail"}
  /\ failing = {} => \A o \in Object : Held(o)
  /\ producer \in {"wait", "ended"} => left = {} \/ upload = "failed" \/ "stream" \in failing
  /\ producer = "ended" => "stream" \in failing \/ (InFlight = {} /\ "fetchers" \notin failing)
  /\ writer = "ended" => "stream" \in failing \/ producer = "ended"
  /\ stream = "ok" => "stream" \notin failing /\ producer = "ended" /\ writer = "ended"
  /\ stored => stream = "ok" /\ Whole

Archived == entries \cup ({torn} \ {None}) = Object

BackInv ==
  /\ backend = "s3" => PipeInv
  /\ backend # "s3" /\ stream \in {"remove", "ok"} => Archived
  /\ backend # "minio" => staging = "none" /\ stream \notin {"remove", "fail"}
  /\ stream \in {"ok", "error"} => staging # "there"
  /\ upload = "done" => stored
  /\ record \in {"row", "linked"} => stored /\ stream = "ok" /\ Archived

\* A deploy marks what it has put as a whole; without a race it is the only one to put, and
\* DHIS2 runs on what is marked.
RestInv ==
  /\ \A d \in Deploy :
       deploy[d] \in {"make", "check", "restore", "mark", "sync"} => record = "linked"
  /\ \A d \in Deploy : \A o \in put[d] : content[o] # "none"
  /\ \A d \in Deploy : deploy[d] = "mark" => put[d] = entries /\ torn = None
  /\ MarkedIsWhole /\ (marker => record = "linked")
  /\ ~raced => \A d, e \in Deploy : {deploy[d], deploy[e]} \subseteq {"restore", "mark"} => d = e
  /\ ~raced /\ marker => \A d \in Deploy : deploy[d] # "restore"
  /\ \A d \in Deploy : deploy[d] = "sync" => marker
  /\ running => marker \/ early
  /\ \A o \in Object : content[o] = "live" => running
  /\ RestoredOnce
LEMMA InitInv == InitRestore => BackInv /\ RestInv
<1> SUFFICES ASSUME InitRestore PROVE BackInv /\ RestInv
  OBVIOUS
<1>1. PipeInv
  BY DEF InitRestore, Init, PipeInv, Held
<1>2. BackInv
  BY <1>1 DEF InitRestore, Init, BackInv
<1>3. RestInv
  BY DEF InitRestore, Init, RestInv, MarkedIsWhole, RestoredOnce
<1> QED
  BY <1>2, <1>3

\* Until the streamer of the s3 backend has ended well, nothing is stored or recorded.
LEMMA StreamerStep ==
  ASSUME BackInv, backend = "s3", stream \in {"run", "error"}, PipeInv',
         UNCHANGED <<backend, staging, upload, stored, record>>,
         stream' \in {"run", "ok", "error"}
  PROVE  BackInv'
BY DEF BackInv

LEMMA PipeStep ==
  ASSUME BackTypes, BackInv, backend = "s3", stream \in {"run", "error"},
         UNCHANGED <<upload, stored, stream>>,
         failing \subseteq failing',
         failing' = {} => \A o \in Object : Held(o)',
         producer' \in {"wait", "ended"} => left' = {} \/ upload = "failed" \/ "stream" \in failing',
         producer' = "ended" => "stream" \in failing' \/ (InFlight' = {} /\ "fetchers" \notin failing'),
         writer' = "ended" => "stream" \in failing' \/ producer' = "ended"
  PROVE  PipeInv'
BY DEF BackInv, PipeInv

LEMMA ProducerInv == ASSUME BackTypes, BackInv, Producer PROVE BackInv'
<1> USE BackupAssumption DEF BackTypes, pipeline, pod, uploader, around, ListError, ReturnError
<1>1. /\ Running /\ UNCHANGED <<backend, staging, upload, stored, record, stream, entries, torn>>
      /\ failing \subseteq failing'
  <2>1. CASE \E o \in Object : TakeSmall(o) \/ TakeLarge(o) \/ HandLarge(o)
    BY <2>1 DEF TakeSmall, TakeLarge, HandLarge
  <2>2. CASE ListFails \/ LargeCanceled
    BY <2>2 DEF ListFails, LargeCanceled
  <2>3. CASE ListCloses \/ Waited
    BY <2>3 DEF ListCloses, Waited
  <2> QED
    BY <2>1, <2>2, <2>3 DEF Producer
<1>2. PipeInv
  BY <1>1 DEF BackInv, Running
<1>3. ASSUME NEW o \in Object, TakeSmall(o) PROVE PipeInv'
  BY <1>1, <1>2, <1>3, PipeStep DEF TakeSmall, PipeInv, Held
<1>4. ASSUME NEW o \in Object, TakeLarge(o) PROVE PipeInv'
  BY <1>1, <1>2, <1>4, PipeStep DEF TakeLarge, IsLarge, PipeInv, Held
<1>5. ASSUME NEW o \in Object, HandLarge(o) PROVE PipeInv'
  BY <1>1, <1>2, <1>5, PipeStep DEF HandLarge, PipeInv, Held
<1>6. ASSUME ListFails \/ LargeCanceled PROVE PipeInv'
  <2>1. /\ "stream" \in failing' /\ UNCHANGED writer
    BY <1>6 DEF ListFails, LargeCanceled
  <2>2. failing' # {}
    BY <2>1
  <2> HIDE DEF BackTypes
  <2> QED
    BY <1>1, <2>1, <2>2, PipeStep DEF Running
<1>7. ASSUME ListCloses PROVE PipeInv'
  <2>1. /\ producer = "range" /\ producer' = "wait" /\ UNCHANGED <<left, fetch, failing, writer>>
        /\ left = {} \/ upload = "failed"
    BY <1>1, <1>7 DEF ListCloses, Canceled, Running
  <2>2. failing' = {} => \A o \in Object : Held(o)'
    BY <1>1, <1>2, <2>1 DEF PipeInv, Held
  <2> QED
    BY <1>1, <1>2, <2>1, <2>2, PipeStep DEF PipeInv, Running
<1>8. ASSUME Waited PROVE PipeInv'
  <2>1. /\ producer = "wait" /\ producer' = "ended" /\ InFlight = {}
        /\ "fetchers" \in failing => "stream" \in failing'
        /\ "fetchers" \notin failing => failing' = failing
        /\ UNCHANGED <<left, fetch, writer>>
    BY <1>8 DEF Waited
  <2>2. failing' = {} => \A o \in Object : Held(o)'
    BY <1>1, <1>2, <2>1 DEF PipeInv, Held
  <2>3. InFlight' = {}
    BY <2>1 DEF InFlight
  <2> QED
    BY <1>1, <1>2, <2>1, <2>2, <2>3, PipeStep DEF PipeInv, Running
<1> QED
  BY <1>1, <1>3, <1>4, <1>5, <1>6, <1>7, <1>8, StreamerStep DEF Producer, Running

LEMMA FetchersInv == ASSUME BackTypes, BackInv, Fetchers PROVE BackInv'
<1> USE BackupAssumption DEF BackTypes, pipeline, pod, uploader, around
<1>1. /\ backend = "s3" /\ InFlight # {} /\ failing \subseteq failing'
      /\ UNCHANGED <<backend, staging, upload, stored, record, stream, entries, torn, left, producer>>
  BY DEF Fetchers, Fetched, FetchFails, HandSmall, FetchCanceled, Panic, Fetching, Running, InFlight
<1>2. PipeInv /\ stream \in {"run", "error"}
  BY <1>1 DEF BackInv, PipeInv
<1>3. ASSUME NEW o \in Object, Fetched(o) PROVE PipeInv'
  BY <1>1, <1>2, <1>3, PipeStep DEF Fetched, PipeInv, Held, InFlight
<1>4. ASSUME NEW o \in Object, FetchFails(o) \/ FetchCanceled(o) PROVE PipeInv'
  <2>1. /\ o \in InFlight /\ "fetchers" \in failing' /\ failing' \ {"fetchers"} \subseteq failing
        /\ UNCHANGED writer
    BY <1>4 DEF FetchFails, FetchCanceled, InFlight
  <2> QED
    BY <1>1, <1>2, <2>1, PipeStep DEF PipeInv, Running
<1>5. ASSUME NEW o \in Object, HandSmall(o) PROVE PipeInv'
  BY <1>1, <1>2, <1>5, PipeStep DEF HandSmall, PipeInv, Held, InFlight
<1>6. ASSUME NEW o \in Object, Panic(o) PROVE PipeInv'
  BY <1>1, <1>2, <1>6, PipeStep DEF Panic, PipeInv, Held, InFlight
<1> QED
  BY <1>1, <1>2, <1>3, <1>4, <1>5, <1>6, StreamerStep DEF Fetchers

LEMMA WriterInv == ASSUME BackTypes, BackInv, Writer PROVE BackInv'
<1> USE BackupAssumption DEF BackTypes, pipeline, pod, uploader, around
<1>1. ASSUME NEW o \in Object, Shrink(o) PROVE BackInv'
  BY <1>1 DEF Shrink, BackInv, PipeInv, Held, InFlight, Whole, Archived
<1>2. ASSUME NEW o \in Object, WriteEntry(o) PROVE BackInv'
  <2>1. /\ Running /\ writer = o /\ writer' = "range" /\ torn = None
        /\ entries \subseteq entries' /\ (o \in entries' \/ torn' = o)
        /\ UNCHANGED <<backend, left, producer, fetch, failing, staging, stream, upload, stored, record>>
    BY <1>2 DEF WriteEntry, Writable
  <2>2. PipeInv
    BY <2>1 DEF BackInv, Running
  <2>3. PipeInv'
    BY <2>1, <2>2, PipeStep DEF PipeInv, Held, InFlight
  <2> QED
    BY <2>1, <2>3, StreamerStep DEF Running
<1>3. ASSUME NEW o \in Object, WriteFails(o) PROVE BackInv'
  <2>1. /\ Running /\ failing' = failing \cup {"stream"}
        /\ UNCHANGED <<backend, left, producer, fetch, staging, stream, upload, stored, record>>
    BY <1>3 DEF WriteFails
  <2>2. PipeInv
    BY <2>1 DEF BackInv, Running
  <2>3. PipeInv'
    BY <2>1, <2>2, PipeStep DEF PipeInv, InFlight, Running
  <2> QED
    BY <2>1, <2>3, StreamerStep DEF Running
<1>4. CASE WriterEnds
  <2>1. PipeInv /\ Running
    BY <1>4 DEF BackInv, Running, WriterEnds
  <2>2. PipeInv'
    BY <1>4, <2>1, PipeStep DEF WriterEnds, PipeInv, Held, InFlight
  <2> QED
    BY <1>4, <2>1, <2>2, StreamerStep DEF WriterEnds, Running
<1>5. CASE StreamEnds
  <2>1. /\ Running /\ producer = "ended" /\ writer = "ended"
        /\ stream' \in {"ok", "error"} /\ (stream' = "ok" => "stream" \notin failing)
        /\ UNCHANGED <<backend, pipeline, pod, uploader, around>>
    BY <1>5 DEF StreamEnds
  <2>2. PipeInv
    BY <2>1 DEF BackInv, Running
  <2>3. ~stored
    BY <2>1, <2>2 DEF PipeInv, Running
  <2>4. PipeInv'
    BY <2>1, <2>2, <2>3 DEF PipeInv, Held, InFlight
  <2> QED
    BY <2>1, <2>4, StreamerStep DEF Running
<1> QED
  BY <1>1, <1>2, <1>3, <1>4, <1>5 DEF Writer
LEMMA PodInv == ASSUME BackTypes, BackInv, Pod PROVE BackInv'
<1> USE BackupAssumption DEF BackTypes, pipeline, pod, uploader, around
<1>1. /\ Up /\ backend # "s3" /\ UNCHANGED <<backend, upload, stored, record, torn>>
      /\ entries' \in {entries, Object} /\ stream \notin {"ok", "error"}
  BY DEF Pod, Mirror, TarFromPod, PodFails, RemoveStaging, Filesystem, Minio, BackInv, PipeInv
<1>2. record \notin {"row", "linked"}
  BY <1>1 DEF BackInv
<1>3. CASE Mirror
  BY <1>1, <1>2, <1>3 DEF Mirror, Minio, BackInv, Archived
<1>4. CASE TarFromPod
  <2>1. entries' = Object /\ UNCHANGED staging
        /\ stream' = IF backend = "minio" THEN "remove" ELSE "ok"
    BY <1>4 DEF TarFromPod
  <2>2. Archived'
    BY <1>1, <2>1 DEF Archived
  <2> QED
    BY <1>1, <1>2, <2>1, <2>2 DEF BackInv
<1>5. CASE PodFails
  <2>1. /\ stream' = IF staging' = "there" THEN "fail" ELSE "error"
        /\ backend # "minio" => UNCHANGED staging
        /\ UNCHANGED entries
    BY <1>5 DEF PodFails, Minio
  <2> QED
    BY <1>1, <1>2, <2>1 DEF BackInv
<1>6. CASE RemoveStaging
  <2>1. /\ staging' \in {"removed", "stays"} /\ UNCHANGED entries
        /\ stream' = IF stream = "remove" THEN "ok" ELSE "error"
        /\ stream \in {"remove", "fail"}
    BY <1>6 DEF RemoveStaging, RemoveDeferred
  <2>2. stream = "remove" => Archived'
    BY <1>1, <2>1 DEF BackInv, Archived
  <2> QED
    BY <1>1, <1>2, <2>1, <2>2 DEF BackInv
<1> QED
  BY <1>3, <1>4, <1>5, <1>6 DEF Pod

LEMMA UploaderInv == ASSUME BackTypes, BackInv, Uploader PROVE BackInv'
<1> USE BackupAssumption DEF BackTypes, pipeline, pod, uploader, around
<1>1. /\ UNCHANGED <<backend, pipeline, pod, stream, record>>
      /\ upload \in {"start", "run"}
      /\ upload' = "done" => stored'
      /\ stored => stored'
      /\ stored' => stored \/ stream = "ok" \/ backend # "s3"
  BY DEF Uploader, Initiate, InitiateFails, UploadFails, Complete
<1>2. ASSUME backend = "s3" PROVE PipeInv'
  <2>1. PipeInv
    BY <1>2 DEF BackInv
  <2>2. stream = "ok" => Whole
    BY <1>1, <2>1 DEF PipeInv, Held, InFlight, Whole
  <2> QED
    BY <1>1, <1>2, <2>1, <2>2 DEF PipeInv, Held, InFlight, Whole
<1>3. Archived => Archived'
  BY <1>1 DEF Archived
<1> QED
  BY <1>1, <1>2, <1>3 DEF BackInv

LEMMA RecorderInv == ASSUME BackTypes, BackInv, Recorder PROVE BackInv'
<1> USE BackupAssumption DEF BackTypes, pipeline, pod, uploader, around
<1>1. /\ UNCHANGED <<backend, pipeline, pod, stream, uploader>>
      /\ record' \in {"row", "linked"} => record = "row" \/ Succeeded
  BY DEF Recorder, RecordBackup, LinkBackup, RecordFails
<1>2. PipeInv => PipeInv'
  BY <1>1 DEF PipeInv, Held, InFlight, Whole
<1>3. Archived => Archived'
  BY <1>1 DEF Archived
<1>4. record' \in {"row", "linked"} => stored /\ stream = "ok" /\ Archived
  BY <1>1 DEF BackInv, PipeInv, Succeeded, Whole, Archived
<1> QED
  BY <1>1, <1>2, <1>3, <1>4 DEF BackInv

LEMMA BackStep == ASSUME BackTypes, BackInv, Back PROVE BackInv'
BY ProducerInv, FetchersInv, WriterInv, PodInv, UploaderInv, RecorderInv, BackParts

-----------------------------------------------------------------------------
(* The restore. *)

\* A backup that is linked is at rest.
LEMMA LinkedRests ==
  ASSUME BackTypes, BackInv, Back, record = "linked"
  PROVE  record' = "linked" /\ UNCHANGED <<entries, torn>>
<1> USE DEF pipeline, pod, uploader, around, BackTypes
<1>1. stream = "ok"
  BY DEF BackInv
<1>2. ~Producer
  BY <1>1 DEF Producer, TakeSmall, TakeLarge, HandLarge, ListFails, LargeCanceled, ListCloses,
              Waited, Running
<1>6. ~Fetchers
  BY <1>1 DEF Fetchers, Fetched, FetchFails, HandSmall, FetchCanceled, Panic, Running, Fetching,
              BackInv, PipeInv, InFlight
<1>3. ~Writer /\ ~Pod
  BY <1>1 DEF Writer, Shrink, WriteEntry, WriteFails, WriterEnds, StreamEnds, Running,
              Pod, Mirror, TarFromPod, PodFails, RemoveStaging, Filesystem, Minio
<1>4. CASE Uploader
  BY <1>4 DEF Uploader, Initiate, InitiateFails, UploadFails, Complete
<1>5. CASE Recorder
  BY <1>5 DEF Recorder, RecordBackup, LinkBackup, RecordFails
<1> QED
  BY <1>2, <1>3, <1>4, <1>5, <1>6, BackParts

LEMMA BackKeeps == ASSUME Types, BackInv, RestInv, Back, UNCHANGED restore PROVE RestInv'
<1> USE DEF restore
<1>1. marker \/ (\E d \in Deploy : deploy[d] \in {"make", "check", "restore", "mark", "sync"})
        => record' = "linked" /\ UNCHANGED <<entries, torn>>
  BY LinkedRests DEF RestInv, Types
<1> QED
  BY <1>1 DEF RestInv, MarkedIsWhole, RestoredOnce
\* Whoever marks has put everything, and without a race nobody else is at it.
LEMMA MayMark ==
  ASSUME Types, BackInv, RestInv, NEW d \in Deploy, deploy[d] = "mark"
  PROVE  /\ record = "linked" /\ torn = None /\ \A o \in Object : content[o] # "none"
         /\ ~raced => \A e \in Deploy : deploy[e] # "restore"
BY DEF Types, BackTypes, BackInv, RestInv, Archived

LEMMA DeploysKeep == ASSUME Types, BackInv, RestInv, Deploys PROVE RestInv'
<1> USE DEF Types, RestTypes, Step, Calls
<1>1. UNCHANGED <<record, entries, torn>>
  BY DEF Deploys, SkipRestore, SyncBare, EnsureBucket, MakeBucket, CheckMarker, RestoreEnds, Mark,
         Sync, CallFails, PutEntry, vars, pipeline, around
<1>2. ASSUME NEW d \in Deploy, EnsureBucket(d) PROVE RestInv'
  BY <1>1, <1>2 DEF EnsureBucket, RestInv, MarkedIsWhole, RestoredOnce
<1>3. ASSUME NEW d \in Deploy, MakeBucket(d) PROVE RestInv'
  BY <1>1, <1>3 DEF MakeBucket, RestInv, MarkedIsWhole, RestoredOnce
<1>4. ASSUME NEW d \in Deploy, CheckMarker(d) PROVE RestInv'
  BY <1>1, <1>4 DEF CheckMarker, Restored, RestInv, MarkedIsWhole, RestoredOnce
<1>5. ASSUME NEW d \in Deploy, RestoreEnds(d) PROVE RestInv'
  BY <1>1, <1>5 DEF RestoreEnds, ArchiveEnds, RestInv, MarkedIsWhole, RestoredOnce
<1>6. ASSUME NEW d \in Deploy, Mark(d) PROVE RestInv'
  BY <1>1, <1>6, MayMark DEF Mark, RestInv, MarkedIsWhole, RestoredOnce
<1>7. ASSUME NEW d \in Deploy, Sync(d) PROVE RestInv'
  BY <1>1, <1>7 DEF Sync, RestInv, MarkedIsWhole, RestoredOnce
<1>10. ASSUME NEW d \in Deploy, SkipRestore(d) \/ SyncBare(d) PROVE RestInv'
  BY <1>1, <1>10 DEF SkipRestore, SyncBare, RestInv, MarkedIsWhole, RestoredOnce
<1>8. ASSUME NEW d \in Deploy, CallFails(d) PROVE RestInv'
  <2>1. /\ deploy' = [deploy EXCEPT ![d] = "failed"]
        /\ UNCHANGED <<put, bucket, content, overwritten, raced>>
    BY <1>8 DEF CallFails
  <2>2. CASE UNCHANGED <<marker, running, early>>
    BY <1>1, <2>1, <2>2 DEF RestInv, MarkedIsWhole, RestoredOnce
  <2>3. CASE deploy[d] = "mark" /\ marker' = TRUE /\ UNCHANGED <<running, early>>
    BY <1>1, <2>1, <2>3, MayMark DEF RestInv, MarkedIsWhole, RestoredOnce
  <2>4. CASE deploy[d] = "sync" /\ running' = TRUE /\ UNCHANGED <<marker, early>>
    BY <1>1, <2>1, <2>4 DEF RestInv, MarkedIsWhole, RestoredOnce
  <2>5. CASE running' = TRUE /\ early' = TRUE /\ UNCHANGED marker
    BY <1>1, <2>1, <2>5 DEF RestInv, MarkedIsWhole, RestoredOnce
  <2> QED
    BY <1>8, <2>2, <2>3, <2>4, <2>5 DEF CallFails
<1>9. ASSUME NEW d \in Deploy, NEW o \in Object, PutEntry(d, o) PROVE RestInv'
  <2>1. /\ deploy[d] = "restore" /\ put' = [put EXCEPT ![d] = @ \cup {o}]
        /\ content' = [content EXCEPT ![o] = "backup"]
        /\ UNCHANGED <<deploy, bucket, marker, running, early, raced>>
    BY <1>9 DEF PutEntry
  <2>2. \A p \in Object : /\ content'[p] = "live" => content[p] = "live"
                          /\ content[p] # "none" => content'[p] # "none"
    BY <2>1
  <2>3. \A e \in Deploy : \A p \in put'[e] : content'[p] # "none"
    BY <2>1, <2>2 DEF RestInv
  <2>4. RestoredOnce'
    <3>1. CASE content[o] = "live" /\ ~early
      BY <2>1, <3>1 DEF RestInv, RestoredOnce
    <3>2. CASE content[o] # "live" \/ early
      BY <1>9, <2>1, <3>2 DEF PutEntry, RestInv, RestoredOnce
    <3> QED
      BY <3>1, <3>2
  <2>5. \A e \in Deploy : deploy[e] = "mark" => put'[e] = put[e]
    BY <2>1
  <2> QED
    BY <1>1, <2>1, <2>2, <2>3, <2>4, <2>5 DEF RestInv, MarkedIsWhole
<1> QED
  BY <1>2, <1>3, <1>4, <1>5, <1>6, <1>7, <1>8, <1>9, <1>10 DEF Deploys

LEMMA NextInv ==
  ASSUME Types, BackInv, RestInv, [Next]_allVars PROVE (BackInv /\ RestInv)'
<1>1. CASE Back /\ UNCHANGED restore
  BY <1>1, BackStep, BackKeeps DEF Types
<1>2. ASSUME UNCHANGED vars \/ \E d \in Deploy : CallFails(d) PROVE BackInv'
  <2>1. UNCHANGED <<backend, pipeline, pod, stream, uploader, shrunk, record, down>>
    BY <1>2 DEF CallFails, vars, around
  <2> QED
    BY <2>1 DEF pipeline, pod, uploader, BackInv, PipeInv, Held, InFlight, Whole, Archived
<1>3. CASE Deploys
  <2>1. UNCHANGED vars \/ \E d \in Deploy : CallFails(d)
    BY <1>3 DEF Deploys, SkipRestore, SyncBare, EnsureBucket, MakeBucket, CheckMarker, RestoreEnds,
                Mark, Sync, PutEntry
  <2> QED
    BY <1>2, <1>3, <2>1, DeploysKeep
<1>4. ASSUME NEW o \in Object, LiveWrite(o) PROVE (BackInv /\ RestInv)'
  <2>1. RestInv'
    BY <1>4 DEF LiveWrite, vars, pipeline, around, RestInv, MarkedIsWhole, RestoredOnce, Types,
                RestTypes
  <2> QED
    BY <1>2, <1>4, <2>1 DEF LiveWrite
<1>5. CASE UNCHANGED allVars
  BY <1>2, <1>5 DEF allVars, restore, vars, pipeline, around, RestInv, MarkedIsWhole, RestoredOnce
<1> QED
  BY <1>1, <1>3, <1>4, <1>5 DEF Next, Deploys

LEMMA AlwaysInv == Spec => [](Types /\ BackInv /\ RestInv)
<1>1. Types /\ BackInv /\ RestInv /\ [Next]_allVars => (Types /\ BackInv /\ RestInv)'
  BY NextTypes, NextInv
<1> QED
  BY <1>1, InitTypes, InitInv, PTL DEF Spec

\* Whatever fails in the listing, a fetcher, the writer, the pod, the upload or the
\* recording, what is stored of an external bucket, or recorded, has an entry for every
\* object that was listed; the last entry may be shorter than its header says.
THEOREM BackupsWhole == Spec => []BackupIsWhole
<1>1. Types /\ BackInv /\ RestInv => BackupIsWhole
  BY DEF BackInv, PipeInv, BackupIsWhole, Archived
<1> QED
  BY <1>1, AlwaysInv, PTL

\* A backup that has ended leaves its copy in the pod only if removing it has failed.
THEOREM StagingGone == Spec => []StagingRemoved
<1>1. Types /\ BackInv /\ RestInv => StagingRemoved
  BY DEF BackInv, StagingRemoved
<1> QED
  BY <1>1, AlwaysInv, PTL

\* However many deploys restore a backup at once, and whatever fails, a bucket that has the
\* marker has every object.
THEOREM MarkedWhole == Spec => []MarkedIsWhole
<1>1. Types /\ BackInv /\ RestInv => MarkedIsWhole
  BY DEF RestInv
<1> QED
  BY <1>1, AlwaysInv, PTL

\* Unless two deploys have restored at the same time, or DHIS2 had been deployed on the
\* bucket without a restore, a restore writes over nothing that DHIS2 has written.
THEOREM RestoresOnce == Spec => []RestoredOnce
<1>1. Types /\ BackInv /\ RestInv => RestoredOnce
  BY DEF RestInv
<1> QED
  BY <1>1, AlwaysInv, PTL

(* How many objects are in memory. *)

LEMMA OneMore ==
  ASSUME NEW S, IsFiniteSet(S), NEW x
  PROVE  IsFiniteSet(S \cup {x}) /\ Cardinality(S \cup {x}) <= Cardinality(S) + 1
<1>1. Cardinality(S) \in Nat
  BY FS_CardinalityType
<1>2. CASE x \in S
  <2>1. S \cup {x} = S
    BY <1>2
  <2>2. Cardinality(S) <= Cardinality(S) + 1
    BY <1>1
  <2>3. IsFiniteSet(S) /\ Cardinality(S) <= Cardinality(S) + 1
    BY <2>2
  <2> QED
    BY <2>1, <2>3, Zenon
<1>3. CASE x \notin S
  BY <1>1, <1>3, FS_AddElement
<1> QED
  BY <1>2, <1>3

FlightInv == IsFiniteSet(InFlight) /\ Cardinality(InFlight) <= Workers

LEMMA Fewer ==
  ASSUME FlightInv, InFlight' \subseteq InFlight PROVE FlightInv'
<1>1. IsFiniteSet(InFlight') /\ Cardinality(InFlight') <= Cardinality(InFlight)
  BY FS_Subset DEF FlightInv
<1>2. Cardinality(InFlight) \in Nat /\ Cardinality(InFlight') \in Nat
  BY <1>1, FS_CardinalityType DEF FlightInv
<1> QED
  BY <1>1, <1>2, BackupAssumption DEF FlightInv

LEMMA InitFlight == InitRestore => FlightInv
<1> SUFFICES ASSUME InitRestore PROVE FlightInv
  OBVIOUS
<1>1. InFlight = {}
  BY DEF InitRestore, Init, InFlight
<1> QED
  BY <1>1, FS_EmptySet, BackupAssumption DEF FlightInv

\* Only taking a small object adds one, and that waits for a slot.
LEMMA TakeFlight ==
  ASSUME BackTypes, FlightInv, NEW o \in Object, TakeSmall(o) PROVE FlightInv'
<1>1. InFlight' \subseteq InFlight \cup {o}
  BY DEF TakeSmall, InFlight, BackTypes
<1>2. IsFiniteSet(InFlight \cup {o}) /\ Cardinality(InFlight \cup {o}) <= Cardinality(InFlight) + 1
  BY OneMore DEF FlightInv
<1>3. IsFiniteSet(InFlight') /\ Cardinality(InFlight') <= Cardinality(InFlight \cup {o})
  BY <1>1, <1>2, FS_Subset
<1>4. /\ Cardinality(InFlight) \in Nat /\ Cardinality(InFlight') \in Nat
      /\ Cardinality(InFlight \cup {o}) \in Nat
  BY <1>2, <1>3, FS_CardinalityType DEF FlightInv
<1>5. Cardinality(InFlight) < Workers
  BY DEF TakeSmall, FreeSlot
<1> QED
  BY <1>2, <1>3, <1>4, <1>5, BackupAssumption DEF FlightInv

LEMMA NextFlight ==
  ASSUME Types, FlightInv, [Next]_allVars PROVE FlightInv'
<1>1. ASSUME NEW o \in Object, TakeSmall(o) PROVE FlightInv'
  BY <1>1, TakeFlight DEF Types
<1>2. ASSUME InFlight' \subseteq InFlight PROVE FlightInv'
  BY <1>2, Fewer
<1>3. CASE UNCHANGED fetch
  BY <1>2, <1>3 DEF InFlight
<1>4. CASE Producer
  <2>1. (\E o \in Object : TakeSmall(o)) \/ UNCHANGED fetch
    BY <1>4 DEF Producer, TakeLarge, HandLarge, ListFails, ListError, ReturnError, LargeCanceled,
                ListCloses, Waited
  <2> QED
    BY <1>1, <1>3, <2>1
<1>5. CASE Fetchers
  <2>1. InFlight' \subseteq InFlight
    BY <1>5 DEF Fetchers, Fetched, FetchFails, HandSmall, FetchCanceled, Panic, pipeline, InFlight,
                Types, BackTypes
  <2> QED
    BY <1>2, <2>1
<1>6. CASE Writer \/ Pod \/ Uploader \/ Recorder
  <2>1. CASE Writer
    BY <1>3, <2>1 DEF Writer, Shrink, WriteEntry, WriteFails, WriterEnds, StreamEnds, pipeline
  <2>2. CASE Pod
    BY <1>3, <2>2 DEF Pod, Mirror, TarFromPod, PodFails, RemoveStaging, pipeline
  <2>3. CASE Uploader
    BY <1>3, <2>3 DEF Uploader, Initiate, InitiateFails, UploadFails, Complete, pipeline
  <2>4. CASE Recorder
    BY <1>3, <2>4 DEF Recorder, RecordBackup, LinkBackup, RecordFails, pipeline
  <2> QED
    BY <1>6, <2>1, <2>2, <2>3, <2>4
<1>7. CASE Deploys
  BY <1>3, <1>7 DEF Deploys, SkipRestore, SyncBare, EnsureBucket, MakeBucket, CheckMarker,
                    RestoreEnds, Mark, Sync, PutEntry,
                    CallFails, vars, pipeline
<1>8. CASE \E o \in Object : LiveWrite(o)
  BY <1>3, <1>8 DEF LiveWrite, vars, pipeline
<1>9. CASE UNCHANGED allVars
  BY <1>3, <1>9 DEF allVars, vars, pipeline
<1> QED
  BY <1>4, <1>5, <1>6, <1>7, <1>8, <1>9, BackParts DEF Next, Deploys

\* Whatever fails, at most one small object more than there are fetchers is in memory: each
\* fetcher's, and the one that the writer is at.
THEOREM FewInMemory == Spec => []Bounded
<1>1. FlightInv => Bounded
  <2> SUFFICES ASSUME FlightInv PROVE Bounded
    OBVIOUS
  <2> DEFINE InMemory == {o \in Object \ Large : writer = o \/ fetch[o] \in {"read", "send"}}
  <2>1. InMemory \subseteq InFlight \cup {writer}
    BY DEF InFlight
  <2>2. IsFiniteSet(InFlight \cup {writer})
        /\ Cardinality(InFlight \cup {writer}) <= Cardinality(InFlight) + 1
    BY OneMore DEF FlightInv
  <2>3. IsFiniteSet(InMemory) /\ Cardinality(InMemory) <= Cardinality(InFlight \cup {writer})
    BY <2>1, <2>2, FS_Subset
  <2>4. /\ Cardinality(InFlight) \in Nat /\ Cardinality(InMemory) \in Nat
        /\ Cardinality(InFlight \cup {writer}) \in Nat
    BY <2>2, <2>3, FS_CardinalityType DEF FlightInv
  <2> QED
    BY <2>2, <2>3, <2>4, BackupAssumption DEF FlightInv, Bounded
<1>2. Types /\ FlightInv /\ [Next]_allVars => (Types /\ FlightInv)'
  BY NextTypes, NextFlight
<1>3. Spec => [](Types /\ FlightInv)
  BY <1>2, InitTypes, InitFlight, PTL DEF Spec
<1> QED
  BY <1>1, <1>3, PTL

-----------------------------------------------------------------------------
(* A backup ends: what BackupEnds says, without the fairness.                 *)

\* A goroutine of the streamer can take a step that no call has to fail for: those of the
\* pipeline are never all waiting to hand something over or for a slot.
StreamerGoesOn ==
  \/ producer = "range" /\ (left = {} \/ \E o \in left : o \in Large \/ FreeSlot)
  \/ producer \in Large /\ (writer = "range" \/ FetchersCanceled)
  \/ producer = "wait" /\ InFlight = {}
  \/ producer = "ended" /\ writer \in {"range", "ended"}
  \/ \E o \in Object : \/ fetch[o] = "read" \/ writer = o
                       \/ fetch[o] = "send" /\ (writer = "range" \/ FetchersCanceled)

\* So can the streamer, the uploader, or the request that waits for both.
GoesOn ==
  \/ stream = "run" /\ (backend = "s3" => StreamerGoesOn)
  \/ stream \in {"remove", "fail"}
  \/ upload = "start"
  \/ upload = "run" /\ stream \in {"ok", "error"}
  \/ record = "row"
  \/ record = "none" /\ (Succeeded \/ BackupFailed)

Over == down \/ record \in {"linked", "failed"}

\* Some goroutine of the backup can go on, or the backup is over.
NoneWaits == Over \/ GoesOn

\* No goroutine waits forever for another: until the backup is over one can go on, with
\* whatever has failed, been canceled or been closed before (writeTarGz, PerformBackup).
THEOREM NeverStuck == Spec => []NoneWaits
<1>1. Types /\ BackInv /\ RestInv => NoneWaits
  <2> SUFFICES ASSUME BackTypes, BackInv, ~Over, ~GoesOn PROVE FALSE
    BY DEF NoneWaits, Types
  <2>1. /\ record = "none" /\ upload \in {"run", "done", "failed"}
        /\ stream \in {"run", "ok", "error"}
    BY DEF Over, GoesOn, BackTypes
  <2>2. stream = "run"
    BY <2>1 DEF GoesOn, Succeeded, BackupFailed, Canceled
  <2>3. PipeInv /\ ~StreamerGoesOn
    BY <2>2 DEF GoesOn, BackInv
  <2>4. writer \in {"range", "ended"} /\ producer # "ended"
    BY <2>3 DEF StreamerGoesOn, BackTypes
  <2>5. writer = "range" \/ FetchersCanceled
    BY <2>3, <2>4 DEF PipeInv, FetchersCanceled, StreamCanceled
  <2>6. InFlight = {}
    BY <2>3, <2>5 DEF StreamerGoesOn, InFlight
  <2>7. producer = "range"
    BY <2>3, <2>4, <2>5, <2>6 DEF StreamerGoesOn, BackTypes
  <2>8. Cardinality(InFlight) = 0
    BY <2>6, FS_EmptySet
  <2>9. FreeSlot
    BY <2>8, BackupAssumption DEF FreeSlot
  <2> QED
    BY <2>3, <2>7, <2>9 DEF StreamerGoesOn, BackTypes
<1> QED
  BY <1>1, AlwaysInv, PTL

\* How far an object has come: listed, taken, read, written.
Stage(o) ==
  CASE o \in left                        -> 0
    [] producer = o \/ fetch[o] = "read" -> 1
    [] fetch[o] = "send"                 -> 2
    [] writer = o                        -> 3
    [] OTHER                             -> 4

\* How far everyone has come.
AtProducer == CASE producer = "wait" -> 1 [] producer = "ended" -> 2 [] OTHER -> 0
AtWriter   == IF writer = "ended" THEN 1 ELSE 0
AtStaging  == CASE staging = "none" -> 0 [] staging = "there" -> 1 [] OTHER -> 2
AtStream   == CASE stream = "run" -> 0 [] stream \in {"remove", "fail"} -> 1 [] OTHER -> 2
AtUpload   == CASE upload = "start" -> 0 [] upload = "run" -> 1 [] OTHER -> 2
AtRecord   == CASE record = "none" -> 0 [] record = "row" -> 1 [] OTHER -> 2

\* Nothing goes back, and something goes on: as there are finitely many objects, the steps
\* of a backup are finitely many.
NothingBack ==
  /\ \A o \in Object : Stage(o) <= Stage(o)'
  /\ shrunk \subseteq shrunk' /\ (down => down')
  /\ AtProducer <= AtProducer' /\ AtWriter <= AtWriter' /\ AtStaging <= AtStaging'
  /\ AtStream <= AtStream' /\ AtUpload <= AtUpload' /\ AtRecord <= AtRecord'

SomethingOn ==
  \/ \E o \in Object : Stage(o) < Stage(o)'
  \/ shrunk # shrunk' \/ (down' /\ ~down)
  \/ AtProducer < AtProducer' \/ AtWriter < AtWriter' \/ AtStaging < AtStaging'
  \/ AtStream < AtStream' \/ AtUpload < AtUpload' \/ AtRecord < AtRecord'

\* An object is in one place; the copy in the pod is made before it is removed.
PlaceInv ==
  /\ \A o \in Object :
       /\ producer = o \/ writer = o \/ fetch[o] # "none" => o \notin left
       /\ producer = o => fetch[o] = "none" /\ writer # o
       /\ writer = o => fetch[o] \notin {"read", "send"}
       /\ o \in Large => fetch[o] = "none"
  /\ stream = "run" => staging \in {"none", "there"}

LEMMA InitPlace == InitRestore => PlaceInv
BY BackupAssumption DEF InitRestore, Init, PlaceInv

LEMMA NextPlace == ASSUME Types, PlaceInv, [Next]_allVars PROVE PlaceInv'
<1> USE BackupAssumption DEF Types, BackTypes, PlaceInv
<1>1. CASE Producer
  <2> USE DEF pod, ListError, ReturnError
  <2>1. ASSUME NEW o \in Object, TakeSmall(o) PROVE PlaceInv'
    BY <2>1 DEF TakeSmall
  <2>2. ASSUME NEW o \in Object, TakeLarge(o) PROVE PlaceInv'
    BY <2>2 DEF TakeLarge, IsLarge
  <2>3. ASSUME NEW o \in Object, HandLarge(o) PROVE PlaceInv'
    BY <2>3 DEF HandLarge
  <2>4. CASE ListFails \/ LargeCanceled
    BY <2>4 DEF ListFails, LargeCanceled
  <2>5. CASE ListCloses \/ Waited
    BY <2>5 DEF ListCloses, Waited
  <2> QED
    BY <1>1, <2>1, <2>2, <2>3, <2>4, <2>5 DEF Producer
<1>2. CASE Fetchers
  <2> USE DEF pipeline, pod
  <2>1. ASSUME NEW o \in Object, Fetched(o) \/ FetchFails(o) \/ FetchCanceled(o) PROVE PlaceInv'
    BY <2>1 DEF Fetched, FetchFails, FetchCanceled
  <2>2. ASSUME NEW o \in Object, HandSmall(o) PROVE PlaceInv'
    BY <2>2 DEF HandSmall
  <2>3. ASSUME NEW o \in Object, Panic(o) PROVE PlaceInv'
    BY <2>3 DEF Panic
  <2> QED
    BY <1>2, <2>1, <2>2, <2>3 DEF Fetchers
<1>3. CASE Writer
  BY <1>3 DEF Writer, Shrink, WriteEntry, WriteFails, WriterEnds, StreamEnds, pipeline, pod
<1>4. CASE Pod
  BY <1>4 DEF Pod, Mirror, TarFromPod, PodFails, RemoveStaging, Filesystem, Minio, pipeline, pod
<1>5. CASE Uploader \/ Recorder
  BY <1>5 DEF Uploader, Initiate, InitiateFails, UploadFails, Complete, Recorder, RecordBackup,
              LinkBackup, RecordFails, pipeline, pod
<1>6. CASE Deploys
  BY <1>6 DEF Deploys, SkipRestore, SyncBare, EnsureBucket, MakeBucket, CheckMarker,
                    RestoreEnds, Mark, Sync, PutEntry,
              CallFails, vars, pipeline, pod
<1>7. CASE \E o \in Object : LiveWrite(o)
  BY <1>7 DEF LiveWrite, vars, pipeline, pod
<1>8. CASE UNCHANGED allVars
  BY <1>8 DEF allVars, vars, pipeline, pod
<1> QED
  BY <1>1, <1>2, <1>3, <1>4, <1>5, <1>6, <1>7, <1>8, BackParts DEF Next, Deploys

\* The pipeline goes on: the object that it is about has come further, or a goroutine.
LEMMA PipelineForth ==
  ASSUME BackTypes, UNCHANGED <<staging, stream, upload, record, shrunk, down>>,
         \A o \in Object : Stage(o) <= Stage(o)',
         AtProducer <= AtProducer', AtWriter <= AtWriter',
         \/ \E o \in Object : Stage(o) < Stage(o)'
         \/ AtProducer < AtProducer' \/ AtWriter < AtWriter'
  PROVE  NothingBack /\ SomethingOn
BY DEF NothingBack, SomethingOn, AtStaging, AtStream, AtUpload, AtRecord

\* The objects stay where they are.
LEMMA SameStages ==
  ASSUME UNCHANGED <<left, fetch>>,
         \A o \in Object : (producer' = o <=> producer = o) /\ (writer' = o <=> writer = o)
  PROVE  \A o \in Object : Stage(o)' = Stage(o) /\ Stage(o) <= Stage(o)'
BY DEF Stage

LEMMA ProducerForth ==
  ASSUME BackTypes, PlaceInv, Producer PROVE NothingBack /\ SomethingOn
<1> USE BackupAssumption DEF pod, uploader, around, ListError, ReturnError, BackTypes
<1>1. UNCHANGED <<staging, stream, upload, record, shrunk, down>>
  BY DEF Producer, TakeSmall, TakeLarge, HandLarge, ListFails, LargeCanceled, ListCloses, Waited
<1>2. ASSUME NEW o \in Object, TakeSmall(o) \/ TakeLarge(o) PROVE NothingBack /\ SomethingOn
  <2>1. Stage(o) = 0 /\ Stage(o)' = 1
    BY <1>2 DEF TakeSmall, TakeLarge, Stage, PlaceInv
  <2>2. \A p \in Object \ {o} : Stage(p)' = Stage(p) /\ Stage(p) <= Stage(p)'
    BY <1>2 DEF TakeSmall, TakeLarge, Stage
  <2>3. AtProducer' = 0 /\ AtProducer = 0 /\ AtWriter' = AtWriter /\ AtWriter <= AtWriter'
    BY <1>2 DEF TakeSmall, TakeLarge, AtProducer, AtWriter
  <2> QED
    BY <1>1, <2>1, <2>2, <2>3, PipelineForth
<1>3. ASSUME NEW o \in Object, HandLarge(o) PROVE NothingBack /\ SomethingOn
  <2>1. Stage(o) = 1 /\ Stage(o)' = 3
    BY <1>3 DEF HandLarge, Stage, PlaceInv
  <2>2. \A p \in Object \ {o} : Stage(p)' = Stage(p) /\ Stage(p) <= Stage(p)'
    BY <1>3 DEF HandLarge, Stage
  <2>3. AtProducer' = 0 /\ AtProducer = 0 /\ AtWriter' = 0 /\ AtWriter = 0
    BY <1>3 DEF HandLarge, AtProducer, AtWriter
  <2> QED
    BY <1>1, <2>1, <2>2, <2>3, PipelineForth
<1>4. CASE LargeCanceled
  <2>1. PICK o \in Large : producer = o
    BY <1>4 DEF LargeCanceled
  <2>2. Stage(o) = 1 /\ Stage(o)' = 4
    BY <1>4, <2>1 DEF LargeCanceled, Stage, PlaceInv
  <2>3. \A p \in Object \ {o} : Stage(p)' = Stage(p) /\ Stage(p) <= Stage(p)'
    BY <1>4, <2>1 DEF LargeCanceled, Stage
  <2>4. AtProducer' = 2 /\ AtProducer = 0 /\ AtWriter' = AtWriter /\ AtWriter <= AtWriter'
    BY <1>4, <2>1 DEF LargeCanceled, AtProducer, AtWriter
  <2> QED
    BY <1>1, <2>2, <2>3, <2>4, PipelineForth
<1>5. CASE ListFails \/ ListCloses \/ Waited
  <2>1. \A o \in Object : Stage(o)' = Stage(o) /\ Stage(o) <= Stage(o)'
    BY <1>5, SameStages DEF ListFails, ListCloses, Waited
  <2>2. AtProducer < AtProducer' /\ AtProducer <= AtProducer' /\ AtWriter <= AtWriter'
    BY <1>5 DEF ListFails, ListCloses, Waited, AtProducer, AtWriter
  <2> QED
    BY <1>1, <2>1, <2>2, PipelineForth
<1> QED
  BY <1>2, <1>3, <1>4, <1>5 DEF Producer

LEMMA FetchersForth ==
  ASSUME BackTypes, PlaceInv, Fetchers PROVE NothingBack /\ SomethingOn
<1> USE BackupAssumption DEF pod, uploader, around, BackTypes
<1>1. ASSUME NEW o \in Object, Fetched(o) \/ FetchFails(o) \/ HandSmall(o) \/ FetchCanceled(o)
      PROVE  NothingBack /\ SomethingOn
  <2>1. UNCHANGED <<staging, stream, upload, record, shrunk, down, left, producer>>
    BY <1>1 DEF Fetched, FetchFails, HandSmall, FetchCanceled
  <2>2. /\ fetch[o] \in {"read", "send"} /\ o \notin left /\ producer # o /\ writer # o
        /\ \/ fetch[o] = "read" /\ fetch'[o] \in {"send", "end"}
           \/ fetch[o] = "send" /\ fetch'[o] = "end"
    BY <1>1 DEF Fetched, FetchFails, HandSmall, FetchCanceled, PlaceInv
  <2>3. Stage(o) < Stage(o)' /\ Stage(o) <= Stage(o)'
    BY <2>1, <2>2 DEF Stage
  <2>4. \A p \in Object \ {o} : fetch'[p] = fetch[p] /\ (writer' = p <=> writer = p)
    BY <1>1 DEF Fetched, FetchFails, HandSmall, FetchCanceled
  <2>5. \A p \in Object \ {o} : Stage(p)' = Stage(p) /\ Stage(p) <= Stage(p)'
    BY <2>1, <2>4 DEF Stage
  <2>6. AtProducer <= AtProducer' /\ AtWriter <= AtWriter'
    BY <1>1, <2>1 DEF Fetched, FetchFails, HandSmall, FetchCanceled, AtProducer, AtWriter
  <2> QED
    BY <2>1, <2>3, <2>5, <2>6, PipelineForth
<1>2. ASSUME NEW o \in Object, Panic(o) PROVE NothingBack /\ SomethingOn
  <2>1. /\ UNCHANGED <<left, producer, fetch, writer, staging, stream, upload, record, shrunk>>
        /\ ~down /\ down'
    BY <1>2 DEF Panic, Fetching, Up, pipeline
  <2>2. \A p \in Object : Stage(p) <= Stage(p)'
    BY <2>1, SameStages
  <2> QED
    BY <2>1, <2>2 DEF NothingBack, SomethingOn, AtProducer, AtWriter, AtStaging, AtStream, AtUpload,
                      AtRecord
<1> QED
  BY <1>1, <1>2 DEF Fetchers

LEMMA WriterForth ==
  ASSUME BackTypes, PlaceInv, Writer PROVE NothingBack /\ SomethingOn
<1> USE BackupAssumption DEF pod, uploader, around, BackTypes
<1>1. ASSUME NEW o \in Object, Shrink(o) PROVE NothingBack /\ SomethingOn
  <2>1. /\ UNCHANGED <<left, producer, fetch, writer, staging, stream, upload, record, down>>
        /\ shrunk \subseteq shrunk' /\ shrunk # shrunk'
    BY <1>1 DEF Shrink, pipeline
  <2>2. \A p \in Object : Stage(p) <= Stage(p)'
    BY <2>1, SameStages
  <2> QED
    BY <2>1, <2>2 DEF NothingBack, SomethingOn, AtProducer, AtWriter, AtStaging, AtStream, AtUpload,
                      AtRecord
<1>2. ASSUME NEW o \in Object, WriteEntry(o) \/ WriteFails(o) PROVE NothingBack /\ SomethingOn
  <2>1. /\ UNCHANGED <<staging, stream, upload, record, shrunk, down, left, producer, fetch>>
        /\ writer = o /\ writer' \in {"range", "ended"}
    BY <1>2 DEF WriteEntry, WriteFails
  <2>2. Stage(o) = 3 /\ Stage(o)' = 4
    BY <2>1 DEF Stage, PlaceInv
  <2>3. \A p \in Object \ {o} : Stage(p)' = Stage(p) /\ Stage(p) <= Stage(p)'
    BY <2>1 DEF Stage
  <2>4. AtProducer <= AtProducer' /\ AtWriter <= AtWriter'
    BY <2>1 DEF AtProducer, AtWriter
  <2> QED
    BY <2>1, <2>2, <2>3, <2>4, PipelineForth
<1>3. CASE WriterEnds
  <2>1. /\ UNCHANGED <<staging, stream, upload, record, shrunk, down, left, producer, fetch>>
        /\ writer = "range" /\ writer' = "ended"
    BY <1>3 DEF WriterEnds
  <2>2. \A p \in Object : Stage(p) <= Stage(p)'
    BY <2>1, SameStages
  <2>3. AtProducer <= AtProducer' /\ AtWriter < AtWriter' /\ AtWriter <= AtWriter'
    BY <2>1 DEF AtProducer, AtWriter
  <2> QED
    BY <2>1, <2>2, <2>3, PipelineForth
<1>4. CASE StreamEnds
  <2>1. /\ UNCHANGED <<left, producer, fetch, writer, staging, upload, record, shrunk, down>>
        /\ stream = "run" /\ stream' \in {"ok", "error"}
    BY <1>4 DEF StreamEnds, Running, pipeline
  <2>2. \A p \in Object : Stage(p) <= Stage(p)'
    BY <2>1, SameStages
  <2> QED
    BY <2>1, <2>2 DEF NothingBack, SomethingOn, AtProducer, AtWriter, AtStaging, AtStream, AtUpload,
                      AtRecord
<1> QED
  BY <1>1, <1>2, <1>3, <1>4 DEF Writer

\* The other goroutines, and the request.
LEMMA OthersForth ==
  ASSUME BackTypes, BackInv, PlaceInv, Pod \/ Uploader \/ Recorder
  PROVE  NothingBack /\ SomethingOn
<1> USE BackupAssumption DEF pod, uploader, around, BackTypes
<1>1. UNCHANGED <<left, producer, fetch, writer, shrunk, down>>
  BY DEF Pod, Mirror, TarFromPod, PodFails, RemoveStaging, Uploader, Initiate, InitiateFails,
         UploadFails, Complete, Recorder, RecordBackup, LinkBackup, RecordFails, pipeline
<1>2. \A p \in Object : Stage(p) <= Stage(p)'
  BY <1>1, SameStages
<1>3. AtProducer <= AtProducer' /\ AtWriter <= AtWriter'
  BY <1>1 DEF AtProducer, AtWriter
<1>4. CASE Pod
  <2>1. UNCHANGED <<upload, record>>
    BY <1>4 DEF Pod, Mirror, TarFromPod, PodFails, RemoveStaging
  <2>2. /\ stream \in {"run", "remove", "fail"}
        /\ AtStaging <= AtStaging' /\ AtStream <= AtStream'
        /\ AtStaging < AtStaging' \/ AtStream < AtStream'
    BY <1>4 DEF Pod, Mirror, TarFromPod, PodFails, RemoveStaging, RemoveDeferred, Filesystem, Minio,
                PlaceInv, AtStaging, AtStream
  <2>3. AtUpload <= AtUpload' /\ AtRecord <= AtRecord'
    BY <2>1 DEF AtUpload, AtRecord
  <2> QED
    BY <1>1, <1>2, <1>3, <2>2, <2>3 DEF NothingBack, SomethingOn
<1>5. CASE Uploader
  <2>1. UNCHANGED <<staging, stream, record>> /\ AtUpload < AtUpload' /\ AtUpload <= AtUpload'
    BY <1>5 DEF Uploader, Initiate, InitiateFails, UploadFails, Complete, AtUpload
  <2>2. AtStaging <= AtStaging' /\ AtStream <= AtStream' /\ AtRecord <= AtRecord'
    BY <2>1 DEF AtStaging, AtStream, AtRecord
  <2> QED
    BY <1>1, <1>2, <1>3, <2>1, <2>2 DEF NothingBack, SomethingOn
<1>6. CASE Recorder
  <2>1. UNCHANGED <<staging, stream, upload>> /\ AtRecord < AtRecord' /\ AtRecord <= AtRecord'
    BY <1>6 DEF Recorder, RecordBackup, LinkBackup, RecordFails, AtRecord
  <2>2. AtStaging <= AtStaging' /\ AtStream <= AtStream' /\ AtUpload <= AtUpload'
    BY <2>1 DEF AtStaging, AtStream, AtUpload
  <2> QED
    BY <1>1, <1>2, <1>3, <2>1, <2>2 DEF NothingBack, SomethingOn
<1> QED
  BY <1>4, <1>5, <1>6

\* Every step of a backup, one that fails included, takes an object, a goroutine or the
\* request further, and none takes any back: with NeverStuck and finitely many objects, a
\* backup whose goroutines run ends.
THEOREM OnlyForth == Spec => [][Back => NothingBack /\ SomethingOn]_allVars
<1>1. Types /\ BackInv /\ PlaceInv /\ Back => NothingBack /\ SomethingOn
  BY ProducerForth, FetchersForth, WriterForth, OthersForth, BackParts DEF Types
<1>2. Spec => []PlaceInv
  <2>1. Types /\ PlaceInv /\ [Next]_allVars => (Types /\ PlaceInv)'
    BY NextTypes, NextPlace
  <2> QED
    BY <2>1, InitTypes, InitPlace, PTL DEF Spec
<1>3. Types /\ BackInv /\ RestInv /\ PlaceInv /\ [Next]_allVars
        => [Back => NothingBack /\ SomethingOn]_allVars
  BY <1>1
<1> QED
  BY <1>2, <1>3, AlwaysInv, PTL DEF Spec
===============================================================================
