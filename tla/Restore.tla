-------------------------------- MODULE Restore -------------------------------
(***************************************************************************)
(* Restoring a filestore backup into an external S3 bucket, before an      *)
(* instance is deployed (restoreFilestoreToS3 of                           *)
(* src/pkg/instance/service.go, the last part of filestore.go).  The       *)
(* database of the backup is what the deploys of the instance are seeded   *)
(* from.  One action is one call; the requests may overlap, as nothing     *)
(* serializes them.                                                        *)
(***************************************************************************)
EXTENDS Backup

CONSTANTS
  Deploy,   \* requests that deploy the instance
  Hasty,    \* bound: those that may come before the filestore is linked
  Rewritten \* bound: the objects that DHIS2 creates or replaces

ASSUME RestoreAssumption == Hasty \subseteq Deploy /\ Rewritten \subseteq Object

VARIABLES
  deploy,      \* request -> what it is at
  put,         \* request -> the entries it has put into the bucket
  bucket,      \* the bucket exists
  content,     \* object -> what the bucket has: "none", "backup" or "live"
  marker,      \* .im-filestore-restored is in the bucket
  running,     \* DHIS2 has been deployed, and works on the bucket
  early,       \* history: DHIS2 has been deployed without a restore
  overwritten, \* the objects of DHIS2 that a restore has written over
  raced        \* a restore has started while another one was at work

restore == <<deploy, put, bucket, content, marker, running, early, overwritten, raced>>
allVars == <<vars, restore>>

\* The instance is new, or it has been deployed already, as the source of the backup has.
InitRestore ==
  /\ Init
  /\ deploy = [d \in Deploy |-> "start"]
  /\ put = [d \in Deploy |-> {}]
  /\ running \in BOOLEAN
  /\ early = running
  /\ bucket \in (IF running THEN {TRUE} ELSE BOOLEAN)
  /\ content = [o \in Object |-> IF running THEN "live" ELSE "none"]
  /\ marker = FALSE
  /\ overwritten = {}
  /\ raced = FALSE

\* The steps of a deploy: what it is at, and then.
Step(d, from, to) == Up /\ deploy[d] = from /\ deploy' = [deploy EXCEPT ![d] = to]

Calls == {"start", "bare", "make", "check", "restore", "mark", "sync"}

\* buildSeed finds no filestore linked to the database: nothing is restored, nor marked.
SkipRestore(d) ==
  /\ record # "linked" /\ d \in Hasty
  /\ Step(d, "start", "bare")
  /\ UNCHANGED <<vars, put, bucket, content, marker, running, early, overwritten, raced>>

\* It finds one.
EnsureBucket(d) ==
  /\ record = "linked"
  /\ Step(d, "start", IF bucket THEN "check" ELSE "make")
  /\ UNCHANGED <<vars, put, bucket, content, marker, running, early, overwritten, raced>>

MakeBucket(d) ==
  /\ ~bucket
  /\ Step(d, "make", "check")
  /\ bucket' = TRUE
  /\ UNCHANGED <<vars, put, content, marker, running, early, overwritten, raced>>

\* Mutant: the marker is not looked at.
NotLookedAt == FALSE

Restored == marker

CheckMarker(d) ==
  /\ Step(d, "check", IF Restored THEN "sync" ELSE "restore")
  /\ raced' = (raced \/ (~Restored /\ \E e \in Deploy : deploy[e] \in {"restore", "mark"}))
  /\ UNCHANGED <<vars, put, bucket, content, marker, running, early, overwritten>>

\* The entry that is too short is the last, and putting it fails.
PutEntry(d, o) ==
  /\ Up /\ deploy[d] = "restore" /\ o \in entries \ put[d]
  /\ put' = [put EXCEPT ![d] = @ \cup {o}]
  /\ content' = [content EXCEPT ![o] = "backup"]
  /\ overwritten' = IF content[o] = "live" THEN overwritten \cup {o} ELSE overwritten
  /\ UNCHANGED <<vars, deploy, bucket, marker, running, early, raced>>

\* Mutant: an entry that cannot be read ends the restore as the end of the archive does.
EntriesPut(d) == put[d] = entries

ArchiveEnds(d) == put[d] = entries /\ torn = None

RestoreEnds(d) ==
  /\ ArchiveEnds(d)
  /\ Step(d, "restore", "mark")
  /\ UNCHANGED <<vars, put, bucket, content, marker, running, early, overwritten, raced>>

Mark(d) ==
  /\ Step(d, "mark", "sync")
  /\ marker' = TRUE
  /\ UNCHANGED <<vars, put, bucket, content, running, early, overwritten, raced>>

Sync(d) ==
  /\ Step(d, "sync", "done")
  /\ running' = TRUE
  /\ UNCHANGED <<vars, put, bucket, content, marker, early, overwritten, raced>>

SyncBare(d) ==
  /\ Step(d, "bare", "done")
  /\ running' = TRUE /\ early' = TRUE
  /\ UNCHANGED <<vars, put, bucket, content, marker, overwritten, raced>>

\* A call fails: any, making a bucket that another request has made, and putting what the
\* archive has too little of.
Refused(d) ==
  \/ deploy[d] = "make" /\ bucket
  \/ deploy[d] = "restore" /\ put[d] = entries /\ torn # None

CallFails(d) ==
  /\ \E call \in Calls : Step(d, call, "failed")
  /\ IF Refused(d) THEN UNCHANGED faults ELSE Fault
  /\ \/ UNCHANGED <<marker, running, early>>
     \/ deploy[d] = "mark" /\ marker' = TRUE /\ UNCHANGED <<running, early>>
     \/ deploy[d] = "sync" /\ running' = TRUE /\ UNCHANGED <<marker, early>>
     \/ deploy[d] = "bare" /\ running' = TRUE /\ early' = TRUE /\ UNCHANGED marker
  /\ UNCHANGED <<backend, pipeline, pod, stream, uploader, shrunk, record, down>>
  /\ UNCHANGED <<put, bucket, content, overwritten, raced>>

\* DHIS2 creates or replaces an object; it makes a bucket that is not there.
LiveWrite(o) ==
  /\ running /\ o \in Rewritten /\ content[o] # "live"
  /\ content' = [content EXCEPT ![o] = "live"]
  /\ bucket' = TRUE
  /\ UNCHANGED <<vars, deploy, put, marker, running, early, overwritten, raced>>

Next ==
  \/ Back /\ UNCHANGED restore
  \/ \E d \in Deploy :
       \/ SkipRestore(d) \/ SyncBare(d)
       \/ EnsureBucket(d) \/ MakeBucket(d) \/ CheckMarker(d) \/ RestoreEnds(d)
       \/ Mark(d) \/ Sync(d) \/ CallFails(d)
       \/ \E o \in Object : PutEntry(d, o)
  \/ \E o \in Object : LiveWrite(o)

\* The goroutines run, and the calls to S3 and to the pods return.
Spec == InitRestore /\ [][Next]_allVars /\ WF_allVars(Back /\ UNCHANGED restore)

-----------------------------------------------------------------------------
(* Properties. *)

TypeOK ==
  /\ backend \in Backends
  /\ left \subseteq Object /\ entries \subseteq Object /\ shrunk \subseteq Large
  /\ producer \in {"range", "wait", "ended"} \cup Large
  /\ fetch \in [Object -> {"none", "read", "send", "end"}]
  /\ failing \subseteq {"stream", "fetchers"}
  /\ writer \in {"range", "ended"} \cup Object
  /\ torn \in {None} \cup Large
  /\ staging \in {"none", "there", "removed", "stays"}
  /\ stream \in {"run", "remove", "fail", "ok", "error"}
  /\ upload \in {"start", "run", "done", "failed"}
  /\ record \in {"none", "row", "linked", "failed"}
  /\ {multipart, stored, down, bucket, marker, running, early, raced} \subseteq BOOLEAN
  /\ faults \in 0..MaxFaults
  /\ deploy \in [Deploy -> Calls \cup {"done", "failed"}]
  /\ put \in [Deploy -> SUBSET Object]
  /\ content \in [Object -> {"none", "backup", "live"}]
  /\ overwritten \subseteq Object

\* The marker is in the bucket only if everything is: a backup with an entry that is too
\* short is never taken for restored, and a later deploy does not skip what is missing
\* (restoreFilestoreToS3, restoreTarGzToBucket).
MarkedIsWhole == marker => torn = None /\ \A o \in Object : content[o] # "none"

\* A restore writes over what DHIS2 has written only if two deploys restored at the same
\* time, or DHIS2 has been deployed on the bucket before, without a restore: its database
\* had no filestore yet, as that of the backup's own source.  Such a bucket has no marker,
\* and the first deploy with a filestore takes it for a fresh one (service.go 434-444,
\* filestore.go 179-189), which the marker's comment ("so a redeploy or update does not
\* re-restore over live filestore data", filestore.go 174-176) does not provide for.
RestoredOnce == overwritten # {} => raced \/ early
===============================================================================
