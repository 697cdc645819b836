---------------------------- MODULE MCDeployments ----------------------------
(***************************************************************************)
(* Instances of Deployments for TLC.  The stacks are those of stack.go that *)
(* DHIS2 is deployed with; the variants are values of STORAGE_TYPE.        *)
(***************************************************************************)
EXTENDS Deployments, TLC

CONSTANTS db, core, minio, pgadmin,  \* stacks
          minioStorage, filesystem,  \* variants
          p1, p2, p3, p4, p5, p6     \* requests

StackRequires  == [s \in Stack |-> IF s = db THEN {} ELSE {db}]
StackCompanion == [sv \in Stack \X Variant |->
                     IF sv = <<core, minioStorage>> THEN {minio} \cap Stack ELSE {}]
StackDefault   == [s \in Stack |-> minioStorage]
StackErases    == [s \in Stack |-> CASE s = core    -> {core, minio} \cap Stack
                                     [] s = pgadmin -> {}
                                     [] OTHER       -> {s}]

DbOnly   == db :> minioStorage
DbCore   == (db :> minioStorage) @@ (core :> filesystem)
DbMinio  == (db :> minioStorage) @@ (minio :> minioStorage)
AllThree == DbMinio @@ (core :> minioStorage)

Same == [p \in Request |-> InitialTTL]

\* Every operation, one at a time.
SerialOp   == (p1 :> "saveInstance") @@ (p2 :> "deploy") @@ (p3 :> "deleteInstance")
              @@ (p4 :> "updateInstance") @@ (p5 :> "reset") @@ (p6 :> "updateDeployment")
SerialOn   == (p1 :> core) @@ (p2 :> core) @@ (p3 :> minio) @@ (p4 :> core)
              @@ (p5 :> db) @@ (p6 :> db)
SerialWith == (p1 :> None) @@ (p2 :> None) @@ (p3 :> None) @@ (p4 :> filesystem)
              @@ (p5 :> None) @@ (p6 :> None)
SerialTTL  == [Same EXCEPT ![p6] = InitialTTL + 1]

\* Deployments and deletions, one at a time.
OrderOp   == (p1 :> "saveInstance") @@ (p2 :> "deploy") @@ (p3 :> "deleteInstance")
             @@ (p4 :> "deleteDeployment") @@ (p5 :> "deploy")
OrderOn   == (p1 :> core) @@ (p2 :> core) @@ (p3 :> core) @@ (p4 :> core) @@ (p5 :> core)
OrderWith == [p \in Request |-> minioStorage]

\* Operations that install nothing, at once.
DeletesOp   == (p1 :> "saveInstance") @@ (p2 :> "deleteInstance") @@ (p3 :> "deleteDeployment")
               @@ (p4 :> "updateDeployment")
DeletesOn   == (p1 :> core) @@ (p2 :> core) @@ (p3 :> db) @@ (p4 :> db)
DeletesWith == [p \in Request |-> filesystem]

\* Deletions and a deployment of a deployment that expires.
TtlOp   == (p1 :> "deleteInstance") @@ (p2 :> "deleteDeployment") @@ (p3 :> "deploy")
TtlOn   == [p \in Request |-> core]
TtlWith == [p \in Request |-> None]
=============================================================================
