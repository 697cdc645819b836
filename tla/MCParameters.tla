----------------------------- MODULE MCParameters -----------------------------
(* Instances of Parameters for TLC: the databases 1 and 2, and two names.    *)
EXTENDS Parameters

CONSTANTS p1, p2, p3, p4, p5, p6

DbMinio == "dhis2-db" :> ("DATABASE_ID" :> 1 @@ "DATABASE_NAME" :> 1)
           @@ "minio" :> ("DATABASE_ID" :> 1)

\* Another database of another name, a minio that consumes it, a new instance, twice,
\* deploying them all, and a reset.
Ops     == p1 :> "updateInstance" @@ p2 :> "updateInstance" @@ p3 :> "saveInstance"
           @@ p4 :> "saveInstance" @@ p5 :> "deploy" @@ p6 :> "reset"
Targets == p1 :> "dhis2-db" @@ p2 :> "minio" @@ p3 :> "dhis2-core"
           @@ p4 :> "dhis2-core" @@ p5 :> "dhis2-db" @@ p6 :> "dhis2-db"
Given   == p1 :> ("DATABASE_ID" :> 2 @@ "DATABASE_NAME" :> 2) @@ p2 :> NoRow @@ p3 :> NoRow
           @@ p4 :> NoRow @@ p5 :> NoRow @@ p6 :> NoRow
===============================================================================
