-------------------------------- MODULE Stacks --------------------------------
(***************************************************************************)
(* The stacks that can be deployed (src/pkg/stack/stack.go, chap.go), and  *)
(* what New requires of them.  Of the parameters of a stack it has those    *)
(* that are consumed, by it or by another.                                 *)
(***************************************************************************)
EXTENDS Naturals, FiniteSets, TLC

\* A stack: what it requires, the parameters it has of its own, those it consumes,
\* and those it has a provider for.
DHIS2DB == [requires |-> {}, consumed |-> {}, provides |-> {"DATABASE_HOSTNAME"},
            own |-> {"DATABASE_ID", "DATABASE_NAME", "DATABASE_PASSWORD", "DATABASE_USERNAME"}]

MINIO == [requires |-> {"dhis2-db"}, consumed |-> {"DATABASE_ID"}, own |-> {},
          provides |-> {"MINIO_HOSTNAME"}]

DHIS2Core == [requires |-> {"dhis2-db"}, own |-> {}, provides |-> {},
              consumed |-> {"DATABASE_HOSTNAME", "DATABASE_NAME",
                            "DATABASE_PASSWORD", "DATABASE_USERNAME"}]

DHIS2 == [DHIS2DB EXCEPT !.requires = {}]

PgAdmin == [requires |-> {"dhis2-db"}, own |-> {}, provides |-> {},
            consumed |-> {"DATABASE_HOSTNAME", "DATABASE_NAME", "DATABASE_USERNAME"}]

WhoamiGo == [requires |-> {}, consumed |-> {}, own |-> {}, provides |-> {}]

IMJobRunner == [requires |-> {}, consumed |-> {}, own |-> {}, provides |-> {}]

ChapDB == [requires |-> {}, consumed |-> {}, own |-> {"DATABASE_NAME", "DATABASE_PASSWORD"},
           provides |-> {"DATABASE_HOSTNAME", "DATABASE_SECRET"}]

ChapValkey == [requires |-> {}, consumed |-> {}, own |-> {},
               provides |-> {"REDIS_HOST", "REDIS_SECRET"}]

ChapWorker == [requires |-> {"chap-db", "chap-valkey"}, own |-> {}, provides |-> {},
               consumed |-> {"DATABASE_HOSTNAME", "DATABASE_SECRET", "DATABASE_NAME",
                             "REDIS_HOST", "REDIS_SECRET"}]

ChapCore == ChapWorker

Catalogue ==
  ("dhis2-db" :> DHIS2DB) @@ ("minio" :> MINIO) @@ ("dhis2-core" :> DHIS2Core) @@
  ("dhis2" :> DHIS2) @@ ("pgadmin" :> PgAdmin) @@ ("whoami-go" :> WhoamiGo) @@
  ("im-job-runner" :> IMJobRunner) @@ ("chap-db" :> ChapDB) @@
  ("chap-valkey" :> ChapValkey) @@ ("chap-worker" :> ChapWorker) @@ ("chap-core" :> ChapCore)

Stack == DOMAIN Catalogue

\* No set of stacks has each of them require another of the set.
ValidateNoCycles(stacks) ==
  \A S \in SUBSET DOMAIN stacks : S # {} => \E s \in S : stacks[s].requires \cap S = {}

\* The ways a stack gets the parameter from those it requires.
Sources(stacks, s, p) ==
  {<<r, "parameter">> : r \in {r \in stacks[s].requires : p \in stacks[r].own}} \cup
  {<<r, "provider">>  : r \in {r \in stacks[s].requires : p \in stacks[r].provides}}

ValidateConsumedParameters(stacks) ==
  \A s \in DOMAIN stacks :
    /\ \A p \in stacks[s].consumed : Cardinality(Sources(stacks, s, p)) = 1
    /\ \A r \in stacks[s].requires :
         stacks[s].consumed \cap (stacks[r].own \cup stacks[r].provides) # {}

\* The program does not start with stacks that are not valid.
ASSUME CatalogueIsValid ==
  ValidateNoCycles(Catalogue) /\ ValidateConsumedParameters(Catalogue)
===============================================================================
