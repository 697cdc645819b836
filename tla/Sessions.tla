------------------------------- MODULE Sessions -------------------------------
(***************************************************************************)
(* Signing in and out (src/pkg/user, src/pkg/token): the refresh tokens in *)
(* Redis, which every refresh replaces by a new one, over the accounts and *)
(* groups that change at the same time.                                    *)
(*                                                                         *)
(* A refresh token is known to Redis by its user and its id.  An access    *)
(* token is only signed and known to nobody.                               *)
(***************************************************************************)
EXTENDS Groups

CONSTANTS
  SignedIn   \* the accounts with a session at first

ASSUME SessionsAssumption == SignedIn \subseteq Account

Token == Account \cup Request
Key   == UserId \X Token

VARIABLES
  store,  \* the keys in Redis
  issued, \* the refresh tokens that clients have: keys, some of which have gone
  uses    \* history: token -> how often it was accepted

redis == <<store, issued, uses>>
vars  == <<accounts, directory, redis, pc, req, faults>>

Init ==
  /\ InitGroups
  /\ store = {<<u, u>> : u \in SignedIn}
  /\ issued = store
  /\ uses = [t \in Token |-> 0]

-----------------------------------------------------------------------------
(* Getting tokens. *)

Elsewhere == <<accounts, directory>>

\* A token has an id of its own.
NewKey(r) == <<req[r].user, r>>

SetRefreshToken(k) == store' = store \cup {k} /\ issued' = issued \cup {k}

\* GetTokens, after the previous token, if any, is deleted.
Issue(r) ==
  /\ At(r, "issue")
  /\ Finish(r)
  /\ SetRefreshToken(NewKey(r))
  /\ UNCHANGED <<Elsewhere, uses>>

\* With the password it has; the account must be validated.
MaySignIn(u) == users[u].validated

\* POST /tokens.
BeginSignIn(r) ==
  /\ \E u \in Known :
       /\ MaySignIn(u)
       /\ Begin(r, IF users[u].legacy THEN "rehash" ELSE "issue", FindByEmail(u))
  /\ UNCHANGED <<Elsewhere, redis>>

Rehashed(row) == [row EXCEPT !.legacy = FALSE]

\* The password is hashed anew and the user is signed in, saved or not.
MigrateLegacyPassword(r) ==
  /\ At(r, "rehash")
  /\ Goto(r, "issue")
  /\ \/ SaveByEmail(r, Rehashed(req[r].row))
     \/ UNCHANGED Elsewhere
  /\ UNCHANGED redis

\* GET /auth/{provider}/callback: FirstOrCreate, by address; the memberships are not
\* read.
BeginSSO(r) ==
  /\ \E a \in Address :
       \/ WithEmail(a) = {} /\ Begin(r, "provision", [Idle EXCEPT !.user = r, !.with = a])
       \/ \E u \in WithEmail(a) :
            Begin(r, IF users[u].validated THEN "issue" ELSE "admit", FindBare(u))
  /\ UNCHANGED <<Elsewhere, redis>>

Provision(r) ==
  LET row == NewUser(r, req[r].with) IN
  /\ At(r, "provision")
  /\ IF EmailFree(r, req[r].with)
     THEN /\ Insert(r, row)
          /\ pc' = [pc EXCEPT ![r] = "admit"]
          /\ req' = [req EXCEPT ![r] = [Idle EXCEPT !.user = r, !.row = row]]
     ELSE UNCHANGED accounts /\ Finish(r)
  /\ UNCHANGED <<directory, redis>>

\* A failing save ends the request: nobody is signed in.
Admit(r) ==
  LET row == ValidatedRow(req[r].row) IN
  /\ At(r, "admit")
  /\ IF Refused(r, row) THEN Finish(r) ELSE Goto(r, "issue")
  /\ SaveUser(r, row)
  /\ UNCHANGED <<directory, redis>>

-----------------------------------------------------------------------------
(* POST /refresh. *)

\* ValidateRefreshToken: the tokens with our signature whose time is not over.
Verified == issued

\* The user of the token is still there.
BeginRefresh(r) ==
  /\ \E k \in Verified : Exists(k[1]) /\ Begin(r, "rotate", [Idle EXCEPT !.user = k[1], !.tokens = {k}])
  /\ UNCHANGED <<Elsewhere, redis>>

\* Mutant: the number of keys that Del has deleted is not looked at.
DelSucceeds(r) == TRUE

Deleted(r) == req[r].tokens \subseteq store

\* DeleteRefreshToken: whoever deletes the key goes on.
Rotate(r) ==
  /\ At(r, "rotate")
  /\ IF Deleted(r)
     THEN /\ store' = store \ req[r].tokens
          /\ uses' = [t \in Token |-> IF <<req[r].user, t>> \in req[r].tokens
                                      THEN uses[t] + 1 ELSE uses[t]]
          /\ pc' = [pc EXCEPT ![r] = "issue"]
          /\ req' = [req EXCEPT ![r].tokens = {}]
     ELSE UNCHANGED <<store, uses>> /\ Finish(r)
  /\ UNCHANGED <<Elsewhere, issued>>

Expire ==
  /\ \E k \in store : store' = store \ {k} /\ issued' = issued \ {k}
  /\ UNCHANGED <<Elsewhere, uses, pc, req, faults>>

-----------------------------------------------------------------------------
(* DELETE /users. *)

KeysOf(u) == {k \in store : k[1] = u}

\* parseRequest: an access token, expired or not, says who signs out.
Bearers == {k[1] : k \in issued}

\* Every key that is there during the whole scan is found.
BeginSignOut(r) ==
  /\ \E u \in Bearers : Begin(r, "scan", [Idle EXCEPT !.user = u, !.tokens = KeysOf(u)])
  /\ UNCHANGED <<Elsewhere, redis>>

\* Keys that were added since may be found as well.
Del(r) ==
  /\ At(r, "scan")
  /\ \E k \in KeysOf(req[r].user) : store' = store \ {k}
  /\ UNCHANGED <<Elsewhere, issued, uses, pc, req>>

\* Mutant: the last key of the scan is left out.
ScannedPage(r) == \E k \in req[r].tokens : req[r].tokens \cap store \subseteq {k}

Scanned(r) == req[r].tokens \cap store = {}

\* What was there at first stays in the request for SignedOut to see.
SignOut(r) ==
  /\ At(r, "scan")
  /\ Scanned(r)
  /\ pc' = [pc EXCEPT ![r] = "done"]
  /\ UNCHANGED <<Elsewhere, redis, req>>

-----------------------------------------------------------------------------
(* Failures: a statement fails, its connection breaks after it has worked, or the     *)
(* server stops.                                                                      *)

Fault == faults < MaxFaults /\ faults' = faults + 1

\* The request ends with an error.  A failing Del is counted, and the scan goes on.
Stop(r) ==
  /\ r \in Pending /\ Fault
  /\ Finish(r)
  /\ UNCHANGED <<Elsewhere, redis>>

LoseAnswer(r) ==
  /\ pc[r] = "rotate" /\ Deleted(r) /\ Fault
  /\ store' = store \ req[r].tokens
  /\ Finish(r)
  /\ UNCHANGED <<Elsewhere, issued, uses>>

Crash ==
  /\ Pending # {} /\ Fault
  /\ pc' = [r \in Request |-> IF r \in Pending THEN "done" ELSE pc[r]]
  /\ req' = [r \in Request |-> IF r \in Pending THEN Idle ELSE req[r]]
  /\ UNCHANGED <<Elsewhere, redis>>

Next ==
  \/ NextGroups /\ UNCHANGED redis
  \/ Expire \/ Crash
  \/ \E r \in Request :
       \/ BeginSignIn(r)  \/ MigrateLegacyPassword(r)
       \/ BeginSSO(r)     \/ Provision(r) \/ Admit(r)
       \/ BeginRefresh(r) \/ Rotate(r)    \/ LoseAnswer(r)
       \/ BeginSignOut(r) \/ Del(r)       \/ SignOut(r)
       \/ Issue(r)        \/ Stop(r)

Spec == Init /\ [][Next]_vars

-----------------------------------------------------------------------------
(* What must hold. *)

Where == Ended \cup {"create", "validate", "update", "remind", "reset", "delete",
                     "addUser", "removeUser", "addAdminUser", "removeAdminUser",
                     "createGroup", "updateGroup", "addCluster", "removeCluster",
                     "saveInstance", "updateInstance",
                     "createCluster", "updateCluster", "deleteCluster",
                     "rehash", "provision", "admit", "issue", "rotate", "scan"}

Request_ == [user : UserId \cup {None},
             on : Group \cup Cluster \cup Request \cup {None},
             with : Address \cup Cluster \cup {None},
             row : Row \cup {NoUser},
             groups : SUBSET Group, adminOf : SUBSET Group, clusters : SUBSET Cluster,
             tokens : SUBSET Key]

\* Every variable has its type; memberships refer to users, and links to groups and
\* clusters that exist.
TypeOK ==
  /\ users \in [UserId -> Row \cup {NoUser}]
  /\ members \subseteq Known \X groups /\ admins \subseteq Known \X groups
  /\ lapsed \subseteq Request /\ spent \subseteq Request \cup {None} /\ restored \subseteq UserId
  /\ groups \subseteq Group /\ clusters \subseteq Cluster
  /\ link \in [Group -> clusters \cup {None}]
  /\ store \subseteq issued /\ issued \subseteq Key
  /\ uses \in [Token -> Nat]
  /\ pc \in [Request -> Where] /\ req \in [Request -> Request_]
  /\ faults \in 0..MaxFaults

\* TokenService.GetTokens: a refresh token is good for one refresh, however many
\* requests present it at once and whatever fails in between.
OneTime == \A t \in Token : uses[t] <= 1

\* DeleteRefreshTokens: once a sign-out has succeeded, none of the tokens that the user
\* had when it began is in Redis or ever comes back, although others refresh and sign
\* in meanwhile.
SignedOut == \A r \in Request : pc[r] = "done" => req[r].tokens \cap store = {}
===============================================================================
