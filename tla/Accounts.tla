------------------------------- MODULE Accounts -------------------------------
(***************************************************************************)
(* The accounts of users and their memberships (src/pkg/user,              *)
(* src/pkg/group), as the requests that overlap read and write them.       *)
(*                                                                         *)
(* A request is one call of the API: it begins with what it reads, which   *)
(* is also where it is refused, and goes on with one statement at a time.  *)
(* gorm writes a row that was read earlier back as a whole, with the       *)
(* memberships that were read along: what others have written since is     *)
(* lost, and a row or a membership that is gone comes back.                *)
(***************************************************************************)
EXTENDS Naturals, FiniteSets

CONSTANTS
  Account,        \* the users there are at first
  Request,        \* a request also names the user, the password or the token it creates
  Group,
  Administrators, \* the group whose members may administrate
  Cluster,
  Address,
  HomeOf,         \* [Account -> Address]
  Legacy,         \* the accounts with a scrypt password
  Members,        \* SUBSET (Account \X Group): the memberships there are at first
  MaxActive,      \* bound: requests at once
  MaxFaults,      \* bound: failing statements and crashes
  None

UserId == Account \cup Request

ASSUME AccountsAssumption ==
  /\ HomeOf \in [Account -> Address]
  /\ \A u, v \in Account : HomeOf[u] = HomeOf[v] => u = v
  /\ Legacy \subseteq Account
  /\ Administrators \in Group
  /\ Members \subseteq Account \X Group
  /\ MaxActive \in Nat /\ MaxFaults \in Nat
  /\ Account \cap Request = {}
  /\ None \notin UserId \cup Group \cup Cluster \cup Address

VARIABLES
  users,    \* id -> row, or NoUser
  members,  \* the join table user_groups
  admins,   \* the join table user_groups_admin
  lapsed,   \* the password reset tokens whose time is over
  spent,    \* history: the reset tokens that have set a password
  restored, \* history: the users whose reset token was put back by an overlapping save
  pc, req,  \* request -> its next statement, and what it has read
  faults

Row    == [email : Address, validated : BOOLEAN, secret : UserId, legacy : BOOLEAN,
           reset : Request \cup {None}]
NoUser == [email |-> None, validated |-> FALSE, secret |-> None, legacy |-> FALSE,
           reset |-> None]
Field  == DOMAIN NoUser
Idle   == [user |-> None, on |-> None, with |-> None, row |-> NoUser, groups |-> {},
           adminOf |-> {}, clusters |-> {}, tokens |-> {}]

accounts == <<users, members, admins, lapsed, spent, restored>>

InitAccounts ==
  /\ users = [u \in UserId |->
                IF u \in Account
                THEN [email |-> HomeOf[u], validated |-> TRUE, secret |-> u,
                      legacy |-> u \in Legacy, reset |-> None]
                ELSE NoUser]
  /\ members = Members
  /\ admins = {}
  /\ lapsed = {} /\ spent = {} /\ restored = {}
  /\ pc = [r \in Request |-> "idle"]
  /\ req = [r \in Request |-> Idle]
  /\ faults = 0

Ended   == {"idle", "done"}
Pending == {r \in Request : pc[r] \notin Ended}
Exists(u)    == users[u] # NoUser
Known        == {u \in UserId : Exists(u)}
GroupsOf(u)  == {g \in Group : <<u, g>> \in members}
AdminOf(u)   == {g \in Group : <<u, g>> \in admins}

Begin(r, l, q) ==
  /\ pc[r] = "idle"
  /\ Cardinality(Pending) < MaxActive
  /\ pc' = [pc EXCEPT ![r] = l]
  /\ req' = [req EXCEPT ![r] = q]
  /\ UNCHANGED faults

At(r, l)   == pc[r] = l /\ UNCHANGED faults
Goto(r, l) == pc' = [pc EXCEPT ![r] = l] /\ UNCHANGED req
Finish(r)  == pc' = [pc EXCEPT ![r] = "done"] /\ req' = [req EXCEPT ![r] = Idle]

-----------------------------------------------------------------------------
(* Reading. *)

\* findById: the memberships are read along.
FindById(u) == [Idle EXCEPT !.user = u, !.row = users[u], !.groups = GroupsOf(u),
                            !.adminOf = AdminOf(u)]

\* findByEmailToken, findByPasswordResetToken, findOrCreate: they are not.
FindBare(u) == [Idle EXCEPT !.user = u, !.row = users[u]]

WithToken(t) == {u \in Known : users[u].reset = t}
WithEmail(a) == {u \in Known : users[u].email = a}

\* RequireAdministrator reads the groups of the caller again.
Administrator == {u \in Known : <<u, Administrators>> \in members}
MayAdministrate == Administrator # {}

-----------------------------------------------------------------------------
(* Writing. *)

EmailFree(u, a) == WithEmail(a) \subseteq {u}

Insert(u, row) ==
  /\ users' = [users EXCEPT ![u] = row]
  /\ UNCHANGED <<members, admins, lapsed, spent, restored>>

PutBackMemberships(r) ==
  /\ members' = members \cup ({req[r].user} \X req[r].groups)
  /\ admins' = admins \cup ({req[r].user} \X req[r].adminOf)

\* Save refers to memberships that nobody can have (a foreign key) or to an address
\* that another user has.
Refused(r, row) == \/ ~EmailFree(req[r].user, row.email)
                   \/ ~Exists(req[r].user) /\ req[r].groups \cup req[r].adminOf # {}

\* Save: every column; a row that is gone is inserted again.
SaveUser(r, row) ==
  LET u == req[r].user IN
  IF Refused(r, row)
  THEN UNCHANGED accounts
  ELSE /\ users' = [users EXCEPT ![u] = row]
       /\ PutBackMemberships(r)
       /\ restored' = IF row.reset \notin {users[u].reset, r} THEN restored \cup {u} ELSE restored
       /\ UNCHANGED <<lapsed, spent>>

-----------------------------------------------------------------------------
(* The account itself. *)

NewUser(r, a) == [email |-> a, validated |-> FALSE, secret |-> r, legacy |-> FALSE,
                  reset |-> None]

\* POST /users; whether the email with the link is sent changes nothing.
BeginSignUp(r) ==
  /\ \E a \in Address : Begin(r, "create", [Idle EXCEPT !.user = r, !.with = a])
  /\ UNCHANGED accounts

SignUp(r) ==
  /\ At(r, "create")
  /\ Finish(r)
  /\ IF EmailFree(r, req[r].with)
     THEN Insert(r, NewUser(r, req[r].with))
     ELSE UNCHANGED accounts

\* POST /users/validate, with the token of the email.
BeginValidate(r) ==
  /\ \E u \in Known : Begin(r, "validate", FindBare(u))
  /\ UNCHANGED accounts

\* Mutant: the row is built anew instead of read.
ValidatedAnew(row) == [NoUser EXCEPT !.email = row.email, !.validated = TRUE, !.secret = row.secret]

ValidatedRow(row) == [row EXCEPT !.validated = TRUE]

ValidateEmail(r) ==
  /\ At(r, "validate")
  /\ Finish(r)
  /\ SaveUser(r, ValidatedRow(req[r].row))

\* PUT /users/{id}: an address, a password or both.
BeginUpdate(r) ==
  /\ MayAdministrate
  /\ \E u \in Known, a \in Address \cup {None}, s \in {r, None} :
       /\ <<a, s>> # <<None, None>>
       /\ Begin(r, "update", [FindById(u) EXCEPT !.with = a, !.on = s])
  /\ UNCHANGED accounts

NewEmail(r)  == IF req[r].with = None THEN req[r].row.email ELSE req[r].with
NewSecret(r) == IF req[r].on = None THEN req[r].row.secret ELSE req[r].on
NewLegacy(r) == req[r].on = None /\ req[r].row.legacy

\* Updates: the address and the password, the one read if no other is given.
UpdateUser(r) ==
  LET u == req[r].user IN
  /\ At(r, "update")
  /\ Finish(r)
  /\ IF Exists(u) /\ EmailFree(u, NewEmail(r))
     THEN /\ users' = [users EXCEPT ![u].email = NewEmail(r), ![u].secret = NewSecret(r),
                                    ![u].legacy = NewLegacy(r)]
          /\ PutBackMemberships(r)
          /\ UNCHANGED <<lapsed, spent, restored>>
     ELSE UNCHANGED accounts

Lapse ==
  /\ \E u \in Known : /\ users[u].reset \notin {None} \cup lapsed
                      /\ lapsed' = lapsed \cup {users[u].reset}
  /\ UNCHANGED <<users, members, admins, spent, restored, pc, req, faults>>

\* POST /users/reset-password.
BeginResetPassword(r) ==
  /\ \E t \in Request \ lapsed : \E u \in WithToken(t) : Begin(r, "reset", FindBare(u))
  /\ UNCHANGED accounts

\* Mutant: Updates of the struct without Select, which leaves the empty token out.
ResetRowOnly(r, row) == [row EXCEPT !.secret = r, !.legacy = FALSE]

ResetRow(r, row) == [row EXCEPT !.secret = r, !.legacy = FALSE, !.reset = None]

ResetPassword(r) ==
  LET u == req[r].user IN
  /\ At(r, "reset")
  /\ Finish(r)
  /\ IF Exists(u)
     THEN /\ users' = [users EXCEPT ![u] = ResetRow(r, @)]
          /\ spent' = spent \cup {req[r].row.reset}
          /\ UNCHANGED <<members, admins, lapsed, restored>>
     ELSE UNCHANGED accounts

\* DELETE /users/{id}, by another administrator; the memberships go along, and what
\* else refers to the user (a deployment) has the deletion refused.
BeginDelete(r) ==
  /\ \E u \in Known : Administrator \ {u} # {} /\ Begin(r, "delete", [Idle EXCEPT !.user = u])
  /\ UNCHANGED accounts

\* Mutant: the join tables do not cascade.
AllPairs(u, pairs) == pairs

PairsWithout(u, pairs) == {ug \in pairs : ug[1] # u}

DeleteUser(r) ==
  LET u == req[r].user IN
  /\ At(r, "delete")
  /\ Finish(r)
  /\ \/ /\ users' = [users EXCEPT ![u] = NoUser]
        /\ members' = PairsWithout(u, members)
        /\ admins' = PairsWithout(u, admins)
        /\ UNCHANGED <<lapsed, spent, restored>>
     \/ UNCHANGED accounts

NextAccounts ==
  \/ Lapse
  \/ \E r \in Request :
       \/ BeginSignUp(r)        \/ SignUp(r)
       \/ BeginValidate(r)      \/ ValidateEmail(r)
       \/ BeginUpdate(r)        \/ UpdateUser(r)
       \/ BeginResetPassword(r) \/ ResetPassword(r)
       \/ BeginDelete(r)        \/ DeleteUser(r)

-----------------------------------------------------------------------------
(* What the requests may do to the accounts. *)

\* The columns that the statement of an operation is there to write.
Own == {<<"validate", "validated">>, <<"admit", "validated">>, <<"rehash", "legacy">>,
        <<"update", "email">>, <<"update", "secret">>, <<"update", "legacy">>,
        <<"remind", "reset">>, <<"reset", "reset">>, <<"reset", "secret">>,
        <<"reset", "legacy">>}

By(r, u)      == pc'[r] # pc[r] /\ req[r].user = u
Creates(r, u) == r = u /\ pc[r] \in {"create", "provision"}

\* repository.save, update, resetPassword: what an operation changes in the row of a
\* user beyond the columns it is about, it sets back to what it had read; only a
\* sign-up or an SSO sign-in makes a row of nothing, only a deletion removes one.
ColumnsAreOwn ==
  [][\A u \in UserId :
       /\ Exists(u) /\ Exists(u)' =>
            \A f \in Field : users'[u][f] # users[u][f] =>
              \E r \in Request : By(r, u) /\ (<<pc[r], f>> \in Own \/ users'[u][f] = req[r].row[f])
       /\ ~Exists(u) /\ Exists(u)' =>
            \E r \in Request : By(r, u) /\ (Creates(r, u) \/ req[r].row # NoUser)
       /\ Exists(u) /\ ~Exists(u)' =>
            \E r \in Request : By(r, u) /\ pc[r] = "delete"]_<<users, members, admins, pc, req>>

\* group/repository.go: a user becomes a member or an administrator of a group by that
\* very operation, or again because the memberships read by a request that writes the
\* user's row are written as well; and ceases to be one by the opposite operation or
\* with the account.
MembershipsAreGranted ==
  [][LET Step(l, ug) == \E r \in Request : By(r, ug[1]) /\ pc[r] = l /\ req[r].on = ug[2]
         Back(ug, f) == \E r \in Request : By(r, ug[1]) /\ ug[2] \in req[r][f]
         Left(ug)    == \E r \in Request : By(r, ug[1]) /\ pc[r] = "delete"
     IN /\ \A ug \in members' \ members : Step("addUser", ug) \/ Back(ug, "groups")
        /\ \A ug \in admins' \ admins : Step("addAdminUser", ug) \/ Back(ug, "adminOf")
        /\ \A ug \in members \ members' : Step("removeUser", ug) \/ Left(ug)
        /\ \A ug \in admins \ admins' : Step("removeAdminUser", ug) \/ Left(ug)
    ]_<<users, members, admins, pc, req>>

\* Service.ResetPassword: a token that has set a password is not accepted again, unless
\* a request that had read the row before then has saved it.
ResetOnce == \A u \in Known : users[u].reset \in spent => u \in restored
===============================================================================
