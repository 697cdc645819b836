---------------------------- MODULE AccountsProofs ----------------------------
(***************************************************************************)
(* Proofs of what the requests of Sessions may do to users, memberships    *)
(* and groups, for any of them, however many at once, and any failures.    *)
(***************************************************************************)
EXTENDS SessionsProofs

-----------------------------------------------------------------------------
(* Password reset tokens. *)

\* A reset token is one user's, in the row and in what requests have read of it, and the
\* request that made it has ended; so no later request makes a token that was spent.
ResetInv ==
  /\ spent \subseteq Request /\ \A t \in spent : pc[t] = "done"
  /\ \A u \in UserId : users[u].reset \in Request => pc[users[u].reset] = "done"
  /\ \A q \in Request : req[q].row.reset \in Request => pc[req[q].row.reset] = "done"
  /\ \A u, v \in UserId : users[u].reset = users[v].reset /\ users[u].reset \in Request => u = v
  /\ \A u \in UserId, q \in Request :
       users[u].reset = req[q].row.reset /\ users[u].reset \in Request => req[q].user = u
  /\ \A p, q \in Request :
       req[p].row.reset = req[q].row.reset /\ req[p].row.reset \in Request
       => req[p].user = req[q].user
  /\ \A q \in Request : pc[q] = "reset" => req[q].row.reset \in Request
  /\ \A u \in UserId : users[u].reset \in spent => u \in restored

Others(r) == \A q \in Request : q # r => pc'[q] = pc[q] /\ req'[q] = req[q]

LEMMA UserRead ==
  ASSUME NEW u
  PROVE  /\ FindById(u).user = u /\ FindById(u).row = users[u]
         /\ FindBare(u).user = u /\ FindBare(u).row = users[u]
         /\ FindByEmail(u).user = u /\ FindByEmail(u).row = users[u]
         /\ \A a, s : /\ [FindById(u) EXCEPT !.with = a, !.on = s].user = u
                      /\ [FindById(u) EXCEPT !.with = a, !.on = s].row = users[u]
         /\ \A g : /\ [FindById(u) EXCEPT !.on = g].user = u
                   /\ [FindById(u) EXCEPT !.on = g].row = users[u]
BY DEF FindByEmail, FindById, FindBare, Idle

\* A request reads a token of its user, or forgets it.
Reads(r) ==
  /\ pc[r] # "done" /\ Others(r) /\ UNCHANGED <<users, spent, restored>>
  /\ pc'[r] = "reset" => req'[r].row.reset \in Request
  /\ \/ req'[r].row.reset = None
     \/ req'[r].user = req[r].user /\ req'[r].row = req[r].row
     \/ req'[r].user \in UserId /\ req'[r].row = users[req'[r].user]

\* A request writes the row of its user, or that of the user it makes.
Writes(r) ==
  /\ pc[r] # "done" /\ pc'[r] # "reset" /\ Others(r) /\ UNCHANGED spent
  /\ \/ req'[r].row.reset = None
     \/ req'[r].user = req[r].user /\ req'[r].row = req[r].row
  /\ restored \subseteq restored'
  /\ \A u \in UserId :
       \/ users'[u].reset \in {users[u].reset, None}
       \/ /\ u = req[r].user
          /\ \/ users'[u].reset = req[r].row.reset /\ u \in restored'
             \/ users'[u].reset = r /\ pc'[r] = "done" /\ req'[r].row.reset = None

LEMMA ReadsReset == ASSUME Types, ResetInv, NEW r \in Request, Reads(r) PROVE ResetInv'
BY AccountsAssumption DEF Reads, Others, ResetInv, UserId

LEMMA WritesReset == ASSUME Types, ResetInv, NEW r \in Request, Writes(r) PROVE ResetInv'
<1> USE AccountsAssumption DEF Writes, Others
<1>1. \A q \in Request : pc[q] = "done" => pc'[q] = "done"
  OBVIOUS
<1>2. \A u \in UserId : users[u].reset # r
  BY DEF ResetInv
<1>3. \A q \in Request : req[q].row.reset # r
  BY DEF ResetInv
<1>4. /\ spent' \subseteq Request /\ \A t \in spent' : pc'[t] = "done" /\ r \notin spent
  BY <1>1 DEF ResetInv
<1>5. ASSUME NEW u \in UserId, users'[u].reset \in Request PROVE pc'[users'[u].reset] = "done"
  BY <1>1, <1>5 DEF ResetInv, UserId
<1>6. ASSUME NEW q \in Request, req'[q].row.reset \in Request
      PROVE  /\ req'[q].row = req[q].row /\ req'[q].user = req[q].user
             /\ pc'[req'[q].row.reset] = "done"
  BY <1>1, <1>6 DEF ResetInv, UserId
<1>7. ASSUME NEW u \in UserId, NEW v \in UserId,
             users'[u].reset = users'[v].reset, users'[u].reset \in Request
      PROVE  u = v
  BY <1>2, <1>3, <1>7 DEF ResetInv, UserId
<1>8. ASSUME NEW u \in UserId, NEW q \in Request,
             users'[u].reset = req'[q].row.reset, users'[u].reset \in Request
      PROVE  req'[q].user = u
  BY <1>3, <1>6, <1>8 DEF ResetInv, UserId
<1>9. ASSUME NEW p \in Request, NEW q \in Request,
             req'[p].row.reset = req'[q].row.reset, req'[p].row.reset \in Request
      PROVE  req'[p].user = req'[q].user
  BY <1>6, <1>9 DEF ResetInv, UserId
<1>10. ASSUME NEW q \in Request, pc'[q] = "reset" PROVE req'[q].row.reset \in Request
  BY <1>10 DEF ResetInv
<1>11. ASSUME NEW u \in UserId, users'[u].reset \in spent' PROVE u \in restored'
  BY <1>4, <1>11 DEF ResetInv, UserId
<1> QED
  BY <1>4, <1>5, <1>6, <1>7, <1>8, <1>9, <1>10, <1>11 DEF ResetInv

\* Resetting a password spends the token that was read, and empties the column.
LEMMA ResetSpends ==
  ASSUME Types, ResetInv, NEW r \in Request, ResetPassword(r) PROVE ResetInv'
<1>1. /\ pc[r] = "reset" /\ pc'[r] = "done" /\ Others(r) /\ req'[r] = Idle
  BY DEF ResetPassword, At, Finish, Others, Types, Asked
<1>2. Idle.row.reset = None
  BY DEF Idle, NoUser
<1>3. CASE UNCHANGED accounts
  BY <1>1, <1>2, <1>3, ReadsReset DEF Reads, accounts
<1>4. CASE ~UNCHANGED accounts
  <2> DEFINE u == req[r].user
             t == req[r].row.reset
  <2>1. /\ users' = [users EXCEPT ![u] = ResetRow(r, users[u])]
        /\ spent' = spent \cup {t} /\ UNCHANGED restored
    BY <1>4 DEF ResetPassword
  <2>2. u \in UserId /\ users[u] \in Row
    BY <1>1, <1>4 DEF ResetPassword, Types, Data, Aimed, Fits, OfUser, OfRow, Exists
  <2>3. users'[u].reset = None /\ \A v \in UserId : v # u => users'[v] = users[v]
    BY <2>1, <2>2 DEF ResetRow, Row, Types, Data
  <2>4. t \in Request /\ pc[t] = "done"
    BY <1>1 DEF ResetInv
  <2>5. \A v \in UserId : users[v].reset = t => v = u
    BY <2>4 DEF ResetInv
  <2> HIDE DEF u, t
  <2> QED
    BY <1>1, <1>2, <2>1, <2>2, <2>3, <2>4, <2>5, AccountsAssumption DEF ResetInv, Others, UserId
<1> QED
  BY <1>3, <1>4

LEMMA BeginNothing ==
  ASSUME Types, NEW r \in Request, NEW l \in Where, NEW q, q.row = NoUser, l # "reset",
         Begin(r, l, q), UNCHANGED <<users, spent, restored>>
  PROVE  Reads(r)
BY DEF Begin, Reads, Others, Types, Asked, NoUser

LEMMA BeginUser ==
  ASSUME Types, NEW r \in Request, NEW l \in Where, NEW u \in UserId, NEW q, q.row = users[u],
         q.user = u, l = "reset" => users[u].reset \in Request,
         Begin(r, l, q), UNCHANGED <<users, spent, restored>>
  PROVE  Reads(r)
BY DEF Begin, Reads, Others, Types, Asked

LEMMA FinishReads ==
  ASSUME Types, NEW r \in Request, Finish(r), pc[r] # "done", UNCHANGED <<users, spent, restored>>
  PROVE  Reads(r)
BY DEF Finish, Reads, Others, Types, Asked, Idle, NoUser

\* SaveUser may put back the token that was read, and then says so.
LEMMA SaveWrites ==
  ASSUME Types, NEW r \in Request, NEW row \in Row, SaveUser(r, row),
         pc[r] \in OfRow, row.reset = req[r].row.reset, row.reset # r, Finish(r) \/ Goto(r, "issue")
  PROVE  Writes(r)
<1>1. req[r].user \in UserId /\ pc[r] # "done"
  BY DEF Types, Aimed, Fits, OfUser, OfRow, Membership
<1>2. /\ Others(r) /\ pc'[r] # "reset"
      /\ req'[r].row.reset = None \/ req'[r] = req[r]
  BY DEF Finish, Goto, Others, Types, Asked, Idle, NoUser
<1>3. CASE UNCHANGED accounts
  BY <1>1, <1>2, <1>3 DEF Writes, accounts
<1>4. CASE ~UNCHANGED accounts
  BY <1>1, <1>2, <1>4 DEF SaveUser, Writes, Types, Data
<1> QED
  BY <1>3, <1>4

LEMMA AccountsReset == ASSUME Types, ResetInv, NextAccounts PROVE ResetInv'
<1> USE DEF Where, Ended, OfRow, Membership
<1>1. CASE Lapse
  BY <1>1 DEF Lapse, ResetInv
<1>2. ASSUME NEW r \in Request,
             \/ BeginSignUp(r) \/ BeginValidate(r) \/ BeginUpdate(r) \/ BeginResetPassword(r)
             \/ BeginDelete(r)
      PROVE  Reads(r)
  <2>1. UNCHANGED <<users, spent, restored>>
    BY <1>2 DEF BeginSignUp, BeginValidate, BeginUpdate, BeginResetPassword, BeginDelete, accounts
  <2>2. CASE BeginSignUp(r) \/ BeginDelete(r)
    <3>1. \E l \in Where : \E q : q.row = NoUser /\ l # "reset" /\ Begin(r, l, q)
      BY <2>2 DEF BeginSignUp, BeginDelete, Idle
    <3> QED
      BY <2>1, <3>1, BeginNothing
  <2>3. CASE BeginValidate(r)
    BY <2>1, <2>3, UserRead, BeginUser DEF BeginValidate, Known
  <2>4. CASE BeginUpdate(r)
    <3>1. PICK u \in UserId, a \in Address \cup {None}, t \in {r, None} :
           Begin(r, "update", [FindById(u) EXCEPT !.with = a, !.on = t])
      BY <2>4 DEF BeginUpdate, Known
    <3> DEFINE q == [FindById(u) EXCEPT !.with = a, !.on = t]
    <3>2. q.row = users[u] /\ q.user = u
      BY UserRead
    <3> HIDE DEF q
    <3>3. Begin(r, "update", q)
      BY <3>1 DEF q
    <3> QED
      BY <2>1, <3>2, <3>3, BeginUser
  <2>5. CASE BeginResetPassword(r)
    BY <2>1, <2>5, UserRead, BeginUser DEF BeginResetPassword, WithToken, Known
  <2> QED
    BY <1>2, <2>2, <2>3, <2>4, <2>5
<1>3. ASSUME NEW r \in Request, SignUp(r) \/ UpdateUser(r) \/ DeleteUser(r) PROVE Writes(r)
  <2>1. /\ pc[r] # "done" /\ pc'[r] = "done" /\ Others(r) /\ UNCHANGED <<spent, restored>>
        /\ req'[r].row.reset = None
    BY <1>3 DEF SignUp, Insert, UpdateUser, DeleteUser, At, Finish, accounts, Others, Types, Asked,
                Idle, NoUser
  <2>2. \A u \in UserId : users'[u].reset \in {users[u].reset, None}
    <3>1. CASE SignUp(r)
      BY <3>1 DEF SignUp, Insert, NewUser, accounts, Types, Data
    <3>2. CASE UpdateUser(r)
      BY <3>2 DEF UpdateUser, Exists, accounts, Types, Data, Row
    <3>3. CASE DeleteUser(r)
      BY <3>3 DEF DeleteUser, NoUser, accounts, Types, Data
    <3> QED
      BY <1>3, <3>1, <3>2, <3>3
  <2> QED
    BY <2>1, <2>2 DEF Writes
<1>4. ASSUME NEW r \in Request, ValidateEmail(r) PROVE Writes(r)
  <2>1. pc[r] = "validate" /\ Finish(r) /\ req[r].row \in Row
    BY <1>4 DEF ValidateEmail, At, Types, Aimed, Fits
  <2>2. /\ ValidatedRow(req[r].row) \in Row
        /\ ValidatedRow(req[r].row).reset = req[r].row.reset /\ req[r].row.reset # r
    BY <2>1 DEF ValidatedRow, Row, ResetInv
  <2> QED
    BY <1>4, <2>1, <2>2, SaveWrites DEF ValidateEmail
<1> QED
  BY <1>1, <1>2, <1>3, <1>4, ReadsReset, WritesReset, ResetSpends DEF NextAccounts

LEMMA GroupsReset == ASSUME Types, ResetInv, NextGroups PROVE ResetInv'
<1> USE DEF Where, Ended, OfRow, Membership
<1>1. ASSUME NEW r \in Request,
             \/ BeginAddUser(r) \/ BeginRemoveUser(r) \/ BeginAddAdminUser(r)
             \/ BeginRemoveAdminUser(r) \/ BeginCreateGroup(r) \/ BeginUpdateGroup(r)
             \/ BeginAddCluster(r) \/ BeginRemoveCluster(r) \/ BeginCreateCluster(r)
             \/ BeginUpdateCluster(r) \/ BeginDeleteCluster(r)
             \/ BeginRequestReset(r) \/ BeginSaveInstance(r) \/ BeginUpdateInstance(r)
      PROVE  Reads(r)
  <2>1. UNCHANGED <<users, spent, restored>>
    BY <1>1 DEF BeginAddUser, BeginRemoveUser, BeginAddAdminUser, BeginRemoveAdminUser,
                BeginMembership, BeginCreateGroup, BeginUpdateGroup, BeginAddCluster,
                BeginRemoveCluster, BeginCreateCluster, BeginUpdateCluster, BeginDeleteCluster,
                BeginRequestReset, BeginSaveInstance, BeginUpdateInstance, accounts
  <2>2. ASSUME NEW l \in Membership, BeginMembership(r, l) PROVE Reads(r)
    <3>1. PICK u \in UserId, g \in groups : Begin(r, l, [FindById(u) EXCEPT !.on = g])
      BY <2>2 DEF BeginMembership, Known
    <3> DEFINE q == [FindById(u) EXCEPT !.on = g]
    <3>2. q.row = users[u] /\ q.user = u
      BY UserRead
    <3> HIDE DEF q
    <3>3. Begin(r, l, q)
      BY <3>1 DEF q
    <3> QED
      BY <2>1, <3>2, <3>3, BeginUser
  <2>3. CASE BeginAddUser(r) \/ BeginRemoveUser(r) \/ BeginAddAdminUser(r) \/ BeginRemoveAdminUser(r)
    BY <2>2, <2>3 DEF BeginAddUser, BeginRemoveUser, BeginAddAdminUser, BeginRemoveAdminUser
  <2>4. CASE \/ BeginCreateGroup(r) \/ BeginUpdateGroup(r) \/ BeginAddCluster(r)
             \/ BeginRemoveCluster(r)
    <3>1. \E l \in Where : \E q : q.row = NoUser /\ l # "reset" /\ Begin(r, l, q)
      BY <2>4 DEF BeginCreateGroup, BeginUpdateGroup, BeginAddCluster, BeginRemoveCluster,
                  BeginLink, Idle
    <3> QED
      BY <2>1, <3>1, BeginNothing
  <2>5. CASE BeginCreateCluster(r) \/ BeginUpdateCluster(r) \/ BeginDeleteCluster(r)
    <3>1. \E l \in Where : \E q : q.row = NoUser /\ l # "reset" /\ Begin(r, l, q)
      BY <2>5 DEF BeginCreateCluster, BeginUpdateCluster, BeginDeleteCluster, Idle
    <3> QED
      BY <2>1, <3>1, BeginNothing
  <2>6. CASE BeginRequestReset(r)
    BY <2>1, <2>6, UserRead, BeginUser DEF BeginRequestReset, Known
  <2>7. CASE BeginSaveInstance(r) \/ BeginUpdateInstance(r)
    <3>1. \E l \in Where : \E q : q.row = NoUser /\ l # "reset" /\ Begin(r, l, q)
      BY <2>7 DEF BeginSaveInstance, BeginUpdateInstance, BeginInstance, Idle
    <3> QED
      BY <2>1, <3>1, BeginNothing
  <2> QED
    BY <1>1, <2>3, <2>4, <2>5, <2>6, <2>7
<1>2. ASSUME NEW r \in Request, AddUser(r) \/ AddAdminUser(r) PROVE Writes(r)
  <2>1. /\ pc[r] \in Membership /\ pc'[r] = "done" /\ Others(r) /\ req'[r].row.reset = None
    BY <1>2 DEF AddUser, AddAdminUser, At, Finish, Others, Types, Asked, Idle, NoUser
  <2>2. UNCHANGED accounts \/ AppendUser(r)
    BY <1>2 DEF AddUser, AddAdminUser
  <2>3. req[r].user \in UserId
    BY <2>1 DEF Types, Aimed, Fits, OfUser
  <2> QED
    BY <2>1, <2>2, <2>3 DEF AppendUser, accounts, Writes, Types, Data
<1>3. ASSUME NEW r \in Request,
             \/ RemoveUser(r) \/ RemoveAdminUser(r)
             \/ CreateGroup(r) \/ UpdateGroup(r) \/ AddClusterToGroup(r) \/ RemoveCluster(r)
             \/ CreateCluster(r) \/ UpdateCluster(r) \/ DeleteCluster(r)
             \/ SaveInstance(r) \/ UpdateInstance(r)
      PROVE  Reads(r)
  <2>1. Finish(r) /\ pc[r] # "done" /\ UNCHANGED <<users, spent, restored>>
    BY <1>3 DEF RemoveUser, RemoveAdminUser, CreateGroup, UpdateGroup, AddClusterToGroup,
                RemoveCluster, SetLink, CreateCluster, UpdateCluster, DeleteCluster, SaveInstance,
                UpdateInstance, At, accounts
  <2> QED
    BY <2>1, FinishReads
<1>4. ASSUME NEW r \in Request, RequestPasswordReset(r) PROVE Writes(r)
  <2> DEFINE row == [req[r].row EXCEPT !.reset = r]
  <2>1. /\ pc[r] = "remind" /\ Finish(r) /\ req[r].row \in Row /\ req[r].user \in UserId
        /\ SaveUser(r, row)
    BY <1>4 DEF RequestPasswordReset, SaveByEmail, At, Types, Aimed, Fits, OfUser
  <2>2. row.reset = r
    BY <2>1 DEF Row
  <2>3. pc'[r] = "done" /\ Others(r) /\ req'[r].row.reset = None
    BY <2>1 DEF Finish, Others, Types, Asked, Idle, NoUser
  <2> HIDE DEF row
  <2>4. \A u \in UserId :
          users'[u].reset = users[u].reset \/ (u = req[r].user /\ users'[u].reset = r)
    <3>1. CASE UNCHANGED users
      BY <3>1
    <3>2. CASE ~UNCHANGED users
      <4>1. users' = [users EXCEPT ![req[r].user] = row]
        BY <2>1, <3>2 DEF SaveUser, accounts
      <4> QED
        BY <2>1, <2>2, <4>1 DEF Types, Data
    <3> QED
      BY <3>1, <3>2
  <2>5. UNCHANGED spent /\ restored \subseteq restored'
    BY <2>1 DEF SaveUser, accounts
  <2> QED
    BY <2>1, <2>3, <2>4, <2>5 DEF Writes
<1> QED
  BY <1>1, <1>2, <1>3, <1>4, AccountsReset, ReadsReset, WritesReset DEF NextGroups

LEMMA SessionsReset ==
  ASSUME Types, ResetInv, NEW r \in Request,
         \/ BeginSignIn(r) \/ BeginSSO(r) \/ BeginRefresh(r) \/ BeginSignOut(r)
         \/ MigrateLegacyPassword(r) \/ Provision(r) \/ Admit(r) \/ Rotate(r)
         \/ LoseAnswer(r) \/ Issue(r) \/ Stop(r)
  PROVE  ResetInv'
<1> USE DEF Where, Ended, OfRow, Membership
<1>1. CASE BeginSignIn(r) \/ BeginSSO(r) \/ BeginRefresh(r) \/ BeginSignOut(r)
  <2>1. UNCHANGED <<users, spent, restored>>
    BY <1>1 DEF BeginSignIn, BeginSSO, BeginRefresh, BeginSignOut, Elsewhere, accounts
  <2>2. CASE BeginSignIn(r)
    BY <2>1, <2>2, UserRead, BeginUser, ReadsReset DEF BeginSignIn, Known
  <2>3. CASE BeginSSO(r)
    <3>1. \/ \E u \in UserId, l \in {"issue", "admit"} : Begin(r, l, FindBare(u))
          \/ \E l \in Where : \E q : q.row = NoUser /\ l # "reset" /\ Begin(r, l, q)
      BY <2>3 DEF BeginSSO, WithEmail, Known, Idle
    <3> QED
      BY <2>1, <3>1, UserRead, BeginUser, BeginNothing, ReadsReset
  <2>4. CASE BeginRefresh(r) \/ BeginSignOut(r)
    <3>1. \E l \in Where : \E q : q.row = NoUser /\ l # "reset" /\ Begin(r, l, q)
      BY <2>4 DEF BeginRefresh, BeginSignOut, Idle
    <3> QED
      BY <2>1, <3>1, BeginNothing, ReadsReset
  <2> QED
    BY <1>1, <2>2, <2>3, <2>4
<1>2. CASE Finish(r) /\ pc[r] # "done" /\ UNCHANGED <<users, spent, restored>>
  BY <1>2, FinishReads, ReadsReset
<1>3. CASE LoseAnswer(r) \/ Issue(r) \/ Stop(r)
  BY <1>2, <1>3 DEF LoseAnswer, Issue, Stop, At, Elsewhere, accounts, Pending
<1>4. CASE Rotate(r)
  <2>1. CASE ~Finish(r)
    <3>1. /\ pc[r] # "done" /\ pc'[r] = "issue" /\ Others(r) /\ UNCHANGED <<users, spent, restored>>
          /\ req'[r].user = req[r].user /\ req'[r].row = req[r].row
      BY <1>4, <2>1 DEF Rotate, At, Elsewhere, accounts, Others, Types, Asked, Request_
    <3> QED
      BY <3>1, ReadsReset DEF Reads
  <2> QED
    BY <1>2, <1>4, <2>1 DEF Rotate, At, Elsewhere, accounts
<1>5. CASE Provision(r)
  <2>1. /\ pc[r] # "done" /\ pc'[r] # "reset" /\ Others(r) /\ UNCHANGED <<spent, restored>>
        /\ req'[r].row.reset = None
    <3>1. CASE Finish(r) /\ UNCHANGED accounts
      BY <1>5, <3>1 DEF Provision, At, Finish, accounts, Others, Types, Asked, Idle, NoUser
    <3>2. CASE ~(Finish(r) /\ UNCHANGED accounts)
      <4> DEFINE row == NewUser(r, req[r].with)
                 q   == [Idle EXCEPT !.user = r, !.row = row]
      <4>1. q.row = row /\ row.reset = None
        BY DEF NewUser, Idle
      <4>2. /\ pc[r] = "provision" /\ pc' = [pc EXCEPT ![r] = "admit"] /\ req' = [req EXCEPT ![r] = q]
            /\ UNCHANGED <<spent, restored>>
        BY <1>5, <3>2 DEF Provision, At, Insert
      <4> HIDE DEF row, q
      <4> QED
        BY <4>1, <4>2 DEF Others, Types, Asked
    <3> QED
      BY <3>1, <3>2
  <2>2. \A u \in UserId : users'[u].reset \in {users[u].reset, None}
    BY <1>5 DEF Provision, Insert, NewUser, accounts, Types, Data
  <2> QED
    BY <2>1, <2>2, WritesReset DEF Writes
<1>6. CASE MigrateLegacyPassword(r)
  <2>1. pc[r] = "rehash" /\ Goto(r, "issue") /\ req[r].row \in Row
    BY <1>6 DEF MigrateLegacyPassword, At, Types, Aimed, Fits
  <2>2. /\ Rehashed(req[r].row) \in Row
        /\ Rehashed(req[r].row).reset = req[r].row.reset /\ req[r].row.reset # r
    BY <2>1 DEF Rehashed, Row, ResetInv
  <2>3. CASE UNCHANGED accounts
    <3>1. Reads(r)
      BY <2>1, <2>3 DEF Reads, Others, Goto, accounts, Types, Asked
    <3> QED
      BY <3>1, ReadsReset
  <2> QED
    BY <1>6, <2>1, <2>2, <2>3, SaveWrites, WritesReset
    DEF MigrateLegacyPassword, SaveByEmail, Elsewhere
<1>7. CASE Admit(r)
  <2>2. pc[r] = "admit" /\ req[r].row \in Row
    BY <1>7 DEF Admit, At, Types, Aimed, Fits
  <2>3. /\ ValidatedRow(req[r].row) \in Row
        /\ ValidatedRow(req[r].row).reset = req[r].row.reset /\ req[r].row.reset # r
    BY <2>2 DEF ValidatedRow, Row, ResetInv
  <2>4. Finish(r) \/ Goto(r, "issue")
    BY <1>7 DEF Admit
  <2> QED
    BY <1>7, <2>2, <2>3, <2>4, SaveWrites, WritesReset DEF Admit
<1> QED
  BY <1>1, <1>3, <1>4, <1>5, <1>6, <1>7

LEMMA NextReset == ASSUME Types, ResetInv, [Next]_vars PROVE ResetInv'
<1>1. CASE UNCHANGED vars \/ Expire \/ \E r \in Request : Del(r)
  BY <1>1 DEF vars, Expire, Del, Elsewhere, accounts, ResetInv
<1>2. CASE Crash
  <2>1. /\ UNCHANGED <<users, spent, restored>>
        /\ \A q \in Request : \/ pc'[q] = pc[q] /\ req'[q] = req[q]
                              \/ pc'[q] = "done" /\ req'[q].row.reset = None
        /\ \A q \in Request : pc[q] = "done" => pc'[q] = "done"
    <3>1. Idle.row.reset = None
      BY DEF Idle, NoUser
    <3>2. \A q \in Request : q \in Pending => pc'[q] = "done" /\ req'[q] = Idle
      BY <1>2 DEF Crash, Pending
    <3>3. \A q \in Request : q \notin Pending => pc'[q] = pc[q] /\ req'[q] = req[q]
      BY <1>2 DEF Crash, Pending
    <3>4. UNCHANGED <<users, spent, restored>>
      BY <1>2 DEF Crash, Elsewhere, accounts
    <3>5. \A q \in Request : pc[q] = "done" => q \notin Pending
      BY DEF Pending, Ended
    <3> QED
      BY <3>1, <3>2, <3>3, <3>4, <3>5
  <2> QED
    BY <2>1, AccountsAssumption DEF ResetInv, UserId
<1>3. ASSUME NEW r \in Request, SignOut(r) PROVE ResetInv'
  <2>1. Reads(r)
    BY <1>3 DEF SignOut, At, Reads, Others, Elsewhere, accounts, Types, Asked
  <2> QED
    BY <2>1, ReadsReset
<1> QED
  BY <1>1, <1>2, <1>3, GroupsReset, SessionsReset DEF Next

LEMMA InitReset == Init => ResetInv
<1> SUFFICES ASSUME Init PROVE ResetInv
  OBVIOUS
<1>1. /\ \A u \in UserId : users[u].reset = None
      /\ \A r \in Request : pc[r] = "idle" /\ req[r].row.reset = None
      /\ spent = {}
  BY DEF Init, InitGroups, InitAccounts, Idle, NoUser
<1> QED
  BY <1>1, AccountsAssumption DEF ResetInv, UserId

\* A reset token that has set a password sets no second one, however many requests overlap,
\* but for a user whose row was written back by a request that had read it before.
THEOREM ResetsOnce == Spec => []ResetOnce
<1>1. Types /\ ResetInv /\ [Next]_vars => (Types /\ ResetInv)'
  BY NextTypes, NextReset
<1>2. ResetInv => ResetOnce
  BY DEF ResetInv, ResetOnce, Known
<1> QED
  BY <1>1, <1>2, InitTypes, InitReset, PTL DEF Spec
-----------------------------------------------------------------------------
(* The clusters of groups. *)

LinkStep ==
  \A g \in Group : link'[g] # link[g] => \E r \in Request :
    /\ pc'[r] # pc[r]
    /\ \/ pc[r] \in {"createGroup", "updateGroup", "addCluster", "saveInstance", "updateInstance"}
          /\ req[r].on = g /\ req[r].with = link'[g]
       \/ pc[r] = "removeCluster" /\ req[r].on = g /\ link'[g] = None
       \/ pc[r] = "deleteCluster" /\ req[r].on = link[g] /\ link'[g] = None
       \/ pc[r] = "updateCluster" /\ req[r].on = link'[g] /\ g \in req[r].groups

LEMMA ClusterLinks ==
  ASSUME Types, NEW r \in Request,
         \/ CreateGroup(r) \/ UpdateGroup(r) \/ AddClusterToGroup(r) \/ RemoveCluster(r)
         \/ UpdateCluster(r) \/ DeleteCluster(r) \/ SaveInstance(r) \/ UpdateInstance(r)
  PROVE  LinkStep
<1>1. pc[r] # pc'[r] /\ link \in [Group -> clusters \cup {None}]
  BY DEF CreateGroup, UpdateGroup, AddClusterToGroup, RemoveCluster, UpdateCluster, DeleteCluster,
         SaveInstance, UpdateInstance, SetLink, At, Finish, Types, Asked, Data
<1>2. CASE CreateGroup(r)
  BY <1>1, <1>2 DEF CreateGroup, At, LinkStep
<1>3. CASE UpdateGroup(r) \/ AddClusterToGroup(r) \/ RemoveCluster(r) \/ SaveInstance(r)
  BY <1>1, <1>3 DEF UpdateGroup, AddClusterToGroup, RemoveCluster, SaveInstance, SetLink, At, LinkStep
<1>4. CASE UpdateCluster(r)
  BY <1>1, <1>4 DEF UpdateCluster, SavedGroups, At, LinkStep
<1>5. CASE DeleteCluster(r)
  BY <1>1, <1>5 DEF DeleteCluster, At, LinkStep
<1>6. CASE UpdateInstance(r)
  BY <1>1, <1>6 DEF UpdateInstance, At, LinkStep
<1> QED
  BY <1>2, <1>3, <1>4, <1>5, <1>6

LEMMA NextLinks == ASSUME Types, Next PROVE LinkStep
<1>1. CASE UNCHANGED link
  BY <1>1 DEF LinkStep
<1>2. CASE NextGroups
  <2>1. CASE NextAccounts /\ UNCHANGED directory
    BY <1>1, <2>1 DEF directory
  <2>2. ASSUME NEW r \in Request,
               \/ BeginAddUser(r) \/ BeginAddAdminUser(r) \/ BeginRemoveUser(r)
               \/ BeginRemoveAdminUser(r) \/ BeginCreateGroup(r) \/ BeginUpdateGroup(r)
               \/ BeginAddCluster(r) \/ BeginRemoveCluster(r) \/ BeginCreateCluster(r)
               \/ BeginUpdateCluster(r) \/ BeginDeleteCluster(r) \/ BeginRequestReset(r)
               \/ BeginSaveInstance(r) \/ BeginUpdateInstance(r)
        PROVE  LinkStep
    BY <1>1, <2>2
    DEF BeginAddUser, BeginAddAdminUser, BeginRemoveUser, BeginRemoveAdminUser, BeginMembership,
        BeginCreateGroup, BeginUpdateGroup, BeginAddCluster, BeginRemoveCluster,
        BeginCreateCluster, BeginUpdateCluster, BeginDeleteCluster, BeginRequestReset,
        BeginSaveInstance, BeginUpdateInstance, directory
  <2>3. ASSUME NEW r \in Request,
               \/ AddUser(r) \/ AddAdminUser(r) \/ RemoveUser(r) \/ RemoveAdminUser(r)
               \/ CreateCluster(r) \/ RequestPasswordReset(r)
        PROVE  LinkStep
    BY <1>1, <2>3 DEF AddUser, AddAdminUser, RemoveUser, RemoveAdminUser, CreateCluster,
                      RequestPasswordReset, SaveByEmail, directory
  <2> QED
    BY <1>2, <2>1, <2>2, <2>3, ClusterLinks DEF NextGroups
<1>3. CASE Expire \/ Crash \/ \E r \in Request : Stop(r)
  BY <1>1, <1>3 DEF Expire, Crash, Stop, Elsewhere, directory
<1>4. ASSUME NEW r \in Request,
             \/ BeginSignIn(r) \/ MigrateLegacyPassword(r) \/ BeginSSO(r) \/ Provision(r)
             \/ Admit(r) \/ BeginRefresh(r) \/ Rotate(r) \/ LoseAnswer(r) \/ BeginSignOut(r)
             \/ Del(r) \/ SignOut(r) \/ Issue(r)
      PROVE  LinkStep
  BY <1>1, <1>4
  DEF BeginSignIn, MigrateLegacyPassword, BeginSSO, Provision, Admit, BeginRefresh, Rotate,
      LoseAnswer, BeginSignOut, Del, SignOut, Issue, SaveByEmail, Elsewhere, directory
<1> QED
  BY <1>2, <1>3, <1>4 DEF Next

\* A group gets a cluster from a request about the two, or from one that saves the cluster
\* with the groups it had, or an instance with the group as it was; it loses it to the
\* opposite request, to one that saves an instance, or with the cluster.
THEOREM LinksMade == Spec => LinksAreMade
<1>1. Types /\ [Next]_vars => Types'
  BY NextTypes
<1>2. Types /\ [Next]_vars => [LinkStep]_<<link, pc, req>>
  BY NextLinks DEF vars, directory
<1>3. Spec => [][LinkStep]_<<link, pc, req>>
  BY <1>1, <1>2, InitTypes, PTL DEF Spec
<1> QED
  BY <1>3 DEF LinksAreMade, LinkStep
-----------------------------------------------------------------------------
(* Columns and memberships. *)

ColumnStep ==
  \A u \in UserId :
    /\ Exists(u) /\ Exists(u)' =>
         \A f \in Field : users'[u][f] # users[u][f] =>
           \E r \in Request : By(r, u) /\ (<<pc[r], f>> \in Own \/ users'[u][f] = req[r].row[f])
    /\ ~Exists(u) /\ Exists(u)' =>
         \E r \in Request : By(r, u) /\ (Creates(r, u) \/ req[r].row # NoUser)
    /\ Exists(u) /\ ~Exists(u)' =>
         \E r \in Request : By(r, u) /\ pc[r] = "delete"

MemberStep ==
  LET Step(l, ug) == \E r \in Request : By(r, ug[1]) /\ pc[r] = l /\ req[r].on = ug[2]
      Back(ug, f) == \E r \in Request : By(r, ug[1]) /\ ug[2] \in req[r][f]
      Left(ug)    == \E r \in Request : By(r, ug[1]) /\ pc[r] = "delete"
  IN /\ \A ug \in members' \ members : Step("addUser", ug) \/ Back(ug, "groups")
     /\ \A ug \in admins' \ admins : Step("addAdminUser", ug) \/ Back(ug, "adminOf")
     /\ \A ug \in members \ members' : Step("removeUser", ug) \/ Left(ug)
     /\ \A ug \in admins \ admins' : Step("removeAdminUser", ug) \/ Left(ug)

\* Whoever reads changes neither; nor does a refused request.
LEMMA QuietAccounts ==
  ASSUME UNCHANGED <<users, members, admins>> PROVE ColumnStep /\ MemberStep
BY DEF ColumnStep, MemberStep, Exists

\* A row that is written differs from what was there in its own columns or in those that
\* were read.
LEMMA RowWritten ==
  ASSUME Types, NEW r \in Request, pc'[r] # pc[r], req[r].user \in UserId, req[r].row \in Row,
         NEW row \in Row, users' = [users EXCEPT ![req[r].user] = row],
         \A f \in Field : \/ row[f] = req[r].row[f] \/ row[f] = users[req[r].user][f]
                          \/ <<pc[r], f>> \in Own
  PROVE  ColumnStep
<1>1. NoUser \notin Row
  BY IdleType
<1>2. \A u \in UserId : u # req[r].user => users'[u] = users[u]
  BY DEF Types, Data
<1>3. users'[req[r].user] = row
  BY DEF Types, Data
<1> HIDE DEF Types
<1> QED
  BY <1>1, <1>2, <1>3 DEF ColumnStep, Exists, By

\* Memberships that are written back are those that were read.
LEMMA PutBack ==
  ASSUME NEW r \in Request, pc'[r] # pc[r], PutBackMemberships(r)
  PROVE  MemberStep
<1>1. \A ug \in members' \ members : ug[1] = req[r].user /\ ug[2] \in req[r].groups
  BY DEF PutBackMemberships
<1>2. \A ug \in admins' \ admins : ug[1] = req[r].user /\ ug[2] \in req[r].adminOf
  BY DEF PutBackMemberships
<1>3. members \subseteq members' /\ admins \subseteq admins'
  BY DEF PutBackMemberships
<1> QED
  BY <1>1, <1>2, <1>3 DEF MemberStep, By

LEMMA SaveColumns ==
  ASSUME Types, NEW r \in Request, pc'[r] # pc[r], req[r].user \in UserId, req[r].row \in Row,
         NEW row \in Row, SaveUser(r, row),
         \A f \in Field : row[f] = req[r].row[f] \/ <<pc[r], f>> \in Own
  PROVE  ColumnStep /\ MemberStep
<1>1. CASE Refused(r, row)
  BY <1>1, QuietAccounts DEF SaveUser, accounts
<1>2. CASE ~Refused(r, row)
  BY <1>2, RowWritten, PutBack DEF SaveUser
<1> QED
  BY <1>1, <1>2
LEMMA FieldNames == Field = {"email", "validated", "secret", "legacy", "reset"}
BY DEF Field, NoUser

\* A request that is not at an end moves by finishing, or by going on; it has read its user
\* and the row.
LEMMA GoesOn ==
  ASSUME Types, NEW r \in Request
  PROVE  /\ Finish(r) /\ pc[r] # "done" => pc'[r] # pc[r]
         /\ Goto(r, "issue") /\ pc[r] # "issue" => pc'[r] # pc[r]
<1>1. ASSUME Finish(r), pc[r] # "done" PROVE pc'[r] # pc[r]
  BY <1>1 DEF Types, Asked, Finish
<1>2. ASSUME Goto(r, "issue"), pc[r] # "issue" PROVE pc'[r] # pc[r]
  BY <1>2 DEF Types, Asked, Goto
<1> QED
  BY <1>1, <1>2

LEMMA HasRead ==
  ASSUME Types, NEW r \in Request
  PROVE  /\ pc[r] \in OfUser => req[r].user \in UserId
         /\ pc[r] \in OfRow => req[r].row \in Row
BY DEF Types, Aimed, Fits

Fresh == {"idle", "create", "provision"}

\* A request creates the user named after it, and until then nobody else has read that user.
MakerInv ==
  /\ \A r \in Request : pc[r] \in {"create", "provision"} => req[r].user = r
  /\ \A r \in Request : pc[r] \in Fresh =>
       users[r] = NoUser /\ \A q \in Request : pc[q] \in OfRow => req[q].user # r

\* A sign-up, or an SSO sign-in, makes a row of nothing.
LEMMA MakesUser ==
  ASSUME Types, MakerInv, NEW r \in Request, pc'[r] # pc[r], pc[r] \in {"create", "provision"},
         NEW a, Insert(r, NewUser(r, a))
  PROVE  ColumnStep /\ MemberStep
<1>1. \A u \in UserId : u # r => users'[u] = users[u]
  BY DEF Insert, Types, Data
<1>2. MemberStep
  BY DEF Insert, MemberStep
<1>3. users[r] = NoUser /\ req[r].user = r
  BY DEF MakerInv, Fresh
<1>4. ColumnStep
  BY <1>1, <1>3 DEF ColumnStep, Exists, By, Creates, UserId
<1> QED
  BY <1>2, <1>4

LEMMA AccountsColumns == ASSUME Types, MakerInv, NextAccounts PROVE ColumnStep /\ MemberStep
<1> USE DEF Where, Ended, OfUser, OfRow, Membership
<1>1. CASE Lapse
  BY <1>1, QuietAccounts DEF Lapse
<1>2. ASSUME NEW r \in Request,
             \/ BeginSignUp(r) \/ BeginValidate(r) \/ BeginUpdate(r) \/ BeginResetPassword(r)
             \/ BeginDelete(r)
      PROVE  ColumnStep /\ MemberStep
  BY <1>2, QuietAccounts
  DEF BeginSignUp, BeginValidate, BeginUpdate, BeginResetPassword, BeginDelete, accounts
<1>3. ASSUME NEW r \in Request, SignUp(r) PROVE ColumnStep /\ MemberStep
  <2>1. pc'[r] # pc[r] /\ pc[r] = "create"
    BY <1>3, GoesOn, HasRead DEF SignUp, At
  <2> QED
    BY <1>3, <2>1, MakesUser, QuietAccounts DEF SignUp, accounts
<1>4. ASSUME NEW r \in Request, ValidateEmail(r) PROVE ColumnStep /\ MemberStep
  <2>1. /\ pc'[r] # pc[r] /\ pc[r] = "validate" /\ req[r].user \in UserId /\ req[r].row \in Row
        /\ SaveUser(r, ValidatedRow(req[r].row))
    BY <1>4, GoesOn, HasRead DEF ValidateEmail, At
  <2>2. /\ ValidatedRow(req[r].row) \in Row
        /\ \A f \in Field : f # "validated" => ValidatedRow(req[r].row)[f] = req[r].row[f]
    BY <2>1, FieldNames DEF ValidatedRow, Row
  <2> QED
    BY <2>1, <2>2, SaveColumns DEF Own
<1>5. ASSUME NEW r \in Request, UpdateUser(r) PROVE ColumnStep /\ MemberStep
  <2>1. /\ pc'[r] # pc[r] /\ pc[r] = "update" /\ req[r].user \in UserId /\ req[r].row \in Row
    BY <1>5, GoesOn, HasRead DEF UpdateUser, At
  <2>2. CASE UNCHANGED accounts
    BY <2>2, QuietAccounts DEF accounts
  <2>3. CASE ~UNCHANGED accounts
    <3> DEFINE u   == req[r].user
               row == [users[u] EXCEPT !.email = NewEmail(r), !.secret = NewSecret(r),
                                       !.legacy = NewLegacy(r)]
    <3>1. users[u] \in Row /\ PutBackMemberships(r)
          /\ users' = [users EXCEPT ![u].email = NewEmail(r), ![u].secret = NewSecret(r),
                                    ![u].legacy = NewLegacy(r)]
      BY <1>5, <2>1, <2>3 DEF UpdateUser, Exists, Types, Data
    <3>2. users' = [users EXCEPT ![u] = row]
      BY <2>1, <3>1 DEF Types, Data
    <3>3. \A f \in Field : f \notin {"email", "secret", "legacy"} => row[f] = users[u][f]
      BY <3>1, FieldNames DEF Row
    <3>4. row \in Row
      <4>1. /\ req[r].on \in Request \cup {None} /\ req[r].with \in Address \cup {None}
        BY <2>1 DEF Types, Aimed, Fits
      <4>2. NewEmail(r) \in Address /\ NewSecret(r) \in UserId
        BY <2>1, <4>1 DEF NewEmail, NewSecret, Row, UserId
      <4>3. NewLegacy(r) \in BOOLEAN
        BY DEF NewLegacy
      <4> QED
        BY <3>1, <4>2, <4>3 DEF Row
    <3> HIDE DEF row, u
    <3>5. ColumnStep
      BY <2>1, <3>2, <3>3, <3>4, RowWritten DEF Own, u
    <3>6. MemberStep
      BY <2>1, <3>1, PutBack
    <3> QED
      BY <3>5, <3>6
  <2> QED
    BY <2>2, <2>3
<1>6. ASSUME NEW r \in Request, ResetPassword(r) PROVE ColumnStep /\ MemberStep
  <2>1. /\ pc'[r] # pc[r] /\ pc[r] = "reset" /\ req[r].user \in UserId /\ req[r].row \in Row
    BY <1>6, GoesOn, HasRead DEF ResetPassword, At
  <2>2. CASE UNCHANGED accounts
    BY <2>2, QuietAccounts DEF accounts
  <2>3. CASE ~UNCHANGED accounts
    <3> DEFINE u   == req[r].user
               row == ResetRow(r, users[u])
    <3>1. users[u] \in Row /\ users' = [users EXCEPT ![u] = row] /\ UNCHANGED <<members, admins>>
      BY <1>6, <2>1, <2>3 DEF ResetPassword, Exists, Types, Data
    <3>2. row \in Row /\ \A f \in Field : f \notin {"secret", "legacy", "reset"} => row[f] = users[u][f]
      BY <3>1, FieldNames DEF Row, ResetRow, UserId
    <3>3. MemberStep
      BY <3>1 DEF MemberStep
    <3> HIDE DEF row
    <3> QED
      BY <2>1, <3>1, <3>2, <3>3, RowWritten DEF Own
  <2> QED
    BY <2>2, <2>3
<1>7. ASSUME NEW r \in Request, DeleteUser(r) PROVE ColumnStep /\ MemberStep
  <2>1. pc'[r] # pc[r] /\ pc[r] = "delete" /\ req[r].user \in UserId
    BY <1>7, GoesOn, HasRead DEF DeleteUser, At
  <2>2. CASE UNCHANGED accounts
    BY <2>2, QuietAccounts DEF accounts
  <2>3. CASE ~UNCHANGED accounts
    <3>1. ColumnStep
      BY <1>7, <2>1, <2>3 DEF DeleteUser, ColumnStep, Exists, By, Types, Data
    <3>2. MemberStep
      BY <1>7, <2>1, <2>3 DEF DeleteUser, PairsWithout, MemberStep, By
    <3> QED
      BY <3>1, <3>2
  <2> QED
    BY <2>2, <2>3
<1> QED
  BY <1>1, <1>2, <1>3, <1>4, <1>5, <1>6, <1>7 DEF NextAccounts
LEMMA GroupsColumns == ASSUME Types, MakerInv, NextGroups PROVE ColumnStep /\ MemberStep
<1> USE DEF Where, Ended, OfUser, OfRow, Membership
<1>1. CASE NextAccounts
  BY <1>1, AccountsColumns
<1>2. ASSUME NEW r \in Request,
             \/ BeginAddUser(r) \/ BeginAddAdminUser(r) \/ BeginRemoveUser(r)
             \/ BeginRemoveAdminUser(r) \/ BeginCreateGroup(r) \/ BeginUpdateGroup(r)
             \/ BeginAddCluster(r) \/ BeginRemoveCluster(r) \/ BeginCreateCluster(r)
             \/ BeginUpdateCluster(r) \/ BeginDeleteCluster(r)
             \/ CreateGroup(r) \/ UpdateGroup(r) \/ AddClusterToGroup(r) \/ RemoveCluster(r)
             \/ CreateCluster(r) \/ UpdateCluster(r) \/ DeleteCluster(r)
             \/ BeginRequestReset(r) \/ BeginSaveInstance(r) \/ SaveInstance(r)
             \/ BeginUpdateInstance(r) \/ UpdateInstance(r)
      PROVE  ColumnStep /\ MemberStep
  BY <1>2, QuietAccounts
  DEF BeginAddUser, BeginAddAdminUser, BeginRemoveUser, BeginRemoveAdminUser, BeginMembership,
      BeginCreateGroup, BeginUpdateGroup, BeginAddCluster, BeginRemoveCluster, BeginCreateCluster,
      BeginUpdateCluster, BeginDeleteCluster, CreateGroup, UpdateGroup, AddClusterToGroup,
      RemoveCluster, SetLink, CreateCluster, UpdateCluster, DeleteCluster, BeginRequestReset,
      BeginSaveInstance, SaveInstance, BeginUpdateInstance, UpdateInstance, accounts
<1>3. ASSUME NEW r \in Request, AddUser(r) \/ AddAdminUser(r) PROVE ColumnStep /\ MemberStep
  <2>1. /\ pc'[r] # pc[r] /\ pc[r] \in {"addUser", "addAdminUser"}
        /\ req[r].user \in UserId /\ req[r].row \in Row
    BY <1>3, GoesOn, HasRead DEF AddUser, AddAdminUser, At
  <2>2. CASE ~CanAppend(r)
    BY <1>3, <2>2, QuietAccounts DEF AddUser, AddAdminUser, accounts
  <2>3. CASE CanAppend(r)
    <3> DEFINE u   == req[r].user
               row == IF Exists(u) THEN users[u] ELSE req[r].row
    <3>1. users' = [users EXCEPT ![u] = row]
      BY <1>3, <2>3 DEF AddUser, AddAdminUser, AppendUser
    <3>2. row \in Row
      BY <2>1 DEF Exists, Types, Data
    <3>3. \A f \in Field : row[f] = req[r].row[f] \/ row[f] = users[u][f]
      OBVIOUS
    <3>4. MemberStep
      BY <1>3, <2>1, <2>3 DEF AddUser, AddAdminUser, JoinAsAdmin, Pair, At, MemberStep, By
    <3> HIDE DEF row
    <3> QED
      BY <2>1, <3>1, <3>2, <3>3, <3>4, RowWritten
  <2> QED
    BY <2>2, <2>3
<1>4. ASSUME NEW r \in Request, RemoveUser(r) \/ RemoveAdminUser(r)
      PROVE  ColumnStep /\ MemberStep
  <2>1. pc'[r] # pc[r] /\ pc[r] \in {"removeUser", "removeAdminUser"} /\ UNCHANGED users
    BY <1>4, GoesOn, HasRead DEF RemoveUser, RemoveAdminUser, At
  <2>2. ColumnStep
    BY <2>1 DEF ColumnStep, Exists
  <2>3. MemberStep
    BY <1>4, <2>1 DEF RemoveUser, RemoveAdminUser, Pair, At, MemberStep, By
  <2> QED
    BY <2>2, <2>3
<1>5. ASSUME NEW r \in Request, RequestPasswordReset(r) PROVE ColumnStep /\ MemberStep
  <2> DEFINE row == [req[r].row EXCEPT !.reset = r]
  <2>1. /\ pc'[r] # pc[r] /\ pc[r] = "remind" /\ req[r].user \in UserId /\ req[r].row \in Row
        /\ SaveUser(r, row)
    BY <1>5, GoesOn, HasRead DEF RequestPasswordReset, SaveByEmail, At
  <2>2. row \in Row /\ \A f \in Field : f # "reset" => row[f] = req[r].row[f]
    BY <2>1, FieldNames DEF Row
  <2> HIDE DEF row
  <2> QED
    BY <2>1, <2>2, SaveColumns DEF Own
<1> QED
  BY <1>1, <1>2, <1>3, <1>4, <1>5 DEF NextGroups

LEMMA NextColumns == ASSUME Types, MakerInv, Next PROVE ColumnStep /\ MemberStep
<1> USE DEF Where, Ended, OfUser, OfRow, Membership
<1>1. ASSUME NEW r \in Request,
             \/ BeginSignIn(r) \/ BeginSSO(r) \/ BeginRefresh(r) \/ Rotate(r) \/ LoseAnswer(r)
             \/ BeginSignOut(r) \/ Del(r) \/ SignOut(r) \/ Issue(r) \/ Stop(r)
      PROVE  ColumnStep /\ MemberStep
  BY <1>1, QuietAccounts
  DEF BeginSignIn, BeginSSO, BeginRefresh, Rotate, LoseAnswer, BeginSignOut, Del, SignOut, Issue,
      Stop, Elsewhere, accounts
<1>2. CASE Expire \/ Crash
  BY <1>2, QuietAccounts DEF Expire, Crash, Elsewhere, accounts
<1>3. ASSUME NEW r \in Request, MigrateLegacyPassword(r) PROVE ColumnStep /\ MemberStep
  <2>1. pc'[r] # pc[r] /\ pc[r] = "rehash" /\ req[r].user \in UserId /\ req[r].row \in Row
    BY <1>3, GoesOn, HasRead DEF MigrateLegacyPassword, At
  <2>2. /\ Rehashed(req[r].row) \in Row
        /\ \A f \in Field : f # "legacy" => Rehashed(req[r].row)[f] = req[r].row[f]
    BY <2>1, FieldNames DEF Rehashed, Row
  <2>3. SaveUser(r, Rehashed(req[r].row)) \/ UNCHANGED accounts
    BY <1>3 DEF MigrateLegacyPassword, SaveByEmail, Elsewhere
  <2> QED
    BY <2>1, <2>2, <2>3, SaveColumns, QuietAccounts DEF Own, accounts
<1>4. ASSUME NEW r \in Request, Provision(r) PROVE ColumnStep /\ MemberStep
  <2>1. pc'[r] # pc[r] /\ pc[r] = "provision"
    BY <1>4 DEF Provision, At, Finish, Types, Asked
  <2> QED
    BY <1>4, <2>1, MakesUser, QuietAccounts DEF Provision, accounts
<1>5. ASSUME NEW r \in Request, Admit(r) PROVE ColumnStep /\ MemberStep
  <2>1. /\ pc'[r] # pc[r] /\ pc[r] = "admit" /\ req[r].user \in UserId /\ req[r].row \in Row
        /\ SaveUser(r, ValidatedRow(req[r].row))
    BY <1>5, GoesOn, HasRead DEF Admit, At
  <2>2. /\ ValidatedRow(req[r].row) \in Row
        /\ \A f \in Field : f # "validated" => ValidatedRow(req[r].row)[f] = req[r].row[f]
    BY <2>1, FieldNames DEF ValidatedRow, Row
  <2> QED
    BY <2>1, <2>2, SaveColumns DEF Own
<1> QED
  BY <1>1, <1>2, <1>3, <1>4, <1>5, GroupsColumns DEF Next
\* What a request does that reads a user who is there, goes on with the one it has read, or
\* creates its own.
Keeps(r) ==
  /\ Others(r)
  /\ \A u \in UserId : users'[u] # NoUser =>
       \/ users[u] # NoUser
       \/ u = r /\ pc'[r] \notin Fresh
       \/ u = req[r].user /\ pc[r] \in OfRow
  /\ pc'[r] \in Fresh => pc[r] \in Fresh
  /\ pc'[r] \in {"create", "provision"} => req'[r].user = r
  /\ pc'[r] \in OfRow => \/ req'[r].user = r
                         \/ pc[r] \in OfRow /\ req'[r].user = req[r].user
                         \/ req'[r].user \in Known

LEMMA KeepsMaker == ASSUME Types, MakerInv, NEW r \in Request, Keeps(r) PROVE MakerInv'
<1> USE DEF Keeps, Others
<1>1. ASSUME NEW q \in Request, pc'[q] \in {"create", "provision"} PROVE req'[q].user = q
  BY <1>1 DEF MakerInv
<1>2. \A q \in Request : pc'[q] \in Fresh => pc[q] \in Fresh
  OBVIOUS
<1>3. ASSUME NEW q \in Request, pc'[q] \in Fresh PROVE users'[q] = NoUser
  BY <1>2, <1>3 DEF MakerInv, UserId
<1>4. ASSUME NEW q \in Request, pc'[q] \in Fresh, NEW p \in Request, pc'[p] \in OfRow
      PROVE  req'[p].user # q
  <2>1. users[q] = NoUser /\ \A o \in Request : pc[o] \in OfRow => req[o].user # q
    BY <1>2, <1>4 DEF MakerInv
  <2>2. CASE p = r
    <3>1. q # r
      BY <1>4, <2>2 DEF Fresh, OfRow, Membership
    <3> QED
      BY <1>4, <2>1, <2>2, <3>1 DEF Known, Exists
  <2>3. CASE p # r
    BY <1>4, <2>1, <2>3
  <2> QED
    BY <2>2, <2>3
<1> QED
  BY <1>1, <1>3, <1>4 DEF MakerInv

\* A request that ends, or goes on to issue a token, keeps it, if it writes its own user.
LEMMA EndKeeps ==
  ASSUME Types, NEW r \in Request, Finish(r) \/ Goto(r, "issue"),
         \A u \in UserId : users'[u] # NoUser => users[u] # NoUser \/ (u = req[r].user /\ pc[r] \in OfRow)
  PROVE  Keeps(r)
<1>1. CASE Finish(r)
  BY <1>1 DEF Keeps, Others, Finish, Types, Asked, Fresh, OfRow, Membership
<1>2. CASE Goto(r, "issue")
  BY <1>2 DEF Keeps, Others, Goto, Types, Asked, Fresh, OfRow, Membership
<1> QED
  BY <1>1, <1>2

LEMMA BeginKeeps ==
  ASSUME Types, NEW r \in Request, NEW l \in Where, NEW q, Begin(r, l, q), UNCHANGED users,
         l \in {"create", "provision"} => q.user = r, l \in OfRow => q.user \in Known
  PROVE  Keeps(r)
BY DEF Keeps, Others, Begin, Types, Asked, Fresh

LEMMA AccountsMaker == ASSUME Types, MakerInv, NextAccounts PROVE MakerInv'
<1> USE DEF Where, Ended
<1>1. CASE Lapse
  BY <1>1 DEF Lapse, MakerInv
<1>2. ASSUME NEW r \in Request, BeginSignUp(r) \/ BeginDelete(r) PROVE Keeps(r)
  <2>1. UNCHANGED users
    BY <1>2 DEF BeginSignUp, BeginDelete, accounts
  <2>2. \E l \in {"create", "delete"} : \E q : /\ l = "create" => q.user = r
                                               /\ Begin(r, l, q)
    BY <1>2 DEF BeginSignUp, BeginDelete, Idle
  <2> QED
    BY <2>1, <2>2, BeginKeeps DEF OfRow, Membership
<1>3. ASSUME NEW r \in Request, BeginValidate(r) \/ BeginResetPassword(r)
      PROVE  Keeps(r)
  <2>1. UNCHANGED users
    BY <1>3 DEF BeginValidate, BeginResetPassword, accounts
  <2>2. \E l \in {"validate", "reset"} : \E q : q.user \in Known /\ Begin(r, l, q)
    BY <1>3, UserRead DEF BeginValidate, BeginResetPassword, WithToken
  <2> QED
    BY <2>1, <2>2, BeginKeeps
<1>4. ASSUME NEW r \in Request, BeginUpdate(r) PROVE Keeps(r)
  <2>1. PICK u \in Known, a \in Address \cup {None}, t \in {r, None} :
          Begin(r, "update", [FindById(u) EXCEPT !.with = a, !.on = t])
    BY <1>4 DEF BeginUpdate
  <2> DEFINE q == [FindById(u) EXCEPT !.with = a, !.on = t]
  <2>2. q.user = u
    BY UserRead
  <2> HIDE DEF q
  <2>3. Begin(r, "update", q) /\ UNCHANGED users
    BY <1>4, <2>1 DEF q, BeginUpdate, accounts
  <2> QED
    BY <2>2, <2>3, BeginKeeps
<1>5. ASSUME NEW r \in Request, SignUp(r) PROVE Keeps(r)
  <2>1. pc[r] = "create" /\ Finish(r)
    BY <1>5 DEF SignUp, At
  <2>2. \A u \in UserId : u # r => users'[u] = users[u]
    BY <1>5 DEF SignUp, Insert, accounts, Types, Data
  <2> QED
    BY <2>1, <2>2 DEF Keeps, Others, Finish, Types, Asked, Fresh, OfRow, Membership
<1>6. ASSUME NEW r \in Request,
             ValidateEmail(r) \/ UpdateUser(r) \/ ResetPassword(r)
      PROVE  Keeps(r)
  <2>1. pc[r] \in {"validate", "update", "reset"} /\ Finish(r)
    BY <1>6 DEF ValidateEmail, UpdateUser, ResetPassword, At
  <2>2. \A u \in UserId : u # req[r].user => users'[u] = users[u]
    BY <1>6 DEF ValidateEmail, UpdateUser, ResetPassword, SaveUser, accounts, Types, Data
  <2> QED
    BY <2>1, <2>2, EndKeeps DEF OfRow
<1>7. ASSUME NEW r \in Request, DeleteUser(r) PROVE Keeps(r)
  BY <1>7, EndKeeps DEF DeleteUser, accounts, Types, Data
<1> QED
  BY <1>1, <1>2, <1>3, <1>4, <1>5, <1>6, <1>7, KeepsMaker DEF NextAccounts

LEMMA GroupsMaker == ASSUME Types, MakerInv, NextGroups PROVE MakerInv'
<1> USE DEF Where, Ended
<1>1. CASE NextAccounts
  BY <1>1, AccountsMaker
<1>2. ASSUME NEW r \in Request, NEW l \in Membership, BeginMembership(r, l) PROVE Keeps(r)
  <2>1. PICK u \in Known, g \in groups : Begin(r, l, [FindById(u) EXCEPT !.on = g])
    BY <1>2 DEF BeginMembership
  <2> DEFINE q == [FindById(u) EXCEPT !.on = g]
  <2>2. q.user = u
    BY UserRead
  <2> HIDE DEF q
  <2>3. Begin(r, l, q) /\ UNCHANGED users
    BY <1>2, <2>1 DEF q, BeginMembership, accounts
  <2> QED
    BY <2>2, <2>3, BeginKeeps DEF Membership
<1>3. ASSUME NEW r \in Request,
             \/ BeginAddUser(r) \/ BeginAddAdminUser(r) \/ BeginRemoveUser(r)
             \/ BeginRemoveAdminUser(r)
      PROVE  Keeps(r)
  BY <1>2, <1>3 DEF BeginAddUser, BeginAddAdminUser, BeginRemoveUser, BeginRemoveAdminUser,
                    Membership
<1>4. ASSUME NEW r \in Request,
             \/ BeginCreateGroup(r) \/ BeginUpdateGroup(r) \/ BeginAddCluster(r)
             \/ BeginRemoveCluster(r) \/ BeginCreateCluster(r) \/ BeginUpdateCluster(r)
             \/ BeginDeleteCluster(r) \/ BeginSaveInstance(r) \/ BeginUpdateInstance(r)
      PROVE  Keeps(r)
  <2>1. UNCHANGED users
    BY <1>4 DEF BeginCreateGroup, BeginUpdateGroup, BeginAddCluster, BeginRemoveCluster,
                BeginCreateCluster, BeginUpdateCluster, BeginDeleteCluster, BeginSaveInstance,
                BeginUpdateInstance, accounts
  <2>2. \E l \in Where \ (OfRow \cup {"create", "provision"}) : \E q : Begin(r, l, q)
    BY <1>4 DEF BeginCreateGroup, BeginUpdateGroup, BeginAddCluster, BeginRemoveCluster,
                BeginLink, BeginCreateCluster, BeginUpdateCluster, BeginDeleteCluster,
                BeginSaveInstance, BeginUpdateInstance, BeginInstance, OfRow, Membership
  <2> QED
    BY <2>1, <2>2, BeginKeeps
<1>5. ASSUME NEW r \in Request,
             \/ RemoveUser(r) \/ RemoveAdminUser(r) \/ CreateGroup(r) \/ UpdateGroup(r)
             \/ AddClusterToGroup(r) \/ RemoveCluster(r) \/ CreateCluster(r)
             \/ UpdateCluster(r) \/ DeleteCluster(r) \/ SaveInstance(r) \/ UpdateInstance(r)
      PROVE  Keeps(r)
  BY <1>5, EndKeeps
  DEF RemoveUser, RemoveAdminUser, CreateGroup, UpdateGroup, AddClusterToGroup, RemoveCluster,
      SetLink, CreateCluster, UpdateCluster, DeleteCluster, SaveInstance, UpdateInstance, accounts
<1>6. ASSUME NEW r \in Request, AddUser(r) \/ AddAdminUser(r) PROVE Keeps(r)
  <2>1. pc[r] \in Membership /\ Finish(r)
    BY <1>6 DEF AddUser, AddAdminUser, At, Membership
  <2>2. \A u \in UserId : u # req[r].user => users'[u] = users[u]
    BY <1>6 DEF AddUser, AddAdminUser, AppendUser, accounts, Types, Data
  <2> QED
    BY <2>1, <2>2, EndKeeps DEF OfRow
<1>7. ASSUME NEW r \in Request, BeginRequestReset(r) PROVE Keeps(r)
  BY <1>7, UserRead, BeginKeeps DEF BeginRequestReset, accounts
<1>8. ASSUME NEW r \in Request, RequestPasswordReset(r) PROVE Keeps(r)
  <2>1. pc[r] = "remind" /\ Finish(r)
    BY <1>8 DEF RequestPasswordReset, At
  <2>2. \A u \in UserId : u # req[r].user => users'[u] = users[u]
    BY <1>8 DEF RequestPasswordReset, SaveByEmail, SaveUser, accounts, Types, Data
  <2> QED
    BY <2>1, <2>2, EndKeeps DEF OfRow
<1> QED
  BY <1>1, <1>3, <1>4, <1>5, <1>6, <1>7, <1>8, KeepsMaker DEF NextGroups
LEMMA SessionsMaker ==
  ASSUME Types, MakerInv, NEW r \in Request,
         \/ BeginSignIn(r) \/ MigrateLegacyPassword(r) \/ BeginSSO(r) \/ Provision(r) \/ Admit(r)
         \/ BeginRefresh(r) \/ Rotate(r) \/ LoseAnswer(r) \/ BeginSignOut(r)
         \/ Del(r) \/ SignOut(r) \/ Issue(r) \/ Stop(r)
  PROVE  MakerInv'
<1> USE DEF Where, Ended
<1>1. CASE BeginSignIn(r) \/ BeginSSO(r) \/ BeginRefresh(r) \/ BeginSignOut(r)
  <2>1. UNCHANGED users
    BY <1>1 DEF BeginSignIn, BeginSSO, BeginRefresh, BeginSignOut, Elsewhere, accounts
  <2>2. \E l \in {"rehash", "issue", "admit", "rotate", "scan", "provision"} : \E q :
          /\ Begin(r, l, q)
          /\ l = "provision" => q.user = r
          /\ l \in {"rehash", "admit"} => q.user \in Known
    <3>1. CASE BeginSignIn(r)
      BY <3>1, UserRead DEF BeginSignIn
    <3>2. CASE BeginSSO(r)
      <4>1. CASE \E a \in Address : Begin(r, "provision", [Idle EXCEPT !.user = r, !.with = a])
        BY <4>1 DEF Idle
      <4>2. CASE \E u \in Known : \E l \in {"issue", "admit"} : Begin(r, l, FindBare(u))
        BY <4>2, UserRead
      <4> QED
        BY <3>2, <4>1, <4>2 DEF BeginSSO, WithEmail
    <3>3. CASE BeginRefresh(r) \/ BeginSignOut(r)
      BY <3>3 DEF BeginRefresh, BeginSignOut
    <3> QED
      BY <1>1, <3>1, <3>2, <3>3
  <2> QED
    BY <2>1, <2>2, BeginKeeps, KeepsMaker DEF OfRow, Membership
<1>2. CASE MigrateLegacyPassword(r) \/ Admit(r)
  <2>1. pc[r] \in {"rehash", "admit"} /\ (Finish(r) \/ Goto(r, "issue"))
    BY <1>2 DEF MigrateLegacyPassword, Admit, At
  <2>2. \A u \in UserId : u # req[r].user => users'[u] = users[u]
    BY <1>2 DEF MigrateLegacyPassword, Admit, SaveByEmail, SaveUser, Elsewhere, accounts, Types, Data
  <2> QED
    BY <2>1, <2>2, EndKeeps, KeepsMaker DEF OfRow
<1>3. CASE Provision(r)
  <2> DEFINE row == NewUser(r, req[r].with)
             q   == [Idle EXCEPT !.user = r, !.row = row]
  <2>1. CASE Finish(r) /\ UNCHANGED accounts
    BY <2>1, EndKeeps, KeepsMaker DEF accounts
  <2>2. CASE ~(Finish(r) /\ UNCHANGED accounts)
    <3>1. q.user = r
      BY DEF Idle
    <3>2. /\ pc' = [pc EXCEPT ![r] = "admit"] /\ req' = [req EXCEPT ![r] = q]
          /\ users' = [users EXCEPT ![r] = row]
      BY <1>3, <2>2 DEF Provision, Insert
    <3> HIDE DEF row, q
    <3> QED
      BY <3>1, <3>2, KeepsMaker DEF Keeps, Others, Types, Data, Asked, Fresh
  <2> QED
    BY <2>1, <2>2
<1>4. CASE LoseAnswer(r) \/ Issue(r) \/ Stop(r)
  BY <1>4, EndKeeps, KeepsMaker DEF LoseAnswer, Issue, Stop, Elsewhere, accounts
<1>5. CASE Del(r)
  BY <1>5 DEF Del, Elsewhere, accounts, MakerInv
<1>6. CASE SignOut(r)
  BY <1>6, KeepsMaker
  DEF SignOut, Elsewhere, accounts, Keeps, Others, Types, Asked, Fresh, OfRow, Membership
<1>7. CASE Rotate(r)
  <2>1. CASE Finish(r)
    BY <1>7, <2>1, EndKeeps, KeepsMaker DEF Rotate, Elsewhere, accounts
  <2>2. CASE ~Finish(r)
    BY <1>7, <2>2, KeepsMaker
    DEF Rotate, Elsewhere, accounts, Keeps, Others, Types, Asked, Fresh, OfRow, Membership
  <2> QED
    BY <2>1, <2>2
<1> QED
  BY <1>1, <1>2, <1>3, <1>4, <1>5, <1>6, <1>7

LEMMA NextMaker == ASSUME Types, MakerInv, [Next]_vars PROVE MakerInv'
<1>1. CASE UNCHANGED vars
  BY <1>1 DEF vars, accounts, MakerInv
<1>2. CASE Expire
  BY <1>2 DEF Expire, Elsewhere, accounts, MakerInv
<1>3. CASE Crash
  <2>1. UNCHANGED users /\ \A q \in Request : \/ pc'[q] = "done"
                                              \/ pc'[q] = pc[q] /\ req'[q] = req[q]
    BY <1>3 DEF Crash, Elsewhere, accounts
  <2> QED
    BY <2>1 DEF MakerInv, Fresh, OfRow, Membership
<1> QED
  BY <1>1, <1>2, <1>3, GroupsMaker, SessionsMaker DEF Next

LEMMA InitMaker == Init => MakerInv
BY AccountsAssumption DEF Init, InitGroups, InitAccounts, MakerInv, UserId, OfRow, Membership, Idle

\* Whatever requests overlap, one writes in a user's row, beyond the columns it is about,
\* only what it has read; and users come and go by the requests that say so, or because one
\* that had read them writes them back.
THEOREM ColumnsOwn == Spec => ColumnsAreOwn
<1>1. Types /\ MakerInv /\ [Next]_vars => (Types /\ MakerInv)'
  BY NextTypes, NextMaker
<1>2. Types /\ MakerInv /\ [Next]_vars => [ColumnStep]_<<users, members, admins, pc, req>>
  BY NextColumns DEF vars, accounts
<1>3. Spec => [][ColumnStep]_<<users, members, admins, pc, req>>
  BY <1>1, <1>2, InitTypes, InitMaker, PTL DEF Spec
<1> QED
  BY <1>3 DEF ColumnsAreOwn, ColumnStep

\* A membership or an administrator comes from the request that grants it or from one that
\* had read it, and goes by the opposite request or with the user.
THEOREM MembershipsGranted == Spec => MembershipsAreGranted
<1>1. Types /\ MakerInv /\ [Next]_vars => (Types /\ MakerInv)'
  BY NextTypes, NextMaker
<1>2. Types /\ MakerInv /\ [Next]_vars => [MemberStep]_<<users, members, admins, pc, req>>
  BY NextColumns DEF vars, accounts
<1>3. Spec => [][MemberStep]_<<users, members, admins, pc, req>>
  BY <1>1, <1>2, InitTypes, InitMaker, PTL DEF Spec
<1> QED
  BY <1>3 DEF MembershipsAreGranted, MemberStep
===============================================================================
