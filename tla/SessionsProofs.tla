---------------------------- MODULE SessionsProofs ----------------------------
(***************************************************************************)
(* Proofs about Sessions, and so about Accounts and Groups, for any users, *)
(* groups, clusters and requests, however many at once, and any failures.  *)
(***************************************************************************)
EXTENDS Sessions, TLAPS

\* The rows, the join tables and the keys; and the requests.
Data ==
  /\ users \in [UserId -> Row \cup {NoUser}]
  /\ members \subseteq Known \X groups /\ admins \subseteq Known \X groups
  /\ lapsed \subseteq Request /\ spent \subseteq Request \cup {None} /\ restored \subseteq UserId
  /\ groups \subseteq Group /\ clusters \subseteq Cluster
  /\ link \in [Group -> clusters \cup {None}]
  /\ store \subseteq issued /\ issued \subseteq Key
  /\ uses \in [Token -> Nat]

Asked == pc \in [Request -> Where] /\ req \in [Request -> Request_] /\ faults \in 0..MaxFaults

\* What a request must have read for its next statement.
Membership == {"addUser", "removeUser", "addAdminUser", "removeAdminUser"}
OfRow      == Membership \cup {"validate", "update", "remind", "reset", "rehash", "admit"}
OfUser     == OfRow \cup {"delete", "issue", "rotate", "scan"}

Fits(l, q) ==
  /\ q.groups \subseteq groups /\ q.adminOf \subseteq groups
  /\ l \in OfUser => q.user \in UserId
  /\ l \in OfRow => q.row \in Row
  /\ l \in {"create", "provision"} => q.with \in Address
  /\ l = "update" => q.on \in Request \cup {None} /\ q.with \in Address \cup {None}
  /\ l \in Membership => q.on \in groups
  /\ l = "createGroup" => q.on \in Group
  /\ l \in {"createCluster", "updateCluster"} => q.on \in Cluster
  /\ l = "saveInstance" => q.on \in Group
  /\ l = "updateInstance" => q.on \in Group /\ q.with \in q.clusters \cup {None}

Aimed == \A r \in Request : Fits(pc[r], req[r])

Types == Data /\ Asked /\ Aimed

LEMMA IdleType == /\ Idle \in Request_ /\ NoUser \notin Row
                  /\ Idle.groups = {} /\ Idle.adminOf = {} /\ Idle.tokens = {}
                  /\ Idle.clusters = {}
BY AccountsAssumption DEF Idle, Request_, NoUser, Row

-----------------------------------------------------------------------------
(* Requests begin, go on and end. *)

LEMMA BeginTypes ==
  ASSUME Types, NEW r \in Request, NEW l \in Where, NEW q \in Request_, Fits(l, q),
         Begin(r, l, q), UNCHANGED <<accounts, directory, redis>>
  PROVE  Types'
<1>1. Data'
  BY DEF Types, Data, Known, Exists, accounts, directory, redis
<1>2. Asked'
  BY DEF Types, Asked, Begin
<1>3. ASSUME NEW p \in Request PROVE Fits(pc[p], req[p])'
  <2>1. CASE p = r
    BY <2>1 DEF Types, Asked, Begin, Fits, directory, Known, Exists
  <2>2. CASE p # r
    BY <2>2 DEF Types, Asked, Aimed, Begin, Fits, directory
  <2> QED
    BY <2>1, <2>2
<1> QED
  BY <1>1, <1>2, <1>3 DEF Types, Aimed

\* What a request reads of a user.
LEMMA ReadTypes ==
  ASSUME Types, NEW u \in Known
  PROVE  /\ u \in UserId /\ users[u] \in Row
         /\ FindById(u) \in Request_ /\ FindBare(u) \in Request_ /\ FindByEmail(u) \in Request_
         /\ GroupsOf(u) \subseteq groups /\ AdminOf(u) \subseteq groups
<1>1. u \in UserId /\ users[u] \in Row
  BY DEF Known, Exists, Types, Data
<1>2. GroupsOf(u) \subseteq groups /\ AdminOf(u) \subseteq groups /\ groups \subseteq Group
  BY DEF Types, Data, GroupsOf, AdminOf
<1>3. FindById(u) \in Request_ /\ FindBare(u) \in Request_
  BY <1>1, <1>2, IdleType DEF FindById, FindBare, Request_
<1>4. {link[g] : g \in GroupsOf(u)} \ {None} \in SUBSET Cluster
  BY <1>2 DEF Types, Data
<1>5. FindByEmail(u) \in Request_
  BY <1>3, <1>4 DEF FindByEmail, Request_
<1> QED
  BY <1>1, <1>2, <1>3, <1>5

LEMMA FinishTypes ==
  ASSUME Asked, Aimed, NEW r \in Request, Finish(r), groups \subseteq groups',
         faults' \in 0..MaxFaults
  PROVE  (Asked /\ Aimed)'
<1>1. Asked'
  BY IdleType DEF Asked, Finish, Where, Ended
<1>2. ASSUME NEW p \in Request PROVE Fits(pc[p], req[p])'
  <2>1. CASE p = r
    BY <2>1, IdleType DEF Asked, Finish, Fits, OfUser, OfRow, Membership
  <2>2. CASE p # r
    BY <2>2 DEF Asked, Aimed, Finish, Fits
  <2> QED
    BY <2>1, <2>2
<1> QED
  BY <1>1, <1>2 DEF Aimed

-----------------------------------------------------------------------------
(* Accounts. *)

LEMMA BeginAccounts ==
  ASSUME Types, NEW r \in Request, UNCHANGED <<directory, redis>>,
         \/ BeginSignUp(r) \/ BeginValidate(r) \/ BeginUpdate(r) \/ BeginResetPassword(r)
         \/ BeginDelete(r)
  PROVE  Types'
<1> USE DEF Where, Ended, OfUser, OfRow, Membership
<1>1. CASE BeginSignUp(r)
  <2>1. PICK a \in Address : Begin(r, "create", [Idle EXCEPT !.user = r, !.with = a])
    BY <1>1 DEF BeginSignUp
  <2>2. [Idle EXCEPT !.user = r, !.with = a] \in Request_
    BY IdleType DEF Request_, UserId
  <2>3. Fits("create", [Idle EXCEPT !.user = r, !.with = a])
    BY IdleType DEF Fits, Request_
  <2> QED
    BY <1>1, <2>1, <2>2, <2>3, BeginTypes DEF BeginSignUp
<1>2. CASE BeginValidate(r)
  <2>1. PICK u \in Known : Begin(r, "validate", FindBare(u))
    BY <1>2 DEF BeginValidate
  <2>2. Fits("validate", FindBare(u))
    BY ReadTypes, IdleType DEF Fits, FindBare, Request_
  <2> QED
    BY <1>2, <2>1, <2>2, ReadTypes, BeginTypes DEF BeginValidate
<1>3. CASE BeginUpdate(r)
  <2>1. PICK u \in Known, a \in Address \cup {None}, s \in {r, None} :
          Begin(r, "update", [FindById(u) EXCEPT !.with = a, !.on = s])
    BY <1>3 DEF BeginUpdate
  <2>2. /\ [FindById(u) EXCEPT !.with = a, !.on = s] \in Request_
        /\ Fits("update", [FindById(u) EXCEPT !.with = a, !.on = s])
    BY ReadTypes, IdleType DEF Fits, FindById, Request_
  <2> QED
    BY <1>3, <2>1, <2>2, BeginTypes DEF BeginUpdate
<1>4. CASE BeginResetPassword(r)
  <2>1. PICK u \in Known : Begin(r, "reset", FindBare(u))
    BY <1>4 DEF BeginResetPassword, WithToken
  <2>2. Fits("reset", FindBare(u))
    BY ReadTypes, IdleType DEF Fits, FindBare, Request_
  <2> QED
    BY <1>4, <2>1, <2>2, ReadTypes, BeginTypes DEF BeginResetPassword
<1>5. CASE BeginDelete(r)
  <2>1. PICK u \in Known : Begin(r, "delete", [Idle EXCEPT !.user = u])
    BY <1>5 DEF BeginDelete
  <2>2. u \in UserId
    BY DEF Known
  <2>3. /\ [Idle EXCEPT !.user = u] \in Request_
        /\ Fits("delete", [Idle EXCEPT !.user = u])
    BY <2>2, IdleType DEF Fits, Request_
  <2> QED
    BY <1>5, <2>1, <2>3, BeginTypes DEF BeginDelete
<1> QED
  BY <1>1, <1>2, <1>3, <1>4, <1>5

\* A row is inserted or replaced, memberships of its user may be added, and clusters.
MoreClusters == clusters \subseteq clusters' /\ clusters' \subseteq Cluster /\ UNCHANGED <<groups, link>>

LEMMA NoClusters == ASSUME Data, UNCHANGED directory PROVE MoreClusters
BY DEF Data, MoreClusters, directory

LEMMA RowTypes ==
  ASSUME Data, NEW u \in UserId, NEW row \in Row, NEW mine \in SUBSET groups, NEW led \in SUBSET groups,
         users' = [users EXCEPT ![u] = row],
         members' = members \cup ({u} \X mine), admins' = admins \cup ({u} \X led),
         lapsed' \subseteq Request, spent' \subseteq Request \cup {None}, restored' \subseteq UserId,
         MoreClusters, UNCHANGED redis
  PROVE  Data'
<1>1. Known' = Known \cup {u}
  BY IdleType DEF Known, Exists, Data
<1>2. users' \in [UserId -> Row \cup {NoUser}]
  BY DEF Data
<1>3. link' \in [Group -> clusters' \cup {None}]
  BY DEF Data, MoreClusters
<1> QED
  BY <1>1, <1>2, <1>3 DEF Data, MoreClusters, redis

LEMMA SaveUserTypes ==
  ASSUME Types, NEW r \in Request, NEW row \in Row, req[r].user \in UserId,
         SaveUser(r, row), MoreClusters, UNCHANGED redis
  PROVE  Data'
<1>1. CASE UNCHANGED accounts
  BY <1>1 DEF Types, Data, Known, Exists, MoreClusters, accounts, redis
<1>2. CASE ~UNCHANGED accounts
  <2>1. req[r].groups \subseteq groups /\ req[r].adminOf \subseteq groups
    BY DEF Types, Aimed, Fits
  <2>2. restored' \subseteq UserId /\ lapsed' \subseteq Request /\ spent' \subseteq Request \cup {None}
    BY <1>2 DEF SaveUser, Types, Data
  <2> QED
    BY <1>2, <2>1, <2>2, RowTypes DEF SaveUser, PutBackMemberships, Types
<1> QED
  BY <1>1, <1>2

LEMMA SaveByEmailTypes ==
  ASSUME Types, NEW r \in Request, NEW row \in Row, req[r].user \in UserId,
         SaveByEmail(r, row), UNCHANGED redis
  PROVE  Data' /\ UNCHANGED groups
<1>1. req[r].clusters \subseteq Cluster /\ clusters \subseteq Cluster
  BY DEF Types, Data, Asked, Request_
<1>2. MoreClusters
  BY <1>1 DEF SaveByEmail, MoreClusters
<1> QED
  BY <1>2, SaveUserTypes DEF SaveByEmail

LEMMA AccountSteps ==
  ASSUME Types, NEW r \in Request, UNCHANGED <<directory, redis>>,
         SignUp(r) \/ ValidateEmail(r) \/ UpdateUser(r) \/ ResetPassword(r) \/ DeleteUser(r)
  PROVE  Types'
<1> USE DEF OfUser, OfRow, Membership
<1>1. Finish(r) /\ UNCHANGED faults
  BY DEF SignUp, ValidateEmail, UpdateUser, ResetPassword, DeleteUser, At
<1>2. (Asked /\ Aimed)'
  BY <1>1, FinishTypes DEF Types, Asked, directory
<1>3. Fits(pc[r], req[r]) /\ req[r] \in Request_
  BY DEF Types, Aimed, Asked
<1>4. CASE UNCHANGED accounts
  BY <1>2, <1>4 DEF Types, Data, Known, Exists, accounts, directory, redis
<1>0. /\ lapsed \subseteq Request /\ spent \subseteq Request \cup {None}
      /\ restored \subseteq UserId /\ {} \in SUBSET groups /\ MoreClusters
  BY NoClusters DEF Types, Data
<1>5. CASE SignUp(r) /\ ~UNCHANGED accounts
  <2>1. NewUser(r, req[r].with) \in Row
    BY <1>3, <1>5 DEF SignUp, At, Fits, NewUser, Row, UserId
  <2>2. /\ users' = [users EXCEPT ![r] = NewUser(r, req[r].with)]
        /\ members' = members /\ admins' = admins
        /\ UNCHANGED <<lapsed, spent, restored>>
    BY <1>5 DEF SignUp, Insert
  <2>3. r \in UserId
    BY DEF UserId
  <2>4. members' = members \cup ({r} \X {}) /\ admins' = admins \cup ({r} \X {})
    BY <2>2
  <2>5. Data'
    BY <1>0, <2>1, <2>2, <2>3, <2>4, RowTypes DEF Types
  <2> QED
    BY <1>2, <2>5 DEF Types
<1>6. CASE ValidateEmail(r)
  <2>1. ValidatedRow(req[r].row) \in Row /\ req[r].user \in UserId
    BY <1>3, <1>6 DEF ValidateEmail, At, Fits, ValidatedRow, Row
  <2> QED
    BY <1>0, <1>2, <1>6, <2>1, SaveUserTypes DEF ValidateEmail, Types
<1>8. CASE UpdateUser(r) /\ ~UNCHANGED accounts
  <2> DEFINE u   == req[r].user
             row == [users[u] EXCEPT !.email = NewEmail(r), !.secret = NewSecret(r),
                                     !.legacy = NewLegacy(r)]
  <2>1. u \in UserId /\ users[u] \in Row /\ req[r].row \in Row
    BY <1>3, <1>8 DEF UpdateUser, At, Fits, Types, Data, Exists
  <2>2. NewEmail(r) \in Address /\ NewSecret(r) \in UserId /\ NewLegacy(r) \in BOOLEAN
    BY <1>3, <1>8, <2>1 DEF UpdateUser, At, Fits, NewEmail, NewSecret, NewLegacy, Row, UserId
  <2>3. row \in Row
    BY <2>1, <2>2 DEF Row
  <2>4. /\ users' = [users EXCEPT ![u] = row] /\ PutBackMemberships(r)
        /\ UNCHANGED <<lapsed, spent, restored>>
    BY <1>8 DEF UpdateUser
  <2>5. Data'
    BY <1>0, <1>3, <2>1, <2>3, <2>4, RowTypes DEF PutBackMemberships, Fits, Types, Data
  <2> QED
    BY <1>2, <2>5 DEF Types
<1>9. CASE ResetPassword(r) /\ ~UNCHANGED accounts
  <2> DEFINE u == req[r].user
  <2>1. u \in UserId /\ users[u] \in Row /\ req[r].row \in Row
    BY <1>3, <1>9 DEF ResetPassword, At, Fits, Types, Data, Exists
  <2>2. ResetRow(r, users[u]) \in Row
    BY <2>1 DEF ResetRow, Row, UserId
  <2>3. /\ users' = [users EXCEPT ![u] = ResetRow(r, users[u])]
        /\ spent' = spent \cup {req[r].row.reset}
        /\ UNCHANGED <<members, admins, lapsed, restored>>
    BY <1>9 DEF ResetPassword
  <2>4. members' = members \cup ({u} \X {}) /\ admins' = admins \cup ({u} \X {})
    BY <2>3
  <2>5. req[r].row.reset \in Request \cup {None}
    BY <2>1 DEF Row
  <2>6. Data'
    BY <1>0, <2>1, <2>2, <2>3, <2>4, <2>5, RowTypes DEF Types
  <2> QED
    BY <1>2, <2>6 DEF Types
<1>10. CASE DeleteUser(r) /\ ~UNCHANGED accounts
  <2>1. Known' = Known \ {req[r].user}
    BY <1>10 DEF DeleteUser, Known, Exists, Types, Data
  <2>2. Data'
    BY <1>10, <2>1 DEF DeleteUser, PairsWithout, Types, Data, directory, redis
  <2> QED
    BY <1>2, <2>2 DEF Types
<1> QED
  BY <1>4, <1>5, <1>6, <1>8, <1>9, <1>10

LEMMA LapseTypes == ASSUME Types, Lapse, UNCHANGED <<directory, redis>> PROVE Types'
<1>1. PICK u \in Known : /\ users[u].reset \notin {None} \cup lapsed
                         /\ lapsed' = lapsed \cup {users[u].reset}
  BY DEF Lapse
<1>2. users[u].reset \in Request
  BY <1>1, ReadTypes DEF Row
<1> QED
  BY <1>1, <1>2 DEF Lapse, Types, Data, Asked, Aimed, Fits, Known, Exists, directory, redis

-----------------------------------------------------------------------------
(* Groups. *)

LEMMA BeginGroups ==
  ASSUME Types, NEW r \in Request, UNCHANGED redis,
         \/ BeginAddUser(r) \/ BeginRemoveUser(r) \/ BeginAddAdminUser(r) \/ BeginRemoveAdminUser(r)
         \/ BeginCreateGroup(r) \/ BeginUpdateGroup(r) \/ BeginAddCluster(r) \/ BeginRemoveCluster(r)
         \/ BeginCreateCluster(r) \/ BeginUpdateCluster(r) \/ BeginDeleteCluster(r)
         \/ BeginRequestReset(r) \/ BeginSaveInstance(r) \/ BeginUpdateInstance(r)
  PROVE  Types'
<1> USE DEF Where, OfUser, OfRow, Membership
<1>1. ASSUME NEW l \in Membership, BeginMembership(r, l) PROVE Types'
  <2>1. PICK u \in Known, g \in groups : Begin(r, l, [FindById(u) EXCEPT !.on = g])
    BY <1>1 DEF BeginMembership
  <2>2. g \in Group
    BY DEF Types, Data
  <2>3. /\ [FindById(u) EXCEPT !.on = g] \in Request_
        /\ Fits(l, [FindById(u) EXCEPT !.on = g])
    BY <2>2, ReadTypes, IdleType DEF Fits, FindById, Request_
  <2> QED
    BY <1>1, <2>1, <2>3, BeginTypes DEF BeginMembership
<1>2. CASE \/ BeginAddUser(r) \/ BeginRemoveUser(r) \/ BeginAddAdminUser(r) \/ BeginRemoveAdminUser(r)
  BY <1>1, <1>2 DEF BeginAddUser, BeginRemoveUser, BeginAddAdminUser, BeginRemoveAdminUser
<1>3. ASSUME NEW l \in {"createGroup", "updateGroup", "addCluster", "removeCluster"},
             NEW g \in Group, NEW c \in Cluster \cup {None},
             Begin(r, l, [Idle EXCEPT !.on = g, !.with = c]), UNCHANGED <<accounts, directory>>
      PROVE  Types'
  <2>1. /\ [Idle EXCEPT !.on = g, !.with = c] \in Request_
        /\ Fits(l, [Idle EXCEPT !.on = g, !.with = c])
    BY IdleType DEF Fits, Request_
  <2> QED
    BY <1>3, <2>1, BeginTypes
<1>4. CASE \/ BeginCreateGroup(r) \/ BeginUpdateGroup(r) \/ BeginAddCluster(r) \/ BeginRemoveCluster(r)
  <2>1. \E l \in {"createGroup", "updateGroup", "addCluster", "removeCluster"}, g \in Group,
          c \in Cluster \cup {None} : Begin(r, l, [Idle EXCEPT !.on = g, !.with = c])
    BY <1>4 DEF BeginCreateGroup, BeginUpdateGroup, BeginAddCluster, BeginRemoveCluster, BeginLink,
                Types, Data
  <2>2. UNCHANGED <<accounts, directory>>
    BY <1>4 DEF BeginCreateGroup, BeginUpdateGroup, BeginAddCluster, BeginRemoveCluster
  <2> QED
    BY <1>3, <2>1, <2>2
<1>5. ASSUME NEW l \in {"createCluster", "updateCluster", "deleteCluster"}, NEW c \in Cluster,
             NEW gs \in SUBSET groups,
             NEW q \in {[Idle EXCEPT !.on = c], [Idle EXCEPT !.on = c, !.groups = gs]},
             Begin(r, l, q), UNCHANGED <<accounts, directory>>
      PROVE  Types'
  <2>1. gs \subseteq Group
    BY DEF Types, Data
  <2>2. q \in Request_ /\ Fits(l, q)
    <3>1. CASE q = [Idle EXCEPT !.on = c]
      BY <3>1, IdleType DEF Fits, Request_
    <3>2. CASE q = [Idle EXCEPT !.on = c, !.groups = gs]
      BY <2>1, <3>2, IdleType DEF Fits, Request_
    <3> QED
      BY <3>1, <3>2
  <2> QED
    BY <1>5, <2>2, BeginTypes
<1>6. CASE BeginCreateCluster(r) \/ BeginUpdateCluster(r) \/ BeginDeleteCluster(r)
  <2>1. \A c \in Cluster : Attached(c) \in SUBSET groups
    BY DEF Attached
  <2>2. clusters \subseteq Cluster
    BY DEF Types, Data
  <2>3. UNCHANGED <<accounts, directory>>
    BY <1>6 DEF BeginCreateCluster, BeginUpdateCluster, BeginDeleteCluster
  <2>4. CASE BeginCreateCluster(r)
    BY <1>5, <2>1, <2>3, <2>4 DEF BeginCreateCluster
  <2>5. CASE BeginUpdateCluster(r)
    BY <1>5, <2>1, <2>2, <2>3, <2>5 DEF BeginUpdateCluster
  <2>6. CASE BeginDeleteCluster(r)
    BY <1>5, <2>1, <2>2, <2>3, <2>6 DEF BeginDeleteCluster
  <2> QED
    BY <1>6, <2>4, <2>5, <2>6
<1>7. CASE BeginRequestReset(r)
  <2>1. PICK u \in Known : Begin(r, "remind", FindByEmail(u))
    BY <1>7 DEF BeginRequestReset
  <2>2. Fits("remind", FindByEmail(u))
    BY ReadTypes, IdleType DEF Fits, FindByEmail, FindById, Request_
  <2> QED
    BY <1>7, <2>1, <2>2, ReadTypes, BeginTypes DEF BeginRequestReset
<1>8. ASSUME NEW l \in {"saveInstance", "updateInstance"}, NEW g \in groups,
             NEW cs \in SUBSET Cluster, l = "updateInstance" => link[g] \in cs \cup {None},
             BeginInstance(r, l, g, cs), UNCHANGED <<accounts, directory>>
      PROVE  Types'
  <2> DEFINE q == [Idle EXCEPT !.on = g, !.with = link[g], !.clusters = cs]
  <2>1. g \in Group /\ link[g] \in Cluster \cup {None}
    BY DEF Types, Data
  <2>2. q \in Request_ /\ Fits(l, q)
    BY <1>8, <2>1, IdleType DEF Fits, Request_
  <2> QED
    BY <1>8, <2>2, BeginTypes DEF BeginInstance
<1>9. CASE BeginSaveInstance(r)
  BY <1>8, <1>9 DEF BeginSaveInstance
<1>10. CASE BeginUpdateInstance(r)
  <2>1. PICK g \in groups : BeginInstance(r, "updateInstance", g, {link[g]} \ {None})
    BY <1>10 DEF BeginUpdateInstance
  <2>2. {link[g]} \ {None} \in SUBSET Cluster /\ link[g] \in ({link[g]} \ {None}) \cup {None}
    BY DEF Types, Data
  <2> QED
    BY <1>8, <1>10, <2>1, <2>2 DEF BeginUpdateInstance
<1> QED
  BY <1>2, <1>4, <1>6, <1>7, <1>9, <1>10

LEMMA MembershipSteps ==
  ASSUME Types, NEW r \in Request, UNCHANGED redis,
         AddUser(r) \/ AddAdminUser(r) \/ RemoveUser(r) \/ RemoveAdminUser(r)
  PROVE  Types'
<1> USE DEF OfUser, OfRow, Membership
<1>1. Finish(r) /\ UNCHANGED <<faults, directory>>
  BY DEF AddUser, AddAdminUser, RemoveUser, RemoveAdminUser, At
<1>2. (Asked /\ Aimed)'
  BY <1>1, FinishTypes DEF Types, Asked, directory
<1>3. Fits(pc[r], req[r]) /\ req[r] \in Request_
  BY DEF Types, Aimed, Asked
<1>4. /\ req[r].user \in UserId /\ req[r].row \in Row /\ req[r].on \in groups
  BY <1>3 DEF Fits, AddUser, AddAdminUser, RemoveUser, RemoveAdminUser, At
<1>5. CASE UNCHANGED accounts
  BY <1>1, <1>2, <1>5 DEF Types, Data, Known, Exists, accounts, directory, redis
<1>6. CASE (AddUser(r) \/ AddAdminUser(r)) /\ ~UNCHANGED accounts
  <2> DEFINE u   == req[r].user
             row == IF Exists(u) THEN users[u] ELSE req[r].row
             new == {req[r].on}
  <2>1. row \in Row
    BY <1>4 DEF Exists, Types, Data
  <2>2. /\ users' = [users EXCEPT ![u] = row]
        /\ restored' \subseteq UserId
        /\ UNCHANGED <<lapsed, spent>>
    BY <1>4, <1>6 DEF AddUser, AddAdminUser, AppendUser, Types, Data
  <2>3. Pair(r) = {u} \X new /\ {u} \X {} = {}
    BY DEF Pair
  <2>4. \/ members' = members \cup ({u} \X new) /\ admins' = admins \cup ({u} \X {})
        \/ members' = members \cup ({u} \X {}) /\ admins' = admins \cup ({u} \X new)
    BY <1>6, <2>3 DEF AddUser, AddAdminUser, JoinAsAdmin
  <2>5. new \in SUBSET groups /\ {} \in SUBSET groups
    BY <1>4
  <2> HIDE DEF row, new
  <2>6. Data'
    BY <1>1, <1>4, <2>1, <2>2, <2>4, <2>5, NoClusters, RowTypes DEF Types, Data
  <2> QED
    BY <1>2, <2>6 DEF Types
<1>7. CASE RemoveUser(r) \/ RemoveAdminUser(r)
  BY <1>1, <1>2, <1>7 DEF RemoveUser, RemoveAdminUser, Types, Data, Known, Exists, directory, redis
<1> QED
  BY <1>5, <1>6, <1>7

LEMMA GroupSteps ==
  ASSUME Types, NEW r \in Request, UNCHANGED redis,
         \/ CreateGroup(r) \/ UpdateGroup(r) \/ AddClusterToGroup(r) \/ RemoveCluster(r)
         \/ CreateCluster(r) \/ UpdateCluster(r) \/ DeleteCluster(r)
         \/ SaveInstance(r) \/ UpdateInstance(r)
  PROVE  Types'
<1> USE DEF OfUser, OfRow, Membership
<1>1. Finish(r) /\ UNCHANGED <<faults, accounts>> /\ groups \subseteq groups'
  BY DEF CreateGroup, UpdateGroup, AddClusterToGroup, RemoveCluster, SetLink,
         CreateCluster, UpdateCluster, DeleteCluster, SaveInstance, UpdateInstance, At
<1>2. (Asked /\ Aimed)'
  BY <1>1, FinishTypes DEF Types, Asked
<1>3. Fits(pc[r], req[r])
  BY DEF Types, Aimed
<1>4. /\ groups' \subseteq Group /\ clusters' \subseteq Cluster
      /\ link' \in [Group -> clusters' \cup {None}]
  <2>1. CASE CreateGroup(r)
    BY <1>3, <2>1 DEF CreateGroup, Referable, At, Fits, Types, Data
  <2>2. CASE UpdateGroup(r) \/ AddClusterToGroup(r) \/ RemoveCluster(r) \/ SaveInstance(r)
    BY <2>2 DEF UpdateGroup, AddClusterToGroup, RemoveCluster, SaveInstance, SetLink, Referable, Types, Data
  <2>3. CASE CreateCluster(r)
    BY <1>3, <2>3 DEF CreateCluster, At, Fits, Types, Data
  <2>4. CASE UpdateCluster(r)
    BY <1>3, <2>4 DEF UpdateCluster, At, Fits, Types, Data
  <2>5. CASE DeleteCluster(r)
    BY <2>5 DEF DeleteCluster, Types, Data
  <2>6. CASE UpdateInstance(r)
    <3>1. req[r].clusters \subseteq Cluster /\ req[r].with \in req[r].clusters \cup {None}
      BY <1>3, <2>6 DEF UpdateInstance, At, Fits, Types, Asked, Request_
    <3> QED
      BY <2>6, <3>1 DEF UpdateInstance, Types, Data
  <2> QED
    BY <2>1, <2>2, <2>3, <2>4, <2>5, <2>6
<1> QED
  BY <1>1, <1>2, <1>4 DEF Types, Data, Known, Exists, accounts, redis

LEMMA RequestResetTypes ==
  ASSUME Types, NEW r \in Request, RequestPasswordReset(r), UNCHANGED redis
  PROVE  Types'
<1> DEFINE row == [req[r].row EXCEPT !.reset = r]
<1>1. row \in Row /\ req[r].user \in UserId
  BY DEF RequestPasswordReset, At, Fits, OfUser, OfRow, Types, Aimed, Row
<1>2. Data' /\ UNCHANGED groups
  BY <1>1, SaveByEmailTypes DEF RequestPasswordReset
<1>3. (Asked /\ Aimed)'
  BY <1>2, FinishTypes DEF RequestPasswordReset, At, Types, Asked
<1> QED
  BY <1>2, <1>3 DEF Types

LEMMA GroupsTypes == ASSUME Types, NextGroups, UNCHANGED redis PROVE Types'
BY BeginAccounts, AccountSteps, LapseTypes, BeginGroups, MembershipSteps, GroupSteps,
   RequestResetTypes
   DEF NextGroups, NextAccounts

-----------------------------------------------------------------------------
(* Sessions. *)

LEMMA BeginSessions ==
  ASSUME Types, NEW r \in Request,
         BeginSignIn(r) \/ BeginSSO(r) \/ BeginRefresh(r) \/ BeginSignOut(r)
  PROVE  Types'
<1> USE DEF Where, Ended, OfUser, OfRow, Membership, Elsewhere
<1>1. UNCHANGED <<accounts, directory, redis>>
  BY DEF BeginSignIn, BeginSSO, BeginRefresh, BeginSignOut
<1>2. ASSUME NEW u \in Known, NEW l \in {"rehash", "issue", "admit"},
             NEW q \in {FindByEmail(u), FindBare(u)}, Begin(r, l, q)
      PROVE  Types'
  <2>1. q \in Request_
    BY ReadTypes
  <2>2. q.user = u /\ q.row = users[u] /\ q.groups \subseteq groups /\ q.adminOf \subseteq groups
    <3>1. CASE q = FindByEmail(u)
      BY <3>1, ReadTypes, IdleType DEF FindByEmail, FindById, Request_
    <3>2. CASE q = FindBare(u)
      BY <3>2, IdleType DEF FindBare, Request_
    <3> QED
      BY <3>1, <3>2
  <2>3. Fits(l, q)
    BY <2>2, ReadTypes DEF Fits
  <2> QED
    BY <1>1, <1>2, <2>1, <2>3, BeginTypes
<1>3. ASSUME NEW u \in UserId, NEW l \in {"rotate", "scan"}, NEW ks \in SUBSET Key,
             Begin(r, l, [Idle EXCEPT !.user = u, !.tokens = ks])
      PROVE  Types'
  <2>1. /\ [Idle EXCEPT !.user = u, !.tokens = ks] \in Request_
        /\ Fits(l, [Idle EXCEPT !.user = u, !.tokens = ks])
    BY IdleType DEF Fits, Request_
  <2> QED
    BY <1>1, <1>3, <2>1, BeginTypes
<1>4. issued \subseteq Key /\ store \subseteq Key
  BY DEF Types, Data
<1>5. CASE BeginSignIn(r)
  BY <1>2, <1>5 DEF BeginSignIn
<1>6. CASE BeginSSO(r)
  <2>1. PICK a \in Address :
          \/ Begin(r, "provision", [Idle EXCEPT !.user = r, !.with = a])
          \/ \E u \in WithEmail(a) :
               Begin(r, IF users[u].validated THEN "issue" ELSE "admit", FindBare(u))
    BY <1>6 DEF BeginSSO
  <2>2. CASE Begin(r, "provision", [Idle EXCEPT !.user = r, !.with = a])
    <3>1. /\ [Idle EXCEPT !.user = r, !.with = a] \in Request_
          /\ Fits("provision", [Idle EXCEPT !.user = r, !.with = a])
      BY IdleType DEF Fits, Request_, UserId
    <3> QED
      BY <1>1, <2>2, <3>1, BeginTypes
  <2> QED
    BY <1>2, <2>1, <2>2 DEF WithEmail
<1>7. CASE BeginRefresh(r)
  <2>1. PICK k \in issued : Begin(r, "rotate", [Idle EXCEPT !.user = k[1], !.tokens = {k}])
    BY <1>7 DEF BeginRefresh, Verified
  <2>2. k[1] \in UserId /\ {k} \in SUBSET Key
    BY <1>4 DEF Key
  <2> QED
    BY <1>3, <2>1, <2>2
<1>8. CASE BeginSignOut(r)
  <2>1. PICK u \in Bearers : Begin(r, "scan", [Idle EXCEPT !.user = u, !.tokens = KeysOf(u)])
    BY <1>8 DEF BeginSignOut
  <2>2. u \in UserId /\ KeysOf(u) \in SUBSET Key
    BY <1>4 DEF Key, Bearers, KeysOf
  <2> QED
    BY <1>3, <2>1, <2>2
<1> QED
  BY <1>5, <1>6, <1>7, <1>8

\* A request goes on with what it has, or with less.
LEMMA GoOnTypes ==
  ASSUME Types, NEW r \in Request, NEW l \in Where, NEW q \in Request_, Fits(l, q),
         pc' = [pc EXCEPT ![r] = l], req' = [req EXCEPT ![r] = q], UNCHANGED <<groups, faults>>
  PROVE  (Asked /\ Aimed)'
<1>1. Asked'
  BY DEF Types, Asked
<1>2. ASSUME NEW p \in Request PROVE Fits(pc[p], req[p])'
  <2>1. CASE p = r
    BY <2>1 DEF Types, Asked, Fits
  <2>2. CASE p # r
    BY <2>2 DEF Types, Asked, Aimed, Fits
  <2> QED
    BY <2>1, <2>2
<1> QED
  BY <1>1, <1>2 DEF Aimed

LEMMA SignInSteps ==
  ASSUME Types, NEW r \in Request,
         MigrateLegacyPassword(r) \/ Provision(r) \/ Admit(r)
  PROVE  Types'
<1> USE DEF Where, OfUser, OfRow, Membership
<1>1. UNCHANGED <<faults, groups, redis>>
  BY DEF MigrateLegacyPassword, Provision, Admit, At, SaveByEmail, Elsewhere, directory
<1>2. Fits(pc[r], req[r]) /\ req[r] \in Request_
  BY DEF Types, Aimed, Asked
<1>3. Finish(r) => (Asked /\ Aimed)'
  BY <1>1, FinishTypes DEF Types, Asked
<1>4. ASSUME Goto(r, "issue"), req[r].user \in UserId PROVE (Asked /\ Aimed)'
  <2>1. Fits("issue", req[r])
    BY <1>2, <1>4 DEF Fits
  <2>2. req' = [req EXCEPT ![r] = req[r]]
    BY <1>4 DEF Goto, Types, Asked
  <2> QED
    BY <1>1, <1>2, <1>4, <2>1, <2>2, GoOnTypes DEF Goto
<1>5. UNCHANGED <<accounts, directory>> => Data'
  BY <1>1 DEF Types, Data, Known, Exists, accounts, directory, redis
<1>6. CASE MigrateLegacyPassword(r)
  <2>1. req[r].user \in UserId /\ Rehashed(req[r].row) \in Row
    BY <1>2, <1>6 DEF MigrateLegacyPassword, At, Fits, Rehashed, Row
  <2>2. Data'
    BY <1>1, <1>5, <1>6, <2>1, SaveByEmailTypes DEF MigrateLegacyPassword, Elsewhere
  <2> QED
    BY <1>4, <1>6, <2>1, <2>2 DEF MigrateLegacyPassword, Types
<1>7. CASE Provision(r)
  <2> DEFINE row == NewUser(r, req[r].with)
             q   == [Idle EXCEPT !.user = r, !.row = row]
  <2>1. CASE UNCHANGED accounts /\ Finish(r)
    BY <1>3, <1>5, <1>7, <2>1 DEF Provision, Types
  <2>2. CASE ~(UNCHANGED accounts /\ Finish(r))
    <3>1. row \in Row /\ r \in UserId
      BY <1>2, <1>7 DEF Provision, At, Fits, NewUser, Row, UserId
    <3>2. /\ Insert(r, row)
          /\ pc' = [pc EXCEPT ![r] = "admit"] /\ req' = [req EXCEPT ![r] = q]
      BY <1>7, <2>2 DEF Provision
    <3>3. q \in Request_ /\ Fits("admit", q)
      BY <3>1, IdleType DEF Request_, Fits
    <3>4. (Asked /\ Aimed)'
      BY <1>1, <3>2, <3>3, GoOnTypes
    <3>5. members' = members \cup ({r} \X {}) /\ admins' = admins \cup ({r} \X {})
      BY <3>2 DEF Insert
    <3>6. /\ users' = [users EXCEPT ![r] = row]
          /\ UNCHANGED <<lapsed, spent, restored>>
      BY <3>2 DEF Insert
    <3> HIDE DEF row
    <3>7. /\ lapsed \subseteq Request /\ spent \subseteq Request \cup {None}
          /\ restored \subseteq UserId /\ {} \in SUBSET groups
      BY DEF Types, Data
    <3>8. Data'
      BY <1>1, <1>7, <3>1, <3>5, <3>6, <3>7, NoClusters, RowTypes DEF Provision, Types
    <3> QED
      BY <3>4, <3>8 DEF Types
  <2> QED
    BY <2>1, <2>2
<1>8. CASE Admit(r)
  <2>1. req[r].user \in UserId /\ ValidatedRow(req[r].row) \in Row
    BY <1>2, <1>8 DEF Admit, At, Fits, ValidatedRow, Row
  <2>2. Data'
    BY <1>1, <1>8, <2>1, NoClusters, SaveUserTypes DEF Admit, Types
  <2> QED
    BY <1>3, <1>4, <1>8, <2>1, <2>2 DEF Admit, Types
<1> QED
  BY <1>6, <1>7, <1>8

LEMMA TokenSteps ==
  ASSUME Types, NEW r \in Request, Issue(r) \/ Rotate(r) \/ LoseAnswer(r) \/ Del(r) \/ SignOut(r)
  PROVE  Types'
<1> USE DEF Where, Ended, OfUser, OfRow, Membership, Elsewhere
<1>1. UNCHANGED <<accounts, directory>>
  BY DEF Issue, Rotate, LoseAnswer, Del, SignOut
<1>2. Fits(pc[r], req[r]) /\ req[r] \in Request_
  BY DEF Types, Aimed, Asked
<1>3. ASSUME faults' \in 0..MaxFaults, Finish(r) PROVE (Asked /\ Aimed)'
  BY <1>1, <1>3, FinishTypes DEF Types, directory
<1>4. faults \in 0..MaxFaults
  BY DEF Types, Asked
<1>5. ASSUME store' \subseteq issued', issued' \subseteq Key, uses' \in [Token -> Nat] PROVE Data'
  BY <1>1, <1>5 DEF Types, Data, Known, Exists, accounts, directory
<1>6. CASE Issue(r)
  <2>1. NewKey(r) \in Key
    BY <1>2, <1>6 DEF Issue, At, Fits, NewKey, Key, Token
  <2> QED
    BY <1>3, <1>4, <1>5, <1>6, <2>1 DEF Issue, At, SetRefreshToken, Types, Data
<1>7. CASE Rotate(r)
  <2>1. store' \subseteq issued' /\ issued' \subseteq Key
    BY <1>7 DEF Rotate, Types, Data
  <2>2. uses' \in [Token -> Nat]
    <3>1. uses \in [Token -> Nat] /\ \A t \in Token : uses[t] \in Nat /\ uses[t] + 1 \in Nat
      BY DEF Types, Data
    <3> QED
      BY <1>7, <3>1 DEF Rotate
  <2>3. CASE Finish(r)
    BY <1>3, <1>4, <1>5, <1>7, <2>1, <2>2, <2>3 DEF Rotate, At, Types
  <2>4. CASE ~Finish(r)
    <3>1. /\ [req[r] EXCEPT !.tokens = {}] \in Request_
          /\ Fits("issue", [req[r] EXCEPT !.tokens = {}])
      BY <1>2, <1>7 DEF Rotate, At, Fits, Request_
    <3>2. /\ pc' = [pc EXCEPT ![r] = "issue"]
          /\ req' = [req EXCEPT ![r] = [req[r] EXCEPT !.tokens = {}]]
          /\ UNCHANGED faults
      BY <1>7, <2>4 DEF Rotate, At
    <3>3. (Asked /\ Aimed)'
      BY <1>1, <3>1, <3>2, GoOnTypes DEF directory
    <3> QED
      BY <1>5, <2>1, <2>2, <3>3 DEF Types
  <2> QED
    BY <2>3, <2>4
<1>8. CASE LoseAnswer(r)
  <2>1. faults' \in 0..MaxFaults
    BY <1>4, <1>8, AccountsAssumption DEF LoseAnswer, Fault
  <2> QED
    BY <1>3, <1>5, <1>8, <2>1 DEF LoseAnswer, Types, Data
<1>9. CASE Del(r)
  <2>1. Data'
    BY <1>5, <1>9 DEF Del, Types, Data
  <2> QED
    BY <1>1, <1>9, <2>1 DEF Del, At, Types, Asked, Aimed, Fits, directory
<1>10. CASE SignOut(r)
  <2>1. Data'
    BY <1>5, <1>10 DEF SignOut, Types, Data, redis
  <2>2. Fits("done", req[r]) /\ req' = [req EXCEPT ![r] = req[r]]
    BY <1>2, <1>10 DEF SignOut, Fits, Types, Asked
  <2> QED
    BY <1>1, <1>2, <1>10, <2>1, <2>2, GoOnTypes DEF SignOut, At, Types, directory
<1> QED
  BY <1>6, <1>7, <1>8, <1>9, <1>10

LEMMA FaultTypes ==
  ASSUME Types, Expire \/ Crash \/ \E r \in Request : Stop(r)
  PROVE  Types'
<1> USE DEF Elsewhere
<1>1. UNCHANGED <<accounts, directory, uses>> /\ store' \subseteq issued' /\ issued' \subseteq issued
  BY DEF Expire, Crash, Stop, redis, Types, Data
<1>2. Data'
  BY <1>1 DEF Types, Data, Known, Exists, accounts, directory
<1>3. CASE Expire
  BY <1>1, <1>2, <1>3 DEF Expire, Types, Asked, Aimed, Fits, directory
<1>4. CASE Crash
  <2>1. faults' \in 0..MaxFaults
    BY <1>4, AccountsAssumption DEF Crash, Fault, Types, Asked
  <2>2. Asked'
    BY <1>4, <2>1, IdleType DEF Crash, Types, Asked, Where, Ended
  <2>3. Aimed'
    BY <1>1, <1>4, IdleType
    DEF Crash, Types, Asked, Aimed, Fits, Pending, Ended, OfUser, OfRow, Membership, directory
  <2> QED
    BY <1>2, <2>2, <2>3 DEF Types
<1>5. ASSUME NEW r \in Request, Stop(r) PROVE Types'
  <2>1. faults' \in 0..MaxFaults
    BY <1>5, AccountsAssumption DEF Stop, Fault, Types, Asked
  <2> QED
    BY <1>1, <1>2, <1>5, <2>1, FinishTypes DEF Stop, Types, directory
<1> QED
  BY <1>3, <1>4, <1>5

LEMMA InitTypes == Init => Types
<1> SUFFICES ASSUME Init PROVE Types
  OBVIOUS
<1> USE AccountsAssumption, GroupsAssumption, SessionsAssumption DEF Init, InitGroups, InitAccounts
<1>1. \A u \in Account : users[u] \in Row /\ u \in UserId
  BY DEF UserId, Row
<1>2. users \in [UserId -> Row \cup {NoUser}] /\ Account \subseteq Known
  BY <1>1, IdleType DEF Known, Exists
<1>3. Data
  BY <1>2 DEF Data, Key, Token, UserId
<1>4. Asked
  BY IdleType DEF Asked, Where, Ended
<1>5. Aimed
  BY IdleType DEF Aimed, Fits, OfUser, OfRow, Membership
<1> QED
  BY <1>3, <1>4, <1>5 DEF Types

LEMMA NextTypes == ASSUME Types, [Next]_vars PROVE Types'
<1>1. CASE UNCHANGED vars
  BY <1>1 DEF vars, accounts, directory, redis, Types, Data, Known, Exists, Asked, Aimed, Fits
<1> QED
  BY <1>1, GroupsTypes, BeginSessions, SignInSteps, TokenSteps, FaultTypes DEF Next

\* The rows and what refers to them keep their types: whatever requests overlap, fail and
\* write back, a membership is one of a user and a group that exist, and a group's cluster
\* exists.
THEOREM TypeCorrect == Spec => []TypeOK
<1>1. Types /\ [Next]_vars => Types'
  BY NextTypes
<1>2. Types => TypeOK
  BY DEF Types, Data, Asked, TypeOK
<1> QED
  BY <1>1, <1>2, InitTypes, PTL DEF Spec

-----------------------------------------------------------------------------
(* Refresh tokens. *)

\* A token that has been accepted is in Redis no more, and it is one user's; a request
\* that has not ended has issued none yet.
TokenInv ==
  /\ \A t \in Token : uses[t] <= 1
  /\ \A u \in UserId, t \in Token : uses[t] > 0 => <<u, t>> \notin store
  /\ \A u, v \in UserId, t \in Token : <<u, t>> \in store /\ <<v, t>> \in store => u = v
  /\ \A r \in Request : pc[r] # "done" => uses[r] = 0 /\ \A u \in UserId : <<u, r>> \notin issued

\* Nor does any request have it.
SignOutInv ==
  /\ \A r \in Request : pc[r] = "done" => req[r].tokens \cap store = {}
  /\ \A q, r \in Request, u \in UserId : pc[r] # "done" => <<u, r>> \notin req[q].tokens

\* What the requests do that do not touch Redis.
Moves(r) ==
  /\ pc[r] # "done"
  /\ \A q \in Request : q # r => pc'[q] = pc[q] /\ req'[q] = req[q]
  /\ \/ req'[r].tokens = {}
     \/ pc'[r] # "done" /\ (req'[r].tokens = req[r].tokens \/ req'[r].tokens \subseteq issued)

LEMMA BeginMoves ==
  ASSUME Types, NEW r \in Request, NEW l \in Where, NEW q, Begin(r, l, q),
         \/ q.tokens = {}
         \/ l # "done" /\ q.tokens \subseteq issued
  PROVE  Moves(r)
BY DEF Types, Asked, Begin, Moves

LEMMA FinishMoves ==
  ASSUME Types, NEW r \in Request, Finish(r), pc[r] # "done" PROVE Moves(r)
BY IdleType DEF Types, Asked, Finish, Moves

LEMMA ReadMoves ==
  ASSUME NEW u PROVE FindByEmail(u).tokens = {} /\ FindBare(u).tokens = {}
BY DEF FindByEmail, FindById, FindBare, Idle

LEMMA AccountsMove ==
  ASSUME Types, NextAccounts, UNCHANGED redis
  PROVE  UNCHANGED <<pc, req>> \/ \E r \in Request : Moves(r)
<1> USE DEF Where, Ended
<1>1. CASE Lapse
  BY <1>1 DEF Lapse
<1>2. ASSUME NEW r \in Request,
             SignUp(r) \/ ValidateEmail(r) \/ UpdateUser(r) \/ ResetPassword(r) \/ DeleteUser(r)
      PROVE  Moves(r)
  <2>1. Finish(r) /\ pc[r] # "done"
    BY <1>2 DEF SignUp, ValidateEmail, UpdateUser, ResetPassword, DeleteUser, At
  <2> QED
    BY <2>1, FinishMoves
<1>3. ASSUME NEW r \in Request,
             \/ BeginSignUp(r) \/ BeginValidate(r) \/ BeginUpdate(r) \/ BeginResetPassword(r)
             \/ BeginDelete(r)
      PROVE  Moves(r)
  <2>1. \E l \in Where : \E q : q.tokens = {} /\ Begin(r, l, q)
    <3>1. CASE BeginSignUp(r) \/ BeginDelete(r)
      BY <3>1, IdleType DEF BeginSignUp, BeginDelete, Idle
    <3>2. CASE BeginValidate(r) \/ BeginResetPassword(r)
      BY <3>2, ReadMoves DEF BeginValidate, BeginResetPassword
    <3>3. CASE BeginUpdate(r)
      BY <3>3 DEF BeginUpdate, FindById, Idle
    <3> QED
      BY <1>3, <3>1, <3>2, <3>3
  <2> QED
    BY <2>1, BeginMoves
<1> QED
  BY <1>1, <1>2, <1>3 DEF NextAccounts

LEMMA GroupsMove ==
  ASSUME Types, NextGroups, UNCHANGED redis
  PROVE  UNCHANGED <<pc, req>> \/ \E r \in Request : Moves(r)
<1> USE DEF Where, Ended
<1>1. CASE NextAccounts
  BY <1>1, AccountsMove
<1>2. ASSUME NEW r \in Request,
             \/ AddUser(r) \/ AddAdminUser(r) \/ RemoveUser(r) \/ RemoveAdminUser(r)
             \/ CreateGroup(r) \/ UpdateGroup(r) \/ AddClusterToGroup(r) \/ RemoveCluster(r)
             \/ CreateCluster(r) \/ UpdateCluster(r) \/ DeleteCluster(r)
             \/ RequestPasswordReset(r) \/ SaveInstance(r) \/ UpdateInstance(r)
      PROVE  Moves(r)
  <2>1. Finish(r) /\ pc[r] # "done"
    BY <1>2 DEF AddUser, AddAdminUser, RemoveUser, RemoveAdminUser, CreateGroup, UpdateGroup,
                AddClusterToGroup, RemoveCluster, SetLink, CreateCluster, UpdateCluster,
                DeleteCluster, RequestPasswordReset, SaveInstance, UpdateInstance, At
  <2> QED
    BY <2>1, FinishMoves
<1>3. ASSUME NEW r \in Request,
             \/ BeginAddUser(r) \/ BeginRemoveUser(r) \/ BeginAddAdminUser(r)
             \/ BeginRemoveAdminUser(r) \/ BeginCreateGroup(r) \/ BeginUpdateGroup(r)
             \/ BeginAddCluster(r) \/ BeginRemoveCluster(r) \/ BeginCreateCluster(r)
             \/ BeginUpdateCluster(r) \/ BeginDeleteCluster(r) \/ BeginRequestReset(r)
             \/ BeginSaveInstance(r) \/ BeginUpdateInstance(r)
      PROVE  Moves(r)
  <2>1. \E l \in Where : \E q : q.tokens = {} /\ Begin(r, l, q)
    <3>1. CASE \/ BeginAddUser(r) \/ BeginRemoveUser(r) \/ BeginAddAdminUser(r)
               \/ BeginRemoveAdminUser(r)
      BY <3>1 DEF BeginAddUser, BeginRemoveUser, BeginAddAdminUser, BeginRemoveAdminUser,
                  BeginMembership, FindById, Idle
    <3>2. CASE \/ BeginCreateGroup(r) \/ BeginUpdateGroup(r) \/ BeginAddCluster(r)
               \/ BeginRemoveCluster(r)
      BY <3>2 DEF BeginCreateGroup, BeginUpdateGroup, BeginAddCluster, BeginRemoveCluster,
                  BeginLink, Idle
    <3>3. CASE BeginCreateCluster(r) \/ BeginUpdateCluster(r) \/ BeginDeleteCluster(r)
      BY <3>3 DEF BeginCreateCluster, BeginUpdateCluster, BeginDeleteCluster, Idle
    <3>4. CASE BeginRequestReset(r)
      BY <3>4, ReadMoves DEF BeginRequestReset
    <3>5. CASE BeginSaveInstance(r) \/ BeginUpdateInstance(r)
      BY <3>5 DEF BeginSaveInstance, BeginUpdateInstance, BeginInstance, Idle
    <3> QED
      BY <1>3, <3>1, <3>2, <3>3, <3>4, <3>5
  <2> QED
    BY <2>1, BeginMoves
<1> QED
  BY <1>1, <1>2, <1>3 DEF NextGroups

LEMMA SessionsMove ==
  ASSUME Types, NEW r \in Request,
         \/ BeginSignIn(r) \/ BeginSSO(r) \/ BeginRefresh(r) \/ BeginSignOut(r)
         \/ MigrateLegacyPassword(r) \/ Provision(r) \/ Admit(r) \/ Stop(r)
  PROVE  UNCHANGED redis /\ Moves(r)
<1> USE DEF Where, Ended
<1>1. UNCHANGED redis
  BY DEF BeginSignIn, BeginSSO, BeginRefresh, BeginSignOut, MigrateLegacyPassword, Provision,
         Admit, Stop
<1>2. CASE BeginSignIn(r) \/ BeginSSO(r)
  <2>1. \E l \in Where : \E q : q.tokens = {} /\ Begin(r, l, q)
    <3>1. CASE BeginSignIn(r)
      BY <3>1, ReadMoves DEF BeginSignIn
    <3>2. CASE BeginSSO(r)
      <4>1. \A a : [Idle EXCEPT !.user = r, !.with = a].tokens = {}
        BY DEF Idle
      <4> QED
        BY <3>2, <4>1, ReadMoves DEF BeginSSO
    <3> QED
      BY <1>2, <3>1, <3>2
  <2> QED
    BY <1>1, <2>1, BeginMoves
<1>3. CASE BeginRefresh(r) \/ BeginSignOut(r)
  <2>1. store \subseteq issued
    BY DEF Types, Data
  <2>2. \A u, ks : [Idle EXCEPT !.user = u, !.tokens = ks].tokens = ks
    BY DEF Idle
  <2>3. \E l \in Where : \E q : l # "done" /\ q.tokens \subseteq issued /\ Begin(r, l, q)
    <3>1. CASE BeginRefresh(r)
      <4>1. PICK k \in issued : Begin(r, "rotate", [Idle EXCEPT !.user = k[1], !.tokens = {k}])
        BY <3>1 DEF BeginRefresh, Verified
      <4> QED
        BY <2>2, <4>1
    <3>2. CASE BeginSignOut(r)
      <4>1. PICK u \in Bearers : Begin(r, "scan", [Idle EXCEPT !.user = u, !.tokens = KeysOf(u)])
        BY <3>2 DEF BeginSignOut
      <4>2. KeysOf(u) \subseteq issued
        BY <2>1 DEF KeysOf
      <4> QED
        BY <2>2, <4>1, <4>2
    <3> QED
      BY <1>3, <3>1, <3>2
  <2> QED
    BY <1>1, <2>3, BeginMoves
<1>4. CASE Finish(r) /\ pc[r] # "done"
  BY <1>1, <1>4, FinishMoves
<1>5. CASE MigrateLegacyPassword(r) \/ Provision(r) \/ Admit(r)
  BY <1>1, <1>4, <1>5
  DEF MigrateLegacyPassword, Provision, Admit, At, Goto, Moves, Types, Asked, Idle
<1>6. CASE Stop(r)
  BY <1>4, <1>6 DEF Stop, Pending
<1> QED
  BY <1>2, <1>3, <1>5, <1>6

LEMMA MovesTokens ==
  ASSUME Types, TokenInv, SignOutInv, NEW r \in Request, Moves(r), UNCHANGED redis
  PROVE  (TokenInv /\ SignOutInv)'
<1>1. \A q \in Request : pc'[q] # "done" => pc[q] # "done"
  BY DEF Moves
<1>2. TokenInv'
  BY <1>1 DEF TokenInv, redis
<1>3. SignOutInv'
  BY <1>1 DEF SignOutInv, TokenInv, Moves, redis
<1> QED
  BY <1>2, <1>3

\* Keys go, and requests end with nothing.
LEMMA LessTokens ==
  ASSUME Types, TokenInv, SignOutInv, store' \subseteq store, issued' \subseteq issued,
         UNCHANGED uses,
         \A q \in Request : \/ pc'[q] = pc[q] /\ req'[q] = req[q]
                            \/ pc'[q] = "done" /\ req'[q].tokens = {}
                            \/ pc'[q] = "done" /\ req'[q] = req[q] /\ req[q].tokens \cap store = {}
  PROVE  (TokenInv /\ SignOutInv)'
<1>1. TokenInv'
  BY DEF TokenInv
<1>2. SignOutInv'
  BY DEF SignOutInv
<1> QED
  BY <1>1, <1>2

LEMMA IssueTokens ==
  ASSUME Types, TokenInv, SignOutInv, NEW r \in Request, Issue(r)
  PROVE  (TokenInv /\ SignOutInv)'
<1>1. /\ pc[r] = "issue" /\ pc'[r] = "done" /\ req'[r].tokens = {}
      /\ \A q \in Request : q # r => pc'[q] = pc[q] /\ req'[q] = req[q]
  BY IdleType DEF Issue, At, Finish, Types, Asked
<1>2. PICK u \in UserId : store' = store \cup {<<u, r>>} /\ issued' = issued \cup {<<u, r>>}
  BY <1>1 DEF Issue, SetRefreshToken, NewKey, Types, Aimed, Fits, OfUser
<1>3. UNCHANGED uses /\ r \in Token /\ uses[r] = 0 /\ store \subseteq issued
  BY <1>1 DEF Issue, TokenInv, Token, Types, Data
<1>4. \A v \in UserId : <<v, r>> \notin issued
  BY <1>1 DEF TokenInv
<1>5. TokenInv'
  BY <1>1, <1>2, <1>3, <1>4 DEF TokenInv
<1>6. SignOutInv'
  BY <1>1, <1>2 DEF SignOutInv
<1> QED
  BY <1>5, <1>6

LEMMA RotateTokens ==
  ASSUME Types, TokenInv, SignOutInv, NEW r \in Request, Rotate(r)
  PROVE  (TokenInv /\ SignOutInv)'
<1>1. CASE ~Deleted(r)
  BY <1>1, MovesTokens, FinishMoves DEF Rotate, At, redis
<1>2. CASE Deleted(r)
  <2>1. /\ pc[r] = "rotate" /\ pc'[r] = "issue" /\ req'[r].tokens = {}
        /\ \A q \in Request : q # r => pc'[q] = pc[q] /\ req'[q] = req[q]
    BY <1>2 DEF Rotate, At, Types, Asked, Request_
  <2>2. store' \subseteq store /\ UNCHANGED issued
    BY <1>2 DEF Rotate
  <2> DEFINE u == req[r].user
  <2>3. u \in UserId
    BY <2>1 DEF Types, Aimed, Fits, OfUser
  <2>4. ASSUME NEW t \in Token, <<u, t>> \in req[r].tokens
        PROVE  /\ uses[t] = 0 /\ uses'[t] = 1 /\ \A v \in UserId : <<v, t>> \notin store'
               /\ \A q \in Request : pc[q] # "done" => q # t
    <3>1. <<u, t>> \in store /\ <<u, t>> \in issued /\ <<u, t>> \notin store'
      BY <1>2, <2>4 DEF Deleted, Rotate, Types, Data
    <3>2. uses[t] \in Nat /\ uses[t] = 0
      BY <2>3, <3>1 DEF TokenInv, Types, Data
    <3>3. uses'[t] = 1
      BY <1>2, <2>4, <3>2 DEF Rotate
    <3>4. \A v \in UserId : <<v, t>> \notin store'
      BY <2>2, <2>3, <3>1 DEF TokenInv
    <3> QED
      BY <2>3, <3>1, <3>2, <3>3, <3>4 DEF TokenInv
  <2>5. ASSUME NEW t \in Token, <<u, t>> \notin req[r].tokens PROVE uses'[t] = uses[t]
    BY <1>2, <2>5 DEF Rotate
  <2>6. TokenInv'
    <3>1. Request \subseteq Token
      BY DEF Token
    <3> HIDE DEF u
    <3>2. ASSUME NEW t \in Token PROVE uses'[t] <= 1
      <4>1. uses[t] <= 1 /\ (uses'[t] = 1 \/ uses'[t] = uses[t])
        BY <2>4, <2>5 DEF TokenInv
      <4> QED
        BY <4>1
    <3>3. \A v \in UserId, t \in Token : uses'[t] > 0 => <<v, t>> \notin store'
      BY <2>2, <2>4, <2>5 DEF TokenInv
    <3>4. \A q \in Request : pc'[q] # "done" => uses'[q] = 0
      BY <2>1, <2>4, <2>5, <3>1 DEF TokenInv
    <3> QED
      BY <2>1, <2>2, <3>2, <3>3, <3>4 DEF TokenInv
  <2>7. SignOutInv'
    BY <2>1, <2>2 DEF SignOutInv
  <2> QED
    BY <2>6, <2>7
<1> QED
  BY <1>1, <1>2

LEMMA NextTokens ==
  ASSUME Types, TokenInv, SignOutInv, [Next]_vars PROVE (TokenInv /\ SignOutInv)'
<1>1. CASE UNCHANGED vars
  BY <1>1, LessTokens DEF vars, redis
<1>2. CASE NextGroups /\ UNCHANGED redis
  <2>1. CASE UNCHANGED <<pc, req>>
    BY <1>2, <2>1, LessTokens DEF redis
  <2> QED
    BY <1>2, <2>1, GroupsMove, MovesTokens
<1>3. CASE Expire
  <2>1. store' \subseteq store /\ issued' \subseteq issued /\ UNCHANGED <<uses, pc, req>>
    BY <1>3 DEF Expire
  <2> QED
    BY <2>1, LessTokens
<1>4. CASE Crash
  <2>1. \A q \in Request : \/ pc'[q] = pc[q] /\ req'[q] = req[q]
                           \/ pc'[q] = "done" /\ req'[q].tokens = {}
    BY <1>4, IdleType DEF Crash
  <2> QED
    BY <1>4, <2>1, LessTokens DEF Crash, redis
<1>5. ASSUME NEW r \in Request, LoseAnswer(r) PROVE (TokenInv /\ SignOutInv)'
  <2>1. \A q \in Request : \/ pc'[q] = pc[q] /\ req'[q] = req[q]
                           \/ pc'[q] = "done" /\ req'[q].tokens = {}
    BY <1>5, IdleType DEF LoseAnswer, Finish, Types, Asked
  <2> QED
    BY <1>5, <2>1, LessTokens DEF LoseAnswer
<1>6. ASSUME NEW r \in Request, Del(r) PROVE (TokenInv /\ SignOutInv)'
  <2>1. store' \subseteq store /\ UNCHANGED <<issued, uses, pc, req>>
    BY <1>6 DEF Del
  <2> QED
    BY <2>1, LessTokens
<1>7. ASSUME NEW r \in Request, SignOut(r) PROVE (TokenInv /\ SignOutInv)'
  <2>1. \A q \in Request :
          \/ pc'[q] = pc[q] /\ req'[q] = req[q]
          \/ pc'[q] = "done" /\ req'[q] = req[q] /\ req[q].tokens \cap store = {}
    BY <1>7 DEF SignOut, Scanned, Types, Asked
  <2> QED
    BY <1>7, <2>1, LessTokens DEF SignOut, redis
<1> QED
  BY <1>1, <1>2, <1>3, <1>4, <1>5, <1>6, <1>7, IssueTokens, RotateTokens, SessionsMove, MovesTokens
  DEF Next

LEMMA InitTokens == Init => TokenInv /\ SignOutInv
<1> SUFFICES ASSUME Init PROVE TokenInv /\ SignOutInv
  OBVIOUS
<1>1. /\ store = {<<u, u>> : u \in SignedIn} /\ issued = store
      /\ uses = [t \in Token |-> 0]
      /\ \A r \in Request : pc[r] = "idle" /\ req[r].tokens = {} /\ r \notin SignedIn
  BY AccountsAssumption, SessionsAssumption, IdleType DEF Init, InitGroups, InitAccounts
<1>2. TokenInv
  BY <1>1 DEF TokenInv, Token
<1>3. SignOutInv
  BY <1>1 DEF SignOutInv
<1> QED
  BY <1>2, <1>3

LEMMA TokensKept == Spec => [](TokenInv /\ SignOutInv)
<1>1. Types /\ TokenInv /\ SignOutInv /\ [Next]_vars => (Types /\ TokenInv /\ SignOutInv)'
  BY NextTypes, NextTokens
<1> QED
  BY <1>1, InitTypes, InitTokens, PTL DEF Spec

\* However many requests present one refresh token at once, and whatever is lost or fails
\* in between, it is accepted once at most.
THEOREM AcceptedOnce == Spec => []OneTime
<1>1. TokenInv => OneTime
  BY DEF TokenInv, OneTime
<1> QED
  BY <1>1, TokensKept, PTL

\* A sign-out that has succeeded has deleted every token that the user had when it began,
\* and no later refresh or sign-in brings one of them back.
THEOREM SignedOutForGood == Spec => []SignedOut
<1>1. SignOutInv => SignedOut
  BY DEF SignOutInv, SignedOut
<1> QED
  BY <1>1, TokensKept, PTL
===============================================================================
