-------------------------------- MODULE Groups --------------------------------
(***************************************************************************)
(* Groups, who belongs to them, and the clusters they deploy to            *)
(* (src/pkg/group, src/pkg/cluster).  What is about them is for             *)
(* administrators.                                                         *)
(* Saving a cluster writes its groups along, as saving a user does, and    *)
(* saving an instance writes its group.                                    *)
(***************************************************************************)
EXTENDS Accounts

CONSTANTS
  LinkOf,  \* [the groups there are at first -> Cluster or None]
  Clusters \* the clusters there are at first

ASSUME GroupsAssumption ==
  /\ DOMAIN LinkOf \subseteq Group
  /\ LinkOf \in [DOMAIN LinkOf -> Clusters \cup {None}]
  /\ Clusters \subseteq Cluster
  /\ Members \subseteq Account \X DOMAIN LinkOf

VARIABLES
  groups,  \* the groups there are
  link,    \* group -> its cluster, or None
  clusters \* the clusters there are

directory == <<groups, link, clusters>>

\* A deployment starts with the groups of its environment and an administrator.
InitGroups ==
  /\ InitAccounts
  /\ groups = DOMAIN LinkOf
  /\ link = [g \in Group |-> IF g \in DOMAIN LinkOf THEN LinkOf[g] ELSE None]
  /\ clusters = Clusters

Attached(c) == {g \in groups : link[g] = c}

\* findByEmail reads the clusters of the groups along, too ...
FindByEmail(u) == [FindById(u) EXCEPT !.clusters = {link[g] : g \in GroupsOf(u)} \ {None}]

\* ... and Save inserts those again that have gone since.
SaveByEmail(r, row) ==
  /\ SaveUser(r, row)
  /\ clusters' = IF Refused(r, row) THEN clusters ELSE clusters \cup req[r].clusters
  /\ UNCHANGED <<groups, link>>

\* POST /users/request-reset: the token is mailed before it is saved.
BeginRequestReset(r) ==
  /\ \E u \in Known : Begin(r, "remind", FindByEmail(u))
  /\ UNCHANGED <<accounts, directory>>

RequestPasswordReset(r) ==
  /\ At(r, "remind")
  /\ Finish(r)
  /\ SaveByEmail(r, [req[r].row EXCEPT !.reset = r])

-----------------------------------------------------------------------------
(* Memberships. *)

BeginMembership(r, l) ==
  /\ MayAdministrate
  /\ \E u \in Known, g \in groups : Begin(r, l, [FindById(u) EXCEPT !.on = g])
  /\ UNCHANGED <<accounts, directory>>

BeginAddUser(r)         == BeginMembership(r, "addUser")
BeginRemoveUser(r)      == BeginMembership(r, "removeUser")
BeginAddAdminUser(r)    == BeginMembership(r, "addAdminUser")
BeginRemoveAdminUser(r) == BeginMembership(r, "removeAdminUser")

Pair(r) == {<<req[r].user, req[r].on>>}

\* Append inserts the user, too, if it has gone, without its other memberships.
AppendUser(r) ==
  LET u == req[r].user IN
  /\ users' = [users EXCEPT ![u] = IF Exists(u) THEN @ ELSE req[r].row]
  /\ restored' = IF Exists(u) THEN restored ELSE restored \cup {u}
  /\ UNCHANGED <<lapsed, spent>>

CanAppend(r) == Exists(req[r].user) \/ EmailFree(req[r].user, req[r].row.email)

AddUser(r) ==
  /\ At(r, "addUser")
  /\ Finish(r)
  /\ IF CanAppend(r)
     THEN AppendUser(r) /\ members' = members \cup Pair(r) /\ UNCHANGED admins
     ELSE UNCHANGED accounts
  /\ UNCHANGED directory

\* Mutant: to the other join table.
JoinAsMember(r) == members' = members \cup Pair(r) /\ UNCHANGED admins

JoinAsAdmin(r) == admins' = admins \cup Pair(r) /\ UNCHANGED members

AddAdminUser(r) ==
  /\ At(r, "addAdminUser")
  /\ Finish(r)
  /\ IF CanAppend(r)
     THEN AppendUser(r) /\ JoinAsAdmin(r)
     ELSE UNCHANGED accounts
  /\ UNCHANGED directory

RemoveUser(r) ==
  /\ At(r, "removeUser")
  /\ Finish(r)
  /\ members' = members \ Pair(r)
  /\ UNCHANGED <<users, admins, lapsed, spent, restored, directory>>

RemoveAdminUser(r) ==
  /\ At(r, "removeAdminUser")
  /\ Finish(r)
  /\ admins' = admins \ Pair(r)
  /\ UNCHANGED <<users, members, lapsed, spent, restored, directory>>

-----------------------------------------------------------------------------
(* Groups. *)

BeginCreateGroup(r) ==
  /\ MayAdministrate
  /\ \E g \in Group, c \in clusters \cup {None} :
       Begin(r, "createGroup", [Idle EXCEPT !.on = g, !.with = c])
  /\ UNCHANGED <<accounts, directory>>

\* A foreign key: whoever refers to a cluster that has gone since is refused.
Referable(c) == c \in clusters \cup {None}

CreateGroup(r) ==
  LET g == req[r].on IN
  /\ At(r, "createGroup")
  /\ Finish(r)
  /\ IF g \notin groups /\ Referable(req[r].with)
     THEN groups' = groups \cup {g} /\ link' = [link EXCEPT ![g] = req[r].with]
     ELSE UNCHANGED <<groups, link>>
  /\ UNCHANGED <<accounts, clusters>>

\* PUT /groups/{name}, POST and DELETE /groups/{group}/clusters/{clusterId}.
BeginLink(r, l, g, c) == MayAdministrate /\ Begin(r, l, [Idle EXCEPT !.on = g, !.with = c])

BeginUpdateGroup(r) ==
  /\ \E g \in groups, c \in clusters \cup {None} : BeginLink(r, "updateGroup", g, c)
  /\ UNCHANGED <<accounts, directory>>

BeginAddCluster(r) ==
  /\ \E g \in groups, c \in clusters : BeginLink(r, "addCluster", g, c)
  /\ UNCHANGED <<accounts, directory>>

BeginRemoveCluster(r) ==
  /\ \E g \in groups : \E c \in {link[g]} \ {None} : BeginLink(r, "removeCluster", g, c)
  /\ UNCHANGED <<accounts, directory>>

SetLink(r, l, c) ==
  /\ At(r, l)
  /\ Finish(r)
  /\ link' = IF Referable(c) THEN [link EXCEPT ![req[r].on] = c] ELSE link
  /\ UNCHANGED <<accounts, groups, clusters>>

\* The cluster that the request names; none if it names none.
UpdateGroup(r) == SetLink(r, "updateGroup", req[r].with)

AddClusterToGroup(r) == SetLink(r, "addCluster", req[r].with)

\* By the name of the group alone, whichever cluster it has by now.
RemoveCluster(r) == SetLink(r, "removeCluster", None)

-----------------------------------------------------------------------------
(* Instances, which refer to a group.  Any of its members may save one. *)

BeginInstance(r, l, g, cs) ==
  Begin(r, l, [Idle EXCEPT !.on = g, !.with = link[g], !.clusters = cs])

\* The group that is read with the deployment comes without its cluster.
BeginSaveInstance(r) ==
  /\ \E g \in groups : BeginInstance(r, "saveInstance", g, {})
  /\ UNCHANGED <<accounts, directory>>

\* The one that is read with the instance comes with it.
BeginUpdateInstance(r) ==
  /\ \E g \in groups : BeginInstance(r, "updateInstance", g, {link[g]} \ {None})
  /\ UNCHANGED <<accounts, directory>>

\* FullSaveAssociations writes the whole row of the group ...
SaveInstance(r) == SetLink(r, "saveInstance", req[r].with)

\* ... and that of its cluster.
UpdateInstance(r) ==
  /\ At(r, "updateInstance")
  /\ Finish(r)
  /\ clusters' = clusters \cup req[r].clusters
  /\ link' = [link EXCEPT ![req[r].on] = req[r].with]
  /\ UNCHANGED <<accounts, groups>>

-----------------------------------------------------------------------------
(* Clusters. *)

BeginCreateCluster(r) ==
  /\ MayAdministrate
  /\ \E c \in Cluster : Begin(r, "createCluster", [Idle EXCEPT !.on = c])
  /\ UNCHANGED <<accounts, directory>>

\* Save of a new row; a name that is taken is refused.
CreateCluster(r) ==
  /\ At(r, "createCluster")
  /\ Finish(r)
  /\ clusters' = clusters \cup {req[r].on}
  /\ UNCHANGED <<accounts, groups, link>>

\* find reads the groups of a cluster along.
BeginUpdateCluster(r) ==
  /\ MayAdministrate
  /\ \E c \in clusters : Begin(r, "updateCluster", [Idle EXCEPT !.on = c, !.groups = Attached(c)])
  /\ UNCHANGED <<accounts, directory>>

\* Mutant: all groups, not only those of the cluster.
AllGroups(r) == groups

SavedGroups(r) == req[r].groups

\* Save attaches the groups it had read again; a cluster that is gone is inserted again,
\* unless it has groups, which refer to it before.
UpdateCluster(r) ==
  LET c == req[r].on IN
  /\ At(r, "updateCluster")
  /\ Finish(r)
  /\ IF c \in clusters \/ SavedGroups(r) = {}
     THEN /\ clusters' = clusters \cup {c}
          /\ link' = [g \in Group |-> IF g \in SavedGroups(r) THEN c ELSE link[g]]
     ELSE UNCHANGED <<clusters, link>>
  /\ UNCHANGED <<accounts, groups>>

BeginDeleteCluster(r) ==
  /\ MayAdministrate
  /\ \E c \in clusters : Begin(r, "deleteCluster", [Idle EXCEPT !.on = c])
  /\ UNCHANGED <<accounts, directory>>

\* The tags of the two sides disagree on what becomes of the groups: the deletion is
\* refused (model.Cluster), or they lose their cluster (model.Group).
DeleteCluster(r) ==
  LET c == req[r].on IN
  /\ At(r, "deleteCluster")
  /\ Finish(r)
  /\ \/ /\ clusters' = clusters \ {c}
        /\ link' = [g \in Group |-> IF link[g] = c THEN None ELSE link[g]]
     \/ /\ Attached(c) # {}
        /\ UNCHANGED <<clusters, link>>
  /\ UNCHANGED <<accounts, groups>>

NextGroups ==
  \/ NextAccounts /\ UNCHANGED directory
  \/ \E r \in Request :
       \/ BeginRequestReset(r)    \/ RequestPasswordReset(r)
       \/ BeginAddUser(r)         \/ AddUser(r)
       \/ BeginAddAdminUser(r)    \/ AddAdminUser(r)
       \/ BeginRemoveUser(r)      \/ RemoveUser(r)
       \/ BeginRemoveAdminUser(r) \/ RemoveAdminUser(r)
       \/ BeginCreateGroup(r)     \/ CreateGroup(r)
       \/ BeginUpdateGroup(r)     \/ UpdateGroup(r)
       \/ BeginAddCluster(r)      \/ AddClusterToGroup(r)
       \/ BeginRemoveCluster(r)   \/ RemoveCluster(r)
       \/ BeginSaveInstance(r)    \/ SaveInstance(r)
       \/ BeginUpdateInstance(r)  \/ UpdateInstance(r)
       \/ BeginCreateCluster(r)   \/ CreateCluster(r)
       \/ BeginUpdateCluster(r)   \/ UpdateCluster(r)
       \/ BeginDeleteCluster(r)   \/ DeleteCluster(r)

\* group/repository.go, cluster/repository.go, instance/repository.go: a group changes its
\* cluster by an operation on the two, or back, because an instance is saved with the group
\* as it had been read, or a cluster with the groups that had it then.
LinksAreMade ==
  [][\A g \in Group : link'[g] # link[g] => \E r \in Request :
       /\ pc'[r] # pc[r]
       /\ \/ pc[r] \in {"createGroup", "updateGroup", "addCluster", "saveInstance", "updateInstance"}
             /\ req[r].on = g /\ req[r].with = link'[g]
          \/ pc[r] = "removeCluster" /\ req[r].on = g /\ link'[g] = None
          \/ pc[r] = "deleteCluster" /\ req[r].on = link[g] /\ link'[g] = None
          \/ pc[r] = "updateCluster" /\ req[r].on = link'[g] /\ g \in req[r].groups
    ]_<<link, pc, req>>
===============================================================================
