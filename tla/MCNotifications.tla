--------------------------- MODULE MCNotifications ---------------------------
(* Instances of Notifications for TLC. *)
EXTENDS Notifications, TLC

CONSTANTS save1, save2,  \* operations
          c1, c2,        \* clients
          u1, u2,        \* users
          g1, g2         \* groups

\* Two users of one group; the second belongs to another group as well.
TheOwner  == [p \in Operation |-> IF p = save1 THEN u1 ELSE u2]
TheGroup  == [p \in Operation |-> g1]
TheMember == (u1 :> {g1}) @@ (u2 :> {g1, g2})
TheUserOf == [c \in Client |-> IF c = c1 THEN u1 ELSE u2]
=============================================================================
