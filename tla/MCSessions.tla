------------------------------ MODULE MCSessions ------------------------------
(* Instances of Sessions for TLC. *)
EXTENDS Sessions, TLC

CONSTANTS u1, u2,          \* two administrators
          g0, g1,          \* their group, which has a cluster, and a new group
          k1, k2,          \* a cluster and a new one
          a1, a2, a3,      \* their addresses and a free one
          r1, r2, r3       \* requests

Homes  == (u1 :> a1) @@ (u2 :> a2)
Joined == {<<u1, g0>>, <<u2, g0>>}
Linked == g0 :> k1

\* Requests are all alike.
Alike == Permutations(Request)
===============================================================================
