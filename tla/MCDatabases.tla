----------------------------- MODULE MCDatabases -----------------------------
(***************************************************************************)
(* Instances of Databases for TLC.  Ids, names and requests are model      *)
(* values; each run gives its requests an operation, a holder and a name.  *)
(***************************************************************************)
EXTENDS Databases, TLC

CONSTANTS d1, d2,              \* databases
          na, nb, nv, nw, nx, ny, nz,  \* names
          i1, i2, u1, u2,      \* instances and users
          p1, p2, p3, p4, p5, p6   \* requests

H1 == [instance |-> i1, user |-> u1]
H2 == [instance |-> i2, user |-> u2]

OneName  == (d1 :> na)
TwoNames == (d1 :> na) @@ (d2 :> nb)

\* Two saves for different holders, a user who locks for the first one's
\* instance, an administrator who unlocks.
SavesOp == (p1 :> "save") @@ (p2 :> "save") @@ (p3 :> "lock") @@ (p4 :> "unlock")
SavesBy == (p1 :> H1) @@ (p2 :> H2) @@ (p3 :> H1) @@ (p4 :> H2)
SavesNm == [p \in {p1, p2, p3, p4} |-> nx]

\* One save and users who lock, for the same instance and for another.
LocksOp == (p1 :> "save") @@ [p \in {p2, p3, p4} |-> "lock"]
LocksBy == (p1 :> H1) @@ (p2 :> H1) @@ (p3 :> H2) @@ (p4 :> H2)
LocksNm == [p \in {p1, p2, p3, p4} |-> nx]

\* Requests that do not lock, each giving its record a name no one else uses.
EditsOp == (p1 :> "update") @@ (p2 :> "update") @@ (p3 :> "upload")
           @@ (p4 :> "copy") @@ (p5 :> "saveAs") @@ (p6 :> "delete")
EditsBy == [p \in {p1, p2, p3, p4, p5, p6} |-> H1]
EditsNm == (p1 :> nv) @@ (p2 :> nx) @@ (p3 :> ny) @@ (p4 :> nz) @@ (p5 :> nw)
           @@ (p6 :> na)

\* A save among requests that all want the same name, and a deletion.
NamesOp == (p1 :> "save") @@ (p2 :> "update") @@ (p3 :> "upload")
           @@ (p4 :> "saveAs") @@ (p5 :> "delete")
NamesBy == [p \in {p1, p2, p3, p4, p5} |-> H1]
NamesNm == [p \in {p1, p2, p3, p4, p5} |-> nx]
=============================================================================
