---------------------------- MODULE DatabaseStore ----------------------------
(***************************************************************************)
(* What saving a database under its lock promises: the content of a        *)
(* database is replaced as a whole, only by a save made for the holder of  *)
(* its lock, and at most once by each save; a lock is taken when the       *)
(* database is free and never passes from one holder to another.           *)
(***************************************************************************)
CONSTANTS Database, Save, By, None

VARIABLES
  content,  \* database -> the save whose dump it holds, or itself at first
  lock      \* database -> the instance and user that hold it, or None

vars == <<content, lock>>

Init ==
  /\ content = [d \in Database |-> d]
  /\ lock = [d \in Database |-> None]

Acquire(d, h) == /\ lock[d] = None
                 /\ lock' = [lock EXCEPT ![d] = h]
                 /\ UNCHANGED content

Free(d) == /\ lock[d] # None
           /\ lock' = [lock EXCEPT ![d] = None]
           /\ UNCHANGED content

Install(d, p) == /\ lock[d] = By[p]
                 /\ \A e \in Database : content[e] # p
                 /\ content' = [content EXCEPT ![d] = p]
                 /\ UNCHANGED lock

Next == \E d \in Database : \/ \E p \in DOMAIN By : Acquire(d, By[p])
                            \/ Free(d)
                            \/ \E p \in Save : Install(d, p)

Spec == Init /\ [][Next]_vars
=============================================================================
