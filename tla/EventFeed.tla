------------------------------ MODULE EventFeed ------------------------------
(***************************************************************************)
(* What /events promises (src/pkg/event/handler.go 117-121): a client sees *)
(* its own events once and in the order of the stream, and after it has    *)
(* lost its connection it resumes where it left off.  Only an event that   *)
(* the stream no longer keeps may be skipped, and only a client that has   *)
(* not had any event yet may start over at the end of the stream.          *)
(***************************************************************************)
EXTENDS Naturals, Sequences

CONSTANTS
  Message,
  Client,
  For       \* [Client -> SUBSET Message]: what a client is to see

VARIABLES
  stream,   \* all messages, in the order of their offsets
  oldest,   \* the first offset the stream keeps
  from,     \* client -> the first offset it subscribed to, or 0
  last,     \* client -> the offset of the last event it has had, or 0
  had       \* client -> how many events it has had

vars == <<stream, oldest, from, last, had>>

Init == /\ stream = <<>>
        /\ oldest = 1
        /\ from = [c \in Client |-> 0]
        /\ last = [c \in Client |-> 0]
        /\ had = [c \in Client |-> 0]

Publish == /\ \E m \in Message : /\ \A o \in DOMAIN stream : stream[o] # m
                                 /\ stream' = Append(stream, m)
           /\ UNCHANGED <<oldest, from, last, had>>

Expire == /\ oldest \in DOMAIN stream
          /\ oldest' = oldest + 1
          /\ UNCHANGED <<stream, from, last, had>>

Join(c) == /\ last[c] = 0
           /\ from' = [from EXCEPT ![c] = Len(stream) + 1]
           /\ UNCHANGED <<stream, oldest, last, had>>

Receive(c) ==
  /\ from[c] # 0
  /\ \E o \in DOMAIN stream :
       /\ stream[o] \in For[c] /\ from[c] <= o /\ last[c] < o
       /\ \A k \in from[c]..(o - 1) :
            last[c] < k /\ stream[k] \in For[c] => k < oldest
       /\ last' = [last EXCEPT ![c] = o]
       /\ had' = [had EXCEPT ![c] = @ + 1]
  /\ UNCHANGED <<stream, oldest, from>>

Next == Publish \/ Expire \/ \E c \in Client : Join(c) \/ Receive(c)

Spec == Init /\ [][Next]_vars
=============================================================================
