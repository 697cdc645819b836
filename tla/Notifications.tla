---------------------------- MODULE Notifications ----------------------------
(***************************************************************************)
(* Notifications of asynchronous operations: published as a row and as a   *)
(* message of a RabbitMQ stream (src/pkg/notification), and streamed from  *)
(* there to the clients of /events (src/pkg/event).                        *)
(*                                                                         *)
(* An operation publishes that it has started and how it has ended; a      *)
(* notification is the operation with one of the two.  A connection of a   *)
(* client has two goroutines on the server: the consumer's, which runs the *)
(* message handler, and the request's, which writes what it is handed.     *)
(***************************************************************************)
EXTENDS Naturals, Sequences, FiniteSets

CONSTANTS
  Operation,
  User, Group,
  Owner,       \* [Operation -> User]
  GroupOf,     \* [Operation -> Group]
  Member,      \* [User -> SUBSET Group]
  Client,
  UserOf,      \* [Client -> User]
  MaxActive,   \* bound: operations at once
  MaxFaults,   \* bound: failing inserts and sends
  MaxCrashes,  \* bound: restarts of the server
  MaxDrops,    \* bound: lost connections
  MaxExpired   \* bound: messages that outlive the stream's maximum age

ASSUME NotificationsAssumption ==
  /\ Owner \in [Operation -> User]
  /\ GroupOf \in [Operation -> Group]
  /\ Member \in [User -> SUBSET Group]
  /\ UserOf \in [Client -> User]
  /\ {MaxActive, MaxFaults, MaxCrashes, MaxDrops, MaxExpired} \subseteq Nat

VARIABLES
  rows,     \* the notifications that have a row
  counter,  \* the publisher's, in memory
  pub,      \* operation -> what its goroutine is at
  stream,   \* the messages of the stream, in the order of their offsets (from 1)
  seenId,   \* the highest publishing id the broker has had from the publisher
  oldest,   \* the first offset the stream keeps
  conn,     \* client -> its connection, as the server has it
  from,     \* client -> the first offset it subscribed to, or 0
  last,     \* client -> the id of the last event it has had, or 0 (Last-Event-ID)
  had,      \* client -> how many events it has had
  late,     \* history: operations whose message has been overtaken on its way to the broker
  before,   \* history: the highest publishing id of the server's earlier processes
  faults, crashes, drops

history   == <<late, before>>
publisher == <<rows, counter, pub, seenId, history>>
client    == <<conn, from, last, had>>
bounds    == <<faults, crashes, drops>>
vars      == <<rows, counter, pub, seenId, history, stream, oldest, conn, from, last, had, bounds>>

Status       == {"started", "ended"}
Notification == Operation \X Status
NoConnection == [phase |-> "none", next |-> 0, hold |-> 0, write |-> 0, closed |-> FALSE]

Init ==
  /\ rows = {}
  /\ counter = 0
  /\ pub = [p \in Operation |-> [at |-> "idle", status |-> "started", id |-> 0]]
  /\ stream = <<>>
  /\ seenId = 0
  /\ oldest = 1
  /\ conn = [c \in Client |-> NoConnection]
  /\ from = [c \in Client |-> 0]
  /\ last = [c \in Client |-> 0]
  /\ had = [c \in Client |-> 0]
  /\ late = {} /\ before = 0
  /\ faults = 0 /\ crashes = 0 /\ drops = 0

-----------------------------------------------------------------------------
(* Publish. *)

AtWork  == {"create", "number", "send"}
Note(p) == <<p, pub[p].status>>

\* An operation that fails early only publishes its end.
Begin(p) ==
  /\ pub[p].at = "idle"
  /\ Cardinality({q \in Operation : pub[q].at \in AtWork}) < MaxActive
  /\ \E s \in Status : pub' = [pub EXCEPT ![p].at = "create", ![p].status = s]
  /\ UNCHANGED <<rows, counter, seenId, history, stream, oldest, client, bounds>>

\* Publish returns, failed or not; the operation goes on to its next notification.
Return(p) ==
  pub' = [pub EXCEPT ![p] = IF @.status = "started"
                            THEN [at |-> "create", status |-> "ended", id |-> 0]
                            ELSE [@ EXCEPT !.at = "done"]]

Create(p) ==
  /\ pub[p].at = "create"
  /\ rows' = rows \cup {Note(p)}
  /\ pub' = [pub EXCEPT ![p].at = "number"]
  /\ UNCHANGED <<counter, seenId, history, stream, oldest, client, bounds>>

\* Mutant: the error is logged, but Publish goes on.
CreateFailsAndGoesOn(p) == pub' = [pub EXCEPT ![p].at = "number"]

CreateFailed(p) == Return(p)

CreateFails(p) ==
  /\ pub[p].at = "create" /\ faults < MaxFaults
  /\ faults' = faults + 1
  /\ CreateFailed(p)
  /\ UNCHANGED <<rows, counter, seenId, history, stream, oldest, client, crashes, drops>>

\* Mutant: the counter is read before it is increased.
OldCounter == counter

NewCounter == counter + 1

Number(p) ==
  /\ pub[p].at = "number"
  /\ counter' = counter + 1
  /\ pub' = [pub EXCEPT ![p].at = "send", ![p].id = NewCounter]
  /\ late' = late \ {p}
  /\ UNCHANGED <<rows, before, seenId, stream, oldest, client, bounds>>

\* The broker confirms a message whose id is not above the highest it has had from
\* a producer of that name, and drops it.
Accept(n, id) ==
  IF id > seenId
  THEN stream' = Append(stream, n) /\ seenId' = id
  ELSE UNCHANGED <<stream, seenId>>

Send(p) ==
  /\ pub[p].at = "send"
  /\ Accept(Note(p), pub[p].id)
  /\ Return(p)
  /\ late' = late \cup {q \in Operation : pub[q].at = "send" /\ pub[q].id < pub[p].id}
  /\ UNCHANGED <<rows, counter, before, oldest, client, bounds>>

SendFails(p) ==
  /\ pub[p].at = "send" /\ faults < MaxFaults
  /\ faults' = faults + 1
  /\ Return(p)
  /\ UNCHANGED <<rows, counter, seenId, history, stream, oldest, client, crashes, drops>>

-----------------------------------------------------------------------------
(* A client's connection. *)

Larger(a, b) == IF a > b THEN a ELSE b

\* Mutants: the id is taken for the next event's; the header is not looked at.
ResumeAtLast(c) == IF last[c] = 0 THEN Len(stream) + 1 ELSE Larger(last[c], oldest)
ResumeAtEnd(c)  == Len(stream) + 1

\* computeOffsetSpec; the broker starts at what it has kept.
OffsetSpec(c) == IF last[c] = 0 THEN Len(stream) + 1 ELSE Larger(last[c] + 1, oldest)

\* Mutant: whoever the owner is.
PostFilterByGroup(c, n) == GroupOf[n[1]] \in Member[UserOf[c]]

PostFilter(c, n) == /\ Owner[n[1]] = UserOf[c]
                    /\ GroupOf[n[1]] \in Member[UserOf[c]]

Subscribe(c) ==
  /\ conn[c].phase = "none" /\ Member[UserOf[c]] # {}
  /\ conn' = [conn EXCEPT ![c] = [NoConnection EXCEPT !.phase = "open",
                                                      !.next = OffsetSpec(c)]]
  /\ from' = [from EXCEPT ![c] = IF last[c] = 0 THEN Len(stream) + 1 ELSE @]
  /\ UNCHANGED <<publisher, stream, oldest, last, had, bounds>>

\* The consumer's goroutine is free and there is a message at offset o.
Ready(c, o) == /\ conn[c].phase # "none" /\ conn[c].hold = 0
               /\ o = Larger(conn[c].next, oldest)
               /\ o \in DOMAIN stream

SkipMessage(c, o) ==
  /\ Ready(c, o) /\ ~PostFilter(c, stream[o])
  /\ conn' = [conn EXCEPT ![c].next = o + 1]
  /\ UNCHANGED <<publisher, stream, oldest, from, last, had, bounds>>

\* The message handler waits for the other goroutine to take the event.
HandleMessage(c, o) ==
  /\ Ready(c, o) /\ PostFilter(c, stream[o]) /\ conn[c].phase = "open"
  /\ conn' = [conn EXCEPT ![c].hold = o, ![c].next = o + 1]
  /\ UNCHANGED <<publisher, stream, oldest, from, last, had, bounds>>

\* The request is canceled: the handler closes the channel and returns, whether
\* it was waiting or has been called with another message.
CloseChannel(c) ==
  /\ conn[c].phase = "gone" /\ ~conn[c].closed
  /\ \/ /\ conn[c].hold # 0
        /\ conn' = [conn EXCEPT ![c].closed = TRUE, ![c].hold = 0]
     \/ \E o \in DOMAIN stream :
          /\ Ready(c, o) /\ PostFilter(c, stream[o])
          /\ conn' = [conn EXCEPT ![c].closed = TRUE, ![c].next = o + 1]
  /\ UNCHANGED <<publisher, stream, oldest, from, last, had, bounds>>

\* StreamEvents takes an event; once the request is canceled its select may
\* still do so.
TakeEvent(c) ==
  /\ conn[c].hold # 0 /\ conn[c].write = 0
  /\ conn' = [conn EXCEPT ![c].write = conn[c].hold, ![c].hold = 0]
  /\ UNCHANGED <<publisher, stream, oldest, from, last, had, bounds>>

\* The event reaches the client if the client is still there.
Render(c) ==
  /\ conn[c].write # 0
  /\ conn' = [conn EXCEPT ![c].write = 0]
  /\ IF conn[c].phase = "open"
     THEN /\ last' = [last EXCEPT ![c] = conn[c].write]
          /\ had' = [had EXCEPT ![c] = @ + 1]
     ELSE UNCHANGED <<last, had>>
  /\ UNCHANGED <<publisher, stream, oldest, from, bounds>>

\* StreamEvents returns and closes its consumer.  A client connects again only
\* after this, which loses nothing: what remains of the old connection writes to
\* no one, and its panic may come before as well.
EndStream(c) ==
  /\ conn[c].phase = "gone" /\ conn[c].write = 0
  /\ conn' = [conn EXCEPT ![c] = NoConnection]
  /\ UNCHANGED <<publisher, stream, oldest, from, last, had, bounds>>

-----------------------------------------------------------------------------
(* The environment. *)

Disconnect(c) ==
  /\ conn[c].phase = "open" /\ drops < MaxDrops
  /\ drops' = drops + 1
  /\ conn' = [conn EXCEPT ![c].phase = "gone"]
  /\ UNCHANGED <<publisher, stream, oldest, from, last, had, faults, crashes>>

Expire ==
  /\ oldest \in DOMAIN stream /\ oldest <= MaxExpired
  /\ oldest' = oldest + 1
  /\ UNCHANGED <<publisher, stream, client, bounds>>

\* The server starts again: operations under way are lost, the counter starts over.
Restart ==
  /\ counter' = 0
  /\ pub' = [p \in Operation |-> IF pub[p].at \in AtWork
                                 THEN [pub[p] EXCEPT !.at = "lost"] ELSE pub[p]]
  /\ conn' = [c \in Client |-> NoConnection]
  /\ before' = seenId
  /\ UNCHANGED <<rows, late, seenId, stream, oldest, from, last, had, faults, drops>>

Crash == /\ crashes < MaxCrashes
         /\ crashes' = crashes + 1
         /\ Restart

\* A handler called once more after the request was canceled closes the channel a
\* second time; its panic ends the server.
Panic(c) == /\ conn[c].phase = "gone" /\ conn[c].closed
            /\ \E o \in DOMAIN stream : Ready(c, o) /\ PostFilter(c, stream[o])
            /\ Restart
            /\ UNCHANGED crashes

-----------------------------------------------------------------------------
Publishing(p) == \/ Begin(p) \/ Create(p) \/ CreateFails(p) \/ Number(p)
                 \/ Send(p) \/ SendFails(p)

\* The two goroutines of a connection: the consumer's and the request's.
Consuming(c) == \E o \in DOMAIN stream : SkipMessage(c, o) \/ HandleMessage(c, o)
Serving(c)   == TakeEvent(c) \/ Render(c)
Streaming(c) == Consuming(c) \/ Serving(c)

Ending(c) == CloseChannel(c) \/ EndStream(c)

Next ==
  \/ \E p \in Operation : Publishing(p)
  \/ \E c \in Client : Subscribe(c) \/ Streaming(c) \/ Ending(c) \/ Disconnect(c) \/ Panic(c)
  \/ Expire \/ Crash

Spec == Init /\ [][Next]_vars

\* Goroutines go on, a canceled request ends, and a client connects again (its
\* "retry" says when).
FairSpec ==
  /\ Spec
  /\ \A c \in Client : /\ WF_vars(Consuming(c)) /\ WF_vars(Serving(c))
                       /\ WF_vars(Subscribe(c)) /\ WF_vars(EndStream(c))

-----------------------------------------------------------------------------
(* Properties. *)

Offset     == 0..Len(stream)
Publication == [at : AtWork \cup {"idle", "done", "lost"}, status : Status, id : Nat]
Connection == [phase : {"none", "open", "gone"}, next : Nat, hold : Offset,
               write : Offset, closed : BOOLEAN]

\* Types; a message that is sent carries a number the counter has given out.
TypeOK ==
  /\ rows \subseteq Notification
  /\ counter \in Nat /\ seenId \in Nat /\ oldest \in Nat
  /\ pub \in [Operation -> Publication]
  /\ stream \in Seq(Notification)
  /\ conn \in [Client -> Connection]
  /\ from \in [Client -> Nat] /\ last \in [Client -> Offset] /\ had \in [Client -> Nat]
  /\ late \subseteq Operation /\ before \in Nat
  /\ faults \in 0..MaxFaults /\ crashes \in 0..MaxCrashes /\ drops \in 0..MaxDrops
  /\ \A p \in Operation : pub[p].at = "send" => pub[p].id \in 1..counter

\* What a client is to see: what its user owns, in a group the user belongs to.
ForClient == [c \in Client |->
                {n \in Notification : /\ Owner[n[1]] = UserOf[c]
                                      /\ GroupOf[n[1]] \in Member[UserOf[c]]}]

\* What a client has been told of can be listed later: no message without its row,
\* whatever fails and whenever the server stops (Publish, publisher.go 58-87).
NothingUnrecorded == \A o \in DOMAIN stream : stream[o] \in rows

\* What the broker takes for a duplicate and drops, though it has never had it (publisher.go
\* 76-87: numbered and sent in two steps, under a producer name that outlives the counter): a
\* message whose number an earlier process of the server has used up, or one that another
\* goroutine's later number has overtaken on the way.  Nothing else of what Publish sends is.
OnlyOvertakenDropped ==
  [][\A p \in Operation : Send(p) /\ UNCHANGED stream => pub[p].id \in 1..before \/ p \in late]_vars

\* The streaming of events implements EventFeed: "Clients can thus resume where they
\* left off" (handler.go 117-121), across lost connections, panics and restarts.
Feed == INSTANCE EventFeed WITH Message <- Notification, For <- ForClient
FeedSpec == Feed!Spec

\* A client that awaits an event gets it, unless it expires or the client, having
\* had no event at all, subscribes anew.
Awaits(c, n) ==
  \E o \in DOMAIN stream : /\ stream[o] = n /\ n \in ForClient[c]
                           /\ 0 < from[c] /\ from[c] <= o /\ oldest <= o /\ last[c] < o
CaughtUp == \A c \in Client, n \in Notification : Awaits(c, n) ~> ~Awaits(c, n)
=============================================================================
