------------------------- MODULE NotificationsProofs -------------------------
(***************************************************************************)
(* Proofs about Notifications, for any operations, clients and failures.   *)
(***************************************************************************)
EXTENDS Notifications, TLAPS

\* What is about to be numbered or sent has been recorded, as has what is on the stream.
RecordInv == /\ NothingUnrecorded
             /\ \A p \in Operation : pub[p].at \in {"number", "send"} => Note(p) \in rows

\* What the proof needs of the types.
PubType == /\ pub \in [Operation -> Publication]
           /\ stream \in Seq(Notification)
           /\ counter \in Nat

LEMMA InitRecord == Init => PubType /\ RecordInv
<1> SUFFICES ASSUME Init PROVE PubType /\ RecordInv
  OBVIOUS
<1>1. PubType
  BY DEF Init, PubType, Publication, AtWork, Status
<1>2. DOMAIN stream = {}
  BY DEF Init
<1> QED
  BY <1>1, <1>2 DEF Init, RecordInv, NothingUnrecorded

LEMMA NoteType == ASSUME PubType, NEW p \in Operation PROVE Note(p) \in Notification
BY DEF PubType, Publication, Note, Notification

\* An operation that goes on to its next notification has not recorded it yet.
LEMMA ReturnRecord ==
  ASSUME PubType, NEW p \in Operation, Return(p)
  PROVE  /\ pub' \in [Operation -> Publication]
         /\ pub'[p].at \notin {"number", "send"}
         /\ \A q \in Operation : q # p => pub'[q] = pub[q]
BY DEF PubType, Publication, Return, AtWork, Status

LEMMA PublishingRecord ==
  ASSUME PubType, RecordInv, NEW p \in Operation, Publishing(p)
  PROVE  (PubType /\ RecordInv)'
<1> USE DEF bounds, client
<1>1. CASE Begin(p)
  <2>1. PICK s \in Status :
          pub' = [pub EXCEPT ![p] = [@ EXCEPT !.at = "create", !.status = s]]
    BY <1>1 DEF Begin, PubType, Publication
  <2>2. [pub[p] EXCEPT !.at = "create", !.status = s] \in Publication
    <3>1. pub[p] \in Publication
      BY DEF PubType
    <3> QED
      BY <3>1 DEF Publication, AtWork
  <2>3. PubType'
    BY <1>1, <2>1, <2>2 DEF Begin, PubType
  <2>4. /\ pub'[p].at = "create"
        /\ \A q \in Operation : q # p => pub'[q] = pub[q]
    BY <2>1 DEF PubType, Publication
  <2> QED
    BY <1>1, <2>3, <2>4 DEF Begin, RecordInv, NothingUnrecorded, Note
<1>2. CASE Create(p)
  <2>1. /\ PubType'
        /\ pub'[p].status = pub[p].status
        /\ \A q \in Operation : q # p => pub'[q] = pub[q]
    BY <1>2 DEF Create, PubType, Publication, AtWork
  <2> QED
    BY <1>2, <2>1 DEF Create, RecordInv, NothingUnrecorded, Note
<1>3. CASE Number(p)
  <2>1. /\ pub[p].at = "number" /\ counter' = counter + 1
        /\ pub' = [pub EXCEPT ![p] = [@ EXCEPT !.at = "send", !.id = counter + 1]]
        /\ UNCHANGED <<rows, stream>>
    BY <1>3 DEF Number, NewCounter, PubType, Publication
  <2>2. [pub[p] EXCEPT !.at = "send", !.id = counter + 1] \in Publication
    <3>1. counter + 1 \in Nat /\ pub[p] \in Publication
      BY DEF PubType
    <3> QED
      BY <3>1 DEF Publication, AtWork
  <2>3. PubType'
    BY <2>1, <2>2 DEF PubType
  <2>4. /\ pub'[p].status = pub[p].status
        /\ \A q \in Operation : q # p => pub'[q] = pub[q]
    BY <2>1 DEF PubType, Publication
  <2> QED
    BY <2>1, <2>3, <2>4 DEF RecordInv, NothingUnrecorded, Note
<1>4. CASE CreateFails(p) \/ SendFails(p)
  <2>1. Return(p) /\ UNCHANGED <<rows, stream, counter>>
    BY <1>4 DEF CreateFails, CreateFailed, SendFails
  <2> QED
    BY <2>1, ReturnRecord DEF PubType, RecordInv, NothingUnrecorded, Note
<1>5. CASE Send(p)
  <2>1. Return(p) /\ UNCHANGED <<rows, counter>> /\ Note(p) \in rows
    BY <1>5 DEF Send, RecordInv
  <2>2. stream' \in Seq(Notification) /\ \A o \in DOMAIN stream' : stream'[o] \in rows
    <3>1. CASE stream' = Append(stream, Note(p))
      BY <2>1, <3>1, NoteType DEF PubType, RecordInv, NothingUnrecorded
    <3>2. CASE UNCHANGED stream
      BY <3>2 DEF PubType, RecordInv, NothingUnrecorded
    <3> QED
      BY <1>5, <3>1, <3>2 DEF Send, Accept
  <2> QED
    BY <2>1, <2>2, ReturnRecord DEF PubType, RecordInv, NothingUnrecorded, Note
<1> QED
  BY <1>1, <1>2, <1>3, <1>4, <1>5 DEF Publishing

LEMMA RestartRecord ==
  ASSUME PubType, RecordInv, Restart PROVE (PubType /\ RecordInv)'
<1>1. /\ pub' \in [Operation -> Publication]
      /\ \A q \in Operation : pub'[q] = pub[q] \/ pub'[q].at = "lost"
  BY DEF Restart, PubType, Publication
<1> QED
  BY <1>1 DEF Restart, PubType, RecordInv, NothingUnrecorded, Note

LEMMA NextRecord ==
  ASSUME PubType, RecordInv, [Next]_vars PROVE (PubType /\ RecordInv)'
<1>1. CASE UNCHANGED <<rows, counter, pub, stream>>
  BY <1>1 DEF PubType, RecordInv, NothingUnrecorded, Note
<1>2. ASSUME NEW c \in Client, Subscribe(c) \/ Streaming(c) \/ Ending(c) \/ Disconnect(c)
      PROVE  UNCHANGED <<rows, counter, pub, stream>>
  BY <1>2 DEF publisher, Subscribe, Streaming, Consuming, Serving,
              SkipMessage, HandleMessage, TakeEvent,
              Render, Ending, CloseChannel, EndStream, Disconnect
<1>3. CASE Expire
  BY <1>1, <1>3 DEF Expire, publisher
<1>4. CASE Crash \/ \E c \in Client : Panic(c)
  BY <1>4, RestartRecord DEF Crash, Panic
<1>5. CASE UNCHANGED vars
  BY <1>1, <1>5 DEF vars
<1> QED
  BY <1>1, <1>2, <1>3, <1>4, <1>5, PublishingRecord DEF Next

\* What is on the stream has a row, in every state: however many operations publish
\* at once, whatever fails and whenever the server stops.
THEOREM RecordedFirst == Spec => []NothingUnrecorded
<1>1. PubType /\ RecordInv /\ [Next]_vars => (PubType /\ RecordInv)'
  BY NextRecord
<1>2. RecordInv => NothingUnrecorded
  BY DEF RecordInv
<1> QED
  BY <1>1, <1>2, InitRecord, PTL DEF Spec

-----------------------------------------------------------------------------
(* Types. *)

LEMMA InitTypes == Init => TypeOK
<1> SUFFICES ASSUME Init PROVE TypeOK
  OBVIOUS
<1>1. PubType
  BY InitRecord
<1>2. conn \in [Client -> Connection]
  BY DEF Init, NoConnection, Connection, Offset
<1>3. 0 \in 0..MaxFaults /\ 0 \in 0..MaxCrashes /\ 0 \in 0..MaxDrops
  BY NotificationsAssumption
<1> QED
  BY <1>1, <1>2, <1>3 DEF Init, TypeOK, PubType, Offset

\* The stream only grows.
LEMMA StreamGrows ==
  ASSUME TypeOK, Next
  PROVE  \/ UNCHANGED stream
         \/ \E p \in Operation : Send(p) /\ stream' = Append(stream, Note(p))
BY DEF Next, Publishing, Begin, Create, CreateFails, Number, Send, Accept, SendFails, client,
       publisher, Subscribe, Streaming, Consuming, Serving,
       SkipMessage, HandleMessage, TakeEvent, Render, Ending,
       CloseChannel, EndStream, Disconnect, Panic, Restart, Expire, Crash

LEMMA NumbersGivenOut ==
  ASSUME TypeOK, NEW p \in Operation, Publishing(p)
  PROVE  \A q \in Operation : pub'[q].at = "send" => pub'[q].id \in 1..counter'
<1> USE DEF TypeOK, Publication
<1>1. CASE Begin(p) \/ Create(p)
  BY <1>1 DEF Begin, Create
<1>2. CASE Number(p)
  BY <1>2 DEF Number, NewCounter
<1>3. CASE CreateFails(p) \/ Send(p) \/ SendFails(p)
  <2>1. Return(p) /\ UNCHANGED counter
    BY <1>3 DEF CreateFails, CreateFailed, Send, SendFails
  <2> QED
    BY <2>1, ReturnRecord DEF PubType
<1> QED
  BY <1>1, <1>2, <1>3 DEF Publishing

LEMMA PublishingTypes ==
  ASSUME TypeOK, PubType', NEW p \in Operation, Publishing(p)
  PROVE  TypeOK'
<1>1. rows' \subseteq Notification
  <2>1. Note(p) \in Notification
    BY NoteType DEF TypeOK, PubType
  <2> QED
    BY <2>1 DEF TypeOK, Publishing, Begin, Create, CreateFails, Number, Send, SendFails
<1>2. seenId' \in Nat /\ oldest' \in Nat
  BY DEF TypeOK, Publication, Publishing, Begin, Create,
         CreateFails, Number, Send, Accept, SendFails
<1>3. UNCHANGED client
  BY DEF Publishing, Begin, Create, CreateFails, Number, Send, SendFails
<1>4. /\ faults' \in 0..MaxFaults /\ UNCHANGED <<crashes, drops>>
  BY NotificationsAssumption
     DEF TypeOK, bounds, Publishing, Begin, Create, CreateFails, Number, Send, SendFails
<1>7. late' \subseteq Operation /\ before' \in Nat
  BY DEF TypeOK, history, Publishing, Begin, Create, CreateFails, Number, Send, SendFails
<1>5. Offset \subseteq Offset'
  <2>1. stream' = stream \/ \E n \in Notification : stream' = Append(stream, n)
    BY StreamGrows, NoteType DEF Next, TypeOK, PubType
  <2> QED
    BY <2>1 DEF TypeOK, Offset
<1>6. conn' \in [Client -> Connection'] /\ last' \in [Client -> Offset']
  BY <1>3, <1>5 DEF client, TypeOK, Connection
<1> QED
  BY <1>1, <1>2, <1>3, <1>4, <1>6, <1>7, NumbersGivenOut DEF TypeOK, PubType, client

LEMMA ClientTypes ==
  ASSUME TypeOK, NEW c \in Client, Subscribe(c) \/ Streaming(c) \/ Ending(c) \/ Disconnect(c)
  PROVE  TypeOK'
<1>1. UNCHANGED <<publisher, stream, oldest, faults, crashes>>
  BY DEF bounds, Subscribe, Streaming, Consuming, Serving,
         SkipMessage, HandleMessage, TakeEvent, Render, Ending,
         CloseChannel, EndStream, Disconnect
<1>2. DOMAIN stream = 1..Len(stream) /\ Len(stream) \in Nat /\ DOMAIN stream \subseteq Offset
  BY DEF TypeOK, Offset
<1>3. conn[c] \in Connection
  BY DEF TypeOK
<1>0. conn \in [Client -> Connection]
  BY DEF TypeOK
<1>4. conn' \in [Client -> Connection]
  <2>1. CASE Subscribe(c)
    <3>1. OffsetSpec(c) \in Nat
      BY <1>2 DEF TypeOK, OffsetSpec, Larger, Offset
    <3>2. [NoConnection EXCEPT !.phase = "open", !.next = OffsetSpec(c)] \in Connection
      <4>1. NoConnection \in Connection /\ "open" \in {"none", "open", "gone"}
        BY <1>2 DEF Connection, NoConnection, Offset
      <4> QED
        BY <3>1, <4>1 DEF Connection
    <3> QED
      BY <2>1, <3>2, <1>0 DEF Subscribe
  <2>2. CASE \E o \in DOMAIN stream : SkipMessage(c, o) \/ HandleMessage(c, o)
    <3>1. PICK o \in DOMAIN stream : SkipMessage(c, o) \/ HandleMessage(c, o)
      BY <2>2
    <3>2. /\ [conn[c] EXCEPT !.next = o + 1] \in Connection
          /\ [conn[c] EXCEPT !.hold = o, !.next = o + 1] \in Connection
      <4>1. o + 1 \in Nat /\ o \in Offset
        BY <1>2
      <4> QED
        BY <1>3, <4>1 DEF Connection
    <3>3. \/ conn' = [conn EXCEPT ![c] = [conn[c] EXCEPT !.next = o + 1]]
          \/ conn' = [conn EXCEPT ![c] = [conn[c] EXCEPT !.hold = o, !.next = o + 1]]
      BY <1>0, <3>1 DEF SkipMessage, HandleMessage
    <3> QED
      BY <1>0, <3>2, <3>3
  <2>3. CASE TakeEvent(c) \/ Render(c) \/ EndStream(c) \/ Disconnect(c)
    <3>1. 0 \in Offset
      BY <1>2 DEF Offset
    <3>2. /\ [conn[c] EXCEPT !.write = conn[c].hold, !.hold = 0] \in Connection
          /\ [conn[c] EXCEPT !.write = 0] \in Connection
          /\ [conn[c] EXCEPT !.phase = "gone"] \in Connection
          /\ NoConnection \in Connection
      BY <1>3, <3>1 DEF Connection, NoConnection
    <3>3. \/ conn' = [conn EXCEPT ![c] = [conn[c] EXCEPT !.write = conn[c].hold, !.hold = 0]]
          \/ conn' = [conn EXCEPT ![c] = [conn[c] EXCEPT !.write = 0]]
          \/ conn' = [conn EXCEPT ![c] = [conn[c] EXCEPT !.phase = "gone"]]
          \/ conn' = [conn EXCEPT ![c] = NoConnection]
      BY <1>0, <2>3 DEF TakeEvent, Render, EndStream, Disconnect
    <3> QED
      BY <1>0, <3>2, <3>3
  <2>4. CASE CloseChannel(c)
    <3>1. 0 \in Offset
      BY <1>2 DEF Offset
    <3>2. PICK n \in Nat : \/ conn' = [conn EXCEPT ![c] = [conn[c] EXCEPT !.closed = TRUE, !.hold = 0]]
                           \/ conn' = [conn EXCEPT ![c] = [conn[c] EXCEPT !.closed = TRUE, !.next = n]]
      <4>1. \A o \in DOMAIN stream : o + 1 \in Nat
        BY <1>2
      <4> QED
        BY <1>0, <2>4, <4>1 DEF CloseChannel
    <3>3. /\ [conn[c] EXCEPT !.closed = TRUE, !.hold = 0] \in Connection
          /\ [conn[c] EXCEPT !.closed = TRUE, !.next = n] \in Connection
      BY <1>3, <3>1 DEF Connection
    <3> QED
      BY <1>0, <3>2, <3>3
  <2> QED
    BY <2>1, <2>2, <2>3, <2>4 DEF Streaming, Consuming, Serving, Ending
<1>5. /\ from' \in [Client -> Nat] /\ last' \in [Client -> Offset] /\ had' \in [Client -> Nat]
  <2>1. CASE Subscribe(c)
    BY <1>2, <2>1 DEF Subscribe, TypeOK
  <2>2. CASE Render(c)
    <3>1. conn[c].write \in Offset
      BY <1>3 DEF Connection
    <3>2. /\ from' = from
          /\ last' = last \/ last' = [last EXCEPT ![c] = conn[c].write]
          /\ had' = had \/ had' = [had EXCEPT ![c] = had[c] + 1]
      BY <2>2 DEF Render, TypeOK
    <3>3. from \in [Client -> Nat] /\ last \in [Client -> Offset] /\ had \in [Client -> Nat]
      BY DEF TypeOK
    <3>4. last' \in [Client -> Offset]
      BY <3>1, <3>2, <3>3
    <3>5. had' \in [Client -> Nat]
      BY <3>2, <3>3
    <3> QED
      BY <3>2, <3>3, <3>4, <3>5
  <2>3. CASE UNCHANGED <<from, last, had>>
    BY <2>3 DEF TypeOK
  <2> QED
    BY <2>1, <2>2, <2>3 DEF Streaming, Consuming, Serving,
                            SkipMessage, HandleMessage, TakeEvent, Ending,
       CloseChannel, EndStream, Disconnect
<1>6. drops' \in 0..MaxDrops
  <2>1. CASE Disconnect(c)
    BY <2>1, NotificationsAssumption DEF Disconnect, TypeOK
  <2>2. CASE UNCHANGED drops
    BY <2>2 DEF TypeOK
  <2> QED
    BY <2>1, <2>2 DEF bounds, Subscribe, Streaming, Consuming, Serving,
                      SkipMessage, HandleMessage, TakeEvent, Render,
       Ending, CloseChannel, EndStream
<1> QED
  BY <1>1, <1>4, <1>5, <1>6 DEF TypeOK, publisher, history, Offset, Connection

LEMMA RestartTypes ==
  ASSUME TypeOK, PubType', Restart, crashes' \in 0..MaxCrashes PROVE TypeOK'
<1>1. \A p \in Operation : pub'[p].at # "send"
  BY DEF Restart, TypeOK, Publication, AtWork
<1>2. conn' \in [Client -> Connection] /\ counter' \in Nat
  BY DEF Restart, NoConnection, Connection, Offset, TypeOK
<1> QED
  BY <1>1, <1>2 DEF Restart, TypeOK, PubType, Offset, Connection

LEMMA NextTypes ==
  ASSUME TypeOK, RecordInv, [Next]_vars PROVE TypeOK'
<1>1. PubType'
  BY NextRecord DEF TypeOK, PubType
<1>2. CASE Expire
  BY <1>2 DEF Expire, publisher, history, client, bounds, TypeOK, Offset, Connection
<1>3. CASE Crash \/ \E c \in Client : Panic(c)
  <2>1. Restart /\ (UNCHANGED crashes \/ (crashes < MaxCrashes /\ crashes' = crashes + 1))
    BY <1>3 DEF Crash, Panic
  <2>2. crashes' \in 0..MaxCrashes
    BY <2>1, NotificationsAssumption DEF TypeOK
  <2> QED
    BY <1>1, <2>1, <2>2, RestartTypes
<1>4. CASE UNCHANGED vars
  BY <1>4 DEF vars, history, bounds, TypeOK, Offset, Connection
<1> QED
  BY <1>1, <1>2, <1>3, <1>4, PublishingTypes, ClientTypes DEF Next

\* Rows, stream, publisher and connections keep their types, and a message that is
\* sent carries a number the counter has given out, whatever fails.
THEOREM TypeCorrect == Spec => []TypeOK
<1>1. TypeOK /\ PubType /\ RecordInv /\ [Next]_vars => (TypeOK /\ PubType /\ RecordInv)'
  BY NextRecord, NextTypes
<1> QED
  BY <1>1, InitRecord, InitTypes, PTL DEF Spec

-----------------------------------------------------------------------------
(* What the broker drops. *)

\* A number is of one message at a time, and one that the broker has gone past is of a
\* message that was overtaken, or was used up by an earlier process.
NumberInv ==
  /\ seenId <= counter \/ seenId <= before
  /\ \A p \in Operation : pub[p].at = "send" =>
       /\ pub[p].id <= seenId => pub[p].id <= before \/ p \in late
       /\ \A q \in Operation : pub[q].at = "send" /\ pub[q].id = pub[p].id => q = p

LEMMA PublishingNumbers ==
  ASSUME TypeOK, NumberInv, NEW p \in Operation, Publishing(p)
  PROVE  NumberInv'
<1>1. /\ pub \in [Operation -> Publication] /\ counter \in Nat /\ seenId \in Nat /\ before \in Nat
      /\ \A q \in Operation : pub[q].at = "send" => pub[q].id \in 1..counter
  BY DEF TypeOK
<1>2. CASE Begin(p) \/ Create(p)
  <2>1. /\ UNCHANGED <<seenId, counter, late, before>>
        /\ pub'[p].at # "send" /\ \A q \in Operation : q # p => pub'[q] = pub[q]
    BY <1>1, <1>2 DEF Begin, Create, history, Publication
  <2> QED
    BY <2>1 DEF NumberInv
<1>3. CASE CreateFails(p) \/ SendFails(p)
  <2>1. UNCHANGED <<seenId, counter, late, before>> /\ Return(p)
    BY <1>3 DEF CreateFails, CreateFailed, SendFails, history
  <2>2. pub'[p].at # "send" /\ \A q \in Operation : q # p => pub'[q] = pub[q]
    BY <2>1, ReturnRecord DEF TypeOK, PubType
  <2> QED
    BY <2>1, <2>2 DEF NumberInv
<1>4. CASE Number(p)
  <2>1. /\ UNCHANGED <<seenId, before>> /\ counter' = counter + 1 /\ late' = late \ {p}
        /\ pub'[p].id = counter + 1
        /\ \A q \in Operation : q # p => pub'[q] = pub[q]
    BY <1>1, <1>4 DEF Number, NewCounter, Publication
  <2> QED
    BY <1>1, <2>1 DEF NumberInv
<1>5. CASE Send(p)
  <2>1. /\ Return(p) /\ UNCHANGED <<counter, before>> /\ pub[p].at = "send"
        /\ seenId' = IF pub[p].id > seenId THEN pub[p].id ELSE seenId
        /\ late' = late \cup {q \in Operation : pub[q].at = "send" /\ pub[q].id < pub[p].id}
    BY <1>5 DEF Send, Accept
  <2>2. pub'[p].at # "send" /\ \A q \in Operation : q # p => pub'[q] = pub[q]
    BY <2>1, ReturnRecord DEF TypeOK, PubType
  <2> QED
    BY <1>1, <2>1, <2>2 DEF NumberInv
<1> QED
  BY <1>2, <1>3, <1>4, <1>5 DEF Publishing

LEMMA NextNumbers ==
  ASSUME TypeOK, NumberInv, [Next]_vars PROVE NumberInv'
<1>1. CASE UNCHANGED <<seenId, counter, pub, late, before>>
  BY <1>1 DEF NumberInv
<1>2. ASSUME NEW c \in Client, Subscribe(c) \/ Streaming(c) \/ Ending(c) \/ Disconnect(c)
      PROVE  UNCHANGED <<seenId, counter, pub, late, before>>
  BY <1>2 DEF publisher, history, Subscribe, Streaming, Consuming, Serving, SkipMessage,
              HandleMessage, TakeEvent, Render, Ending, CloseChannel, EndStream, Disconnect
<1>3. CASE Expire
  BY <1>1, <1>3 DEF Expire, publisher, history
<1>4. CASE Crash \/ \E c \in Client : Panic(c)
  <2>1. \A p \in Operation : pub'[p].at # "send"
    BY <1>4 DEF Crash, Panic, Restart, TypeOK, Publication, AtWork
  <2>2. before' = seenId /\ seenId' = seenId /\ seenId \in Nat
    BY <1>4 DEF Crash, Panic, Restart, TypeOK
  <2> QED
    BY <2>1, <2>2 DEF NumberInv
<1>5. CASE UNCHANGED vars
  BY <1>1, <1>5 DEF vars, history
<1> QED
  BY <1>1, <1>2, <1>3, <1>4, <1>5, PublishingNumbers DEF Next

LEMMA DropsOvertaken ==
  ASSUME TypeOK, NumberInv, NEW p \in Operation, Send(p), UNCHANGED stream
  PROVE  pub[p].id \in 1..before \/ p \in late
<1>1. /\ pub[p].at = "send" /\ pub[p].id \in 1..counter /\ counter \in Nat
      /\ seenId \in Nat /\ before \in Nat
  BY DEF Send, TypeOK
<1>2. stream # Append(stream, Note(p))
  <2>1. stream \in Seq(Notification) /\ Note(p) \in Notification
    BY NoteType DEF TypeOK, PubType
  <2>2. Len(Append(stream, Note(p))) = Len(stream) + 1 /\ Len(stream) \in Nat
    BY <2>1
  <2> QED
    BY <2>2
<1>3. pub[p].id <= seenId
  BY <1>1, <1>2 DEF Send, Accept
<1> QED
  BY <1>1, <1>3 DEF NumberInv

\* However many operations publish at once, and however often the server starts again,
\* the broker drops nothing but a message that has been overtaken on its way or whose
\* number an earlier process has used up.
THEOREM DropsOnlyOvertaken == Spec => OnlyOvertakenDropped
<1>1. Init => NumberInv
  BY DEF Init, NumberInv
<1>2. TypeOK /\ NumberInv /\ [Next]_vars => NumberInv'
  BY NextNumbers
<1>3. TypeOK /\ NumberInv /\ [Next]_vars =>
        [\A p \in Operation : Send(p) /\ UNCHANGED stream
           => pub[p].id \in 1..before \/ p \in late]_vars
  BY DropsOvertaken
<1> QED
  BY <1>1, <1>2, <1>3, TypeCorrect, PTL DEF Spec, OnlyOvertakenDropped

-----------------------------------------------------------------------------
(* Streaming implements EventFeed. *)

\* No notification is on the stream twice, and what is there of an operation that
\* may still publish is its start, when it is at publishing its end.
Unique == \A i, j \in DOMAIN stream : stream[i] = stream[j] => i = j

Told(p) ==
  \A o \in DOMAIN stream : stream[o][1] = p =>
    \/ pub[p].at \in {"done", "lost"}
    \/ pub[p].at # "idle" /\ stream[o][2] = "started" /\ pub[p].status = "ended"

SentOnce == Unique /\ \A p \in Operation : Told(p)

\* Where a client is on the stream.
Placed(c) == /\ from[c] <= Len(stream) + 1
             /\ last[c] # 0 => 0 < from[c] /\ from[c] <= last[c]

\* An event the client is to see and has not had.
Ahead(c, o) == /\ o \in DOMAIN stream /\ PostFilter(c, stream[o])
               /\ from[c] <= o /\ last[c] < o

\* Of the events ahead of the client, the consumer has passed only the two that its
\* goroutines hold, in their order, and expired ones.
Reading(c) ==
  LET n == conn[c].next  h == conn[c].hold  w == conn[c].write
  IN  /\ 0 < from[c] /\ from[c] <= n /\ last[c] < n /\ n <= Len(stream) + 1
      /\ h # 0 => Ahead(c, h) /\ w < h /\ h < n
      /\ w # 0 => Ahead(c, w) /\ w < n
      /\ \A k \in 1..(n - 1) : Ahead(c, k) /\ k # h /\ k # w => k < oldest

FeedInv ==
  /\ SentOnce
  /\ oldest \in 1..(Len(stream) + 1)
  /\ \A c \in Client : Placed(c) /\ (conn[c].phase = "open" => Reading(c))

LEMMA InitFeed == Init => FeedInv /\ Feed!Init
<1> SUFFICES ASSUME Init PROVE FeedInv /\ Feed!Init
  OBVIOUS
<1>1. DOMAIN stream = {} /\ Len(stream) = 0
  BY DEF Init
<1>2. SentOnce
  BY <1>1 DEF SentOnce, Unique, Told
<1>3. \A c \in Client : Placed(c) /\ conn[c].phase # "open"
  BY <1>1 DEF Init, Placed, NoConnection
<1> QED
  BY <1>1, <1>2, <1>3 DEF FeedInv, Init, Feed!Init

\* What the feed is for is what passes the filter.
LEMMA FilterIsFor ==
  ASSUME NEW c \in Client, NEW n \in Notification
  PROVE  n \in ForClient[c] <=> PostFilter(c, n)
BY DEF ForClient, PostFilter

LEMMA StreamBasics ==
  ASSUME TypeOK
  PROVE  /\ DOMAIN stream = 1..Len(stream) /\ Len(stream) \in Nat
         /\ \A o \in DOMAIN stream : stream[o] \in Notification
BY DEF TypeOK

\* The publisher: an operation that sends has not sent this notification yet.
LEMMA SendIsNew ==
  ASSUME TypeOK, SentOnce, NEW p \in Operation, Send(p)
  PROVE  \A o \in DOMAIN stream : stream[o] # Note(p)
<1> SUFFICES ASSUME NEW o \in DOMAIN stream, stream[o] = Note(p) PROVE FALSE
  OBVIOUS
<1>1. stream[o][1] = p /\ stream[o][2] = pub[p].status
  BY DEF Note
<1> QED
  BY <1>1 DEF SentOnce, Told, Send

\* An operation that goes on to its next notification.
LEMMA ReturnTold ==
  ASSUME TypeOK, NEW p \in Operation, pub[p].at \in AtWork, Return(p)
  PROVE  /\ \/ pub'[p].at = "done"
            \/ pub[p].status = "started" /\ pub'[p].at = "create" /\ pub'[p].status = "ended"
         /\ \A q \in Operation : q # p => pub'[q] = pub[q]
<1>1. pub \in [Operation -> Publication]
  BY DEF TypeOK
<1> QED
  BY <1>1 DEF Return, Publication, Status

LEMMA ToldStays ==
  ASSUME UNCHANGED stream, NEW p \in Operation, Told(p),
         \/ pub'[p] = pub[p]
         \/ pub[p].at = "idle"
         \/ pub'[p].at \in {"done", "lost"}
         \/ pub[p].at \in AtWork /\ pub[p].status = "started"
         \/ pub[p].at \in AtWork /\ pub'[p].at # "idle" /\ pub'[p].status = pub[p].status
  PROVE  Told(p)'
BY DEF Told, AtWork

LEMMA PublishingOnce ==
  ASSUME TypeOK, SentOnce, NEW p \in Operation, Publishing(p), UNCHANGED stream
  PROVE  SentOnce'
<1>0. pub \in [Operation -> Publication]
  BY DEF TypeOK
<1>1. \A q \in Operation : q # p => pub'[q] = pub[q]
  BY <1>0 DEF Publishing, Begin, Create, CreateFails, CreateFailed, Number, Send, SendFails, Return
<1>2. CASE Begin(p)
  BY <1>1, <1>2, ToldStays DEF Begin, SentOnce, Unique
<1>3. CASE Create(p) \/ Number(p)
  <2>1. pub[p].at \in AtWork /\ pub'[p].at # "idle" /\ pub'[p].status = pub[p].status
    BY <1>0, <1>3 DEF Create, Number, AtWork, Publication
  <2> QED
    BY <1>1, <2>1, ToldStays DEF SentOnce, Unique
<1>4. CASE CreateFails(p) \/ Send(p) \/ SendFails(p)
  <2>1. pub[p].at \in AtWork /\ Return(p)
    BY <1>4 DEF CreateFails, CreateFailed, Send, SendFails, AtWork
  <2> QED
    BY <1>1, <2>1, ReturnTold, ToldStays DEF SentOnce, Unique
<1> QED
  BY <1>2, <1>3, <1>4 DEF Publishing

LEMMA SendOnce ==
  ASSUME TypeOK, SentOnce, NEW p \in Operation, Send(p), stream' = Append(stream, Note(p))
  PROVE  SentOnce'
<1>1. /\ DOMAIN stream' = 1..(Len(stream) + 1) /\ stream'[Len(stream) + 1] = Note(p)
      /\ \A o \in DOMAIN stream : stream'[o] = stream[o]
      /\ DOMAIN stream = 1..Len(stream) /\ Len(stream) \in Nat
  BY StreamBasics, NoteType DEF TypeOK, PubType
<1>2. Unique'
  BY <1>1, SendIsNew DEF SentOnce, Unique
<1>3. pub[p].at \in AtWork /\ Return(p)
  BY DEF Send, AtWork
<1>4. ASSUME NEW q \in Operation PROVE Told(q)'
  <2>1. CASE q # p
    <3>1. pub'[q] = pub[q] /\ Note(p)[1] # q
      BY <1>3, <2>1, ReturnTold DEF Note
    <3> QED
      BY <1>1, <3>1 DEF SentOnce, Told
  <2>2. CASE q = p /\ pub'[p].at = "done"
    BY <2>2 DEF Told
  <2>3. CASE q = p /\ pub'[p].at # "done"
    <3>1. pub[p].status = "started" /\ pub'[p].at = "create" /\ pub'[p].status = "ended"
      BY <1>3, <2>3, ReturnTold
    <3>2. \A o \in DOMAIN stream : stream[o][1] # p
      BY <1>3, <3>1 DEF SentOnce, Told, AtWork
    <3>3. Note(p)[2] = "started"
      BY <3>1 DEF Note
    <3> QED
      BY <1>1, <2>3, <3>1, <3>2, <3>3 DEF Told
  <2> QED
    BY <2>1, <2>2, <2>3
<1> QED
  BY <1>2, <1>4 DEF SentOnce

LEMMA RestartOnce ==
  ASSUME TypeOK, SentOnce, Restart PROVE SentOnce'
<1>1. \A q \in Operation : pub'[q] = pub[q] \/ pub'[q].at = "lost"
  BY DEF Restart, TypeOK, Publication
<1> QED
  BY <1>1, ToldStays DEF SentOnce, Unique, Restart

\* What a step of one connection leaves of the others.
LEMMA ReadingStays ==
  ASSUME UNCHANGED <<stream, oldest>>, NEW d \in Client,
         conn'[d] = conn[d], from'[d] = from[d], last'[d] = last[d]
  PROVE  /\ Placed(d) => Placed(d)'
         /\ Reading(d) => Reading(d)'
BY DEF Placed, Reading, Ahead, PostFilter

LEMMA SubscribeReads ==
  ASSUME TypeOK, FeedInv, NEW c \in Client, Subscribe(c)
  PROVE  /\ Placed(c)' /\ Reading(c)'
         /\ Feed!Join(c) \/ UNCHANGED Feed!vars
<1>1. /\ conn \in [Client -> Connection] /\ from \in [Client -> Nat]
      /\ last[c] \in 0..Len(stream) /\ from[c] \in Nat
      /\ Len(stream) \in Nat /\ DOMAIN stream = 1..Len(stream)
      /\ oldest \in 1..(Len(stream) + 1) /\ Placed(c)
  BY StreamBasics DEF TypeOK, Offset, FeedInv
<1>2. /\ conn'[c].next = OffsetSpec(c) /\ conn'[c].hold = 0 /\ conn'[c].write = 0
      /\ from' = [from EXCEPT ![c] = IF last[c] = 0 THEN Len(stream) + 1 ELSE from[c]]
      /\ UNCHANGED <<stream, oldest, last, had>>
  BY <1>1 DEF Subscribe, NoConnection
<1>3. CASE last[c] = 0
  <2>1. from'[c] = Len(stream) + 1 /\ conn'[c].next = Len(stream) + 1
    BY <1>1, <1>2, <1>3 DEF OffsetSpec
  <2>2. Feed!Join(c)
    BY <1>2, <1>3 DEF Feed!Join
  <2>3. Placed(c)' /\ Reading(c)'
    BY <1>1, <1>2, <1>3, <2>1 DEF Placed, Reading, Ahead
  <2> QED
    BY <2>2, <2>3
<1>4. CASE last[c] # 0
  <2>1. from' = from
    BY <1>1, <1>2, <1>4
  <2>2. /\ conn'[c].next \in {last[c] + 1, oldest}
        /\ conn'[c].next >= last[c] + 1 /\ conn'[c].next >= oldest
    BY <1>1, <1>2, <1>4 DEF OffsetSpec, Larger
  <2>3. Placed(c)' /\ Reading(c)'
    BY <1>1, <1>2, <1>4, <2>1, <2>2 DEF Placed, Reading, Ahead
  <2> QED
    BY <1>2, <2>1, <2>3 DEF Feed!vars
<1> QED
  BY <1>1, <1>3, <1>4

\* The consumer's goroutine goes on to the next message that is kept.
LEMMA ConsumeReads ==
  ASSUME TypeOK, FeedInv, NEW c \in Client, conn[c].phase = "open",
         NEW o \in DOMAIN stream, SkipMessage(c, o) \/ HandleMessage(c, o)
  PROVE  Placed(c)' /\ Reading(c)'
<1>1. /\ conn \in [Client -> Connection] /\ conn[c] \in Connection
      /\ last[c] \in 0..Len(stream) /\ from[c] \in Nat
      /\ Len(stream) \in Nat /\ DOMAIN stream = 1..Len(stream)
      /\ oldest \in 1..(Len(stream) + 1) /\ Placed(c) /\ Reading(c)
  BY StreamBasics DEF TypeOK, Offset, FeedInv
<1>2. conn[c].next \in Nat /\ conn[c].write \in Nat
  BY <1>1 DEF Connection, Offset
<1>3. /\ o \in Nat /\ conn[c].next <= o /\ conn[c].hold = 0
      /\ \A k \in Nat : conn[c].next <= k /\ k < o => k < oldest
  BY <1>1, <1>2 DEF SkipMessage, HandleMessage, Ready, Larger
<1>4. /\ conn'[c].next = o + 1 /\ conn'[c].write = conn[c].write
      /\ \/ conn'[c].hold = 0 /\ ~PostFilter(c, stream[o])
         \/ conn'[c].hold = o /\ PostFilter(c, stream[o])
      /\ UNCHANGED <<stream, oldest, from, last>>
  BY <1>1, <1>3 DEF SkipMessage, HandleMessage, Connection
<1>5. \A k : Ahead(c, k)' <=> Ahead(c, k)
  BY <1>4 DEF Ahead, PostFilter
<1>6. \A k \in 1..o : Ahead(c, k) /\ k # conn'[c].hold /\ k # conn[c].write => k < oldest
  <2> SUFFICES ASSUME NEW k \in 1..o, Ahead(c, k), k # conn'[c].hold, k # conn[c].write
               PROVE  k < oldest
    OBVIOUS
  <2>1. CASE k < conn[c].next
    BY <1>1, <1>2, <1>3, <2>1 DEF Reading
  <2>2. CASE conn[c].next <= k /\ k < o
    BY <1>3, <2>2
  <2>3. k # o
    BY <1>4 DEF Ahead
  <2> QED
    BY <1>2, <1>3, <2>1, <2>2, <2>3
<1>7. PostFilter(c, stream[o]) => Ahead(c, o)
  BY <1>1, <1>2, <1>3 DEF Ahead, Reading
<1>8. Reading(c)'
  <2>1. (0 < from[c] /\ from[c] <= o + 1 /\ last[c] < o + 1 /\ o + 1 <= Len(stream) + 1)'
    BY <1>1, <1>2, <1>3, <1>4 DEF Reading
  <2>2. conn'[c].hold # 0 =>
          Ahead(c, conn'[c].hold) /\ conn[c].write < conn'[c].hold /\ conn'[c].hold < o + 1
    BY <1>1, <1>2, <1>3, <1>4, <1>7 DEF Reading
  <2>3. conn[c].write # 0 => Ahead(c, conn[c].write) /\ conn[c].write < o + 1
    BY <1>1, <1>2, <1>3 DEF Reading
  <2>4. (0 < from[c] /\ from[c] <= conn[c].next /\ last[c] < conn[c].next
         /\ conn[c].next <= Len(stream) + 1)'
    BY <1>4, <2>1
  <2>5. (conn[c].hold # 0 => /\ Ahead(c, conn[c].hold) /\ conn[c].write < conn[c].hold
                             /\ conn[c].hold < conn[c].next)'
    BY <1>4, <1>5, <2>2
  <2>6. (conn[c].write # 0 => Ahead(c, conn[c].write) /\ conn[c].write < conn[c].next)'
    BY <1>4, <1>5, <2>3
  <2>7. (\A k \in 1..(conn[c].next - 1) :
           Ahead(c, k) /\ k # conn[c].hold /\ k # conn[c].write => k < oldest)'
    <3>1. conn'[c].next - 1 = o
      BY <1>3, <1>4
    <3> QED
      BY <1>4, <1>5, <1>6, <3>1
  <2> QED
    BY <2>4, <2>5, <2>6, <2>7 DEF Reading
<1> QED
  BY <1>1, <1>4, <1>8 DEF Placed

LEMMA TakeReads ==
  ASSUME TypeOK, FeedInv, NEW c \in Client, conn[c].phase = "open", TakeEvent(c)
  PROVE  Placed(c)' /\ Reading(c)'
<1>1. /\ conn \in [Client -> Connection] /\ conn[c] \in Connection
      /\ Placed(c) /\ Reading(c)
  BY DEF TypeOK, FeedInv
<1>2. /\ conn[c].hold # 0 /\ conn[c].write = 0
      /\ conn'[c].next = conn[c].next /\ conn'[c].write = conn[c].hold /\ conn'[c].hold = 0
      /\ UNCHANGED <<stream, oldest, from, last>>
  BY <1>1 DEF TakeEvent, Connection
<1>3. \A k : Ahead(c, k)' <=> Ahead(c, k)
  BY <1>2 DEF Ahead, PostFilter
<1>4. Reading(c)'
  BY <1>1, <1>2, <1>3 DEF Reading
<1> QED
  BY <1>1, <1>2, <1>4 DEF Placed

\* The client has the event that the request's goroutine has taken: the next of its
\* events, but for expired ones.
LEMMA RenderReads ==
  ASSUME TypeOK, FeedInv, NEW c \in Client, conn[c].phase = "open", Render(c)
  PROVE  Placed(c)' /\ Reading(c)' /\ Feed!Receive(c)
<1> DEFINE w == conn[c].write
<1>1. /\ conn \in [Client -> Connection] /\ conn[c] \in Connection
      /\ last \in [Client -> Offset] /\ from[c] \in Nat /\ last[c] \in Nat
      /\ Len(stream) \in Nat /\ DOMAIN stream = 1..Len(stream)
      /\ Placed(c) /\ Reading(c)
  BY StreamBasics DEF TypeOK, Offset, FeedInv
<1>2. conn[c].next \in Nat /\ conn[c].hold \in Nat /\ w \in Nat
  BY <1>1 DEF Connection, Offset
<1>3. /\ w # 0 /\ conn'[c].next = conn[c].next /\ conn'[c].hold = conn[c].hold
      /\ conn'[c].write = 0
      /\ last' = [last EXCEPT ![c] = w] /\ had' = [had EXCEPT ![c] = @ + 1]
      /\ UNCHANGED <<stream, oldest, from>>
  BY <1>1 DEF Render, Connection
<1>4. last'[c] = w
  BY <1>1, <1>3
<1>5. Ahead(c, w) /\ w < conn[c].next
  BY <1>1, <1>3 DEF Reading
<1>6. Feed!Receive(c)
  <2>1. w \in DOMAIN stream /\ stream[w] \in ForClient[c] /\ from[c] <= w /\ last[c] < w
    BY <1>5, StreamBasics, FilterIsFor DEF Ahead
  <2>2. ASSUME NEW k \in from[c]..(w - 1), last[c] < k, stream[k] \in ForClient[c]
        PROVE  k < oldest
    <3>1. k \in 1..(conn[c].next - 1) /\ k # w /\ k \in DOMAIN stream
      BY <1>1, <1>2, <1>5, <2>1, <2>2 DEF Reading
    <3>2. Ahead(c, k)
      BY <1>1, <2>2, <3>1, StreamBasics, FilterIsFor DEF Ahead
    <3>3. k # conn[c].hold
      BY <1>1, <1>2, <1>3, <2>2, <3>1 DEF Reading
    <3> QED
      BY <1>1, <3>1, <3>2, <3>3 DEF Reading
  <2>3. from[c] # 0
    BY <1>1 DEF Reading
  <2> QED
    BY <1>3, <2>1, <2>2, <2>3 DEF Feed!Receive
<1>7. \A k : Ahead(c, k)' <=> Ahead(c, k) /\ w < k
  <2>1. \A k \in DOMAIN stream : w < k => last[c] < k
    BY <1>1, <1>2, <1>5 DEF Ahead
  <2> QED
    BY <1>3, <1>4, <2>1 DEF Ahead, PostFilter
<1>8. Reading(c)'
  <2>1. conn[c].hold # 0 => Ahead(c, conn[c].hold) /\ w < conn[c].hold
    BY <1>1 DEF Reading
  <2> QED
    BY <1>1, <1>2, <1>3, <1>4, <1>5, <1>7, <2>1 DEF Reading, Ahead
<1>9. Placed(c)'
  BY <1>1, <1>3, <1>4, <1>5 DEF Placed, Reading, Ahead
<1> QED
  BY <1>6, <1>8, <1>9

\* A message more on the stream: nobody has come to it yet.
LEMMA ReadingGrows ==
  ASSUME TypeOK, FeedInv, NEW n \in Notification, stream' = Append(stream, n),
         UNCHANGED <<oldest, conn, from, last>>, NEW c \in Client
  PROVE  Placed(c)' /\ (conn'[c].phase = "open" => Reading(c)')
<1>1. /\ Len(stream) \in Nat /\ DOMAIN stream = 1..Len(stream)
      /\ Len(stream') = Len(stream) + 1 /\ DOMAIN stream' = 1..(Len(stream) + 1)
      /\ \A o \in DOMAIN stream : stream'[o] = stream[o]
      /\ conn[c] \in Connection /\ from[c] \in Nat /\ Placed(c)
  BY StreamBasics DEF TypeOK, FeedInv
<1>2. Placed(c)'
  BY <1>1 DEF Placed
<1>3. ASSUME conn[c].phase = "open" PROVE Reading(c)'
  <2>1. Reading(c) /\ conn[c].next \in Nat
    BY <1>1, <1>3 DEF FeedInv, Connection
  <2>2. \A k \in 1..Len(stream) : Ahead(c, k)' <=> Ahead(c, k)
    BY <1>1 DEF Ahead, PostFilter
  <2>3. \A k : Ahead(c, k) => k \in 1..Len(stream)
    BY <1>1 DEF Ahead
  <2>4. 1..(conn[c].next - 1) \subseteq 1..Len(stream)
    BY <1>1, <2>1 DEF Reading
  <2> QED
    BY <1>1, <2>1, <2>2, <2>3, <2>4 DEF Reading
<1> QED
  BY <1>2, <1>3

LEMMA PublishingFeeds ==
  ASSUME TypeOK, FeedInv, NEW p \in Operation, Publishing(p)
  PROVE  FeedInv' /\ [Feed!Next]_Feed!vars
<1>1. UNCHANGED <<client, oldest>>
  BY DEF Publishing, Begin, Create, CreateFails, Number, Send, SendFails
<1>2. CASE UNCHANGED stream
  <2>1. SentOnce'
    BY <1>2, PublishingOnce DEF FeedInv
  <2>2. \A c \in Client : Placed(c)' /\ (conn'[c].phase = "open" => Reading(c)')
    BY <1>1, <1>2, ReadingStays DEF FeedInv, client
  <2> QED
    BY <1>1, <1>2, <2>1, <2>2 DEF FeedInv, client, Feed!vars
<1>3. CASE Send(p) /\ stream' = Append(stream, Note(p))
  <2>1. Note(p) \in Notification
    BY NoteType DEF TypeOK, PubType
  <2>2. SentOnce' /\ \A o \in DOMAIN stream : stream[o] # Note(p)
    BY <1>3, SendOnce, SendIsNew DEF FeedInv
  <2>3. \A c \in Client : Placed(c)' /\ (conn'[c].phase = "open" => Reading(c)')
    BY <1>1, <1>3, <2>1, ReadingGrows DEF client
  <2>4. (oldest \in 1..(Len(stream) + 1))'
    BY <1>1, <1>3, <2>1, StreamBasics DEF FeedInv, TypeOK
  <2>5. Feed!Publish
    BY <1>1, <1>3, <2>1, <2>2 DEF Feed!Publish, client
  <2> QED
    BY <2>2, <2>3, <2>4, <2>5 DEF FeedInv, Feed!Next
<1>4. stream' = stream \/ (Send(p) /\ stream' = Append(stream, Note(p)))
  BY DEF Publishing, Begin, Create, CreateFails, Number, Send, Accept, SendFails
<1> QED
  BY <1>2, <1>3, <1>4

LEMMA ClientFeeds ==
  ASSUME TypeOK, FeedInv, NEW c \in Client,
         Subscribe(c) \/ Streaming(c) \/ Ending(c) \/ Disconnect(c)
  PROVE  FeedInv' /\ [Feed!Next]_Feed!vars
<1>1. UNCHANGED <<publisher, stream, oldest>>
  BY DEF Subscribe, Streaming, Consuming, Serving,
         SkipMessage, HandleMessage, TakeEvent, Render, Ending,
         CloseChannel, EndStream, Disconnect
<1>2. /\ conn \in [Client -> Connection] /\ from \in [Client -> Nat]
      /\ last \in [Client -> Offset]
  BY DEF TypeOK
<1>3. \A d \in Client : d # c => conn'[d] = conn[d] /\ from'[d] = from[d] /\ last'[d] = last[d]
  BY <1>2 DEF Subscribe, Streaming, Consuming, Serving,
              SkipMessage, HandleMessage, TakeEvent, Render, Ending,
         CloseChannel, EndStream, Disconnect
<1>4. /\ Placed(c)' /\ (conn'[c].phase = "open" => Reading(c)')
      /\ [Feed!Next]_Feed!vars
  <2>1. CASE Subscribe(c)
    BY <2>1, SubscribeReads DEF Feed!Next
  <2>2. CASE Streaming(c) /\ conn[c].phase = "open"
    <3>1. CASE \E o \in DOMAIN stream : SkipMessage(c, o) \/ HandleMessage(c, o)
      BY <1>1, <2>2, <3>1, ConsumeReads DEF SkipMessage, HandleMessage, Feed!vars
    <3>2. CASE TakeEvent(c)
      BY <2>2, <3>2, TakeReads DEF TakeEvent, Feed!vars
    <3>3. CASE Render(c)
      BY <2>2, <3>3, RenderReads DEF Feed!Next
    <3> QED
      BY <2>2, <3>1, <3>2, <3>3 DEF Streaming, Consuming, Serving
  <2>3. CASE (Streaming(c) /\ conn[c].phase # "open") \/ Ending(c) \/ Disconnect(c)
    <3>1. conn'[c].phase # "open"
      <4>1. conn[c] \in Connection
        BY <1>2
      <4>2. CASE EndStream(c)
        BY <1>2, <4>2 DEF EndStream, NoConnection
      <4>3. CASE Disconnect(c)
        BY <1>2, <4>1, <4>3 DEF Disconnect, Connection
      <4>4. CASE CloseChannel(c)
        BY <1>2, <4>1, <4>4 DEF CloseChannel, Connection
      <4>5. CASE Streaming(c) /\ conn[c].phase # "open"
        <5>1. CASE TakeEvent(c) \/ Render(c)
          BY <1>2, <4>1, <4>5, <5>1 DEF TakeEvent, Render, Connection
        <5>2. CASE \E o \in DOMAIN stream : SkipMessage(c, o)
          BY <1>2, <4>1, <4>5, <5>2 DEF SkipMessage, Connection
        <5> QED
          BY <4>5, <5>1, <5>2 DEF Streaming, Consuming, Serving, HandleMessage
      <4> QED
        BY <2>3, <4>2, <4>3, <4>4, <4>5 DEF Ending
    <3>2. UNCHANGED <<from, last, had>>
      BY <2>3 DEF Streaming, Consuming, Serving,
                  SkipMessage, HandleMessage, TakeEvent, Render, Ending,
         CloseChannel, EndStream, Disconnect
    <3> QED
      BY <1>1, <3>1, <3>2 DEF FeedInv, Placed, Feed!vars
  <2> QED
    BY <2>1, <2>2, <2>3
<1>5. SentOnce'
  BY <1>1 DEF publisher, FeedInv, SentOnce, Unique, Told
<1>6. \A d \in Client : Placed(d)' /\ (conn'[d].phase = "open" => Reading(d)')
  BY <1>1, <1>3, <1>4, ReadingStays DEF FeedInv
<1> QED
  BY <1>1, <1>4, <1>5, <1>6 DEF FeedInv

LEMMA RestartFeeds ==
  ASSUME TypeOK, FeedInv, Restart PROVE FeedInv' /\ UNCHANGED Feed!vars
<1>1. UNCHANGED <<stream, oldest, from, last, had>> /\ \A c \in Client : conn'[c].phase # "open"
  BY DEF Restart, NoConnection
<1>2. SentOnce'
  BY RestartOnce DEF FeedInv
<1> QED
  BY <1>1, <1>2 DEF FeedInv, Placed, Feed!vars

LEMMA ExpireFeeds ==
  ASSUME TypeOK, FeedInv, Expire PROVE FeedInv' /\ Feed!Next
<1>1. /\ oldest \in DOMAIN stream /\ oldest' = oldest + 1
      /\ UNCHANGED <<pub, stream, conn, from, last, had>>
  BY DEF Expire, publisher, client
<1>2. (oldest \in 1..(Len(stream) + 1))'
  BY <1>1, StreamBasics
<1>3. \A c \in Client : Placed(c)' /\ (conn'[c].phase = "open" => Reading(c)')
  <2> SUFFICES ASSUME NEW c \in Client
               PROVE  Placed(c)' /\ (conn'[c].phase = "open" => Reading(c)')
    OBVIOUS
  <2>1. \A k : Ahead(c, k)' <=> Ahead(c, k)
    BY <1>1 DEF Ahead, PostFilter
  <2>2. \A k \in Nat : k < oldest => k < oldest'
    BY <1>1, StreamBasics
  <2> QED
    BY <1>1, <2>1, <2>2 DEF FeedInv, Placed, Reading
<1>4. SentOnce'
  BY <1>1 DEF FeedInv, SentOnce, Unique, Told
<1> QED
  BY <1>1, <1>2, <1>3, <1>4 DEF FeedInv, Feed!Next, Feed!Expire

LEMMA NextFeeds ==
  ASSUME TypeOK, FeedInv, [Next]_vars PROVE FeedInv' /\ [Feed!Next]_Feed!vars
<1>1. CASE Crash \/ \E c \in Client : Panic(c)
  BY <1>1, RestartFeeds DEF Crash, Panic
<1>2. CASE UNCHANGED vars
  <2>1. UNCHANGED <<pub, stream, oldest, conn, from, last, had>>
    BY <1>2 DEF vars
  <2>2. SentOnce'
    BY <2>1 DEF FeedInv, SentOnce, Unique, Told
  <2>3. \A c \in Client : Placed(c)' /\ (conn'[c].phase = "open" => Reading(c)')
    BY <2>1, ReadingStays DEF FeedInv
  <2> QED
    BY <2>1, <2>2, <2>3 DEF FeedInv, Feed!vars
<1> QED
  BY <1>1, <1>2, PublishingFeeds, ClientFeeds, ExpireFeeds DEF Next

\* The streaming of events implements EventFeed, for any operations, clients and
\* groups: across lost connections, panics and restarts a client resumes where it
\* left off, has no event twice and misses none that has not expired.
THEOREM ImplementsFeed == Spec => FeedSpec
<1>1. Init => FeedInv /\ Feed!Init
  BY InitFeed
<1>2. TypeOK /\ FeedInv /\ [Next]_vars => FeedInv' /\ [Feed!Next]_Feed!vars
  BY NextFeeds
<1> QED
  BY <1>1, <1>2, TypeCorrect, PTL DEF Spec, FeedSpec, Feed!Spec

-----------------------------------------------------------------------------
(* And the client catches up: the fairness of FairSpec, with what enables  *)
(* each step written out.                                                  *)

CanConsume(c)   == \E o \in DOMAIN stream :
                     Ready(c, o) /\ (PostFilter(c, stream[o]) => conn[c].phase = "open")
CanServe(c)     == conn[c].hold # 0 \/ conn[c].write # 0
CanSubscribe(c) == conn[c].phase = "none" /\ Member[UserOf[c]] # {}
CanEnd(c)       == conn[c].phase = "gone" /\ conn[c].write = 0

\* What stays possible is done: for each goroutine of a connection, the end of a request and
\* the client's next connection, this is what WF_vars says.
Goes ==
  \A c \in Client : /\ <>~CanConsume(c)   \/ <><<Consuming(c)>>_vars
                    /\ <>~CanServe(c)     \/ <><<Serving(c)>>_vars
                    /\ <>~CanSubscribe(c) \/ <><<Subscribe(c)>>_vars
                    /\ <>~CanEnd(c)       \/ <><<EndStream(c)>>_vars
Scheduled == []Goes

\* What may still take connections away: lost ones, crashes, and a panic of one that is lost.
SomeGone == IF \E c \in Client : conn[c].phase = "gone" THEN 1 ELSE 0
Budget   == 2 * (MaxDrops - drops) + 2 * (MaxCrashes - crashes) + SomeGone

\* What a step may do to a connection that the server keeps.
Moves(c) ==
  LET x == conn[c]  y == conn'[c]
  IN  \/ y = x /\ last'[c] = last[c]
      \/ x.phase = "none" /\ y.phase = "open" /\ y.hold = 0
      \/ /\ x.phase # "none" /\ x.hold = 0 /\ y.phase = x.phase /\ y.write = x.write
         /\ y.next > x.next /\ (x.phase = "gone" => y.hold = 0) /\ last'[c] = last[c]
      \/ /\ x.hold # 0 /\ x.write = 0 /\ y.hold = 0 /\ y.write = x.hold
         /\ y.phase = x.phase /\ y.next = x.next
      \/ /\ x.write # 0 /\ y.write = 0 /\ y.hold = x.hold
         /\ y.phase = x.phase /\ y.next = x.next /\ (x.phase = "open" => last'[c] = x.write)
      \/ x.phase = "gone" /\ y.phase = "gone" /\ y.hold = 0 /\ y.write = x.write
      \/ x.phase = "gone" /\ x.write = 0 /\ y = NoConnection

\* How a connection is taken away.
Lost(c) == \/ conn'[c] = [conn[c] EXCEPT !.phase = "gone"] /\ conn[c].phase = "open"
           \/ conn'[c] = NoConnection

LEMMA ConsumeMoves ==
  ASSUME TypeOK, NEW c \in Client, Consuming(c)
  PROVE  /\ conn[c].phase # "none" /\ conn[c].hold = 0
         /\ conn'[c].phase = conn[c].phase /\ conn'[c].write = conn[c].write
         /\ conn'[c].next > conn[c].next
         /\ conn[c].phase = "gone" => conn'[c].hold = 0
         /\ UNCHANGED <<stream, oldest, from, last, bounds>>
         /\ conn' = [conn EXCEPT ![c] = conn'[c]]
<1> DEFINE x == conn[c]
<1>1. /\ conn \in [Client -> Connection] /\ x \in Connection /\ oldest \in Nat
      /\ DOMAIN stream \subseteq Nat
  BY DEF TypeOK
<1>2. PICK o \in DOMAIN stream : SkipMessage(c, o) \/ HandleMessage(c, o)
  BY DEF Consuming
<1>3. x.phase # "none" /\ x.hold = 0 /\ o = Larger(x.next, oldest)
  BY <1>2 DEF SkipMessage, HandleMessage, Ready
<1>4. \/ conn' = [conn EXCEPT ![c] = [x EXCEPT !.next = o + 1]]
      \/ x.phase = "open" /\ conn' = [conn EXCEPT ![c] = [x EXCEPT !.hold = o, !.next = o + 1]]
  BY <1>1, <1>2 DEF SkipMessage, HandleMessage
<1>5. o + 1 > x.next
  BY <1>1, <1>3 DEF Larger, Connection
<1>6. UNCHANGED <<stream, oldest, from, last, bounds>>
  BY <1>2 DEF SkipMessage, HandleMessage
<1>7. CASE conn' = [conn EXCEPT ![c] = [x EXCEPT !.next = o + 1]]
  <2>1. conn'[c] = [x EXCEPT !.next = o + 1]
    BY <1>1, <1>7
  <2> QED
    BY <1>1, <1>3, <1>5, <1>6, <1>7, <2>1 DEF Connection
<1>8. CASE x.phase = "open" /\ conn' = [conn EXCEPT ![c] = [x EXCEPT !.hold = o, !.next = o + 1]]
  <2>1. conn'[c] = [x EXCEPT !.hold = o, !.next = o + 1]
    BY <1>1, <1>8
  <2> QED
    BY <1>1, <1>3, <1>5, <1>6, <1>8, <2>1 DEF Connection
<1> QED
  BY <1>4, <1>7, <1>8

LEMMA ServeMoves ==
  ASSUME TypeOK, NEW c \in Client, Serving(c)
  PROVE  LET x == conn[c]  y == conn'[c]
         IN  /\ \/ /\ x.hold # 0 /\ x.write = 0 /\ y.hold = 0 /\ y.write = x.hold
                   /\ UNCHANGED last
                \/ /\ x.write # 0 /\ y.write = 0 /\ y.hold = x.hold
                   /\ x.phase = "open" => last' = [last EXCEPT ![c] = x.write]
                   /\ x.phase # "open" => UNCHANGED last
             /\ y.phase = x.phase /\ y.next = x.next
             /\ UNCHANGED <<stream, oldest, from, bounds>>
             /\ conn' = [conn EXCEPT ![c] = conn'[c]]
<1>1. conn \in [Client -> Connection] /\ conn[c] \in Connection
  BY DEF TypeOK
<1>2. CASE TakeEvent(c)
  BY <1>1, <1>2 DEF TakeEvent, Connection
<1>3. CASE Render(c)
  BY <1>1, <1>3 DEF Render, Connection
<1> QED
  BY <1>2, <1>3 DEF Serving

LEMMA BudgetIs ==
  ASSUME TypeOK
  PROVE  /\ Budget \in Nat /\ SomeGone \in {0, 1}
         /\ {drops, crashes, MaxDrops, MaxCrashes} \subseteq Nat
<1>1. {drops, crashes, MaxDrops - drops, MaxCrashes - crashes, MaxDrops, MaxCrashes} \subseteq Nat
  BY NotificationsAssumption DEF TypeOK
<1>2. SomeGone \in {0, 1}
  BY DEF SomeGone
<1> QED
  BY <1>1, <1>2 DEF Budget

LEMMA BudgetAfter ==
  ASSUME TypeOK'
  PROVE  /\ Budget' \in Nat /\ SomeGone' \in {0, 1} /\ {drops', crashes'} \subseteq Nat
<1>1. {drops', crashes', MaxDrops - drops', MaxCrashes - crashes'} \subseteq Nat
  BY NotificationsAssumption DEF TypeOK
<1>2. SomeGone' \in {0, 1}
  BY DEF SomeGone
<1> QED
  BY <1>1, <1>2 DEF Budget

\* What a step may do.
LEMMA Calm ==
  ASSUME TypeOK, [Next]_vars
  PROVE  \/ UNCHANGED <<conn, last, drops, crashes>>
         \/ \E d \in Client : Subscribe(d) \/ Streaming(d) \/ Ending(d) \/ Disconnect(d)
         \/ Restart /\ (Crash \/ (UNCHANGED crashes /\ SomeGone = 1))
<1>1. CASE \E p \in Operation : Publishing(p)
  BY <1>1 DEF Publishing, Begin, Create, CreateFails, Number, Send, SendFails, client, bounds
<1>2. CASE \E c \in Client : Panic(c)
  BY <1>2 DEF Panic, SomeGone
<1>3. CASE UNCHANGED vars \/ Expire
  BY <1>3 DEF vars, Expire, client, bounds
<1> QED
  BY <1>1, <1>2, <1>3 DEF Next, Crash

LEMMA ClientMoves ==
  ASSUME TypeOK, NEW d \in Client, Subscribe(d) \/ Streaming(d) \/ Ending(d)
  PROVE  /\ Moves(d) /\ \A c \in Client \ {d} : conn'[c] = conn[c] /\ last'[c] = last[c]
         /\ conn'[d].phase = "gone" => conn[d].phase = "gone"
         /\ UNCHANGED bounds
<1>1. /\ conn \in [Client -> Connection] /\ conn[d] \in Connection
      /\ last \in [Client -> Offset]
  BY DEF TypeOK
<1>2. CASE Subscribe(d)
  <2>1. conn'[d].phase = "open" /\ conn'[d].hold = 0
    BY <1>1, <1>2 DEF Subscribe, NoConnection
  <2> QED
    BY <1>1, <1>2, <2>1 DEF Subscribe, Moves
<1>3. CASE Consuming(d)
  BY <1>1, <1>3, ConsumeMoves DEF Moves
<1>4. CASE Serving(d)
  <2>1. PICK y : conn' = [conn EXCEPT ![d] = y]
    BY <1>4, ServeMoves
  <2> QED
    BY <1>1, <1>4, <2>1, ServeMoves DEF Moves
<1>5. CASE CloseChannel(d)
  <2>1. conn[d].phase = "gone" /\ UNCHANGED <<last, bounds>>
    BY <1>5 DEF CloseChannel
  <2>2. /\ \A c \in Client \ {d} : conn'[c] = conn[c]
        /\ conn'[d].phase = "gone" /\ conn'[d].hold = 0 /\ conn'[d].write = conn[d].write
    <3>1. CASE conn' = [conn EXCEPT ![d].closed = TRUE, ![d].hold = 0]
      BY <1>1, <2>1, <3>1 DEF Connection
    <3>2. ASSUME NEW o \in DOMAIN stream, Ready(d, o),
                 conn' = [conn EXCEPT ![d].closed = TRUE, ![d].next = o + 1]
          PROVE  /\ \A c \in Client \ {d} : conn'[c] = conn[c]
                 /\ conn'[d].phase = "gone" /\ conn'[d].hold = 0 /\ conn'[d].write = conn[d].write
      <4>1. conn[d].hold = 0
        BY <3>2 DEF Ready
      <4> QED
        BY <1>1, <2>1, <3>2, <4>1 DEF Connection
    <3> QED
      BY <1>5, <3>1, <3>2 DEF CloseChannel
  <2> QED
    BY <2>1, <2>2 DEF Moves
<1>6. CASE EndStream(d)
  BY <1>1, <1>6 DEF EndStream, Moves
<1> QED
  BY <1>2, <1>3, <1>4, <1>5, <1>6 DEF Streaming, Ending

\* Connections are taken away only so often.
LEMMA BudgetFalls ==
  ASSUME TypeOK, TypeOK', [Next]_vars
  PROVE  Budget' <= Budget /\ \A c \in Client : Moves(c) \/ (Lost(c) /\ Budget' < Budget)
<1>1. /\ Budget \in Nat /\ Budget' \in Nat /\ SomeGone \in {0, 1} /\ SomeGone' \in {0, 1}
      /\ {drops, crashes, MaxDrops, MaxCrashes} \subseteq Nat
      /\ {drops', crashes'} \subseteq Nat
  BY BudgetIs, BudgetAfter
<1>2. CASE UNCHANGED <<conn, last, drops, crashes>>
  BY <1>1, <1>2 DEF Budget, SomeGone, Moves
<1>3. ASSUME NEW d \in Client, Subscribe(d) \/ Streaming(d) \/ Ending(d)
      PROVE  Budget' <= Budget /\ \A c \in Client : Moves(c)
  <2>1. SomeGone' <= SomeGone
    BY <1>3, ClientMoves DEF SomeGone
  <2>2. UNCHANGED <<drops, crashes>>
    BY <1>3, ClientMoves DEF bounds
  <2>3. \A c \in Client : Moves(c)
    BY <1>3, ClientMoves DEF Moves
  <2> QED
    BY <1>1, <2>1, <2>2, <2>3 DEF Budget
<1>4. ASSUME NEW d \in Client, Disconnect(d)
      PROVE  Budget' < Budget /\ \A c \in Client : Moves(c) \/ Lost(c)
  <2>1. drops' = drops + 1 /\ crashes' = crashes
    BY <1>4 DEF Disconnect
  <2>2. \A c \in Client : Moves(c) \/ Lost(c)
    BY <1>4 DEF Disconnect, TypeOK, Moves, Lost
  <2> QED
    BY <1>1, <2>1, <2>2 DEF Budget
<1>5. CASE Restart /\ (Crash \/ (UNCHANGED crashes /\ SomeGone = 1))
  <2>1. SomeGone' = 0 /\ drops' = drops /\ \A c \in Client : Lost(c)
    BY <1>5 DEF Restart, SomeGone, NoConnection, Lost
  <2>2. crashes' = crashes + 1 \/ (crashes' = crashes /\ SomeGone = 1)
    BY <1>5 DEF Crash
  <2> QED
    BY <1>1, <2>1, <2>2 DEF Budget
<1> QED
  BY <1>1, <1>2, <1>3, <1>4, <1>5, Calm

\* The event at offset o is one that the client awaits.
Due(c, n, o) == /\ o \in DOMAIN stream /\ stream[o] = n /\ n \in ForClient[c]
                /\ 0 < from[c] /\ from[c] <= o /\ oldest <= o /\ last[c] < o

\* While nothing takes connections away, and until then.
Waits(c, n, o, k) == Due(c, n, o) /\ Budget = k
Over(c, n, o, k)  == ~Due(c, n, o) \/ Budget < k

Holds(c)    == conn[c].hold # 0
Writes(c)   == conn[c].write # 0
Phase(c, p) == conn[c].phase = p

Well == TypeOK /\ FeedInv

LEMMA AlwaysWell == Spec => []Well
<1>1. Init => FeedInv
  BY InitFeed
<1>2. TypeOK /\ FeedInv /\ [Next]_vars => FeedInv'
  BY NextFeeds
<1> QED
  BY <1>1, <1>2, TypeCorrect, PTL DEF Spec, Well

LEMMA Waiting ==
  ASSUME Well, Well', [Next]_vars, NEW c \in Client, NEW n, NEW o, NEW k, Waits(c, n, o, k)
  PROVE  Over(c, n, o, k)' \/ (Waits(c, n, o, k)' /\ Moves(c))
<1>1. TypeOK /\ TypeOK' /\ Budget \in Nat /\ Budget' \in Nat
  BY BudgetIs, BudgetAfter DEF Well
<1> QED
  BY <1>1, BudgetFalls DEF Waits, Over

\* Neither goroutine waits forever for the other.
LEMMA Serves ==
  ASSUME Well, Well', [Next]_vars, NEW c \in Client
  PROVE  /\ Writes(c) /\ Serving(c) => ~Writes(c)'
         /\ Holds(c) /\ ~Writes(c) => ~Holds(c)' \/ ~Writes(c)'
         /\ Holds(c) /\ ~Writes(c) /\ Serving(c) => ~Holds(c)'
<1>1. /\ TypeOK /\ TypeOK' /\ conn[c] \in Connection
      /\ NoConnection.hold = 0 /\ NoConnection.write = 0
  BY DEF Well, TypeOK, NoConnection
<1>2. Moves(c) \/ Lost(c)
  BY <1>1, BudgetFalls
<1>3. Holds(c) /\ ~Writes(c) => ~Holds(c)' \/ ~Writes(c)'
  BY <1>1, <1>2 DEF Moves, Lost, Holds, Writes, Connection
<1>4. Serving(c) => \/ Holds(c) /\ ~Writes(c) /\ ~Holds(c)'
                    \/ Writes(c) /\ ~Writes(c)'
  BY <1>1, ServeMoves DEF Holds, Writes
<1> QED
  BY <1>3, <1>4

\* A lost connection ends.
LEMMA WhileGone ==
  ASSUME Well, Well', [Next]_vars, NEW c \in Client, NEW n, NEW o, NEW k,
         Waits(c, n, o, k), Phase(c, "gone")
  PROVE  /\ \/ Over(c, n, o, k)'
            \/ Waits(c, n, o, k)' /\ Phase(c, "none")'
            \/ /\ Waits(c, n, o, k)' /\ Phase(c, "gone")'
               /\ ~Holds(c) => ~Holds(c)'
               /\ ~Holds(c) /\ ~Writes(c) => ~Writes(c)'
         /\ EndStream(c) => Phase(c, "none")'
<1>1. conn \in [Client -> Connection] /\ NoConnection.phase = "none"
  BY DEF Well, TypeOK, NoConnection
<1>2. EndStream(c) => Phase(c, "none")'
  BY <1>1 DEF EndStream, Phase
<1>3. Over(c, n, o, k)' \/ (Waits(c, n, o, k)' /\ Moves(c))
  BY Waiting
<1>4. Moves(c) => \/ Phase(c, "none")'
                  \/ /\ Phase(c, "gone")' /\ (~Holds(c) => ~Holds(c)')
                     /\ ~Holds(c) /\ ~Writes(c) => ~Writes(c)'
  BY <1>1 DEF Moves, Phase, Holds, Writes
<1> QED
  BY <1>2, <1>3, <1>4

\* The client connects again.
LEMMA WhileNone ==
  ASSUME Well, Well', [Next]_vars, NEW c \in Client, NEW n, NEW o, NEW k,
         Waits(c, n, o, k), Phase(c, "none")
  PROVE  /\ \/ Over(c, n, o, k)'
            \/ Waits(c, n, o, k)' /\ (Phase(c, "none")' \/ Phase(c, "open")')
         /\ Subscribe(c) => Phase(c, "open")'
         /\ CanSubscribe(c)
<1>1. conn \in [Client -> Connection]
  BY DEF Well, TypeOK
<1>2. Subscribe(c) => Phase(c, "open")'
  BY <1>1 DEF Subscribe, Phase, NoConnection
<1>3. Over(c, n, o, k)' \/ (Waits(c, n, o, k)' /\ Moves(c))
  BY Waiting
<1>4. Moves(c) => Phase(c, "none")' \/ Phase(c, "open")'
  BY DEF Moves, Phase
<1>5. CanSubscribe(c)
  BY DEF CanSubscribe, Waits, Due, ForClient, Phase
<1> QED
  BY <1>2, <1>3, <1>4, <1>5

Before(c, v) == conn[c].next = v
Beyond(c, v) == conn[c].next > v
Held(c, o)   == conn[c].hold = o
Taken(c, o)  == conn[c].write = o

\* An open connection reads on, and what it has taken it sends.
LEMMA WhileOpen ==
  ASSUME Well, Well', [Next]_vars, NEW c \in Client, NEW n, NEW o, NEW k, NEW v,
         Waits(c, n, o, k), Phase(c, "open")
  PROVE  /\ \/ Over(c, n, o, k)'
            \/ /\ Waits(c, n, o, k)' /\ Phase(c, "open")'
               /\ Before(c, v) => (Before(c, v)' /\ (~Holds(c) => ~Holds(c)')) \/ Beyond(c, v)'
               /\ Held(c, o) => Held(c, o)' \/ Taken(c, o)'
               /\ Taken(c, o) => Taken(c, o)'
         /\ Before(c, v) /\ Consuming(c) => Beyond(c, v)'
<1>1. /\ conn \in [Client -> Connection] /\ TypeOK
      /\ DOMAIN stream \subseteq Nat /\ from[c] \in Nat
  <2>1. TypeOK
    BY DEF Well
  <2>2. stream \in Seq(Notification) /\ conn \in [Client -> Connection] /\ from \in [Client -> Nat]
    BY <2>1 DEF TypeOK
  <2>3. DOMAIN stream \subseteq Nat
    BY <2>2
  <2> QED
    BY <2>1, <2>2, <2>3
<1>2. Before(c, v) /\ Consuming(c) => Beyond(c, v)'
  BY <1>1, ConsumeMoves DEF Before, Beyond
<1>3. Over(c, n, o, k)' \/ (Waits(c, n, o, k)' /\ Moves(c))
  BY Waiting
<1>4. o # 0 /\ o \in Nat
  BY <1>1 DEF Waits, Due
<1>5. ASSUME Moves(c), ~Over(c, n, o, k)'
      PROVE  /\ Phase(c, "open")'
             /\ Before(c, v) => (Before(c, v)' /\ (~Holds(c) => ~Holds(c)')) \/ Beyond(c, v)'
             /\ Held(c, o) => Held(c, o)' \/ Taken(c, o)'
             /\ Taken(c, o) => Taken(c, o)'
  <2>1. ~(conn[c].write = o /\ last'[c] = conn[c].write)
    BY <1>1, <1>4, <1>5 DEF Over, Due
  <2> QED
    BY <1>4, <1>5, <2>1 DEF Moves, Phase, Before, Beyond, Holds, Held, Taken
<1> QED
  BY <1>2, <1>3, <1>5

LEMMA WhatIsLeft ==
  ASSUME Well, NEW c \in Client, NEW n, NEW o, Due(c, n, o), Phase(c, "open")
  PROVE  /\ conn[c].next <= o \/ Held(c, o) \/ Taken(c, o)
         /\ conn[c].next <= o /\ ~Holds(c) => CanConsume(c)
<1>1. /\ conn[c] \in Connection /\ oldest \in Nat /\ o \in DOMAIN stream /\ o \in Nat
      /\ Len(stream) \in Nat /\ DOMAIN stream = 1..Len(stream) /\ from[c] \in Nat
  BY DEF Well, TypeOK, Due
<1>2. Reading(c)
  BY DEF Well, FeedInv, Phase
<1>3. PostFilter(c, stream[o])
  BY DEF Due, ForClient, PostFilter
<1>4. conn[c].next > o => Held(c, o) \/ Taken(c, o)
  <2>1. SUFFICES ASSUME conn[c].next > o PROVE Held(c, o) \/ Taken(c, o)
    BY <1>1 DEF Connection
  <2>2. o \in 1..(conn[c].next - 1) /\ Ahead(c, o)
    BY <1>1, <1>3, <2>1 DEF Ahead, Due, Connection
  <2> QED
    BY <1>1, <1>2, <2>2 DEF Reading, Held, Taken, Due
<1>5. ASSUME conn[c].next <= o, ~Holds(c) PROVE CanConsume(c)
  <2>1. Larger(conn[c].next, oldest) \in 1..o
    BY <1>1, <1>2, <1>5 DEF Larger, Due, Reading, Connection
  <2>2. Larger(conn[c].next, oldest) \in DOMAIN stream
    BY <1>1, <2>1
  <2> QED
    BY <1>5, <2>2 DEF CanConsume, Ready, Holds, Phase
<1> QED
  BY <1>1, <1>4, <1>5 DEF Connection

\* Of each connection the handler's hand is free some time, and the response is written.
Runs == [][Next]_vars /\ []Goes /\ []Well

LEMMA HandsFree ==
  ASSUME NEW c \in Client
  PROVE  Runs => []((Holds(c) => <>~Holds(c)) /\ (Writes(c) => <>~Writes(c)))
<1> SUFFICES ASSUME [][Next]_vars, []Goes, []Well
             PROVE  []((Holds(c) => <>~Holds(c)) /\ (Writes(c) => <>~Writes(c)))
  BY DEF Runs
<1>1. Goes
  BY PTL
<1>2. <>~CanServe(c) \/ <><<Serving(c)>>_vars
  BY <1>1 DEF Goes
<1>3. Holds(c) \/ Writes(c) => CanServe(c)
  BY DEF Holds, Writes, CanServe
<1>4. Well /\ Well' /\ [Next]_vars
        => /\ Writes(c) /\ Serving(c) => ~Writes(c)'
           /\ Holds(c) /\ ~Writes(c) => ~Holds(c)' \/ ~Writes(c)'
           /\ Holds(c) /\ ~Writes(c) /\ Serving(c) => ~Holds(c)'
  BY Serves
<1>5. Writes(c) => <>~Writes(c)
  BY <1>2, <1>3, <1>4, PTL
<1>6. Holds(c) /\ ~Writes(c) => <>~Holds(c)
  BY <1>2, <1>3, <1>4, PTL
<1> QED
  BY <1>5, <1>6, PTL

\* A lost connection makes way for the next.
LEMMA ConnectsAgain ==
  ASSUME NEW c \in Client, NEW n, NEW o, NEW k
  PROVE  Runs => [](Waits(c, n, o, k)
                      => <>(Over(c, n, o, k) \/ (Waits(c, n, o, k) /\ Phase(c, "open"))))
<1> DEFINE W    == Waits(c, n, o, k)
           O    == Over(c, n, o, k)
           Gone == Phase(c, "gone")
           None == Phase(c, "none")
           Open == Phase(c, "open")
<1> SUFFICES ASSUME [][Next]_vars, []Goes, []Well,
                    []((Holds(c) => <>~Holds(c)) /\ (Writes(c) => <>~Writes(c)))
             PROVE  [](W => <>(O \/ (W /\ Open)))
  BY HandsFree, PTL DEF Runs
<1>1. Goes
  BY PTL
<1>2. <>~CanEnd(c) \/ <><<EndStream(c)>>_vars
  BY <1>1 DEF Goes
<1>3. <>~CanSubscribe(c) \/ <><<Subscribe(c)>>_vars
  BY <1>1 DEF Goes
<1>4. Well /\ Well' /\ [Next]_vars /\ W /\ Gone
        => /\ \/ O' \/ (W /\ None)'
              \/ /\ (W /\ Gone)'
                 /\ ~Holds(c) => ~Holds(c)'
                 /\ ~Holds(c) /\ ~Writes(c) => ~Writes(c)'
           /\ EndStream(c) => None'
  BY WhileGone
<1>5. Well /\ Well' /\ [Next]_vars /\ W /\ None
        => /\ O' \/ (W /\ None)' \/ (W /\ Open)'
           /\ Subscribe(c) => Open'
  BY WhileNone
<1>6. Well /\ Well' /\ [Next]_vars /\ W /\ None => CanSubscribe(c)
  BY WhileNone
<1>7. Gone /\ ~Writes(c) => CanEnd(c)
  BY DEF CanEnd, Phase, Writes
<1>8. ~(None /\ Gone) /\ ~(None /\ Open)
  BY DEF Phase
<1>9. Well => Gone \/ None \/ Open
  BY DEF Well, TypeOK, Connection, Phase
<1> HIDE DEF W, O, Gone, None, Open
<1>10. W /\ None => <>(O \/ (W /\ Open))
  BY <1>3, <1>5, <1>6, <1>8, PTL
<1>11. W /\ Gone => <>(O \/ (W /\ None) \/ (W /\ Gone /\ ~Holds(c)))
  BY <1>4, PTL
<1>12. W /\ Gone /\ ~Holds(c) => <>(O \/ (W /\ None) \/ (W /\ Gone /\ ~Holds(c) /\ ~Writes(c)))
  BY <1>4, PTL
<1>13. W /\ Gone /\ ~Holds(c) /\ ~Writes(c) => <>(O \/ (W /\ None))
  BY <1>2, <1>4, <1>7, <1>8, PTL
<1> QED
  BY <1>9, <1>10, <1>11, <1>12, <1>13, PTL

\* What an open connection has read it sends.
Got(c, n, o, k) == Waits(c, n, o, k) /\ Phase(c, "open") /\ (Held(c, o) \/ Taken(c, o))

LEMMA SendsWhatItHas ==
  ASSUME NEW c \in Client, NEW n, NEW o, NEW k
  PROVE  Runs => [](Got(c, n, o, k) => <>Over(c, n, o, k))
<1> DEFINE W    == Waits(c, n, o, k)
           O    == Over(c, n, o, k)
           Open == Phase(c, "open")
<1> SUFFICES ASSUME [][Next]_vars, []Goes, []Well,
                    []((Holds(c) => <>~Holds(c)) /\ (Writes(c) => <>~Writes(c)))
             PROVE  [](Got(c, n, o, k) => <>O)
  BY HandsFree, PTL DEF Runs
<1>1. Well /\ Well' /\ [Next]_vars /\ W /\ Open
        => \/ O'
           \/ /\ (W /\ Open)'
              /\ Held(c, o) => Held(c, o)' \/ Taken(c, o)'
              /\ Taken(c, o) => Taken(c, o)'
  <2> SUFFICES ASSUME Well, Well', [Next]_vars, W, Open
               PROVE  \/ O'
                      \/ /\ (W /\ Open)'
                         /\ Held(c, o) => Held(c, o)' \/ Taken(c, o)'
                         /\ Taken(c, o) => Taken(c, o)'
    OBVIOUS
  <2> QED
    BY WhileOpen
<1>2. Well /\ W /\ Held(c, o) => Holds(c)
  BY DEF Well, TypeOK, Waits, Due, Held, Holds
<1>3. Well /\ W /\ Taken(c, o) => Writes(c)
  BY DEF Well, TypeOK, Waits, Due, Taken, Writes
<1>4. Got(c, n, o, k) => W /\ Open /\ (Held(c, o) \/ Taken(c, o))
  BY DEF Got
<1> HIDE DEF W, O, Open
<1>5. W /\ Open /\ Taken(c, o) => <>O
  BY <1>1, <1>3, PTL
<1>6. W /\ Open /\ Held(c, o) => <>(O \/ (W /\ Open /\ Taken(c, o)))
  BY <1>1, <1>2, PTL
<1> QED
  BY <1>4, <1>5, <1>6, PTL

\* How far the event at offset o is away: a connection, and the messages before it.
Distance(c, o) == IF conn[c].phase # "open" THEN o + 2
                  ELSE IF conn[c].next <= o THEN (o - conn[c].next) + 1 ELSE 0

Behind(c, n, o, k, r) == Waits(c, n, o, k) /\ Distance(c, o) = r
Nearer(c, n, o, k, r) == Over(c, n, o, k) \/ (Waits(c, n, o, k) /\ Distance(c, o) < r)

\* An open connection that has messages before the event to read reads on.
LEMMA ReadsOn ==
  ASSUME NEW c \in Client, NEW n, NEW o \in Nat, NEW k, NEW r \in Nat, r \in 1..(o + 1)
  PROVE  Runs => [](Behind(c, n, o, k, r) => <>Nearer(c, n, o, k, r))
<1> DEFINE B == Behind(c, n, o, k, r)
           N == Nearer(c, n, o, k, r)
<1> SUFFICES ASSUME [][Next]_vars, []Goes, []Well,
                    []((Holds(c) => <>~Holds(c)) /\ (Writes(c) => <>~Writes(c)))
             PROVE  [](B => <>N)
  BY HandsFree, PTL DEF Runs
<1>1. Goes
  BY PTL
<1>2. <>~CanConsume(c) \/ <><<Consuming(c)>>_vars
  BY <1>1 DEF Goes
<1>0. Well => conn[c].next \in Nat
  <2>1. TypeOK => conn \in [Client -> Connection]
    BY DEF TypeOK
  <2> QED
    BY <2>1 DEF Well, Connection
<1>3. Well /\ B => Waits(c, n, o, k) /\ Phase(c, "open") /\ Before(c, (o + 1) - r)
  BY <1>0 DEF Behind, Distance, Phase, Before
<1>4. Well /\ Waits(c, n, o, k) /\ Phase(c, "open") /\ Before(c, (o + 1) - r) => B
  BY DEF Behind, Distance, Phase, Before
<1>5. Well /\ Waits(c, n, o, k) /\ Phase(c, "open") /\ Beyond(c, (o + 1) - r) => N
  BY <1>0 DEF Nearer, Distance, Phase, Beyond
<1>6. Over(c, n, o, k) => N
  BY DEF Nearer
<1>7. Well /\ Well' /\ [Next]_vars /\ B
        => /\ N' \/ (B' /\ (~Holds(c) => ~Holds(c)'))
           /\ Consuming(c) => N'
  <2> SUFFICES ASSUME Well, Well', [Next]_vars, B
               PROVE  /\ N' \/ (B' /\ (~Holds(c) => ~Holds(c)'))
                      /\ Consuming(c) => N'
    OBVIOUS
  <2> DEFINE v == (o + 1) - r
  <2>1. Waits(c, n, o, k) /\ Phase(c, "open") /\ Before(c, v)
    BY <1>3
  <2>2. /\ Over(c, n, o, k)' => N'
        /\ Waits(c, n, o, k)' /\ Phase(c, "open")' /\ Before(c, v)' => B'
        /\ Waits(c, n, o, k)' /\ Phase(c, "open")' /\ Beyond(c, v)' => N'
    BY <1>4, <1>5, <1>6, PTL
  <2> HIDE DEF B, N, v
  <2> QED
    BY <2>1, <2>2, WhileOpen
<1>8. Well /\ B /\ ~Holds(c) => CanConsume(c)
  <2> SUFFICES ASSUME Well, B, ~Holds(c) PROVE CanConsume(c)
    OBVIOUS
  <2>1. Waits(c, n, o, k) /\ Phase(c, "open") /\ conn[c].next <= o
    BY <1>3 DEF Before
  <2> QED
    BY <2>1, WhatIsLeft DEF Waits
<1> HIDE DEF B, N
<1>9. B => <>(N \/ (B /\ ~Holds(c)))
  BY <1>7, PTL
<1>10. B /\ ~Holds(c) => <>N
  BY <1>2, <1>7, <1>8, PTL
<1> QED
  BY <1>9, <1>10, PTL

\* An event that a client awaits comes nearer, again and again: its distance falls, or what may
\* still take connections away, until it is there or has expired or the client has subscribed
\* anew.  As neither falls forever, the client catches up, as CaughtUp says.
THEOREM ComesNearer ==
  Spec /\ Scheduled =>
    \A c \in Client, n \in Notification, o, k, r \in Nat :
      Behind(c, n, o, k, r) ~> Nearer(c, n, o, k, r)
<1>1. ASSUME NEW c \in Client, NEW n \in Notification, NEW o \in Nat, NEW k \in Nat, NEW r \in Nat
      PROVE  Runs => [](Behind(c, n, o, k, r) => <>Nearer(c, n, o, k, r))
  <2> DEFINE W    == Waits(c, n, o, k)
             O    == Over(c, n, o, k)
             Open == Phase(c, "open")
             B    == Behind(c, n, o, k, r)
             N    == Nearer(c, n, o, k, r)
  <2>1. Well => conn[c].next \in Nat
    BY DEF Well, TypeOK, Connection
  <2>2. O => N
    BY DEF Nearer
  <2>3. CASE r = o + 2
    <3>1. B => W
      BY DEF Behind
    <3>2. Well /\ W /\ Open => N
      BY <2>1, <2>3 DEF Nearer, Distance, Phase
    <3> QED
      BY <2>2, <3>1, <3>2, ConnectsAgain, PTL DEF Runs
  <2>4. CASE r = 0
    <3>1. Well /\ B => Got(c, n, o, k)
      BY <2>1, <2>4, WhatIsLeft DEF Behind, Waits, Distance, Got, Phase
    <3> QED
      BY <2>2, <3>1, SendsWhatItHas, PTL DEF Runs
  <2>5. CASE r \in 1..(o + 1)
    BY <2>5, ReadsOn
  <2>6. CASE r > o + 2
    <3>1. Well => ~B
      BY <2>1, <2>6 DEF Behind, Distance
    <3> QED
      BY <3>1, PTL DEF Runs
  <2> QED
    BY <2>3, <2>4, <2>5, <2>6
<1>2. ASSUME NEW c \in Client, NEW n \in Notification, NEW o \in Nat, NEW k \in Nat, NEW r \in Nat
      PROVE  Spec /\ Scheduled => (Behind(c, n, o, k, r) ~> Nearer(c, n, o, k, r))
  BY <1>1, AlwaysWell, PTL DEF Spec, Scheduled, Runs
<1> QED
  BY <1>2
=============================================================================
