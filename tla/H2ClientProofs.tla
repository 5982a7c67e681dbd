--------------------------- MODULE H2ClientProofs ---------------------------
(***************************************************************************)
(* Proofs about the HTTP/2 client, for any tasks and length of responses.  *)
(* The inductive invariant says which session a task may use (Sessions),   *)
(* that a stream of a session is one task's (Allocated), whose streams the *)
(* table and the requests of a session name (Tables), and what a task has  *)
(* taken and has still to take of its answer (Boxes).                      *)
(***************************************************************************)
EXTENDS H2Client, SequenceTheorems, TLAPS

Early(t) == pc[t] \in {"start", "connecting", "publishing"}

\* A task that has no session yet has not put its own into the map, and nobody
\* uses it.
Sessions ==
  /\ \A t \in Task : Early(t) => /\ sess[t] = NoSession /\ mapped # t
                                 /\ \A u \in Task : sess[u] # t
  /\ \A t \in Task : ~Early(t) /\ pc[t] # "failed" => sess[t] # NoSession
  /\ FailedIsForgotten

\* The ids of a session's streams are below the next one, each of one task.
Allocated ==
  /\ \A t \in Task : Early(t) \/ pc[t] = "ready" => stream[t] = 0
  /\ \A t \in Task :
       pc[t] \in {"allocated", "inserted", "waiting", "finishing", "erring"} => stream[t] # 0
  /\ \A t \in Task : stream[t] # 0 =>
       sess[t] # NoSession /\ stream[t] \in ClientId /\ stream[t] < nextId[sess[t]]
  /\ \A t, u \in Task : t # u /\ stream[t] # 0 /\ sess[t] = sess[u] => stream[t] # stream[u]

\* The request r was sent over the session s.
Asked(s, r) ==
  /\ sess[r.of] = s /\ stream[r.of] = r.id
  /\ pc[r.of] \in {"waiting", "finishing", "erring", "ok", "failed"}

Tables ==
  \A s \in Session :
    /\ \A i \in DOMAIN streams[s] : sess[streams[s][i]] = s /\ stream[streams[s][i]] = i
    /\ \A i \in DOMAIN outgoing[s] : Asked(s, outgoing[s][i])
    /\ \A i \in DOMAIN received[s] : Asked(s, received[s][i])

HasEntry(t) == stream[t] \in DOMAIN streams[sess[t]] /\ streams[sess[t]][stream[t]] = t

\* A task that listens is in the table and has been handed all that was sent, or
\* the connection has closed and it has been told. The end of an answer comes
\* last.
Box(t) ==
  /\ Early(t) \/ pc[t] \in {"ready", "allocated"} =>
       mail[t] = <<>> /\ got[t] = 0 /\ sent[t] = 0
  /\ Listening(t) =>
       \/ HasEntry(t) /\ got[t] + Len(mail[t]) = sent[t]
       \/ /\ reader[sess[t]] = "down" /\ mail[t] # <<>>
          /\ mail[t][Len(mail[t])].kind = "closed"
  /\ \A i \in 1..Len(mail[t]) :
       /\ mail[t][i].of \in {t, NoSession}
       /\ mail[t][i].end => answer[t] = "ended" /\ got[t] + i = sent[t]
  /\ pc[t] \in {"finishing", "ok"} => answer[t] = "ended" /\ got[t] = sent[t]

Boxes == \A t \in Task : Box(t)

IInv == TypeOK /\ Sessions /\ Allocated /\ Tables /\ Boxes

-----------------------------------------------------------------------------
(* Types                                                                   *)

LEMMA InitHolds == Init => IInv
<1> SUFFICES ASSUME Init PROVE IInv
  OBVIOUS
<1>1. TypeOK
  <2>1. 1 \in ClientId /\ 0 \in Nat
    BY DEF ClientId
  <2>2. <<>> \in Seq(Message) /\ <<>> \in Seq(Queued)
    OBVIOUS
  <2> QED BY <2>1, <2>2 DEF Init, TypeOK, Place, NoStreams
<1>2. Sessions
  BY TaskAssumption DEF Init, Sessions, Early, FailedIsForgotten, Session
<1>3. Allocated
  BY DEF Init, Allocated, Early
<1>4. Tables
  BY DEF Init, Tables, NoStreams
<1>5. Boxes
  BY DEF Init, Boxes, Box, Listening
<1> QED BY <1>1, <1>2, <1>3, <1>4, <1>5 DEF IInv

LEMMA NextClientId ==
  ASSUME NEW n \in ClientId
  PROVE  n + 2 \in ClientId /\ n \in Nat /\ n # 0
BY DEF ClientId

\* A task that has been given a session uses one.
LEMMA SessionType ==
  ASSUME TypeOK, Sessions, NEW t \in Task, ~Early(t), pc[t] # "failed"
  PROVE  sess[t] \in Session
BY DEF TypeOK, Sessions

LEMMA StreamType ==
  ASSUME TypeOK, Allocated, NEW t \in Task, stream[t] # 0
  PROVE  /\ sess[t] \in Session /\ stream[t] \in ClientId /\ stream[t] \in Nat
         /\ stream[t] < nextId[sess[t]] /\ nextId[sess[t]] \in Nat
BY NextClientId DEF TypeOK, Allocated, ClientId

LEMMA TaskTypes ==
  ASSUME TypeOK, Sessions, Allocated, NEW t \in Task, TaskStep(t)
  PROVE  TypeOK'
<1> USE DEF Place
<1>1. ~Early(t) /\ pc[t] # "failed" => sess[t] \in Session
  BY SessionType
<1>2. pc[t] \in {"allocated", "inserted", "waiting", "finishing", "erring"} =>
        stream[t] \in ClientId
  BY StreamType DEF Allocated
<1>3. ASSUME NEW s \in Session, NEW T, streams' = [streams EXCEPT ![s] = T],
             \A i \in DOMAIN T : i \in ClientId /\ T[i] \in Task
      PROVE  /\ DOMAIN streams' = Session
             /\ \A r \in Session : \A i \in DOMAIN streams'[r] :
                  i \in ClientId /\ streams'[r][i] \in Task
  <2>1. DOMAIN streams' = Session /\ streams'[s] = T
    BY <1>3 DEF TypeOK
  <2>2. \A r \in Session \ {s} : streams'[r] = streams[r]
    BY <1>3 DEF TypeOK
  <2> QED BY <1>3, <2>1, <2>2 DEF TypeOK
<1>4. ASSUME NEW s \in Session, NEW id
      PROVE  \A i \in DOMAIN Without(streams[s], id) :
               i \in ClientId /\ Without(streams[s], id)[i] \in Task
  BY DEF Without, TypeOK
<1>5. CASE Lookup(t)
  <2>1. sess' \in [Task -> Session \cup {NoSession}]
    <3>1. sess' = sess \/ sess' = [sess EXCEPT ![t] = mapped]
      BY <1>5 DEF Lookup
    <3> QED BY <3>1 DEF TypeOK
  <2>2. pc' \in [Task -> Place]
    <3>1. pc' = [pc EXCEPT ![t] = "ready"] \/ pc' = [pc EXCEPT ![t] = "connecting"]
      BY <1>5 DEF Lookup
    <3> QED BY <3>1 DEF TypeOK
  <2>3. UNCHANGED <<mapped, stream, got, mail, conns, server>>
    BY <1>5 DEF Lookup
  <2> QED BY <2>1, <2>2, <2>3 DEF TypeOK, conns, server
<1>6. CASE Connect(t)
  BY <1>6 DEF Connect, TypeOK, Session, server
<1>7. CASE ConnectFails(t) \/ PrewarmEnds(t) \/ Evict(t)
  BY <1>7 DEF ConnectFails, PrewarmEnds, Evict, TypeOK, conns, server
<1>8. CASE Publish(t)
  BY <1>8 DEF Publish, TypeOK, Session, conns, server
<1>9. CASE Allocate(t)
  <2>1. sess[t] \in Session /\ nextId[sess[t]] \in ClientId
    BY <1>1, <1>9 DEF Allocate, Early, TypeOK
  <2>2. stream' \in [Task -> Nat] /\ nextId' \in [Session -> ClientId]
    BY <1>9, <2>1, NextClientId DEF Allocate, TypeOK
  <2>3. UNCHANGED <<mapped, sess, got, mail, streams, outgoing, writer, reader,
                    pendingHeaders, server>> /\ pc' \in [Task -> Place]
    BY <1>9 DEF Allocate, TypeOK
  <2> QED BY <2>2, <2>3 DEF TypeOK, server
<1>10. CASE Insert(t)
  <2> DEFINE T == [i \in DOMAIN streams[sess[t]] \cup {stream[t]} |->
                     IF i = stream[t] THEN t ELSE streams[sess[t]][i]]
  <2>1. sess[t] \in Session /\ stream[t] \in ClientId
    BY <1>1, <1>2, <1>10 DEF Insert, Early
  <2>2. streams' = [streams EXCEPT ![sess[t]] = T]
    BY <1>10 DEF Insert
  <2>3. \A i \in DOMAIN T : i \in ClientId /\ T[i] \in Task
    BY <2>1 DEF TypeOK
  <2> HIDE DEF T
  <2>4. /\ DOMAIN streams' = Session
        /\ \A r \in Session : \A i \in DOMAIN streams'[r] :
             i \in ClientId /\ streams'[r][i] \in Task
    BY <1>3, <2>1, <2>2, <2>3
  <2>5. pc' \in [Task -> Place] /\ UNCHANGED <<mapped, sess, stream, got, mail, nextId,
          outgoing, writer, reader, pendingHeaders, server>>
    BY <1>10 DEF Insert, TypeOK
  <2> QED BY <2>4, <2>5 DEF TypeOK, server
<1>11. CASE Send(t)
  <2>1. sess[t] \in Session /\ stream[t] \in ClientId
    BY <1>1, <1>2, <1>11 DEF Send, Early
  <2>2. [id |-> stream[t], of |-> t] \in Queued
    BY <2>1 DEF Queued
  <2>3. Append(outgoing[sess[t]], [id |-> stream[t], of |-> t]) \in Seq(Queued)
    BY <2>1, <2>2, AppendProperties DEF TypeOK
  <2>4. outgoing' \in [Session -> Seq(Queued)] /\ pc' \in [Task -> Place]
    BY <1>11, <2>3 DEF Send, TypeOK
  <2>5. UNCHANGED <<mapped, sess, stream, got, mail, nextId, streams, writer, reader,
                    pendingHeaders, server>>
    BY <1>11 DEF Send
  <2> QED BY <2>4, <2>5 DEF TypeOK, server
<1>12. CASE SendFails(t) \/ Finish(t)
  <2>1. sess[t] \in Session
    BY <1>1, <1>12 DEF SendFails, Finish, Early
  <2>2. streams' = [streams EXCEPT ![sess[t]] = Without(streams[sess[t]], stream[t])]
    BY <1>12 DEF SendFails, Finish
  <2>3. /\ DOMAIN streams' = Session
        /\ \A r \in Session : \A i \in DOMAIN streams'[r] :
             i \in ClientId /\ streams'[r][i] \in Task
    BY <1>3, <1>4, <2>1, <2>2
  <2>4. pc' \in [Task -> Place] /\ UNCHANGED <<mapped, sess, stream, got, mail, nextId,
          outgoing, writer, reader, pendingHeaders, server>>
    BY <1>12 DEF SendFails, Finish, TypeOK
  <2> QED BY <2>3, <2>4 DEF TypeOK, server
<1>13. CASE Receive(t)
  <2>1. mail[t] # <<>> /\ mail[t] \in Seq(Message)
    BY <1>13 DEF Receive, TypeOK
  <2>2. Tail(mail[t]) \in Seq(Message) /\ <<>> \in Seq(Message)
    BY <2>1, HeadTailProperties
  <2>3. mail' \in [Task -> Seq(Message)]
    BY <1>13, <2>1, <2>2 DEF Receive, TypeOK
  <2>4. AfterMessage(Head(mail[t])) \in Place
    BY DEF AfterMessage
  <2>5. pc' \in [Task -> Place] /\ got' \in [Task -> Nat]
    BY <1>13, <2>4 DEF Receive, TypeOK
  <2> QED BY <1>13, <2>3, <2>5 DEF Receive, TypeOK, conns, server
<1> QED
  BY <1>5, <1>6, <1>7, <1>8, <1>9, <1>10, <1>11, <1>12, <1>13 DEF TaskStep

\* A step of a task changes the local variables of no other.
LEMMA OthersStay ==
  ASSUME TypeOK, NEW t \in Task, TaskStep(t), NEW u \in Task, u # t
  PROVE  /\ pc'[u] = pc[u] /\ sess'[u] = sess[u] /\ stream'[u] = stream[u]
         /\ got'[u] = got[u] /\ mail'[u] = mail[u]
<1>1. CASE Lookup(t) \/ Connect(t) \/ ConnectFails(t) \/ Publish(t) \/ PrewarmEnds(t)
  BY <1>1 DEF Lookup, Connect, ConnectFails, Publish, PrewarmEnds, TypeOK
<1>2. CASE Allocate(t) \/ Insert(t) \/ Send(t) \/ SendFails(t)
  BY <1>2 DEF Allocate, Insert, Send, SendFails, TypeOK
<1>3. CASE Receive(t) \/ Finish(t) \/ Evict(t)
  BY <1>3 DEF Receive, Finish, Evict, TypeOK
<1> QED BY <1>1, <1>2, <1>3 DEF TaskStep

\* What a frame read for the request r changes: nothing but the answer, or it is
\* handed on and counted. After its end there is nothing more of an answer.
LEMMA AnswerStep ==
  ASSUME TypeOK, NEW s \in Session, NEW j \in DOMAIN received[s],
         Answer(s, received[s][j])
  PROVE  LET r == received[s][j]
         IN  /\ r.of \in Task /\ r.id \in ClientId
             /\ reader[s] = "up"
             /\ UNCHANGED <<mapped, tasks, nextId, streams, outgoing, writer, reader, received>>
             /\ pendingHeaders' \in [Session -> Nat]
             /\ \/ /\ UNCHANGED <<mail, sent>> /\ answer[r.of] = "none"
                   /\ answer' = [answer EXCEPT ![r.of] = "part"]
                \/ \E m \in Message, a \in {"open", "ended"} :
                     /\ Deliver(s, r.id, m) /\ m.of = r.of
                     /\ m.end => a = "ended"
                     /\ answer[r.of] # "ended"
                     /\ answer' = [answer EXCEPT ![r.of] = a]
                     /\ sent' = [sent EXCEPT ![r.of] = @ + 1]
<1> DEFINE r == received[s][j]
<1>1. r.of \in Task /\ r.id \in ClientId
  <2>1. received[s] \in Seq(Queued)
    BY DEF TypeOK
  <2>2. r \in Queued
    BY <2>1, LenProperties
  <2> QED BY <2>2 DEF Queued
<1> HIDE DEF r
<1>2. reader[s] = "up"
  BY DEF Answer, Reading, ReadHeaders, ReadHeadersPart, ReadData, ReadReset, r
<1>3. Answer(s, r)
  BY DEF r
<1>4. CASE ReadHeaders(s, r)
  <2>1. PICK e \in BOOLEAN :
          /\ Deliver(s, r.id, [kind |-> "headers", end |-> e, of |-> r.of])
          /\ answer' = [answer EXCEPT ![r.of] = IF e THEN "ended" ELSE "open"]
    BY <1>4 DEF ReadHeaders
  <2> DEFINE m == [kind |-> "headers", end |-> e, of |-> r.of]
             a == IF e THEN "ended" ELSE "open"
  <2>2. m \in Message /\ m.of = r.of /\ m.end = e
    BY <1>1 DEF Message
  <2>3. answer[r.of] # "ended" /\ sent' = [sent EXCEPT ![r.of] = @ + 1]
        /\ pendingHeaders' = [pendingHeaders EXCEPT ![s] = 0]
        /\ UNCHANGED <<mapped, tasks, nextId, streams, outgoing, writer, reader, received>>
    BY <1>4 DEF ReadHeaders
  <2>4. a \in {"open", "ended"} /\ (m.end => a = "ended")
    BY <2>2
  <2>5. pendingHeaders' \in [Session -> Nat]
    BY <2>3 DEF TypeOK
  <2>6. Deliver(s, r.id, m) /\ answer' = [answer EXCEPT ![r.of] = a]
    BY <2>1
  <2> HIDE DEF m, a
  <2> QED BY <1>1, <1>2, <2>2, <2>3, <2>4, <2>5, <2>6 DEF r
<1>5. CASE ReadHeadersPart(s, r)
  BY <1>1, <1>2, <1>5 DEF ReadHeadersPart, TypeOK, r, ClientId
<1>6. CASE ReadData(s, r)
  <2>1. PICK e \in BOOLEAN :
          /\ Deliver(s, r.id, [kind |-> "data", end |-> e, of |-> r.of])
          /\ answer' = [answer EXCEPT ![r.of] = IF e THEN "ended" ELSE "open"]
    BY <1>6 DEF ReadData
  <2> DEFINE m == [kind |-> "data", end |-> e, of |-> r.of]
             a == IF e THEN "ended" ELSE "open"
  <2>2. m \in Message /\ m.of = r.of /\ m.end = e
    BY <1>1 DEF Message
  <2>3. answer[r.of] # "ended" /\ sent' = [sent EXCEPT ![r.of] = @ + 1]
        /\ UNCHANGED <<mapped, tasks, conns, received>>
    BY <1>6 DEF ReadData
  <2>4. a \in {"open", "ended"} /\ (m.end => a = "ended")
    BY <2>2
  <2>5. pendingHeaders' \in [Session -> Nat]
        /\ UNCHANGED <<mapped, tasks, nextId, streams, outgoing, writer, reader, received>>
    BY <2>3 DEF TypeOK, conns
  <2>6. Deliver(s, r.id, m) /\ answer' = [answer EXCEPT ![r.of] = a]
    BY <2>1
  <2> HIDE DEF m, a
  <2> QED BY <1>1, <1>2, <2>2, <2>3, <2>4, <2>5, <2>6 DEF r
<1>7. CASE ReadReset(s, r)
  <2> DEFINE m == [kind |-> "reset", end |-> FALSE, of |-> r.of]
  <2>1. m \in Message /\ m.of = r.of /\ ~m.end
    BY <1>1 DEF Message
  <2>2. answer[r.of] # "ended" /\ sent' = [sent EXCEPT ![r.of] = @ + 1]
        /\ Deliver(s, r.id, m) /\ answer' = [answer EXCEPT ![r.of] = "ended"]
        /\ UNCHANGED <<mapped, tasks, conns, received>>
    BY <1>7 DEF ReadReset
  <2>3. pendingHeaders' \in [Session -> Nat]
        /\ UNCHANGED <<mapped, tasks, nextId, streams, outgoing, writer, reader, received>>
    BY <2>2 DEF TypeOK, conns
  <2> HIDE DEF m
  <2> QED BY <1>1, <1>2, <2>1, <2>2, <2>3 DEF r
<1> QED BY <1>3, <1>4, <1>5, <1>6, <1>7 DEF Answer

LEMMA DeliverType ==
  ASSUME TypeOK, NEW s \in Session, NEW id, NEW m \in Message, Deliver(s, id, m)
  PROVE  /\ mail' \in [Task -> Seq(Message)]
         /\ \A u \in Task : mail'[u] = mail[u] \/ mail'[u] = Append(mail[u], m)
<1>1. CASE id \in DOMAIN streams[s] /\ Listening(streams[s][id])
  <2>1. streams[s][id] \in Task
    BY <1>1 DEF TypeOK
  <2>2. mail' = [mail EXCEPT ![streams[s][id]] = Append(@, m)]
    BY <1>1 DEF Deliver
  <2>3. Append(mail[streams[s][id]], m) \in Seq(Message)
    BY <2>1, AppendProperties DEF TypeOK
  <2> QED BY <2>1, <2>2, <2>3 DEF TypeOK
<1>2. CASE ~(id \in DOMAIN streams[s] /\ Listening(streams[s][id]))
  BY <1>2 DEF Deliver, TypeOK
<1> QED BY <1>1, <1>2

LEMMA SessionTypes ==
  ASSUME TypeOK, NEW s \in Session,
         WriterStep(s) \/ ReadFrame(s) \/ ReadStops(s) \/ CloseStreams(s)
  PROVE  TypeOK'
<1>1. CASE Write(s)
  <2>1. received[s] \o outgoing[s] \in Seq(Queued) /\ <<>> \in Seq(Queued)
    BY ConcatProperties DEF TypeOK
  <2>2. received' \in [Session -> Seq(Queued)] /\ outgoing' \in [Session -> Seq(Queued)]
    BY <1>1, <2>1 DEF Write, TypeOK
  <2> QED BY <1>1, <2>2 DEF Write, TypeOK, tasks
<1>2. CASE WriteFails(s)
  <2>1. outgoing' \in [Session -> Seq(Queued)]
    BY <1>2 DEF WriteFails, TypeOK
  <2> QED BY <1>2, <2>1 DEF WriteFails, TypeOK, tasks, server
<1>3. CASE ReadFrame(s)
  <2>1. PICK j \in DOMAIN received[s] : Answer(s, received[s][j])
    BY <1>3 DEF ReadFrame
  <2> DEFINE r == received[s][j]
  <2>2. /\ r.of \in Task
        /\ UNCHANGED <<mapped, tasks, nextId, streams, outgoing, writer, reader, received>>
        /\ pendingHeaders' \in [Session -> Nat]
    BY <2>1, AnswerStep
  <2>3. mail' \in [Task -> Seq(Message)] /\ sent' \in [Task -> Nat]
        /\ answer' \in [Task -> {"none", "part", "open", "ended"}]
    <3>1. CASE UNCHANGED <<mail, sent>> /\ answer' = [answer EXCEPT ![r.of] = "part"]
      BY <3>1 DEF TypeOK
    <3>2. CASE \E m \in Message, a \in {"open", "ended"} :
                 /\ Deliver(s, r.id, m)
                 /\ answer' = [answer EXCEPT ![r.of] = a]
                 /\ sent' = [sent EXCEPT ![r.of] = @ + 1]
      <4>1. PICK m \in Message, a \in {"open", "ended"} :
                 /\ Deliver(s, r.id, m)
                 /\ answer' = [answer EXCEPT ![r.of] = a]
                 /\ sent' = [sent EXCEPT ![r.of] = @ + 1]
        BY <3>2
      <4>2. mail' \in [Task -> Seq(Message)]
        BY <4>1, DeliverType
      <4> HIDE DEF r
      <4>3. sent' \in [Task -> Nat]
        BY <2>2, <4>1 DEF TypeOK
      <4>4. answer' \in [Task -> {"none", "part", "open", "ended"}]
        BY <2>2, <4>1 DEF TypeOK
      <4> QED BY <4>2, <4>3, <4>4
    <3> QED BY <2>1, <3>1, <3>2, AnswerStep
  <2> HIDE DEF r
  <2> QED BY <2>2, <2>3 DEF TypeOK, tasks
<1>4. CASE ReadStops(s)
  BY <1>4 DEF ReadStops, TypeOK, tasks, server
<1>5. CASE CloseStreams(s)
  <2>1. Closed \in Message
    BY DEF Closed, Message
  <2>2. \A t \in Task : mail[t] \in Seq(Message) /\ Append(mail[t], Closed) \in Seq(Message)
    BY <2>1, AppendProperties DEF TypeOK
  <2>3. mail' \in [Task -> Seq(Message)]
    BY <1>5, <2>2 DEF CloseStreams
  <2>4. /\ DOMAIN streams' = Session
        /\ \A r \in Session : \A i \in DOMAIN streams'[r] :
             i \in ClientId /\ streams'[r][i] \in Task
    <3>1. DOMAIN streams' = Session /\ streams'[s] = NoStreams
          /\ \A r \in Session \ {s} : streams'[r] = streams[r]
      BY <1>5 DEF CloseStreams, TypeOK
    <3>2. DOMAIN NoStreams = {}
      BY DEF NoStreams
    <3> QED BY <3>1, <3>2 DEF TypeOK
  <2>5. reader' \in [Session -> {"none", "up", "leaving", "down"}]
    BY <1>5 DEF CloseStreams, TypeOK
  <2> QED BY <1>5, <2>3, <2>4, <2>5 DEF CloseStreams, TypeOK, tasks, server
<1> QED BY <1>1, <1>2, <1>3, <1>4, <1>5 DEF WriterStep

\* A session's tasks leave the map and the local variables of the requests.
LEMMA SessionLeaves ==
  ASSUME TypeOK, NEW s \in Session,
         WriterStep(s) \/ ReadFrame(s) \/ ReadStops(s) \/ CloseStreams(s)
  PROVE  UNCHANGED <<mapped, pc, sess, stream, got, nextId>>
<1>1. CASE ReadFrame(s)
  BY <1>1, AnswerStep DEF ReadFrame, tasks
<1> QED BY <1>1 DEF WriterStep, Write, WriteFails, ReadStops, CloseStreams, tasks

-----------------------------------------------------------------------------
(* Which session a task may use, and its stream                            *)

LEMMA SessionsStep ==
  ASSUME TypeOK, Sessions, NEW t \in Task, TaskStep(t)
  PROVE  Sessions'
<1> USE DEF Early
<1>1. \A u \in Task : u # t => pc'[u] = pc[u] /\ sess'[u] = sess[u]
  BY OthersStay
<1>2. \A u \in Task : Early(u) => /\ sess[u] = NoSession /\ mapped # u
                                  /\ \A v \in Task : sess[v] # u
  BY DEF Sessions
<1>3. \A u \in Task : ~Early(u) /\ pc[u] # "failed" => sess[u] # NoSession
  BY DEF Sessions
<1>4. \A u \in Task : pc[u] = "failed" /\ sess[u] # NoSession => mapped # sess[u]
  BY DEF Sessions, FailedIsForgotten
<1>5. CASE Lookup(t)
  <2>1. CASE mapped # NoSession
    <3>1. mapped' = mapped /\ sess'[t] = mapped /\ pc'[t] = "ready"
      BY <1>5, <2>1 DEF Lookup, TypeOK
    <3> QED BY <1>1, <1>2, <1>3, <1>4, <2>1, <3>1 DEF Sessions, FailedIsForgotten
  <2>2. CASE mapped = NoSession
    <3>1. mapped' = mapped /\ sess' = sess /\ pc'[t] = "connecting" /\ pc[t] = "start"
      BY <1>5, <2>2 DEF Lookup, TypeOK
    <3> QED BY <1>1, <1>2, <1>3, <1>4, <3>1 DEF Sessions, FailedIsForgotten
  <2> QED BY <2>1, <2>2
<1>6. CASE Connect(t) \/ ConnectFails(t)
  <2>1. mapped' = mapped /\ sess' = sess /\ pc[t] = "connecting"
        /\ pc'[t] \in {"publishing", "failed"}
    BY <1>6 DEF Connect, ConnectFails, TypeOK
  <2> QED BY <1>1, <1>2, <1>3, <1>4, <2>1 DEF Sessions, FailedIsForgotten
<1>7. CASE Publish(t)
  <2>1. /\ mapped' = IF mapped = NoSession THEN t ELSE mapped
        /\ sess'[t] = mapped' /\ pc'[t] = "ready" /\ pc[t] = "publishing"
    BY <1>7 DEF Publish, TypeOK
  <2>2. mapped' # NoSession
    BY <2>1, TaskAssumption
  <2> QED BY <1>1, <1>2, <1>3, <1>4, <2>1, <2>2 DEF Sessions, FailedIsForgotten
<1>8. CASE Evict(t)
  <2>1. mapped' = NoSession /\ sess' = sess /\ pc'[t] = "failed" /\ pc[t] = "erring"
    BY <1>8 DEF Evict, TypeOK
  <2>2. \A u \in Task : u # NoSession
    BY TaskAssumption
  <2> QED BY <1>1, <1>2, <1>3, <1>4, <2>1, <2>2 DEF Sessions, FailedIsForgotten
<1>9. ASSUME mapped' = mapped, sess' = sess, ~Early(t), pc[t] # "failed", ~Early(t)',
             pc'[t] # "failed"
      PROVE  Sessions'
  BY <1>1, <1>2, <1>3, <1>4, <1>9 DEF Sessions, FailedIsForgotten
<1>10. CASE PrewarmEnds(t) \/ Allocate(t) \/ Insert(t)
  BY <1>9, <1>10 DEF PrewarmEnds, Allocate, Insert, TypeOK
<1>11. CASE Send(t) \/ SendFails(t) \/ Finish(t)
  BY <1>9, <1>11 DEF Send, SendFails, Finish, TypeOK
<1>12. CASE Receive(t)
  BY <1>9, <1>12 DEF Receive, AfterMessage, TypeOK
<1> QED BY <1>5, <1>6, <1>7, <1>8, <1>10, <1>11, <1>12 DEF TaskStep

\* The names of a request's session and stream are given once.
LEMMA NamesStay ==
  ASSUME TypeOK, Sessions, Allocated, NEW t \in Task, TaskStep(t)
  PROVE  /\ \A u \in Task : stream[u] # 0 => stream'[u] = stream[u] /\ sess'[u] = sess[u]
         /\ \A s \in Session : nextId[s] \in Nat /\ nextId'[s] \in Nat /\ nextId'[s] >= nextId[s]
<1>1. \A u \in Task \ {t} : stream'[u] = stream[u] /\ sess'[u] = sess[u]
  BY OthersStay
<1>2. \A s \in Session : nextId[s] \in ClientId /\ nextId[s] \in Nat
  BY NextClientId DEF TypeOK
<1>3. stream[t] # 0 => stream'[t] = stream[t] /\ sess'[t] = sess[t]
  <2>1. stream[t] # 0 => pc[t] \notin {"start", "connecting", "publishing", "ready"}
    BY DEF Allocated, Early
  <2> QED BY <2>1 DEF TaskStep, Lookup, Connect, ConnectFails, Publish, PrewarmEnds, Allocate,
                     Insert, Send, SendFails, Receive, Finish, Evict
<1>4. \A s \in Session : nextId'[s] \in Nat /\ nextId'[s] >= nextId[s]
  <2>1. CASE Allocate(t)
    BY <1>2, <2>1 DEF Allocate, TypeOK
  <2>2. CASE nextId' = nextId
    BY <1>2, <2>2
  <2> QED BY <2>1, <2>2 DEF TaskStep, Lookup, Connect, ConnectFails, Publish, PrewarmEnds,
                           Insert, Send, SendFails, Receive, Finish, Evict, conns
<1> QED BY <1>1, <1>2, <1>3, <1>4

LEMMA AllocatedStep ==
  ASSUME TypeOK, Sessions, Allocated, NEW t \in Task, TaskStep(t)
  PROVE  Allocated'
<1> USE DEF Early
<1> DEFINE Past == {"allocated", "inserted", "waiting", "finishing", "erring"}
<1>1. \A u \in Task \ {t} : pc'[u] = pc[u] /\ sess'[u] = sess[u] /\ stream'[u] = stream[u]
  BY OthersStay
<1>2. \A s \in Session : nextId[s] \in Nat /\ nextId'[s] \in Nat /\ nextId'[s] >= nextId[s]
  BY NamesStay
<1>3. \A u \in Task : stream[u] # 0 =>
        /\ sess[u] \in Session /\ stream[u] \in ClientId /\ stream[u] \in Nat
        /\ stream[u] < nextId[sess[u]]
        /\ stream'[u] = stream[u] /\ sess'[u] = sess[u]
  BY StreamType, NamesStay
<1>4. CASE Allocate(t)
  <2>1. pc[t] = "ready" /\ pc'[t] = "allocated" /\ sess' = sess /\ stream[t] = 0
    BY <1>4 DEF Allocate, TypeOK, Allocated
  <2>2. sess[t] \in Session /\ sess[t] # NoSession
    BY <2>1, SessionType DEF Sessions
  <2>3. /\ stream'[t] = nextId[sess[t]] /\ nextId[sess[t]] \in ClientId
        /\ nextId'[sess[t]] = nextId[sess[t]] + 2
    BY <1>4, <2>2 DEF Allocate, TypeOK
  <2>4. nextId[sess[t]] \in Nat /\ nextId[sess[t]] # 0
    BY <2>3, NextClientId
  <2>5. \A u \in Task : stream'[u] # 0 =>
          sess'[u] # NoSession /\ stream'[u] \in ClientId /\ stream'[u] < nextId'[sess'[u]]
    <3> SUFFICES ASSUME NEW u \in Task, stream'[u] # 0
                 PROVE  /\ sess'[u] # NoSession /\ stream'[u] \in ClientId
                        /\ stream'[u] < nextId'[sess'[u]]
      OBVIOUS
    <3>1. CASE u = t
      BY <2>1, <2>2, <2>3, <2>4, <3>1
    <3>2. CASE u # t
      <4>1. stream[u] # 0 /\ stream'[u] = stream[u] /\ sess'[u] = sess[u]
        BY <1>1, <3>2
      <4>2. sess[u] # NoSession /\ stream[u] \in ClientId
        BY <4>1 DEF Allocated
      <4> QED BY <1>2, <1>3, <4>1, <4>2
    <3> QED BY <3>1, <3>2
  <2>6. \A u, v \in Task : u # v /\ stream'[u] # 0 /\ sess'[u] = sess'[v] => stream'[u] # stream'[v]
    <3> SUFFICES ASSUME NEW u \in Task, NEW v \in Task, u # v, stream'[u] # 0, sess[u] = sess[v]
                 PROVE  stream'[u] # stream'[v]
      BY <2>1
    <3>1. CASE u = t
      <4>1. stream'[v] = stream[v] /\ (stream[v] # 0 => stream[v] < nextId[sess[t]])
        BY <1>1, <1>3, <3>1
      <4> QED BY <1>3, <2>3, <2>4, <3>1, <4>1
    <3>2. CASE v = t
      <4>1. stream'[u] = stream[u] /\ stream[u] < nextId[sess[t]] /\ stream[u] \in Nat
        BY <1>1, <1>3, <3>2
      <4> QED BY <2>3, <2>4, <3>2, <4>1
    <3>3. CASE u # t /\ v # t
      BY <1>1, <3>3 DEF Allocated
    <3> QED BY <3>1, <3>2, <3>3
  <2>7. \A u \in Task : pc'[u] \in {"start", "connecting", "publishing", "ready"} => stream'[u] = 0
    BY <1>1, <2>1 DEF Allocated
  <2>8. \A u \in Task : pc'[u] \in Past => stream'[u] # 0
    BY <1>1, <2>1, <2>3, <2>4 DEF Allocated
  <2> QED BY <2>5, <2>6, <2>7, <2>8 DEF Allocated
<1>5. ASSUME stream' = stream,
             pc'[t] \in Past => pc[t] \in Past,
             pc'[t] \in {"start", "connecting", "publishing", "ready"} =>
               pc[t] \in {"start", "connecting", "publishing", "ready"}
      PROVE  Allocated'
  <2>1. \A u \in Task : pc'[u] \in {"start", "connecting", "publishing", "ready"} => stream'[u] = 0
    BY <1>1, <1>5 DEF Allocated
  <2>2. \A u \in Task : pc'[u] \in Past => stream'[u] # 0
    BY <1>1, <1>5 DEF Allocated
  <2>3. \A u \in Task : stream'[u] # 0 =>
          sess'[u] # NoSession /\ stream'[u] \in ClientId /\ stream'[u] < nextId'[sess'[u]]
    <3> SUFFICES ASSUME NEW u \in Task, stream[u] # 0
                 PROVE  /\ sess'[u] # NoSession /\ stream'[u] \in ClientId
                        /\ stream'[u] < nextId'[sess'[u]]
      BY <1>5
    <3>1. sess[u] # NoSession
      BY DEF Allocated
    <3> QED BY <1>2, <1>3, <3>1
  <2>4. \A u, v \in Task : u # v /\ stream'[u] # 0 /\ sess'[u] = sess'[v] => stream'[u] # stream'[v]
    <3> SUFFICES ASSUME NEW u \in Task, NEW v \in Task, u # v, stream[u] # 0, sess'[u] = sess'[v]
                 PROVE  stream[u] # stream[v]
      BY <1>5
    <3>1. stream[v] # 0 => sess[u] = sess[v]
      BY <1>3
    <3> QED BY <3>1 DEF Allocated
  <2> QED BY <2>1, <2>2, <2>3, <2>4 DEF Allocated
<1>6. CASE Lookup(t) \/ Connect(t) \/ ConnectFails(t) \/ Publish(t) \/ PrewarmEnds(t)
  BY <1>5, <1>6 DEF Lookup, Connect, ConnectFails, Publish, PrewarmEnds, TypeOK
<1>7. CASE Insert(t) \/ Send(t) \/ SendFails(t)
  BY <1>5, <1>7 DEF Insert, Send, SendFails, TypeOK
<1>8. CASE Receive(t) \/ Finish(t) \/ Evict(t)
  BY <1>5, <1>8 DEF Receive, Finish, Evict, AfterMessage, TypeOK
<1> QED BY <1>4, <1>6, <1>7, <1>8 DEF TaskStep

-----------------------------------------------------------------------------
(* Whose the streams are                                                   *)

\* A request that was sent stays one that was sent.
LEMMA AskedStays ==
  ASSUME TypeOK, Sessions, Allocated, NEW t \in Task, TaskStep(t),
         NEW s \in Session, NEW r \in Queued, Asked(s, r)
  PROVE  Asked(s, r)'
<1>1. r.of \in Task /\ r.id \in ClientId /\ r.id # 0
  BY NextClientId DEF Queued
<1>2. stream'[r.of] = r.id /\ sess'[r.of] = s
  BY <1>1, NamesStay DEF Asked
<1>3. pc'[r.of] \in {"waiting", "finishing", "erring", "ok", "failed"}
  <2>1. CASE r.of # t
    BY <1>1, <2>1, OthersStay DEF Asked
  <2>2. CASE r.of = t
    <3>1. pc[t] \in {"waiting", "finishing", "erring", "ok", "failed"}
      BY <2>2 DEF Asked
    <3>2. Receive(t) \/ Finish(t) \/ Evict(t)
      BY <3>1 DEF TaskStep, Lookup, Connect, ConnectFails, Publish, PrewarmEnds, Allocate,
                  Insert, Send, SendFails
    <3> QED BY <2>2, <3>2 DEF Receive, Finish, Evict, AfterMessage, TypeOK
  <2> QED BY <2>1, <2>2
<1> QED BY <1>2, <1>3 DEF Asked

LEMMA TableEntries ==
  ASSUME TypeOK, Allocated, Tables, NEW s \in Session, NEW i \in DOMAIN streams[s]
  PROVE  /\ streams[s][i] \in Task /\ i \in ClientId /\ i # 0
         /\ sess[streams[s][i]] = s /\ stream[streams[s][i]] = i
         /\ \A u \in Task : sess[u] = s /\ stream[u] = i => u = streams[s][i]
<1>1. /\ streams[s][i] \in Task /\ i \in ClientId /\ i # 0
      /\ sess[streams[s][i]] = s /\ stream[streams[s][i]] = i
  BY NextClientId DEF TypeOK, Tables
<1> QED BY <1>1 DEF Allocated

LEMMA TablesStep ==
  ASSUME TypeOK, Sessions, Allocated, Tables, NEW t \in Task, TaskStep(t)
  PROVE  Tables'
<1> SUFFICES ASSUME NEW s \in Session
             PROVE  /\ \A i \in DOMAIN streams'[s] :
                         sess'[streams'[s][i]] = s /\ stream'[streams'[s][i]] = i
                    /\ \A i \in DOMAIN outgoing'[s] :
                         \E r \in Queued : r = outgoing'[s][i] /\ Asked(s, r)'
                    /\ \A i \in DOMAIN received'[s] :
                         \E r \in Queued : r = received'[s][i] /\ Asked(s, r)'
  BY DEF Tables, Asked
<1> DEFINE Kept(q) == \A i \in DOMAIN q : \E r \in Queued : r = q[i] /\ Asked(s, r)'
<1>1. \A i \in DOMAIN streams[s] :
        sess'[streams[s][i]] = s /\ stream'[streams[s][i]] = i
  BY TableEntries, NamesStay
<1>2. /\ outgoing[s] \in Seq(Queued) /\ received[s] \in Seq(Queued)
      /\ \A i \in DOMAIN outgoing[s] : Asked(s, outgoing[s][i])
      /\ \A i \in DOMAIN received[s] : Asked(s, received[s][i])
  BY DEF TypeOK, Tables
<1>3. Kept(outgoing[s]) /\ Kept(received[s])
  <2>1. \A i \in DOMAIN outgoing[s] : outgoing[s][i] \in Queued
    BY <1>2, LenProperties
  <2>2. \A i \in DOMAIN received[s] : received[s][i] \in Queued
    BY <1>2, LenProperties
  <2>3. \A r \in Queued : Asked(s, r) => Asked(s, r)'
    BY AskedStays
  <2> QED BY <1>2, <2>1, <2>2, <2>3
<1>4. received' = received
  BY DEF TaskStep, Lookup, Connect, ConnectFails, Publish, PrewarmEnds, Allocate, Insert, Send,
         SendFails, Receive, Finish, Evict, server
<1>5. CASE Send(t)
  <2>1. pc[t] = "inserted" /\ pc'[t] = "waiting" /\ streams' = streams
    BY <1>5 DEF Send, TypeOK
  <2>2. sess[t] \in Session /\ UNCHANGED <<sess, stream>> /\ stream[t] \in ClientId
    BY <1>5, <2>1, SessionType, StreamType DEF Send, Early, Allocated
  <2>3. CASE s # sess[t]
    <3>1. outgoing'[s] = outgoing[s]
      BY <1>5, <2>2, <2>3 DEF Send, TypeOK
    <3> QED BY <1>1, <1>3, <1>4, <2>1, <3>1
  <2>4. CASE s = sess[t]
    <3> DEFINE r == [id |-> stream[t], of |-> t]
    <3>1. outgoing'[s] = Append(outgoing[s], r)
      BY <1>5, <2>2, <2>4 DEF Send, TypeOK
    <3>2. r.id = stream[t] /\ r.of = t /\ r \in Queued
      BY <2>2 DEF Queued
    <3> HIDE DEF r
    <3>3. \E x \in Queued : x = r /\ Asked(s, x)'
      BY <2>1, <2>2, <2>4, <3>2 DEF Asked
    <3>4. /\ DOMAIN outgoing'[s] = 1..(Len(outgoing[s]) + 1) /\ Len(outgoing[s]) \in Nat
          /\ outgoing'[s][Len(outgoing[s]) + 1] = r
          /\ \A i \in 1..Len(outgoing[s]) : outgoing'[s][i] = outgoing[s][i]
          /\ DOMAIN outgoing[s] = 1..Len(outgoing[s])
      BY <1>2, <3>1, <3>2, AppendProperties, LenProperties
    <3>5. \A i \in DOMAIN outgoing'[s] :
            \/ outgoing'[s][i] = r
            \/ i \in DOMAIN outgoing[s] /\ outgoing'[s][i] = outgoing[s][i]
      <4>1. \A i \in 1..(Len(outgoing[s]) + 1) : i = Len(outgoing[s]) + 1 \/ i \in 1..Len(outgoing[s])
        BY <3>4
      <4> QED BY <3>4, <4>1
    <3>6. Kept(outgoing'[s])
      BY <1>3, <3>3, <3>5
    <3> QED BY <1>1, <1>3, <1>4, <2>1, <3>6
  <2> QED BY <2>3, <2>4
<1>7. CASE Insert(t)
  <2>1. pc[t] = "allocated" /\ UNCHANGED <<sess, stream, outgoing>>
    BY <1>7 DEF Insert
  <2>2. sess[t] \in Session
    BY <2>1, SessionType DEF Early
  <2>3. \A i \in DOMAIN streams'[s] :
          \/ i \in DOMAIN streams[s] /\ streams'[s][i] = streams[s][i]
          \/ streams'[s][i] = t /\ stream[t] = i /\ sess[t] = s
    <3>1. CASE s = sess[t]
      <4>1. streams'[s] = [i \in DOMAIN streams[s] \cup {stream[t]} |->
                             IF i = stream[t] THEN t ELSE streams[s][i]]
        BY <1>7, <3>1 DEF Insert, TypeOK
      <4> QED BY <3>1, <4>1
    <3>2. CASE s # sess[t]
      <4>1. streams'[s] = streams[s]
        BY <1>7, <2>2, <3>2 DEF Insert, TypeOK
      <4> QED BY <4>1
    <3> QED BY <3>1, <3>2
  <2> QED BY <1>1, <1>3, <1>4, <2>1, <2>3
<1>8. CASE SendFails(t) \/ Finish(t)
  <2>1. outgoing' = outgoing
    BY <1>8 DEF SendFails, Finish
  <2>2. streams' = [streams EXCEPT ![sess[t]] = Without(streams[sess[t]], stream[t])]
    BY <1>8 DEF SendFails, Finish
  <2>3. streams'[s] = streams[s] \/ streams'[s] = Without(streams[s], stream[t])
    BY <2>2 DEF TypeOK
  <2>4. \A i \in DOMAIN streams'[s] : i \in DOMAIN streams[s] /\ streams'[s][i] = streams[s][i]
    BY <2>3 DEF Without
  <2> QED BY <1>1, <1>3, <1>4, <2>1, <2>4
<1>9. CASE UNCHANGED <<streams, outgoing>>
  BY <1>1, <1>3, <1>4, <1>9
<1> QED
  BY <1>5, <1>7, <1>8, <1>9 DEF TaskStep, Lookup, Connect, ConnectFails, Publish, PrewarmEnds,
    Allocate, Receive, Evict, conns

LEMMA SessionsTables ==
  ASSUME TypeOK, Sessions, Allocated, Tables, NEW s \in Session,
         WriterStep(s) \/ ReadFrame(s) \/ ReadStops(s) \/ CloseStreams(s)
  PROVE  Sessions' /\ Allocated' /\ Tables'
<1>1. UNCHANGED <<mapped, pc, sess, stream, got, nextId>>
  BY SessionLeaves
<1>2. Sessions' /\ Allocated'
  BY <1>1 DEF Sessions, FailedIsForgotten, Allocated, Early
<1>3. \A q, r : Asked(q, r)' <=> Asked(q, r)
  BY <1>1 DEF Asked
<1>4. SUFFICES ASSUME NEW q \in Session
               PROVE  /\ \A i \in DOMAIN streams'[q] :
                           sess[streams'[q][i]] = q /\ stream[streams'[q][i]] = i
                      /\ \A i \in DOMAIN outgoing'[q] : Asked(q, outgoing'[q][i])
                      /\ \A i \in DOMAIN received'[q] : Asked(q, received'[q][i])
  BY <1>1, <1>2 DEF Tables, Asked
<1>5. /\ \A i \in DOMAIN streams[q] : sess[streams[q][i]] = q /\ stream[streams[q][i]] = i
      /\ \A i \in DOMAIN outgoing[q] : Asked(q, outgoing[q][i])
      /\ \A i \in DOMAIN received[q] : Asked(q, received[q][i])
  BY DEF Tables
<1>6. CASE Write(s)
  <2>1. streams' = streams
    BY <1>6 DEF Write
  <2>2. CASE q = s
    <3>1. outgoing'[q] = <<>> /\ received'[q] = received[q] \o outgoing[q]
      BY <1>6, <2>2 DEF Write, TypeOK
    <3>2. received[q] \in Seq(Queued) /\ outgoing[q] \in Seq(Queued)
      BY DEF TypeOK
    <3> DEFINE f == received[q]
               g == outgoing[q]
    <3>3. /\ Len(f) \in Nat /\ Len(g) \in Nat
          /\ DOMAIN f = 1..Len(f) /\ DOMAIN g = 1..Len(g)
          /\ f \o g \in Seq(Queued) /\ Len(f \o g) = Len(f) + Len(g)
          /\ \A i \in 1..(Len(f) + Len(g)) :
               (f \o g)[i] = IF i <= Len(f) THEN f[i] ELSE g[i - Len(f)]
      BY <3>2, ConcatProperties, LenProperties
    <3>4. DOMAIN (f \o g) = 1..(Len(f) + Len(g))
      BY <3>3, LenProperties
    <3> HIDE DEF f, g
    <3>5. \A i \in DOMAIN (f \o g) : \/ i \in DOMAIN f /\ (f \o g)[i] = f[i]
                                     \/ \E j \in DOMAIN g : (f \o g)[i] = g[j]
      <4> SUFFICES ASSUME NEW i \in DOMAIN (f \o g)
                   PROVE  \/ i \in DOMAIN f /\ (f \o g)[i] = f[i]
                          \/ \E j \in DOMAIN g : (f \o g)[i] = g[j]
        OBVIOUS
      <4>1. CASE i <= Len(f)
        BY <3>3, <3>4, <4>1
      <4>2. CASE ~(i <= Len(f))
        <5>1. i - Len(f) \in DOMAIN g
          BY <3>3, <3>4, <4>2
        <5> QED BY <3>3, <3>4, <4>2, <5>1
      <4> QED BY <4>1, <4>2
    <3>6. \A i \in DOMAIN (f \o g) : Asked(q, (f \o g)[i])
      BY <1>5, <3>5 DEF f, g
    <3>7. DOMAIN outgoing'[q] = {}
      BY <3>1
    <3> QED BY <1>5, <2>1, <3>1, <3>6, <3>7 DEF f, g
  <2>3. CASE q # s
    <3>1. outgoing'[q] = outgoing[q] /\ received'[q] = received[q]
      BY <1>6, <2>3 DEF Write, TypeOK
    <3> QED BY <1>5, <2>1, <3>1
  <2> QED BY <2>2, <2>3
<1>7. CASE WriteFails(s)
  <2>1. outgoing'[q] \in {outgoing[q], <<>>} /\ UNCHANGED <<streams, received>>
    BY <1>7 DEF WriteFails, TypeOK, server
  <2>2. DOMAIN (<<>>) = {}
    OBVIOUS
  <2>3. \A i \in DOMAIN outgoing'[q] : outgoing'[q] = outgoing[q]
    BY <2>1, <2>2
  <2> QED BY <1>5, <2>1, <2>3
<1>8. CASE ReadFrame(s)
  <2>1. UNCHANGED <<streams, outgoing, received>>
    BY <1>8, AnswerStep DEF ReadFrame
  <2> QED BY <1>5, <2>1
<1>9. CASE ReadStops(s)
  <2>1. UNCHANGED <<streams, outgoing, received>>
    BY <1>9 DEF ReadStops, server
  <2> QED BY <1>5, <2>1
<1>10. CASE CloseStreams(s)
  <2>1. streams'[q] \in {streams[q], NoStreams} /\ UNCHANGED <<outgoing, received>>
    BY <1>10 DEF CloseStreams, TypeOK, server
  <2>2. DOMAIN NoStreams = {}
    BY DEF NoStreams
  <2>3. \A i \in DOMAIN streams'[q] : streams'[q] = streams[q]
    BY <2>1, <2>2
  <2> QED BY <1>5, <2>1, <2>3
<1> QED BY <1>6, <1>7, <1>8, <1>9, <1>10 DEF WriterStep

-----------------------------------------------------------------------------
(* What a task has of its answer                                           *)

LEMMA EntryStays ==
  ASSUME TypeOK, Sessions, Allocated, NEW t \in Task, TaskStep(t),
         NEW u \in Task, u # t, stream[u] # 0, HasEntry(u)
  PROVE  HasEntry(u)'
<1>1. stream'[u] = stream[u] /\ sess'[u] = sess[u] /\ sess[u] \in Session
  BY NamesStay, StreamType
<1>2. CASE streams' = streams
  BY <1>1, <1>2 DEF HasEntry
<1>3. CASE Insert(t) \/ SendFails(t) \/ Finish(t)
  <2>1. stream[t] # 0 /\ sess[t] \in Session
    BY <1>3, SessionType DEF Insert, SendFails, Finish, Allocated, Early
  <2>2. CASE sess[t] # sess[u]
    <3>1. streams'[sess[u]] = streams[sess[u]]
      BY <1>1, <1>3, <2>2 DEF Insert, SendFails, Finish, TypeOK
    <3> QED BY <1>1, <3>1 DEF HasEntry
  <2>3. CASE sess[t] = sess[u]
    <3>1. stream[t] # stream[u]
      BY <2>1, <2>3 DEF Allocated
    <3>2. \/ streams'[sess[u]] = [i \in DOMAIN streams[sess[u]] \cup {stream[t]} |->
                                    IF i = stream[t] THEN t ELSE streams[sess[u]][i]]
          \/ streams'[sess[u]] = Without(streams[sess[u]], stream[t])
      <4>1. CASE Insert(t)
        BY <1>1, <2>3, <4>1 DEF Insert, TypeOK
      <4>2. CASE SendFails(t) \/ Finish(t)
        BY <1>1, <2>3, <4>2 DEF SendFails, Finish, TypeOK
      <4> QED BY <1>3, <4>1, <4>2
    <3> QED BY <1>1, <3>1, <3>2 DEF HasEntry, Without
  <2> QED BY <2>2, <2>3
<1> QED
  BY <1>2, <1>3 DEF TaskStep, Lookup, Connect, ConnectFails, Publish, PrewarmEnds, Allocate,
                    Send, Receive, Evict, conns

LEMMA BoxesTask ==
  ASSUME TypeOK, Sessions, Allocated, Boxes, NEW t \in Task, TaskStep(t)
  PROVE  Boxes'
<1>1. UNCHANGED <<answer, sent>>
  BY DEF TaskStep, Lookup, Connect, ConnectFails, Publish, PrewarmEnds, Allocate, Insert, Send,
         SendFails, Receive, Finish, Evict, server
<1>2. ASSUME NEW u \in Task, u # t PROVE Box(u)'
  <2>1. /\ pc'[u] = pc[u] /\ sess'[u] = sess[u] /\ stream'[u] = stream[u]
        /\ got'[u] = got[u] /\ mail'[u] = mail[u]
    BY <1>2, OthersStay
  <2>2. Listening(u) => stream[u] # 0 /\ sess[u] \in Session
    BY StreamType DEF Listening, Allocated
  <2>3. Listening(u) /\ HasEntry(u) => HasEntry(u)'
    BY <1>2, <2>2, EntryStays
  <2>4. Listening(u) => reader'[sess[u]] = reader[sess[u]]
    <3>1. CASE Connect(t)
      <4>1. sess[u] # t
        BY <3>1 DEF Connect, Sessions, Early
      <4> QED BY <2>2, <3>1, <4>1 DEF Connect, TypeOK
    <3>2. CASE ~Connect(t)
      BY <3>2 DEF TaskStep, Lookup, ConnectFails, Publish, PrewarmEnds, Allocate, Insert, Send,
                  SendFails, Receive, Finish, Evict, conns
    <3> QED BY <3>1, <3>2
  <2> QED BY <1>1, <2>1, <2>3, <2>4 DEF Boxes, Box, Listening, Early
<1>3. Box(t)'
  <2>1. Box(t)
    BY DEF Boxes
  <2> USE <1>1, <2>1 DEF Early, Listening
  <2>2. CASE Lookup(t) \/ Connect(t) \/ Publish(t) \/ PrewarmEnds(t) \/ Allocate(t)
    <3>1. /\ pc[t] \in {"start", "connecting", "publishing", "ready"}
          /\ pc'[t] \in {"connecting", "publishing", "ready", "allocated", "warm"}
          /\ UNCHANGED <<mail, got>>
      BY <2>2 DEF Lookup, Connect, Publish, PrewarmEnds, Allocate, TypeOK
    <3> QED BY <3>1 DEF Box
  <2>3. CASE ConnectFails(t) \/ Evict(t) \/ SendFails(t)
    <3>1. pc'[t] \in {"failed", "erring"} /\ UNCHANGED <<mail, got>>
      BY <2>3 DEF ConnectFails, Evict, SendFails, TypeOK
    <3> QED BY <3>1 DEF Box
  <2>4. CASE Insert(t)
    <3>1. /\ pc[t] = "allocated" /\ pc'[t] = "inserted"
          /\ UNCHANGED <<mail, got, sess, stream>>
      BY <2>4 DEF Insert, TypeOK
    <3>2. sess[t] \in Session
      BY <3>1, SessionType
    <3>3. streams'[sess[t]] = [i \in DOMAIN streams[sess[t]] \cup {stream[t]} |->
                                 IF i = stream[t] THEN t ELSE streams[sess[t]][i]]
      BY <2>4, <3>2 DEF Insert, TypeOK
    <3>4. HasEntry(t)'
      BY <3>1, <3>3 DEF HasEntry
    <3>5. mail[t] = <<>> /\ got[t] = 0 /\ sent[t] = 0
      BY <3>1 DEF Box
    <3>6. Len(mail[t]) = 0
      BY <3>5
    <3>7. got'[t] + Len(mail'[t]) = sent'[t]
      BY <3>1, <3>5, <3>6
    <3>8. \A i \in 1..Len(mail'[t]) : FALSE
      BY <3>1, <3>6
    <3> QED BY <3>1, <3>4, <3>7, <3>8 DEF Box
  <2>5. CASE Send(t)
    <3>1. /\ pc[t] = "inserted" /\ pc'[t] = "waiting"
          /\ UNCHANGED <<mail, got, sess, stream, streams, reader>>
      BY <2>5 DEF Send, TypeOK
    <3> QED BY <3>1 DEF Box, HasEntry
  <2>6. CASE Finish(t)
    <3>1. /\ pc[t] = "finishing" /\ pc'[t] = "ok" /\ UNCHANGED <<mail, got>>
      BY <2>6 DEF Finish, TypeOK
    <3> QED BY <3>1 DEF Box
  <2>7. CASE Receive(t)
    <3> DEFINE b == mail[t]
               m == Head(b)
    <3>1. b \in Seq(Message) /\ b # <<>> /\ got[t] \in Nat /\ sent[t] \in Nat
      BY <2>7 DEF Receive, TypeOK
    <3>2. m \in Message /\ m = b[1] /\ Len(b) \in Nat \ {0}
          /\ Tail(b) \in Seq(Message) /\ Len(Tail(b)) = Len(b) - 1
          /\ \A i \in 1..(Len(b) - 1) : Tail(b)[i] = b[i + 1]
      BY <3>1, HeadTailProperties, LenProperties, EmptySeq
    <3>3. /\ pc[t] = "waiting" /\ pc'[t] = AfterMessage(m)
          /\ got'[t] = IF m.kind = "closed" THEN got[t] ELSE got[t] + 1
          /\ mail'[t] = IF pc'[t] = "waiting" THEN Tail(b) ELSE <<>>
          /\ UNCHANGED <<sess, stream, streams, reader>>
      BY <2>7 DEF Receive, TypeOK, conns
    <3>4. /\ \/ HasEntry(t) /\ got[t] + Len(b) = sent[t]
             \/ reader[sess[t]] = "down" /\ b[Len(b)].kind = "closed"
          /\ \A i \in 1..Len(b) :
               /\ b[i].of \in {t, NoSession}
               /\ b[i].end => answer[t] = "ended" /\ got[t] + i = sent[t]
      BY <3>3 DEF Box
    <3>5. HasEntry(t)' <=> HasEntry(t)
      BY <3>3 DEF HasEntry
    <3> HIDE DEF b, m
    <3>6. CASE m.kind \in {"reset", "closed"}
      <4>1. pc'[t] = "erring" /\ mail'[t] = <<>>
        BY <3>3, <3>6 DEF AfterMessage
      <4>2. Len(mail'[t]) = 0
        BY <4>1
      <4>3. \A i \in 1..Len(mail'[t]) : FALSE
        BY <4>2
      <4> QED BY <4>1, <4>3 DEF Box
    <3>7. CASE m.kind \notin {"reset", "closed"} /\ m.end
      <4>1. pc'[t] = "finishing" /\ mail'[t] = <<>> /\ got'[t] = got[t] + 1
        BY <3>3, <3>7 DEF AfterMessage
      <4>2. answer[t] = "ended" /\ got[t] + 1 = sent[t]
        BY <3>2, <3>4, <3>7
      <4>3. Len(mail'[t]) = 0
        BY <4>1
      <4>4. \A i \in 1..Len(mail'[t]) : FALSE
        BY <4>3
      <4> QED BY <4>1, <4>2, <4>4 DEF Box
    <3>8. CASE m.kind \notin {"reset", "closed"} /\ ~m.end
      <4>1. pc'[t] = "waiting" /\ mail'[t] = Tail(b) /\ got'[t] = got[t] + 1
        BY <3>3, <3>8 DEF AfterMessage
      <4> DEFINE c == mail'[t]
      <4>2. Len(c) = Len(b) - 1 /\ \A i \in 1..(Len(b) - 1) : c[i] = b[i + 1]
        BY <3>2, <4>1
      <4> HIDE DEF c
      <4>3. ASSUME NEW i \in 1..Len(c)
            PROVE  /\ c[i].of \in {t, NoSession}
                   /\ c[i].end => answer[t] = "ended" /\ got'[t] + i = sent[t]
        <5>1. i \in 1..(Len(b) - 1) /\ i + 1 \in 1..Len(b) /\ c[i] = b[i + 1]
          BY <3>2, <4>2
        <5>2. got[t] + (i + 1) = got'[t] + i
          <6> DEFINE g == got[t]
                     h == got'[t]
          <6>1. g \in Nat /\ h = g + 1
            BY <3>1, <4>1
          <6>2. i \in Nat
            BY <3>2, <5>1
          <6> HIDE DEF g, h
          <6>3. g + (i + 1) = h + i
            BY <6>1, <6>2
          <6> QED BY <6>3 DEF g, h
        <5> QED BY <3>4, <5>1, <5>2
      <4>4. CASE HasEntry(t) /\ got[t] + Len(b) = sent[t]
        <5>1. got'[t] + Len(c) = sent[t]
          BY <3>1, <3>2, <4>1, <4>2, <4>4
        <5> QED BY <3>5, <4>1, <4>3, <4>4, <5>1 DEF Box, c
      <4>5. CASE reader[sess[t]] = "down" /\ b[Len(b)].kind = "closed"
        <5>1. Len(b) # 1
          BY <3>2, <3>8, <4>5
        <5>2. Len(c) \in 1..(Len(b) - 1) /\ c[Len(c)] = b[Len(b)]
          BY <3>2, <4>2, <5>1
        <5>3. c # <<>>
          <6>1. c = <<>> => Len(c) = 0
            OBVIOUS
          <6> QED BY <5>2, <6>1
        <5> QED BY <3>3, <4>1, <4>3, <4>5, <5>2, <5>3 DEF Box, c
      <4> QED BY <3>4, <4>4, <4>5
    <3> QED BY <3>6, <3>7, <3>8
  <2> QED BY <2>2, <2>3, <2>4, <2>5, <2>6, <2>7 DEF TaskStep
<1> QED BY <1>2, <1>3 DEF Boxes

\* A frame reaches the task whose request it answers, if that listens, and no
\* other.
LEMMA ReadBoxes ==
  ASSUME TypeOK, Sessions, Allocated, Tables, Boxes, NEW s \in Session,
         NEW j \in DOMAIN received[s], Answer(s, received[s][j])
  PROVE  Boxes'
<1>0. PICK r \in Queued, v \in Task : r = received[s][j] /\ v = r.of
  <2>1. received[s] \in Seq(Queued)
    BY DEF TypeOK
  <2>2. received[s][j] \in Queued
    BY <2>1, LenProperties
  <2> QED BY <2>2 DEF Queued
<1>1. /\ v \in Task /\ r.id \in ClientId /\ reader[s] = "up"
      /\ UNCHANGED <<pc, sess, stream, got, streams, reader>>
  BY <1>0, AnswerStep DEF tasks
<1>2. sess[v] = s /\ stream[v] = r.id
      /\ pc[v] \in {"waiting", "finishing", "erring", "ok", "failed"}
  BY <1>0 DEF Tables, Asked
<1>3. mail[v] \in Seq(Message) /\ Len(mail[v]) \in Nat /\ got[v] \in Nat /\ sent[v] \in Nat
  BY <1>1, LenProperties DEF TypeOK
<1>4. \A u \in Task : HasEntry(u)' <=> HasEntry(u)
  BY <1>1 DEF HasEntry
<1>5. Box(v) /\ answer[v] # "ended" /\ answer \in [Task -> {"none", "part", "open", "ended"}]
      /\ sent \in [Task -> Nat]
  <2>1. answer[v] # "ended"
    BY <1>0, AnswerStep
  <2> QED BY <2>1 DEF Boxes, TypeOK
<1>6. CASE /\ UNCHANGED <<mail, sent>>
           /\ answer' = [answer EXCEPT ![v] = "part"]
  <2>1. \A u \in Task : answer[u] = "ended" => answer'[u] = "ended"
    BY <1>1, <1>5, <1>6
  <2> QED BY <1>1, <1>4, <1>6, <2>1 DEF Boxes, Box, Listening, Early
<1>7. CASE \E m \in Message, a \in {"open", "ended"} :
             /\ Deliver(s, r.id, m) /\ m.of = v
             /\ m.end => a = "ended"
             /\ answer' = [answer EXCEPT ![v] = a]
             /\ sent' = [sent EXCEPT ![v] = @ + 1]
  <2>1. PICK m \in Message, a \in {"open", "ended"} :
             /\ Deliver(s, r.id, m) /\ m.of = v
             /\ m.end => a = "ended"
             /\ answer' = [answer EXCEPT ![v] = a]
             /\ sent' = [sent EXCEPT ![v] = @ + 1]
    BY <1>7
  <2>2. r.id \in DOMAIN streams[s] => streams[s][r.id] = v
    BY <1>0, <1>1, <1>2, TableEntries
  <2>3. mail' = IF r.id \in DOMAIN streams[s] /\ Listening(v)
                THEN [mail EXCEPT ![v] = Append(@, m)] ELSE mail
    BY <2>1, <2>2 DEF Deliver
  <2>4. \A u \in Task \ {v} :
          mail'[u] = mail[u] /\ answer'[u] = answer[u] /\ sent'[u] = sent[u]
    BY <2>1, <2>3 DEF TypeOK
  <2>5. ASSUME NEW u \in Task \ {v} PROVE Box(u)'
    BY <1>1, <1>4, <2>4 DEF Boxes, Box, Listening, Early
  <2>6. sent'[v] = sent[v] + 1 /\ answer'[v] = a
    BY <1>1, <1>5, <2>1
  <2>7. \A i \in 1..Len(mail[v]) : mail[v][i].of \in {v, NoSession} /\ ~mail[v][i].end
    BY <1>5 DEF Box
  <2>8. Listening(v) => HasEntry(v) /\ got[v] + Len(mail[v]) = sent[v]
    BY <1>1, <1>2, <1>5 DEF Box
  <2>9. pc[v] \notin {"finishing", "ok"} /\ pc[v] \in {"waiting", "erring", "failed"}
    BY <1>2, <1>5 DEF Box
  <2>10. CASE Listening(v)
    <3>1. r.id \in DOMAIN streams[s]
      BY <1>2, <2>8, <2>10 DEF HasEntry
    <3>2. mail'[v] = Append(mail[v], m)
      BY <1>1, <2>3, <2>10, <3>1 DEF TypeOK
    <3> DEFINE b == mail[v]
               c == mail'[v]
    <3>3. /\ Len(c) = Len(b) + 1 /\ c[Len(b) + 1] = m
          /\ \A i \in 1..Len(b) : c[i] = b[i]
      BY <1>3, <3>2, AppendProperties
    <3> HIDE DEF b, c
    <3>4. \A i \in 1..Len(c) : /\ c[i].of \in {v, NoSession}
                               /\ c[i].end => a = "ended" /\ got[v] + i = sent'[v]
      <4> SUFFICES ASSUME NEW i \in 1..Len(c)
                   PROVE  /\ c[i].of \in {v, NoSession}
                          /\ c[i].end => a = "ended" /\ got[v] + i = sent'[v]
        OBVIOUS
      <4>1. Len(b) \in Nat /\ got[v] + Len(b) = sent[v]
        BY <1>3, <2>8, <2>10 DEF b
      <4>2. CASE i = Len(b) + 1
        <5>1. got[v] + i = sent'[v]
          BY <1>3, <2>6, <4>1, <4>2
        <5> QED BY <2>1, <3>3, <4>2, <5>1
      <4>3. CASE i # Len(b) + 1
        <5>1. i \in 1..Len(b)
          BY <3>3, <4>1, <4>3
        <5> QED BY <2>7, <3>3, <5>1 DEF b
      <4> QED BY <4>2, <4>3
    <3>5. got[v] + Len(c) = sent'[v]
      <4> DEFINE g == got[v]
                 n == Len(b)
                 k == Len(c)
                 x == sent'[v]
      <4>1. g \in Nat /\ n \in Nat /\ k = n + 1
        BY <1>3, <3>3 DEF b
      <4>2. x = (g + n) + 1
        BY <2>6, <2>8, <2>10 DEF b
      <4> HIDE DEF g, n, k, x
      <4>3. g + k = x
        BY <4>1, <4>2
      <4> QED BY <4>3 DEF g, k, x
    <3>6. Box(v)'
      BY <1>1, <1>4, <2>6, <2>8, <2>9, <2>10, <3>4, <3>5 DEF Box, Early, Listening, c
    <3> QED BY <2>5, <3>6 DEF Boxes
  <2>11. CASE ~Listening(v)
    <3>1. mail'[v] = mail[v]
      BY <2>3, <2>11
    <3>2. Box(v)'
      BY <1>1, <2>7, <2>9, <2>11, <3>1 DEF Box, Early, Listening
    <3> QED BY <2>5, <3>2 DEF Boxes
  <2> QED BY <2>10, <2>11
<1> QED BY <1>0, <1>6, <1>7, AnswerStep

LEMMA CloseBoxes ==
  ASSUME TypeOK, Allocated, Tables, Boxes, NEW s \in Session, CloseStreams(s)
  PROVE  Boxes'
<1> SUFFICES ASSUME NEW t \in Task PROVE Box(t)'
  BY DEF Boxes
<1>1. /\ UNCHANGED <<pc, sess, stream, got, answer, sent>>
      /\ reader[s] = "leaving" /\ reader'[s] = "down"
      /\ \A q \in Session \ {s} : reader'[q] = reader[q] /\ streams'[q] = streams[q]
  BY DEF CloseStreams, TypeOK, tasks, server
<1>2. Box(t) /\ mail[t] \in Seq(Message) /\ Len(mail[t]) \in Nat
  BY LenProperties DEF Boxes, TypeOK
<1>3. Listening(t) => sess[t] \in Session
  BY StreamType DEF Listening, Allocated
<1>4. CASE Listening(t) /\ \E i \in DOMAIN streams[s] : streams[s][i] = t
  <2> DEFINE b == mail[t]
             c == mail'[t]
  <2>1. c = Append(b, Closed)
    BY <1>4 DEF CloseStreams
  <2>2. Closed \in Message /\ Closed.of = NoSession /\ ~Closed.end /\ Closed.kind = "closed"
    BY DEF Closed, Message
  <2>3. /\ c \in Seq(Message) /\ Len(c) = Len(b) + 1 /\ c[Len(c)] = Closed
        /\ \A i \in 1..Len(b) : c[i] = b[i]
    BY <1>2, <2>1, <2>2, AppendProperties
  <2>4. sess[t] = s
    BY <1>4, TableEntries
  <2> HIDE DEF b, c
  <2>5. c # <<>>
    <3>1. c = <<>> => Len(c) = 0
      OBVIOUS
    <3> QED BY <1>2, <2>3, <3>1 DEF b
  <2>6. \A i \in 1..Len(c) : i = Len(c) \/ i \in 1..Len(b)
    BY <1>2, <2>3 DEF b
  <2>7. \A i \in 1..Len(c) : /\ c[i].of \in {t, NoSession}
                             /\ c[i].end => answer[t] = "ended" /\ got[t] + i = sent[t]
    BY <1>2, <2>2, <2>3, <2>6 DEF Box, b
  <2> QED BY <1>1, <1>4, <2>2, <2>3, <2>4, <2>5, <2>7 DEF Box, Listening, Early, c
<1>5. CASE ~(Listening(t) /\ \E i \in DOMAIN streams[s] : streams[s][i] = t)
  <2>1. mail'[t] = mail[t]
    BY <1>5 DEF CloseStreams
  <2>2. Listening(t) /\ HasEntry(t) => HasEntry(t)'
    BY <1>1, <1>3, <1>5 DEF HasEntry
  <2>3. Listening(t) => reader'[sess[t]] = reader[sess[t]] \/ reader'[sess[t]] = "down"
    BY <1>1, <1>3
  <2> QED BY <1>1, <1>2, <2>1, <2>2, <2>3 DEF Box, Listening, Early
<1> QED BY <1>4, <1>5

LEMMA BoxesSession ==
  ASSUME TypeOK, Sessions, Allocated, Tables, Boxes, NEW s \in Session,
         WriterStep(s) \/ ReadFrame(s) \/ ReadStops(s) \/ CloseStreams(s)
  PROVE  Boxes'
<1>1. CASE WriterStep(s)
  <2>1. UNCHANGED <<pc, sess, stream, got, mail, streams, reader, answer, sent>>
    BY <1>1 DEF WriterStep, Write, WriteFails, tasks, server
  <2> QED BY <2>1 DEF Boxes, Box, HasEntry, Listening, Early
<1>2. CASE ReadFrame(s)
  BY <1>2, ReadBoxes DEF ReadFrame
<1>3. CASE ReadStops(s)
  <2>1. UNCHANGED <<pc, sess, stream, got, mail, streams, answer, sent>>
    BY <1>3 DEF ReadStops, tasks, server
  <2>2. \A q \in Session : reader[q] = "down" => reader'[q] = "down"
    BY <1>3 DEF ReadStops, TypeOK
  <2>3. \A t \in Task : Listening(t) => sess[t] \in Session
    BY StreamType DEF Listening, Allocated
  <2> QED BY <2>1, <2>2, <2>3 DEF Boxes, Box, HasEntry, Listening, Early
<1>4. CASE CloseStreams(s)
  BY <1>4, CloseBoxes
<1> QED BY <1>1, <1>2, <1>3, <1>4

-----------------------------------------------------------------------------
(* The theorems                                                            *)

LEMMA NextKeeps ==
  ASSUME IInv, [Next]_vars
  PROVE  IInv'
<1>1. TypeOK /\ Sessions /\ Allocated /\ Tables /\ Boxes
  BY DEF IInv
<1>2. ASSUME NEW t \in Task, TaskStep(t) PROVE IInv'
  BY <1>1, <1>2, TaskTypes, SessionsStep, AllocatedStep, TablesStep, BoxesTask DEF IInv
<1>3. ASSUME NEW s \in Session,
             WriterStep(s) \/ ReadFrame(s) \/ ReadStops(s) \/ CloseStreams(s)
      PROVE  IInv'
  BY <1>1, <1>3, SessionTypes, SessionsTables, BoxesSession DEF IInv
<1>4. CASE UNCHANGED vars
  BY <1>1, <1>4 DEF IInv, vars, tasks, conns, server, TypeOK, Sessions, FailedIsForgotten,
     Allocated, Tables, Asked, Boxes, Box, HasEntry, Listening, Early
<1> QED BY <1>2, <1>3, <1>4 DEF Next

\* Whatever the requests and however their frames interleave, every state keeps
\* the invariant: sessions (h2_session), stream ids and the table (request),
\* what the reader has handed to each stream (read_h2).
THEOREM H2Invariant == Spec => []IInv
<1> QED BY InitHolds, NextKeeps, PTL DEF Spec

\* The state of the client and its sessions stays in its types: ids of streams
\* are odd, and only ids of tasks' streams are in a table.
THEOREM H2TypeOK == Spec => []TypeOK
<1>1. IInv => TypeOK
  BY DEF IInv
<1> QED BY <1>1, H2Invariant, PTL

\* No request is handed a frame of another's response: a stream id is given to
\* one request of a session (fetch_add in request), and the table leads the
\* reader to nobody else.
THEOREM H2OwnResponse == Spec => []OwnResponse
<1>1. IInv => OwnResponse
  <2> SUFFICES ASSUME IInv, NEW t \in Task, NEW i \in DOMAIN mail[t]
               PROVE  mail[t][i].of \in {t, NoSession}
    BY DEF OwnResponse
  <2>1. mail[t] \in Seq(Message)
    BY DEF IInv, TypeOK
  <2>2. i \in 1..Len(mail[t])
    BY <2>1, LenProperties
  <2> QED BY <2>2 DEF IInv, Boxes, Box
<1> QED BY <1>1, H2Invariant, PTL

\* A response that request returns has every frame that the server sent for it,
\* up to the one that ended the stream.
THEOREM H2CompleteOrError == Spec => []CompleteOrError
<1>1. IInv => CompleteOrError
  BY DEF IInv, Boxes, Box, CompleteOrError
<1> QED BY <1>1, H2Invariant, PTL

\* A request that waits with an empty channel is in the table of its session:
\* close_streams has told all that were in it when it was emptied.
THEOREM H2Reachable == Spec => []Reachable
<1>1. IInv => Reachable
  BY DEF IInv, Boxes, Box, Listening, HasEntry, Reachable
<1> QED BY <1>1, H2Invariant, PTL

\* execute_https removes the session that failed a request, and or_insert never
\* brings it back: a session is offered to the map once, by who connected it.
THEOREM H2FailedIsForgotten == Spec => []FailedIsForgotten
<1>1. IInv => FailedIsForgotten
  BY DEF IInv, Sessions
<1> QED BY <1>1, H2Invariant, PTL
=============================================================================
