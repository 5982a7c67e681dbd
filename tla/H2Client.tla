------------------------------ MODULE H2Client ------------------------------
(***************************************************************************)
(* The HTTP/2 client of src/src/runtime/http for one https origin: the     *)
(* map from the origin to its session (client.rs), the sessions with their *)
(* table of streams (h2/session.rs), the task that writes queued frames    *)
(* (h2/write.rs) and the task that reads frames and hands them to streams  *)
(* (h2/read.rs). Requests run concurrently; each lock region and each step *)
(* between two awaits is an action. No step has a timeout.                 *)
(*                                                                         *)
(* The server is external: it answers requests it has received with        *)
(* well-formed frames, in any interleaving, or the connection ends, of     *)
(* itself or by a frame that makes the reader leave its loop. What         *)
(* it sends is observed only when it is read, so sending and reading one   *)
(* frame is one step. SETTINGS and PING are answered without effect here;  *)
(* flow control is left out.                                               *)
(***************************************************************************)
EXTENDS Integers, Sequences, FiniteSets

CONSTANTS
  Task,       \* tasks in execute_https or in prewarm for this origin
  MaxData     \* DATA frames a response has at most

\* A task connects at most once, so its session can have its name.
Session == Task

NoSession == "no session"

ASSUME TaskAssumption ==
  /\ NoSession \notin Task
  /\ MaxData \in Nat

VARIABLES
  mapped,      \* ClientInner::h2 at this origin: a session or NoSession
  pc,          \* Task -> where it is
  sess,        \* Task -> the session it uses
  stream,      \* Task -> its stream id, 0 before it has one
  mail,        \* Task -> StreamMessages sent to its receiver, not yet taken
  got,         \* Task -> response frames it has taken
  nextId,      \* Session -> next_stream_id
  streams,     \* Session -> (stream id -> task): the table of streams
  outgoing,    \* Session -> requests queued for the writer task
  writer,      \* Session -> "none", "up" or "down": the writer task
  reader,      \* Session -> "none", "up", "leaving" or "down"
  pendingHeaders, \* Session -> streams with a header block not complete
  \* the server
  received,    \* Session -> requests it has received: records [id, of]
  answer,      \* Task -> "none", "part", "open" or "ended": what was sent
  sent         \* Task -> messages sent in answer to its request

tasks == <<pc, sess, stream, got>>
conns == <<nextId, streams, outgoing, writer, reader, pendingHeaders>>
server == <<received, answer, sent>>
vars == <<mapped, tasks, mail, conns, server>>

Place == {"start", "connecting", "publishing", "ready", "allocated",
          "inserted", "waiting", "finishing", "erring", "ok", "warm",
          "failed"}

-----------------------------------------------------------------------------
(* h2_session                                                              *)

\* The map is looked up under its lock; the connect that follows a miss is not.
Lookup(t) ==
  /\ pc[t] = "start"
  /\ IF mapped # NoSession
     THEN /\ sess' = [sess EXCEPT ![t] = mapped]
          /\ pc' = [pc EXCEPT ![t] = "ready"]
     ELSE /\ pc' = [pc EXCEPT ![t] = "connecting"]
          /\ UNCHANGED sess
  /\ UNCHANGED <<mapped, stream, got, mail, conns, server>>

\* connect_h2 succeeds: a session with its reader and writer tasks.
Connect(t) ==
  /\ pc[t] = "connecting"
  /\ pc' = [pc EXCEPT ![t] = "publishing"]
  /\ writer' = [writer EXCEPT ![t] = "up"]
  /\ reader' = [reader EXCEPT ![t] = "up"]
  /\ UNCHANGED <<mapped, sess, stream, got, mail, nextId, streams, outgoing,
                 pendingHeaders, server>>

ConnectFails(t) ==
  /\ pc[t] = "connecting"
  /\ pc' = [pc EXCEPT ![t] = "failed"]
  /\ UNCHANGED <<mapped, sess, stream, got, mail, conns, server>>

\* entry().or_insert(): the session that is in the map first is the one used.
Publish(t) ==
  /\ pc[t] = "publishing"
  /\ mapped' = IF mapped = NoSession THEN t ELSE mapped
  /\ sess' = [sess EXCEPT ![t] = mapped']
  /\ pc' = [pc EXCEPT ![t] = "ready"]
  /\ UNCHANGED <<stream, got, mail, conns, server>>

\* A prewarm wants the session only.
PrewarmEnds(t) ==
  /\ pc[t] = "ready"
  /\ pc' = [pc EXCEPT ![t] = "warm"]
  /\ UNCHANGED <<mapped, sess, stream, got, mail, conns, server>>

-----------------------------------------------------------------------------
(* H2Session::request                                                      *)

\* Mutant: the counter is read and written, not fetched and added to.
Allocate_NotAdded(t) ==
  /\ pc[t] = "ready"
  /\ stream' = [stream EXCEPT ![t] = nextId[sess[t]]]
  /\ pc' = [pc EXCEPT ![t] = "allocated"]
  /\ UNCHANGED <<mapped, sess, got, mail, conns, server>>

Allocate(t) ==
  /\ pc[t] = "ready"
  /\ stream' = [stream EXCEPT ![t] = nextId[sess[t]]]
  /\ nextId' = [nextId EXCEPT ![sess[t]] = @ + 2]
  /\ pc' = [pc EXCEPT ![t] = "allocated"]
  /\ UNCHANGED <<mapped, sess, got, mail, streams, outgoing, writer, reader,
                 pendingHeaders, server>>

\* The stream gets its entry when the lock of the table is free.
Insert(t) ==
  /\ pc[t] = "allocated"
  /\ streams' = [streams EXCEPT ![sess[t]] =
       [i \in DOMAIN @ \cup {stream[t]} |-> IF i = stream[t] THEN t ELSE @[i]]]
  /\ pc' = [pc EXCEPT ![t] = "inserted"]
  /\ UNCHANGED <<mapped, sess, stream, got, mail, nextId, outgoing, writer,
                 reader, pendingHeaders, server>>

Send(t) ==
  /\ pc[t] = "inserted"
  /\ writer[sess[t]] = "up"
  /\ outgoing' = [outgoing EXCEPT ![sess[t]] = Append(@, [id |-> stream[t], of |-> t])]
  /\ pc' = [pc EXCEPT ![t] = "waiting"]
  /\ UNCHANGED <<mapped, sess, stream, got, mail, nextId, streams, writer,
                 reader, pendingHeaders, server>>

NoStreams == [i \in {} |-> NoSession]

Without(table, id) == [i \in DOMAIN table \ {id} |-> table[i]]

\* Mutant: a send that fails is not noticed.
SendFails_Ignored(t) ==
  /\ pc[t] = "inserted"
  /\ writer[sess[t]] = "down"
  /\ streams' = [streams EXCEPT ![sess[t]] = Without(@, stream[t])]
  /\ pc' = [pc EXCEPT ![t] = "waiting"]
  /\ UNCHANGED <<mapped, sess, stream, got, mail, nextId, outgoing, writer,
                 reader, pendingHeaders, server>>

\* The writer task is gone: the entry is removed and the request fails.
SendFails(t) ==
  /\ pc[t] = "inserted"
  /\ writer[sess[t]] = "down"
  /\ streams' = [streams EXCEPT ![sess[t]] = Without(@, stream[t])]
  /\ pc' = [pc EXCEPT ![t] = "erring"]
  /\ UNCHANGED <<mapped, sess, stream, got, mail, nextId, outgoing, writer,
                 reader, pendingHeaders, server>>

\* Mutant: the receive loop takes a closed connection for the end of a body.
AfterMessage_CloseIsEnd(m) ==
  IF m.kind = "reset" THEN "erring"
  ELSE IF m.end \/ m.kind = "closed" THEN "finishing" ELSE "waiting"

\* Where the loop over rx.recv() goes after a message.
AfterMessage(m) ==
  IF m.kind \in {"reset", "closed"} THEN "erring"
  ELSE IF m.end THEN "finishing" ELSE "waiting"

\* A reset or a closed connection returns at once: the entry, if it is still
\* in the table, stays there. Leaving the loop drops the receiver.
Receive(t) ==
  /\ pc[t] = "waiting"
  /\ mail[t] # <<>>
  /\ pc' = [pc EXCEPT ![t] = AfterMessage(Head(mail[t]))]
  /\ got' = [got EXCEPT ![t] = IF Head(mail[t]).kind = "closed" THEN @ ELSE @ + 1]
  /\ mail' = [mail EXCEPT ![t] = IF pc'[t] = "waiting" THEN Tail(@) ELSE <<>>]
  /\ UNCHANGED <<mapped, sess, stream, conns, server>>

Finish(t) ==
  /\ pc[t] = "finishing"
  /\ streams' = [streams EXCEPT ![sess[t]] = Without(@, stream[t])]
  /\ pc' = [pc EXCEPT ![t] = "ok"]
  /\ UNCHANGED <<mapped, sess, stream, got, mail, nextId, outgoing, writer,
                 reader, pendingHeaders, server>>

\* Mutant: the session of a failed request stays in the map.
Evict_Keeps(t) ==
  /\ pc[t] = "erring"
  /\ pc' = [pc EXCEPT ![t] = "failed"]
  /\ UNCHANGED <<mapped, sess, stream, got, mail, conns, server>>

\* execute_https removes whatever session the origin has by now.
Evict(t) ==
  /\ pc[t] = "erring"
  /\ mapped' = NoSession
  /\ pc' = [pc EXCEPT ![t] = "failed"]
  /\ UNCHANGED <<sess, stream, got, mail, conns, server>>

-----------------------------------------------------------------------------
(* write_h2                                                                *)

\* All that is queued is written and flushed in one go.
Write(s) ==
  /\ writer[s] = "up"
  /\ outgoing[s] # <<>>
  /\ received' = [received EXCEPT ![s] = @ \o outgoing[s]]
  /\ outgoing' = [outgoing EXCEPT ![s] = <<>>]
  /\ UNCHANGED <<mapped, tasks, mail, nextId, streams, writer, reader,
                 pendingHeaders, answer, sent>>

\* The write fails: the task ends and drops what was queued.
WriteFails(s) ==
  /\ writer[s] = "up"
  /\ outgoing[s] # <<>>
  /\ outgoing' = [outgoing EXCEPT ![s] = <<>>]
  /\ writer' = [writer EXCEPT ![s] = "down"]
  /\ UNCHANGED <<mapped, tasks, mail, nextId, streams, reader, pendingHeaders,
                 server>>

-----------------------------------------------------------------------------
(* read_h2                                                                 *)

\* A receiver exists until its task has left request().
Listening(t) == pc[t] \in {"inserted", "waiting"}

\* What the loop does with a message for stream id: the table is looked up
\* under its lock, and a stream without entry or receiver drops the message.
Deliver(s, id, m) ==
  mail' = IF id \in DOMAIN streams[s] /\ Listening(streams[s][id])
          THEN [mail EXCEPT ![streams[s][id]] = Append(@, m)]
          ELSE mail

\* The next frame read on s is for the request r. Between the parts of a
\* header block no other frame comes.
Reading(s, r) ==
  /\ reader[s] = "up"
  /\ r \in {received[s][i] : i \in DOMAIN received[s]}
  /\ pendingHeaders[s] \in {0, r.id}
  /\ (pendingHeaders[s] = r.id) = (answer[r.of] = "part")

\* A HEADERS frame, or the CONTINUATION that completes it. The response may
\* end with it; END_STREAM is a flag of the HEADERS frame.
ReadHeaders(s, r) ==
  /\ Reading(s, r)
  /\ answer[r.of] \in {"none", "part"}
  /\ \E end \in BOOLEAN :
       /\ Deliver(s, r.id, [kind |-> "headers", end |-> end, of |-> r.of])
       /\ answer' = [answer EXCEPT ![r.of] = IF end THEN "ended" ELSE "open"]
  /\ sent' = [sent EXCEPT ![r.of] = @ + 1]
  /\ pendingHeaders' = [pendingHeaders EXCEPT ![s] = 0]
  /\ UNCHANGED <<mapped, tasks, nextId, streams, outgoing, writer, reader, received>>

\* A HEADERS frame without END_HEADERS.
ReadHeadersPart(s, r) ==
  /\ Reading(s, r)
  /\ answer[r.of] = "none"
  /\ answer' = [answer EXCEPT ![r.of] = "part"]
  /\ pendingHeaders' = [pendingHeaders EXCEPT ![s] = r.id]
  /\ UNCHANGED <<mapped, tasks, mail, nextId, streams, outgoing, writer, reader,
                 received, sent>>

ReadData(s, r) ==
  /\ Reading(s, r)
  /\ answer[r.of] = "open"
  /\ \E end \in BOOLEAN :
       /\ sent[r.of] <= MaxData /\ (sent[r.of] = MaxData => end)
       /\ Deliver(s, r.id, [kind |-> "data", end |-> end, of |-> r.of])
       /\ answer' = [answer EXCEPT ![r.of] = IF end THEN "ended" ELSE "open"]
  /\ sent' = [sent EXCEPT ![r.of] = @ + 1]
  /\ UNCHANGED <<mapped, tasks, conns, received>>

ReadReset(s, r) ==
  /\ Reading(s, r)
  /\ answer[r.of] \in {"none", "open"}
  /\ Deliver(s, r.id, [kind |-> "reset", end |-> FALSE, of |-> r.of])
  /\ answer' = [answer EXCEPT ![r.of] = "ended"]
  /\ sent' = [sent EXCEPT ![r.of] = @ + 1]
  /\ UNCHANGED <<mapped, tasks, conns, received>>

\* GOAWAY, the end of the connection, a frame that cannot be read or decoded,
\* or one that interrupts a header block: the loop is left. A RST_STREAM of less
\* than four bytes is not well-formed and does not occur: the code takes its
\* payload apart without a look at its length and would panic.
ReadStops(s) ==
  /\ reader[s] = "up"
  /\ reader' = [reader EXCEPT ![s] = "leaving"]
  /\ UNCHANGED <<mapped, tasks, mail, nextId, streams, outgoing, writer,
                 pendingHeaders, server>>

Closed == [kind |-> "closed", end |-> FALSE, of |-> NoSession]

\* Mutant: the table is emptied and nobody told.
CloseStreams_Silent(s) ==
  /\ reader[s] = "leaving"
  /\ reader' = [reader EXCEPT ![s] = "down"]
  /\ streams' = [streams EXCEPT ![s] = NoStreams]
  /\ UNCHANGED <<mapped, tasks, mail, nextId, outgoing, writer, pendingHeaders,
                 server>>

\* The table is taken and every stream in it told that the connection closed.
\* The session stays in the client's map, and its writer task goes on.
CloseStreams(s) ==
  /\ reader[s] = "leaving"
  /\ reader' = [reader EXCEPT ![s] = "down"]
  /\ mail' = [t \in Task |->
       IF Listening(t) /\ \E i \in DOMAIN streams[s] : streams[s][i] = t
       THEN Append(mail[t], Closed) ELSE mail[t]]
  /\ streams' = [streams EXCEPT ![s] = NoStreams]
  /\ UNCHANGED <<mapped, tasks, nextId, outgoing, writer, pendingHeaders, server>>

-----------------------------------------------------------------------------
Init ==
  /\ mapped = NoSession
  /\ pc = [t \in Task |-> "start"]
  /\ sess = [t \in Task |-> NoSession]
  /\ stream = [t \in Task |-> 0]
  /\ mail = [t \in Task |-> <<>>]
  /\ got = [t \in Task |-> 0]
  /\ nextId = [s \in Session |-> 1]
  /\ streams = [s \in Session |-> NoStreams]
  /\ outgoing = [s \in Session |-> <<>>]
  /\ writer = [s \in Session |-> "none"]
  /\ reader = [s \in Session |-> "none"]
  /\ pendingHeaders = [s \in Session |-> 0]
  /\ received = [s \in Session |-> <<>>]
  /\ answer = [t \in Task |-> "none"]
  /\ sent = [t \in Task |-> 0]

TaskStep(t) ==
  \/ Lookup(t) \/ Connect(t) \/ ConnectFails(t) \/ Publish(t) \/ PrewarmEnds(t)
  \/ Allocate(t) \/ Insert(t) \/ Send(t) \/ SendFails(t)
  \/ Receive(t) \/ Finish(t) \/ Evict(t)

WriterStep(s) == Write(s) \/ WriteFails(s)

Answer(s, r) ==
  ReadHeaders(s, r) \/ ReadHeadersPart(s, r) \/ ReadData(s, r) \/ ReadReset(s, r)

ReadFrame(s) == \E i \in DOMAIN received[s] : Answer(s, received[s][i])

Next ==
  \/ \E t \in Task : TaskStep(t)
  \/ \E s \in Session : WriterStep(s) \/ ReadFrame(s) \/ ReadStops(s) \/ CloseStreams(s)

\* Tasks run. The server goes on answering what it has received, until the
\* connection ends; a connection on which a write failed ends for the reader.
Fairness ==
  /\ \A t \in Task : WF_vars(TaskStep(t))
  /\ \A s \in Session :
       /\ WF_vars(WriterStep(s))
       /\ WF_vars(CloseStreams(s))
       /\ WF_vars(ReadFrame(s))
       /\ WF_vars(writer[s] = "down" /\ ReadStops(s))

Spec == Init /\ [][Next]_vars /\ Fairness

-----------------------------------------------------------------------------
(* Properties                                                              *)

Message == [kind : {"headers", "data", "reset", "closed"}, end : BOOLEAN,
            of : Task \cup {NoSession}]

\* Streams that a client opens have odd ids.
ClientId == {n \in Nat : n % 2 = 1}

Queued == [id : ClientId, of : Task]

TypeOK ==
  /\ mapped \in Session \cup {NoSession}
  /\ pc \in [Task -> Place]
  /\ sess \in [Task -> Session \cup {NoSession}]
  /\ stream \in [Task -> Nat] /\ got \in [Task -> Nat] /\ sent \in [Task -> Nat]
  /\ mail \in [Task -> Seq(Message)]
  /\ nextId \in [Session -> ClientId] /\ pendingHeaders \in [Session -> Nat]
  /\ DOMAIN streams = Session
  /\ \A s \in Session : \A i \in DOMAIN streams[s] :
       i \in ClientId /\ streams[s][i] \in Task
  /\ outgoing \in [Session -> Seq(Queued)] /\ received \in [Session -> Seq(Queued)]
  /\ writer \in [Session -> {"none", "up", "down"}]
  /\ reader \in [Session -> {"none", "up", "leaving", "down"}]
  /\ answer \in [Task -> {"none", "part", "open", "ended"}]

\* A request is only ever handed frames that answer it, whatever other
\* requests share its connection and however their frames interleave.
OwnResponse ==
  \A t \in Task : \A i \in DOMAIN mail[t] : mail[t][i].of \in {t, NoSession}

\* A response that is returned as complete is complete: the server ended the
\* stream and every frame it sent was taken. A connection that ends half way
\* through a body never yields a shorter body.
CompleteOrError ==
  \A t \in Task : pc[t] = "ok" => answer[t] = "ended" /\ got[t] = sent[t]

\* A request that waits with nothing to read can still be reached: its own
\* entry is in the table of its session, whether it came before, during or
\* after the moment the reader emptied the table.
Reachable ==
  \A t \in Task : pc[t] = "waiting" /\ mail[t] = <<>> =>
    stream[t] \in DOMAIN streams[sess[t]] /\ streams[sess[t]][stream[t]] = t

\* A session that failed a request is out of the map when that request has
\* returned, and never comes back into it.
FailedIsForgotten ==
  \A t \in Task : pc[t] = "failed" /\ sess[t] # NoSession => mapped # sess[t]

\* The request has an entry in the table of a session whose reader is gone.
\* Nothing in the code ends it: the session stayed in the map.
Stranded(t) ==
  /\ pc[t] = "waiting" /\ mail[t] = <<>>
  /\ reader[sess[t]] = "down" /\ stream[t] \in DOMAIN streams[sess[t]]

\* Every request ends, if the server answers what it receives or closes the
\* connection, unless it started on a session that its reader had left.
EveryRequestEnds ==
  \A t \in Task : pc[t] # "start" ~> pc[t] \in {"ok", "warm", "failed"} \/ Stranded(t)

\* Said by http/mod.rs:3-4: requests are multiplexed "over one TLS connection
\* per origin".
OneConnection ==
  \A s, r \in Session : reader[s] = "up" /\ reader[r] = "up" => s = r
=============================================================================
