-------------------------------- MODULE Http1 --------------------------------
(***************************************************************************)
(* The HTTP/1.1 client of src/src/runtime/http for one http origin: the    *)
(* pool of idle connections and the framing of responses (http1.rs), and   *)
(* how a connection is opened with the address cache (origin.rs). Requests *)
(* run concurrently; each lock region and each step between two awaits is  *)
(* an action. No step has a timeout.                                       *)
(*                                                                         *)
(* The bytes of a response are a sequence of tokens: its head, pieces of   *)
(* its body, and the last chunk of a chunked body. The server is external: *)
(* it answers the requests of a connection in their order, possibly with   *)
(* an interim (1xx) response first, and may go away at any point. What it  *)
(* sends shows only when it is read, so an answer is on the wire at once   *)
(* and cut short when the connection ends.                                 *)
(***************************************************************************)
EXTENDS Integers, FiniteSets, SequencesExt

CONSTANTS
  Task,     \* tasks in Pool::execute for this origin
  Old,      \* connections that earlier requests have left in the pool
  Addr,     \* addresses of the host
  Lookups,  \* what lookup_host may return: sequences of addresses
  Answers,  \* what the server may answer: records [shape, n, close, interim]
  MaxIdle   \* POOL_MAX_IDLE_PER_ORIGIN

\* A task opens at most one connection, which can have its name.
Conn == Task \cup Old

NoConn == "no connection"
NoAddr == "no address"

Shape == {"length", "chunked", "empty", "until_close", "bad"}

ASSUME Http1Assumption ==
  /\ Task \cap Old = {}
  /\ NoConn \notin Conn
  /\ NoAddr \notin Addr
  /\ Lookups \subseteq Seq(Addr)
  /\ Answers \subseteq [shape : Shape, n : Nat, close : BOOLEAN, interim : BOOLEAN]
  /\ \A r \in Answers : r.shape = "empty" => r.n = 0
  /\ MaxIdle \in Nat \ {0}
  /\ IsFiniteSet(Old) /\ Cardinality(Old) <= MaxIdle

VARIABLES
  idle,      \* the bucket of the pool: connections, the last returned at the end
  dns,       \* the address cache at this host and port, or NoAddr
  pc,        \* Task -> where it is
  conn,      \* Task -> the connection it uses
  trying,    \* Task -> [from, left]: addresses it has not tried yet
  buf,       \* Task -> what it has read of the response
  link       \* Conn -> [state, asked, wire, interim]: the server's side

vars == <<idle, dns, pc, conn, trying, buf, link>>

Place == {"checkout", "cached", "dial", "forget", "lookup", "note", "write",
          "read", "return", "ok", "failed"}

\* Not opened; open; ended by the server; broken; ended by the client.
LinkState == {"none", "up", "closed", "reset", "dropped"}

-----------------------------------------------------------------------------
(* Tokens                                                                  *)

HeadOf(u, r) ==
  [kind |-> "head", of |-> u, shape |-> r.shape, n |-> r.n, close |-> r.close]
Piece(u) ==
  [kind |-> "data", of |-> u, shape |-> "empty", n |-> 0, close |-> FALSE]
LastChunk(u) ==
  [kind |-> "end", of |-> u, shape |-> "empty", n |-> 0, close |-> FALSE]
InterimHead(u) ==
  [kind |-> "head", of |-> u, shape |-> "empty", n |-> 0, close |-> FALSE]

\* The answer r to the request of u, as it goes over the connection.
Tokens(u, r) ==
  (IF r.interim THEN <<InterimHead(u)>> ELSE <<>>)
    \o <<HeadOf(u, r)>> \o [i \in 1..r.n |-> Piece(u)]
    \o (IF r.shape = "chunked" THEN <<LastChunk(u)>> ELSE <<>>)

Token == [kind : {"head", "data", "end"}, of : Task, shape : Shape, n : Nat,
          close : BOOLEAN]

-----------------------------------------------------------------------------
(* read_response                                                           *)

\* What was read begins with something that parse_head refuses.
BadHead(b) == b # <<>> /\ (b[1].kind # "head" \/ b[1].shape = "bad")

\* Mutant: the last piece of a chunked body ends it, without its last chunk.
Framed_NoLastChunk(b) ==
  /\ b # <<>> /\ ~BadHead(b)
  /\ \/ b[1].shape = "empty"
     \/ b[1].shape = "length" /\ Len(b) > b[1].n
     \/ b[1].shape = "chunked" /\ Len(b) > b[1].n

\* Mutant: a response without body is read until the connection ends.
Framed_NotEmpty(b) ==
  /\ b # <<>> /\ ~BadHead(b)
  /\ \/ b[1].shape = "length" /\ Len(b) > b[1].n
     \/ b[1].shape = "chunked" /\ \E i \in 2..Len(b) : b[i].kind = "end"

\* The head tells how the body ends, and that has been read. A 1xx head is
\* taken for a response without body.
Framed(b) ==
  /\ b # <<>> /\ ~BadHead(b)
  /\ \/ b[1].shape = "empty"
     \/ b[1].shape = "length" /\ Len(b) > b[1].n
     \/ b[1].shape = "chunked" /\ \E i \in 2..Len(b) : b[i].kind = "end"

\* The body of the Response: what follows the head in the buffer, or what the
\* chunks hold.
Body(b) ==
  IF b[1].shape = "chunked"
  THEN SubSeq(b, 2, (CHOOSE i \in 2..Len(b) :
                       b[i].kind = "end" /\ \A j \in 2..(i - 1) : b[j].kind # "end") - 1)
  ELSE Tail(b)

\* Whether exchange gives the connection back.
Keep(b) == b[1].shape # "until_close" /\ ~b[1].close

-----------------------------------------------------------------------------
(* Pool::execute                                                           *)

\* The client closes the connections of C.
Drop(C) == link' = [c \in Conn |->
  IF c \in C THEN [state |-> "dropped", asked |-> <<>>, wire |-> <<>>,
                   interim |-> link[c].interim]
             ELSE link[c]]

\* Mutant: the connection stays in the pool while it is used.
Checkout_Stays(t) ==
  /\ pc[t] = "checkout"
  /\ idle # <<>>
  /\ conn' = [conn EXCEPT ![t] = Last(idle)]
  /\ pc' = [pc EXCEPT ![t] = "write"]
  /\ UNCHANGED <<idle, dns, trying, buf, link>>

\* The connection returned last, not expired.
Checkout(t) ==
  /\ pc[t] = "checkout"
  /\ idle # <<>>
  /\ conn' = [conn EXCEPT ![t] = Last(idle)]
  /\ idle' = Front(idle)
  /\ pc' = [pc EXCEPT ![t] = "write"]
  /\ UNCHANGED <<dns, trying, buf, link>>

\* No connection, or the last returned has expired, and so have those under it.
CheckoutNone(t) ==
  /\ pc[t] = "checkout"
  /\ idle' = <<>>
  /\ Drop(ToSet(idle))
  /\ pc' = [pc EXCEPT ![t] = "cached"]
  /\ UNCHANGED <<dns, conn, trying, buf>>

\* An exchange has failed: on a pooled connection the loop goes on, on its own
\* connection the request has failed. The connection is closed.
ExchangeFails(t) ==
  /\ Drop({conn[t]})
  /\ IF conn[t] = t
     THEN pc' = [pc EXCEPT ![t] = "failed"] /\ UNCHANGED conn
     ELSE pc' = [pc EXCEPT ![t] = "checkout"] /\ conn' = [conn EXCEPT ![t] = NoConn]
  /\ buf' = [buf EXCEPT ![t] = <<>>]
  /\ UNCHANGED <<idle, dns, trying>>

ReturnIdle(t) ==
  /\ pc[t] = "return"
  /\ IF Len(idle) >= MaxIdle
     THEN Drop({conn[t]}) /\ UNCHANGED idle
     ELSE idle' = Append(idle, conn[t]) /\ UNCHANGED link
  /\ pc' = [pc EXCEPT ![t] = "ok"]
  /\ UNCHANGED <<dns, conn, trying, buf>>

-----------------------------------------------------------------------------
(* connect_tcp                                                             *)

\* cached_addr: an entry that has expired is removed.
CachedAddr(t) ==
  /\ pc[t] = "cached"
  /\ \/ /\ dns # NoAddr
        /\ trying' = [trying EXCEPT ![t] = [from |-> "cache", left |-> <<dns>>]]
        /\ pc' = [pc EXCEPT ![t] = "dial"]
        /\ UNCHANGED dns
     \/ /\ dns' = NoAddr
        /\ pc' = [pc EXCEPT ![t] = "lookup"]
        /\ UNCHANGED trying
  /\ UNCHANGED <<idle, conn, buf, link>>

LookupHost(t) ==
  /\ pc[t] = "lookup"
  /\ \E addrs \in Lookups \cup {<<>>} :
       /\ trying' = [trying EXCEPT ![t] = [from |-> "lookup", left |-> addrs]]
       /\ pc' = [pc EXCEPT ![t] = IF addrs = <<>> THEN "failed" ELSE "dial"]
  /\ UNCHANGED <<idle, dns, conn, buf, link>>

Dial(t) ==
  /\ pc[t] = "dial"
  /\ conn' = [conn EXCEPT ![t] = t]
  /\ link' = [link EXCEPT ![t].state = "up"]
  /\ pc' = [pc EXCEPT ![t] = IF trying[t].from = "cache" THEN "write" ELSE "note"]
  /\ UNCHANGED <<idle, dns, trying, buf>>

\* Mutant: the first address that refuses is final.
DialFails_First(t) ==
  /\ pc[t] = "dial"
  /\ trying' = [trying EXCEPT ![t].left = Tail(@)]
  /\ pc' = [pc EXCEPT ![t] = IF trying[t].from = "cache" THEN "forget" ELSE "failed"]
  /\ UNCHANGED <<idle, dns, conn, buf, link>>

\* A cached address leads to a lookup; of the looked up ones the next is tried.
DialFails(t) ==
  /\ pc[t] = "dial"
  /\ trying' = [trying EXCEPT ![t].left = Tail(@)]
  /\ pc' = [pc EXCEPT ![t] =
       IF trying[t].from = "cache" THEN "forget"
       ELSE IF Len(trying[t].left) > 1 THEN "dial" ELSE "failed"]
  /\ UNCHANGED <<idle, dns, conn, buf, link>>

\* The cache loses its entry, also one that another task has just renewed.
Forget(t) ==
  /\ pc[t] = "forget"
  /\ dns' = NoAddr
  /\ pc' = [pc EXCEPT ![t] = "lookup"]
  /\ UNCHANGED <<idle, conn, trying, buf, link>>

Note(t) ==
  /\ pc[t] = "note"
  /\ dns' = Head(trying[t].left)
  /\ pc' = [pc EXCEPT ![t] = "write"]
  /\ UNCHANGED <<idle, conn, trying, buf, link>>

-----------------------------------------------------------------------------
(* exchange                                                                *)

\* The request is written; a server that has gone away does not get it.
Write(t) ==
  /\ pc[t] = "write"
  /\ link' = [link EXCEPT ![conn[t]].asked = IF link[conn[t]].state = "up"
                                             THEN Append(@, t) ELSE @]
  /\ pc' = [pc EXCEPT ![t] = "read"]
  /\ UNCHANGED <<idle, dns, conn, trying, buf>>

WriteFails(t) ==
  /\ pc[t] = "write"
  /\ link[conn[t]].state # "up"
  /\ ExchangeFails(t)

\* One read(): a nonempty part of what is there.
Read(t) ==
  /\ pc[t] = "read"
  /\ ~Framed(buf[t]) /\ ~BadHead(buf[t])
  /\ \E k \in 1..Len(link[conn[t]].wire) :
       /\ buf' = [buf EXCEPT ![t] = @ \o SubSeq(link[conn[t]].wire, 1, k)]
       /\ link' = [link EXCEPT ![conn[t]].wire = SubSeq(@, k + 1, Len(@))]
  /\ UNCHANGED <<idle, dns, pc, conn, trying>>

\* Mutant: the end of the connection ends any body that has begun.
EndsBody_Any(b) == b # <<>>

\* The end of the connection is the end of the body.
EndsBody(b) == b # <<>> /\ b[1].shape = "until_close"

\* read() returns 0.
ReadEnd(t) ==
  /\ pc[t] = "read"
  /\ ~Framed(buf[t]) /\ ~BadHead(buf[t])
  /\ link[conn[t]].state = "closed" /\ link[conn[t]].wire = <<>>
  /\ IF EndsBody(buf[t])
     THEN /\ Drop({conn[t]})
          /\ pc' = [pc EXCEPT ![t] = "ok"]
          /\ UNCHANGED <<idle, dns, conn, trying, buf>>
     ELSE ExchangeFails(t)

\* read() fails, or the head cannot be parsed or is longer than HEAD_LIMIT.
ReadFails(t) ==
  /\ pc[t] = "read"
  /\ ~Framed(buf[t])
  /\ link[conn[t]].state = "reset" \/ BadHead(buf[t])
  /\ ExchangeFails(t)

\* The response is complete, and the connection kept or closed.
Respond(t) ==
  /\ pc[t] = "read"
  /\ Framed(buf[t])
  /\ IF Keep(buf[t])
     THEN pc' = [pc EXCEPT ![t] = "return"] /\ UNCHANGED link
     ELSE pc' = [pc EXCEPT ![t] = "ok"] /\ Drop({conn[t]})
  /\ UNCHANGED <<idle, dns, conn, trying, buf>>

-----------------------------------------------------------------------------
(* The server                                                              *)

\* After an answer that ends with the connection, or announces its end, the
\* server closes it.
Answer(c) ==
  /\ link[c].state = "up"
  /\ link[c].asked # <<>>
  /\ \E r \in Answers :
       link' = [link EXCEPT ![c] =
         [state |-> IF r.shape \in {"until_close", "bad"} \/ r.close THEN "closed" ELSE "up",
          asked |-> Tail(@.asked),
          wire |-> @.wire \o Tokens(Head(@.asked), r),
          interim |-> @.interim \/ r.interim]]
  /\ UNCHANGED <<idle, dns, pc, conn, trying, buf>>

\* The connection ends before some of what the server had to say.
Cut(c) ==
  /\ link[c].state = "up" \/ (link[c].state = "closed" /\ link[c].wire # <<>>)
  /\ \E k \in 0..Len(link[c].wire), s \in {"closed", "reset"} :
       link' = [link EXCEPT ![c] =
         [state |-> s, asked |-> <<>>, interim |-> @.interim,
          wire |-> IF s = "reset" THEN <<>> ELSE SubSeq(@.wire, 1, k)]]
  /\ UNCHANGED <<idle, dns, pc, conn, trying, buf>>

-----------------------------------------------------------------------------
Init ==
  /\ idle = SetToSeq(Old)
  /\ dns = NoAddr
  /\ pc = [t \in Task |-> "checkout"]
  /\ conn = [t \in Task |-> NoConn]
  /\ trying = [t \in Task |-> [from |-> "nowhere", left |-> <<>>]]
  /\ buf = [t \in Task |-> <<>>]
  /\ link = [c \in Conn |-> [state |-> IF c \in Old THEN "up" ELSE "none", asked |-> <<>>, wire |-> <<>>,
                             interim |-> FALSE]]

\* A task's next step.
Step(t) ==
  \/ Checkout(t) \/ CheckoutNone(t) \/ ReturnIdle(t)
  \/ CachedAddr(t) \/ LookupHost(t) \/ Dial(t) \/ DialFails(t)
  \/ Forget(t) \/ Note(t)
  \/ Write(t) \/ WriteFails(t) \/ Read(t) \/ ReadEnd(t) \/ ReadFails(t)
  \/ Respond(t)

Next ==
  \/ \E t \in Task : Step(t)
  \/ \E c \in Conn : Answer(c) \/ Cut(c)

\* The runtime runs every task that can go on; the server answers what it has
\* been asked or ends the connection.
Spec ==
  /\ Init /\ [][Next]_vars
  /\ \A t \in Task : WF_vars(Step(t))
  /\ \A c \in Conn : WF_vars(Answer(c))

-----------------------------------------------------------------------------
(* Properties                                                              *)

TypeOK ==
  /\ idle \in BoundedSeq(Conn, MaxIdle)
  /\ dns \in Addr \cup {NoAddr}
  /\ pc \in [Task -> Place]
  /\ conn \in [Task -> Conn \cup {NoConn}]
  /\ trying \in [Task -> [from : {"nowhere", "cache", "lookup"}, left : Seq(Addr)]]
  /\ buf \in [Task -> Seq(Token)]
  /\ link \in [Conn -> [state : LinkState, asked : Seq(Task), wire : Seq(Token),
                        interim : BOOLEAN]]

Answered(t) == pc[t] \in {"return", "ok"}

\* A request gets the answer to itself, whole, and nothing of another one's:
\* whatever the connections it shared with others and where the reads fell.
\* Interim answers are the exception: execute takes one for the response and
\* leaves the real one to the next user of the connection.
OwnResponse ==
  \A t \in Task : Answered(t) /\ ~link[conn[t]].interim =>
    /\ buf[t] # <<>> /\ buf[t][1].kind = "head" /\ buf[t][1].of = t
    /\ \A i \in DOMAIN Body(buf[t]) : Body(buf[t])[i] = Piece(t)

\* A response is as long as the server made it, or the request fails: only a
\* body that ends with the connection can be cut short unnoticed.
CompleteOrError ==
  \A t \in Task :
    Answered(t) /\ ~link[conn[t]].interim /\ buf[t][1].shape # "until_close"
      => Len(Body(buf[t])) = buf[t][1].n

\* A connection in the pool is in it once and used by nobody, is at the start
\* of a response, and the server has not announced to close it; the bucket of an
\* origin holds no more than it may.
IdleIsReusable ==
  /\ IsInjective(idle) /\ Len(idle) <= MaxIdle
  /\ \A c \in ToSet(idle) :
       /\ \A t \in Task : conn[t] = c => pc[t] = "ok"
       /\ link[c].state # "dropped"
       /\ ~link[c].interim =>
            /\ link[c].wire = <<>> /\ link[c].asked = <<>>
            /\ \A t \in Task : conn[t] = c => ~buf[t][1].close

\* A connection that had been idle never fails a request, nor does an address
\* from the cache: it fails when its own new connection did, or when all of
\* the addresses it looked up have refused it.
OnlyFreshFails ==
  \A t \in Task : pc[t] = "failed" =>
    \/ conn[t] = t
    \/ conn[t] = NoConn /\ trying[t] = [from |-> "lookup", left |-> <<>>]

\* Every request returns, whatever became of the connections it was given.
EveryRequestEnds == \A t \in Task : <>(pc[t] \in {"ok", "failed"})

=============================================================================
