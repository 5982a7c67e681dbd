----------------------------- MODULE Http1Proofs -----------------------------
(***************************************************************************)
(* Proofs about the HTTP/1.1 client, for any tasks, addresses, answers of  *)
(* the server and size of the pool. The inductive invariant says who has   *)
(* which connection (Owned), what a task has read (Buffers), where it      *)
(* looks for addresses (Dialled), and what is under way on a connection    *)
(* that no interim response has put out of step (InStep).                  *)
(***************************************************************************)
EXTENDS Http1, FiniteSetTheorems, SequenceTheorems, TLAPS

Seeking(t) == pc[t] \in {"checkout", "cached", "dial", "forget", "lookup"}

Using(t) == pc[t] \in {"note", "write", "read", "return"}

\* A task that looks for a connection has none, and has not opened its own, nor
\* has one that uses a connection from the pool; a connection in use is used by
\* one task, and not in the pool; the pool holds open connections, each once.
Owned ==
  /\ IsInjective(idle)
  /\ \A c \in Conn : link[c].state = "none" => link[c].wire = <<>> /\ link[c].asked = <<>>
  /\ \A t \in Task : Seeking(t) => conn[t] = NoConn
  /\ \A t \in Task : Seeking(t) \/ (Using(t) /\ conn[t] # t) => link[t].state = "none"
  /\ \A t \in Task : conn[t] # NoConn => link[conn[t]].state # "none"
  /\ \A t \in Task : pc[t] = "ok" => conn[t] # NoConn
  /\ \A t \in Task : Using(t) =>
       /\ conn[t] # NoConn /\ link[conn[t]].state # "dropped"
       /\ conn[t] \notin ToSet(idle)
       /\ \A u \in Task \ {t} : conn[u] = conn[t] => pc[u] = "ok"
  /\ \A c \in ToSet(idle) :
       /\ link[c].state \notin {"none", "dropped"}
       /\ \A t \in Task : conn[t] = c => pc[t] = "ok"

\* Nothing is read before the request is written. A response is returned when
\* its head has been read, and its connection is kept only when that allows it.
BufferOf(t) ==
  /\ pc[t] \notin {"read", "return", "ok"} => buf[t] = <<>>
  /\ pc[t] \in {"return", "ok"} => buf[t] # <<>>
  /\ pc[t] = "return" => Keep(buf[t])
  /\ pc[t] = "ok" => link[conn[t]].state = "dropped" \/ Keep(buf[t])

Buffers == \A t \in Task : BufferOf(t)

\* A dial has an address to try. A task that has failed has closed the
\* connection it opened, or tried all that its lookup gave.
DialledBy(t) ==
  /\ pc[t] \in {"dial", "note"} =>
       trying[t].from \in {"cache", "lookup"} /\ trying[t].left # <<>>
  /\ pc[t] = "failed" =>
       conn[t] = t \/ (conn[t] = NoConn /\ trying[t] = [from |-> "lookup", left |-> <<>>])

Dialled == \A t \in Task : DialledBy(t)

\* The i-th token of the answer r to t, and how many there are.
TokenAt(t, r, i) ==
  IF i = 1 THEN HeadOf(t, r) ELSE IF i <= r.n + 1 THEN Piece(t) ELSE LastChunk(t)

Total(r) == IF r.shape = "chunked" THEN r.n + 2 ELSE r.n + 1

\* Nothing is on the connection.
Clear(c) == link[c].wire = <<>> /\ link[c].asked = <<>>

\* t has written its request, which has no answer yet.
Unanswered(t) ==
  /\ buf[t] = <<>> /\ link[conn[t]].wire = <<>>
  /\ link[conn[t]].asked \in {<<>>, <<t>>}

\* What t has read and what is still on the connection are a part of the
\* answer r, and all of it while the connection is up.
Answering(t, r) ==
  LET b == buf[t]
      c == link[conn[t]]
  IN  /\ c.asked = <<>>
      /\ Len(b) + Len(c.wire) <= Total(r)
      /\ \A i \in 1..Len(b) : b[i] = TokenAt(t, r, i)
      /\ \A i \in 1..Len(c.wire) : c.wire[i] = TokenAt(t, r, Len(b) + i)
      /\ c.state = "up" =>
           /\ Len(b) + Len(c.wire) = Total(r)
           /\ r.shape \notin {"until_close", "bad"} /\ ~r.close

\* t has the answer r, whole unless only the connection's end could tell.
Holds(t, r) ==
  /\ buf[t] # <<>>
  /\ Len(buf[t]) <= Total(r)
  /\ r.shape # "until_close" => Len(buf[t]) = Total(r)
  /\ \A i \in 1..Len(buf[t]) : buf[t][i] = TokenAt(t, r, i)
  /\ r.shape # "bad"

\* What is under way on the connection that t uses.
Pending(t) == Using(t) /\ ~link[conn[t]].interim =>
  /\ pc[t] # "read" => Clear(conn[t])
  /\ pc[t] = "read" => Unanswered(t) \/ \E r \in Answers : Answering(t, r)

Held(t) == Answered(t) /\ ~link[conn[t]].interim => \E r \in Answers : Holds(t, r)

InStep ==
  /\ \A c \in ToSet(idle) : ~link[c].interim => Clear(c)
  /\ \A t \in Task : Pending(t) /\ Held(t)

IInv == TypeOK /\ Owned /\ Buffers /\ Dialled /\ InStep

-----------------------------------------------------------------------------
(* The pool as a sequence                                                  *)

\* A sequence of at most n elements.
LEMMA BoundedSeqDef ==
  ASSUME NEW S, NEW n \in Nat, NEW s
  PROVE  s \in BoundedSeq(S, n) <=> s \in Seq(S) /\ Len(s) <= n
<1>1. ASSUME s \in BoundedSeq(S, n) PROVE s \in Seq(S) /\ Len(s) <= n
  <2>1. PICK m \in 0..n : s \in [1..m -> S]
    BY <1>1 DEF BoundedSeq, SeqOf
  <2>2. s \in Seq(S)
    BY <2>1, SeqDef
  <2> QED BY <2>1, <2>2, LenProperties
<1>2. ASSUME s \in Seq(S), Len(s) <= n PROVE s \in BoundedSeq(S, n)
  <2>1. Len(s) \in 0..n /\ s \in [1..Len(s) -> S]
    BY <1>2, LenProperties
  <2> QED BY <2>1 DEF BoundedSeq, SeqOf
<1> QED BY <1>1, <1>2

\* What taking the last connection from the pool leaves.
LEMMA TakeLast ==
  ASSUME NEW S, NEW s \in Seq(S), s # <<>>, IsInjective(s)
  PROVE  /\ Last(s) \in S /\ Last(s) \in ToSet(s)
         /\ Front(s) \in Seq(S) /\ Len(Front(s)) = Len(s) - 1
         /\ IsInjective(Front(s))
         /\ ToSet(Front(s)) = ToSet(s) \ {Last(s)}
<1>1. /\ Len(s) \in Nat \ {0} /\ DOMAIN s = 1..Len(s)
      /\ \A i \in 1..Len(s) : s[i] \in S
  BY LenProperties, EmptySeq
<1>2. /\ Front(s) \in Seq(S) /\ Len(Front(s)) = Len(s) - 1
      /\ DOMAIN Front(s) = 1..(Len(s) - 1)
      /\ \A i \in 1..(Len(s) - 1) : Front(s)[i] = s[i]
  BY <1>1, SubSeqProperties DEF Front
<1>3. Last(s) = s[Len(s)] /\ Len(s) \in DOMAIN s
  BY <1>1 DEF Last
<1>4. \A i, j \in 1..Len(s) : s[i] = s[j] => i = j
  BY <1>1 DEF IsInjective
<1>5. IsInjective(Front(s))
  BY <1>1, <1>2, <1>4 DEF IsInjective
<1>6. ToSet(Front(s)) = ToSet(s) \ {Last(s)}
  BY <1>1, <1>2, <1>3, <1>4 DEF ToSet
<1> QED BY <1>1, <1>2, <1>3, <1>5, <1>6 DEF ToSet

\* What returning a connection to the pool adds.
LEMMA PutLast ==
  ASSUME NEW S, NEW s \in Seq(S), NEW e \in S, e \notin ToSet(s), IsInjective(s)
  PROVE  /\ Append(s, e) \in Seq(S) /\ Len(Append(s, e)) = Len(s) + 1
         /\ IsInjective(Append(s, e))
         /\ ToSet(Append(s, e)) = ToSet(s) \cup {e}
<1>1. /\ Len(s) \in Nat /\ DOMAIN s = 1..Len(s)
      /\ \A i \in 1..Len(s) : s[i] \in S
  BY LenProperties
<1>2. /\ Append(s, e) \in Seq(S) /\ Len(Append(s, e)) = Len(s) + 1
      /\ DOMAIN Append(s, e) = 1..(Len(s) + 1)
      /\ \A i \in 1..Len(s) : Append(s, e)[i] = s[i]
      /\ Append(s, e)[Len(s) + 1] = e
  BY <1>1, AppendProperties, LenProperties
<1>3. /\ \A i, j \in 1..Len(s) : s[i] = s[j] => i = j
      /\ \A i \in 1..Len(s) : s[i] # e
  BY <1>1 DEF IsInjective, ToSet
<1>4. IsInjective(Append(s, e))
  BY <1>1, <1>2, <1>3 DEF IsInjective
<1>5. ToSet(Append(s, e)) = ToSet(s) \cup {e}
  BY <1>1, <1>2 DEF ToSet
<1> QED BY <1>2, <1>4, <1>5

LEMMA EmptyPool ==
  IsInjective(<<>>) /\ ToSet(<<>>) = {}
BY DEF IsInjective, ToSet

\* The connections of Old, each once.
LEMMA OldPool ==
  /\ SetToSeq(Old) \in Seq(Conn) /\ Len(SetToSeq(Old)) <= MaxIdle
  /\ IsInjective(SetToSeq(Old)) /\ ToSet(SetToSeq(Old)) \subseteq Old
<1> DEFINE n == Cardinality(Old)
<1>1. n \in Nat /\ n <= MaxIdle
  BY Http1Assumption, FS_CardinalityType
<1>2. \E f \in [1..n -> Old] : IsInjective(f)
  <2>1. PICK f : f \in Bijection(1..n, Old)
    BY Http1Assumption, FS_Bijection, FS_CardinalityType DEF ExistsBijection
  <2> QED BY <2>1 DEF Bijection, Injection
<1>3. SetToSeq(Old) \in [1..n -> Old] /\ IsInjective(SetToSeq(Old))
  BY <1>2 DEF SetToSeq
<1> HIDE DEF n
<1>4. SetToSeq(Old) \in Seq(Old) /\ Len(SetToSeq(Old)) = n
  BY <1>1, <1>3, IsASeq, LenProperties
<1>5. SetToSeq(Old) \in Seq(Conn)
  BY <1>4, SeqMonotonic DEF Conn
<1> QED BY <1>1, <1>3, <1>4, <1>5 DEF ToSet

-----------------------------------------------------------------------------
(* The tokens of an answer                                                 *)

LEMMA TokenTypes ==
  ASSUME NEW u \in Task, NEW r \in Answers
  PROVE  /\ r.n \in Nat /\ r.shape \in Shape /\ r.close \in BOOLEAN /\ r.interim \in BOOLEAN
         /\ r.shape = "empty" => r.n = 0
         /\ HeadOf(u, r) \in Token /\ Piece(u) \in Token /\ LastChunk(u) \in Token
         /\ InterimHead(u) \in Token
<1>1. r \in [shape : Shape, n : Nat, close : BOOLEAN, interim : BOOLEAN]
  BY Http1Assumption
<1>2. r.shape = "empty" => r.n = 0
  BY Http1Assumption
<1> QED
  BY <1>1, <1>2 DEF HeadOf, Piece, LastChunk, InterimHead, Token, Shape

LEMMA TokensOf ==
  ASSUME NEW u \in Task, NEW r \in Answers
  PROVE  /\ Tokens(u, r) \in Seq(Token)
         /\ ~r.interim => /\ Len(Tokens(u, r)) = Total(r)
                          /\ \A i \in 1..Total(r) : Tokens(u, r)[i] = TokenAt(u, r, i)
<1> DEFINE first == IF r.interim THEN <<InterimHead(u)>> ELSE <<>>
           head == <<HeadOf(u, r)>>
           pieces == [i \in 1..r.n |-> Piece(u)]
           end == IF r.shape = "chunked" THEN <<LastChunk(u)>> ELSE <<>>
<1>1. r.n \in Nat /\ r.interim \in BOOLEAN
  BY TokenTypes
<1>2. first \in Seq(Token) /\ (~r.interim => first = <<>>)
  BY TokenTypes
<1>3. head \in Seq(Token) /\ Len(head) = 1 /\ head[1] = HeadOf(u, r)
  BY TokenTypes
<1>4. /\ pieces \in Seq(Token) /\ Len(pieces) = r.n
      /\ \A i \in 1..r.n : pieces[i] = Piece(u)
  <2>1. pieces \in [1..r.n -> Token]
    BY TokenTypes
  <2>2. pieces \in Seq(Token)
    BY <2>1, <1>1, SeqDef
  <2>3. DOMAIN pieces = 1..r.n
    OBVIOUS
  <2> QED BY <2>2, <2>3, <1>1, LenProperties
<1>5. /\ end \in Seq(Token) /\ Len(end) = IF r.shape = "chunked" THEN 1 ELSE 0
      /\ r.shape = "chunked" => end[1] = LastChunk(u)
  BY TokenTypes
<1>6. Tokens(u, r) = first \o head \o pieces \o end
  BY DEF Tokens
<1> HIDE DEF first, head, pieces, end
<1>7. /\ first \o head \in Seq(Token)
      /\ ~r.interim => Len(first \o head) = 1 /\ (first \o head)[1] = HeadOf(u, r)
  <2>1. first \o head \in Seq(Token)
    BY <1>2, <1>3, ConcatProperties
  <2>2. ~r.interim => first \o head = head
    BY <1>2, <1>3, ConcatEmptySeq
  <2> QED BY <2>1, <2>2, <1>3
<1> DEFINE start == first \o head
           most == start \o pieces
<1> HIDE DEF start
<1>8. /\ most \in Seq(Token)
      /\ ~r.interim =>
           /\ Len(most) = 1 + r.n /\ most[1] = HeadOf(u, r)
           /\ \A i \in 2..(r.n + 1) : most[i] = Piece(u)
  <2>1. /\ most \in Seq(Token) /\ Len(most) = Len(start) + Len(pieces)
        /\ \A i \in 1..(Len(start) + Len(pieces)) :
             most[i] = IF i <= Len(start) THEN start[i] ELSE pieces[i - Len(start)]
    BY <1>7, <1>4, ConcatProperties DEF start
  <2> QED BY <2>1, <1>7, <1>4, <1>1 DEF start
<1> HIDE DEF most
<1>9. /\ most \o end \in Seq(Token) /\ Len(most \o end) = Len(most) + Len(end)
      /\ \A i \in 1..(Len(most) + Len(end)) :
           (most \o end)[i] = IF i <= Len(most) THEN most[i] ELSE end[i - Len(most)]
  BY <1>8, <1>5, ConcatProperties
<1>10. Tokens(u, r) = most \o end
  BY <1>6 DEF most, start
<1>11. ASSUME ~r.interim
       PROVE  /\ Len(Tokens(u, r)) = Total(r)
              /\ \A i \in 1..Total(r) : Tokens(u, r)[i] = TokenAt(u, r, i)
  BY <1>11, <1>1, <1>5, <1>8, <1>9, <1>10 DEF Total, TokenAt
<1> QED BY <1>9, <1>10, <1>11

LEMMA TotalType ==
  ASSUME NEW r \in Answers PROVE Total(r) \in Nat \ {0}
BY Http1Assumption DEF Total

\* A response that has been read up to its end is the whole answer; what the
\* Response holds of it is the pieces of its body.
LEMMA FramedIsWhole ==
  ASSUME NEW t \in Task, NEW r \in Answers, NEW b \in Seq(Token),
         Len(b) <= Total(r), \A i \in 1..Len(b) : b[i] = TokenAt(t, r, i)
  PROVE  Framed(b) => Len(b) = Total(r) /\ r.shape # "bad"
<1> SUFFICES ASSUME Framed(b) PROVE Len(b) = Total(r) /\ r.shape # "bad"
  OBVIOUS
<1>1. Len(b) \in Nat /\ r.n \in Nat /\ (r.shape = "empty" => r.n = 0)
  BY TokenTypes, LenProperties
<1>2. b # <<>> /\ Len(b) >= 1
  BY EmptySeq, <1>1 DEF Framed
<1>3. b[1] = HeadOf(t, r)
  BY <1>1, <1>2 DEF TokenAt
<1>4. b[1].shape = r.shape /\ b[1].n = r.n /\ b[1].kind = "head"
  BY <1>3 DEF HeadOf
<1>5. r.shape # "bad"
  BY <1>2, <1>4 DEF Framed, BadHead
<1>6. CASE r.shape = "empty"
  BY <1>1, <1>2, <1>6 DEF Total
<1>7. CASE r.shape = "length"
  BY <1>1, <1>4, <1>7 DEF Total, Framed
<1>8. CASE r.shape = "chunked"
  <2>1. PICK i \in 2..Len(b) : b[i].kind = "end"
    BY <1>4, <1>8 DEF Framed
  <2>2. i > r.n + 1
    <3>1. b[i] = TokenAt(t, r, i)
      BY <1>1
    <3> QED BY <2>1, <3>1, <1>1 DEF TokenAt, Piece
  <2> QED BY <2>2, <1>1, <1>8 DEF Total
<1> QED BY <1>4, <1>5, <1>6, <1>7, <1>8 DEF Framed

LEMMA BodyOfAnswer ==
  ASSUME NEW t \in Task, NEW r \in Answers, NEW b \in Seq(Token),
         b # <<>>, Len(b) <= Total(r), r.shape # "bad",
         r.shape # "until_close" => Len(b) = Total(r),
         \A i \in 1..Len(b) : b[i] = TokenAt(t, r, i)
  PROVE  /\ b[1] = HeadOf(t, r)
         /\ Body(b) \in Seq(Token)
         /\ \A i \in 1..Len(Body(b)) : Body(b)[i] = Piece(t)
         /\ r.shape # "until_close" => Len(Body(b)) = r.n
<1>1. Len(b) \in Nat \ {0} /\ r.n \in Nat /\ (r.shape = "empty" => r.n = 0)
  BY TokenTypes, LenProperties, EmptySeq
<1>2. b[1] = HeadOf(t, r) /\ b[1].shape = r.shape
  <2>1. b[1] = TokenAt(t, r, 1)
    BY <1>1
  <2> QED BY <2>1 DEF TokenAt, HeadOf
<1>3. CASE r.shape # "chunked"
  <2>1. Body(b) = Tail(b)
    BY <1>2, <1>3 DEF Body
  <2>2. /\ Tail(b) \in Seq(Token) /\ Len(Tail(b)) = Len(b) - 1
        /\ \A i \in 1..(Len(b) - 1) : Tail(b)[i] = b[i + 1]
    BY <1>1, HeadTailProperties
  <2>3. Len(b) <= r.n + 1
    BY <1>3, <1>1 DEF Total
  <2>4. \A i \in 1..(Len(b) - 1) : Tail(b)[i] = Piece(t)
    BY <2>2, <2>3, <1>1 DEF TokenAt
  <2>5. r.shape # "until_close" => Len(b) = r.n + 1
    BY <1>3 DEF Total
  <2> QED BY <2>1, <2>2, <2>4, <2>5, <1>1, <1>2
<1>4. CASE r.shape = "chunked"
  <2> DEFINE IsEnd(i) == b[i].kind = "end" /\ \A j \in 2..(i - 1) : b[j].kind # "end"
             e == CHOOSE i \in 2..Len(b) : IsEnd(i)
  <2>1. Len(b) = r.n + 2
    BY <1>4 DEF Total
  <2>2. \A i \in 2..(r.n + 1) : b[i] = Piece(t)
    BY <2>1, <1>1 DEF TokenAt
  <2>3. b[r.n + 2].kind = "end"
    BY <2>1, <1>1 DEF TokenAt, LastChunk
  <2>4. \A i \in 2..(r.n + 1) : b[i].kind # "end"
    BY <2>2 DEF Piece
  <2>5. IsEnd(r.n + 2) /\ r.n + 2 \in 2..Len(b)
    BY <2>1, <2>3, <2>4, <1>1
  <2>6. e \in 2..Len(b) /\ IsEnd(e)
    BY <2>5
  <2>7. e = r.n + 2
    BY <2>1, <2>4, <2>6, <1>1
  <2>8. Body(b) = SubSeq(b, 2, e - 1)
    BY <1>2, <1>4 DEF Body
  <2> HIDE DEF e
  <2>9. Body(b) = SubSeq(b, 2, r.n + 1)
    BY <2>7, <2>8, <1>1
  <2>10. /\ Body(b) \in Seq(Token) /\ Len(Body(b)) = r.n
         /\ \A i \in 1..r.n : Body(b)[i] = b[i + 1]
    BY <2>9, <2>1, <1>1, SubSeqProperties
  <2>11. \A i \in 1..r.n : Body(b)[i] = Piece(t)
    BY <2>10, <2>2, <1>1
  <2> QED BY <1>2, <2>10, <2>11
<1> QED BY <1>3, <1>4

-----------------------------------------------------------------------------
(* Types                                                                   *)

Link == [state : LinkState, asked : Seq(Task), wire : Seq(Token), interim : BOOLEAN]

LEMMA PoolType ==
  /\ TypeOK => idle \in Seq(Conn) /\ Len(idle) <= MaxIdle
  /\ idle' \in Seq(Conn) /\ Len(idle') <= MaxIdle => idle' \in BoundedSeq(Conn, MaxIdle)
BY Http1Assumption, BoundedSeqDef DEF TypeOK

LEMMA DropType ==
  ASSUME TypeOK, NEW C, Drop(C)
  PROVE  /\ link' \in [Conn -> Link]
         /\ \A c \in C \cap Conn :
              link'[c] = [state |-> "dropped", asked |-> <<>>, wire |-> <<>>,
                          interim |-> link[c].interim]
         /\ \A c \in Conn \ C : link'[c] = link[c]
BY DEF TypeOK, Drop, Link, LinkState

LEMMA DropAll ==
  ASSUME TypeOK, NEW C \in SUBSET Conn, Drop(C)
  PROVE  /\ \A c \in C : /\ link'[c].state = "dropped" /\ link'[c].wire = <<>>
                         /\ link'[c].asked = <<>> /\ link'[c].interim = link[c].interim
         /\ \A c \in Conn \ C : link'[c] = link[c]
<1>1. ASSUME NEW c \in C
      PROVE  /\ link'[c].state = "dropped" /\ link'[c].wire = <<>>
             /\ link'[c].asked = <<>> /\ link'[c].interim = link[c].interim
  <2>1. link'[c] = [state |-> "dropped", asked |-> <<>>, wire |-> <<>>,
                    interim |-> link[c].interim]
    BY DEF Drop
  <2> QED BY <2>1
<1>2. \A c \in Conn \ C : link'[c] = link[c]
  BY DEF Drop
<1> QED BY <1>1, <1>2

LEMMA TypeInit == Init => TypeOK
<1> SUFFICES ASSUME Init PROVE TypeOK
  OBVIOUS
<1>1. idle \in BoundedSeq(Conn, MaxIdle)
  BY OldPool, BoundedSeqDef, Http1Assumption DEF Init
<1>2. dns \in Addr \cup {NoAddr} /\ conn \in [Task -> Conn \cup {NoConn}]
  BY DEF Init
<1>3. pc \in [Task -> Place] /\ buf \in [Task -> Seq(Token)]
  BY DEF Init, Place
<1>4. trying \in [Task -> [from : {"nowhere", "cache", "lookup"}, left : Seq(Addr)]]
  BY DEF Init
<1>5. link \in [Conn -> [state : LinkState, asked : Seq(Task), wire : Seq(Token),
                          interim : BOOLEAN]]
  BY DEF Init, LinkState
<1> QED BY <1>1, <1>2, <1>3, <1>4, <1>5 DEF TypeOK

LEMMA TypeStep ==
  ASSUME IInv, NEW t \in Task, Step(t)
  PROVE  TypeOK'
<1> USE DEF Place
<1>0. TypeOK /\ Owned /\ Buffers /\ Dialled
  BY DEF IInv
<1>1. idle \in Seq(Conn) /\ Len(idle) <= MaxIdle
  BY <1>0, PoolType
<1>2. IsInjective(idle)
  BY <1>0 DEF Owned
<1>3. CASE Checkout(t)
  <2>1. idle # <<>> /\ idle' = Front(idle) /\ conn' = [conn EXCEPT ![t] = Last(idle)]
    BY <1>3 DEF Checkout
  <2>2. Last(idle) \in Conn /\ idle' \in Seq(Conn) /\ Len(idle') <= MaxIdle
    BY <2>1, <1>1, <1>2, TakeLast, Http1Assumption, LenProperties
  <2>3. idle' \in BoundedSeq(Conn, MaxIdle)
    BY <2>2, PoolType
  <2> QED BY <1>0, <1>3, <2>1, <2>2, <2>3 DEF Checkout, TypeOK
<1>4. CASE CheckoutNone(t)
  <2>1. idle' \in BoundedSeq(Conn, MaxIdle)
    BY <1>4, PoolType, Http1Assumption DEF CheckoutNone
  <2>2. link' \in [Conn -> Link]
    BY <1>0, <1>4, DropType DEF CheckoutNone
  <2> QED BY <1>0, <1>4, <2>1, <2>2 DEF CheckoutNone, TypeOK, Link
<1>5. ASSUME ExchangeFails(t) PROVE TypeOK'
  <2>1. link' \in [Conn -> Link]
    BY <1>0, <1>5, DropType DEF ExchangeFails
  <2>2. pc' \in [Task -> Place] /\ conn' \in [Task -> Conn \cup {NoConn}]
    BY <1>0, <1>5 DEF ExchangeFails, TypeOK
  <2>3. buf' \in [Task -> Seq(Token)]
    BY <1>0, <1>5 DEF ExchangeFails, TypeOK
  <2>4. UNCHANGED <<idle, dns, trying>>
    BY <1>5 DEF ExchangeFails
  <2> QED BY <1>0, <2>1, <2>2, <2>3, <2>4 DEF TypeOK, Link
<1>6. CASE ReturnIdle(t)
  <2>1. conn[t] \in Conn /\ conn[t] \notin ToSet(idle)
    BY <1>0, <1>6 DEF ReturnIdle, Owned, TypeOK, Using
  <2>2. idle' \in BoundedSeq(Conn, MaxIdle)
    <3>1. CASE Len(idle) >= MaxIdle
      BY <1>0, <1>6, <3>1 DEF ReturnIdle, TypeOK
    <3>2. CASE ~(Len(idle) >= MaxIdle)
      <4>1. idle' = Append(idle, conn[t])
        BY <1>6, <3>2 DEF ReturnIdle
      <4>2. idle' \in Seq(Conn) /\ Len(idle') = Len(idle) + 1
        BY <4>1, <1>1, <1>2, <2>1, PutLast
      <4>3. Len(idle') <= MaxIdle
        BY <4>2, <3>2, <1>1, LenProperties, Http1Assumption
      <4> QED BY <4>2, <4>3, PoolType
    <3> QED BY <3>1, <3>2
  <2>3. link' \in [Conn -> Link]
    BY <1>0, <1>6, DropType DEF ReturnIdle, TypeOK, Link
  <2> QED BY <1>0, <1>6, <2>2, <2>3 DEF ReturnIdle, TypeOK, Link
<1>7. CASE CachedAddr(t) \/ LookupHost(t)
  <2>1. trying' \in [Task -> [from : {"nowhere", "cache", "lookup"}, left : Seq(Addr)]]
    <3>1. CASE CachedAddr(t)
      <4>1. dns # NoAddr => <<dns>> \in Seq(Addr)
        BY <1>0 DEF TypeOK
      <4>2. CASE UNCHANGED trying
        BY <1>0, <4>2 DEF TypeOK
      <4>3. CASE /\ dns # NoAddr
                 /\ trying' = [trying EXCEPT ![t] = [from |-> "cache", left |-> <<dns>>]]
        <5>1. [from |-> "cache", left |-> <<dns>>]
                \in [from : {"nowhere", "cache", "lookup"}, left : Seq(Addr)]
          BY <4>1, <4>3
        <5> QED BY <1>0, <4>3, <5>1 DEF TypeOK
      <4> QED BY <3>1, <4>2, <4>3 DEF CachedAddr
    <3>2. CASE LookupHost(t)
      <4>1. PICK addrs \in Lookups \cup {<<>>} :
              trying' = [trying EXCEPT ![t] = [from |-> "lookup", left |-> addrs]]
        BY <3>2 DEF LookupHost
      <4>2. addrs \in Seq(Addr)
        <5>1. <<>> \in Seq(Addr) /\ Lookups \subseteq Seq(Addr)
          BY Http1Assumption
        <5> QED BY <5>1
      <4>3. [from |-> "lookup", left |-> addrs]
              \in [from : {"nowhere", "cache", "lookup"}, left : Seq(Addr)]
        BY <4>2
      <4> QED BY <1>0, <4>1, <4>3 DEF TypeOK
    <3> QED BY <1>7, <3>1, <3>2
  <2>2. pc' \in [Task -> Place] /\ dns' \in Addr \cup {NoAddr}
    BY <1>0, <1>7 DEF CachedAddr, LookupHost, TypeOK
  <2>3. UNCHANGED <<idle, conn, buf, link>>
    BY <1>7 DEF CachedAddr, LookupHost
  <2> QED BY <1>0, <2>1, <2>2, <2>3 DEF TypeOK
<1>8. CASE Dial(t)
  BY <1>0, <1>8 DEF Dial, TypeOK, Conn, LinkState
<1>9. CASE DialFails(t)
  <2>1. trying[t].left # <<>> /\ trying[t].left \in Seq(Addr)
    BY <1>0, <1>9 DEF DialFails, Dialled, DialledBy, TypeOK
  <2>2. Tail(trying[t].left) \in Seq(Addr)
    BY <2>1, HeadTailProperties
  <2> QED BY <1>0, <1>9, <2>2 DEF DialFails, TypeOK
<1>10. CASE Forget(t) \/ Note(t)
  <2>1. pc[t] = "note" => Head(trying[t].left) \in Addr
    BY <1>0, HeadTailProperties DEF Dialled, DialledBy, TypeOK
  <2> QED BY <1>0, <1>10, <2>1 DEF Forget, Note, TypeOK
<1>11. CASE Write(t)
  <2>1. conn[t] \in Conn
    BY <1>0, <1>11 DEF Write, Owned, TypeOK, Using
  <2> DEFINE now == IF link[conn[t]].state = "up"
                    THEN Append(link[conn[t]].asked, t) ELSE link[conn[t]].asked
  <2>2. now \in Seq(Task)
    BY <1>0, <2>1, AppendProperties DEF TypeOK
  <2>3. link' = [link EXCEPT ![conn[t]].asked = now]
    BY <1>11 DEF Write
  <2> HIDE DEF now
  <2>4. link' \in [Conn -> Link]
    BY <1>0, <2>1, <2>2, <2>3 DEF TypeOK, Link
  <2> QED BY <1>0, <1>11, <2>4 DEF Write, TypeOK, Link
<1>12. CASE WriteFails(t)
  BY <1>5, <1>12 DEF WriteFails
<1>13. CASE Read(t)
  <2>1. conn[t] \in Conn
    BY <1>0, <1>13 DEF Read, Owned, TypeOK, Using
  <2> DEFINE wire == link[conn[t]].wire
  <2>2. wire \in Seq(Token) /\ buf[t] \in Seq(Token) /\ Len(wire) \in Nat
    BY <1>0, <2>1, LenProperties DEF TypeOK
  <2>3. PICK k \in 1..Len(wire) :
          /\ buf' = [buf EXCEPT ![t] = @ \o SubSeq(wire, 1, k)]
          /\ link' = [link EXCEPT ![conn[t]].wire = SubSeq(@, k + 1, Len(@))]
    BY <1>13 DEF Read
  <2>4. SubSeq(wire, 1, k) \in Seq(Token) /\ SubSeq(wire, k + 1, Len(wire)) \in Seq(Token)
    BY <2>2, SubSeqProperties
  <2>5. buf[t] \o SubSeq(wire, 1, k) \in Seq(Token)
    BY <2>2, <2>4, ConcatProperties
  <2>6. buf' \in [Task -> Seq(Token)]
    BY <1>0, <2>3, <2>5 DEF TypeOK
  <2>7. link' \in [Conn -> Link]
    BY <1>0, <2>1, <2>3, <2>4 DEF TypeOK, Link
  <2> QED BY <1>0, <1>13, <2>6, <2>7 DEF Read, TypeOK, Link
<1>14. CASE ReadEnd(t)
  <2>1. CASE EndsBody(buf[t])
    <3>1. link' \in [Conn -> Link]
      BY <1>0, <1>14, <2>1, DropType DEF ReadEnd
    <3> QED BY <1>0, <1>14, <2>1, <3>1 DEF ReadEnd, TypeOK, Link
  <2>2. CASE ~EndsBody(buf[t])
    BY <1>5, <1>14, <2>2 DEF ReadEnd
  <2> QED BY <2>1, <2>2
<1>15. CASE ReadFails(t)
  BY <1>5, <1>15 DEF ReadFails
<1>16. CASE Respond(t)
  <2>1. link' \in [Conn -> Link]
    BY <1>0, <1>16, DropType DEF Respond, TypeOK, Link
  <2> QED BY <1>0, <1>16, <2>1 DEF Respond, TypeOK, Link
<1> QED
  BY <1>3, <1>4, <1>6, <1>7, <1>8, <1>9, <1>10, <1>11, <1>12, <1>13, <1>14,
     <1>15, <1>16 DEF Step

LEMMA TypeServer ==
  ASSUME TypeOK, NEW c \in Conn, Answer(c) \/ Cut(c)
  PROVE  TypeOK'
<1>1. /\ link[c] \in Link /\ link[c].wire \in Seq(Token) /\ link[c].asked \in Seq(Task)
      /\ Len(link[c].wire) \in Nat
  BY LenProperties DEF TypeOK, Link
<1>2. CASE Answer(c)
  <2>1. PICK r \in Answers : link' = [link EXCEPT ![c] =
          [state |-> IF r.shape \in {"until_close", "bad"} \/ r.close THEN "closed" ELSE "up",
           asked |-> Tail(@.asked),
           wire |-> @.wire \o Tokens(Head(@.asked), r),
           interim |-> @.interim \/ r.interim]]
    BY <1>2 DEF Answer
  <2>2. Tail(link[c].asked) \in Seq(Task) /\ Head(link[c].asked) \in Task
    BY <1>1, <1>2, HeadTailProperties DEF Answer
  <2>3. link[c].wire \o Tokens(Head(link[c].asked), r) \in Seq(Token)
    BY <1>1, <2>2, TokensOf, ConcatProperties
  <2>4. (link[c].interim \/ r.interim) \in BOOLEAN
    BY <1>1, TokenTypes DEF Link
  <2>5. link' \in [Conn -> Link]
    BY <2>1, <2>2, <2>3, <2>4 DEF TypeOK, Link, LinkState
  <2> QED BY <1>2, <2>5 DEF Answer, TypeOK, Link
<1>3. CASE Cut(c)
  <2>1. PICK k \in 0..Len(link[c].wire), s \in {"closed", "reset"} :
          link' = [link EXCEPT ![c] =
            [state |-> s, asked |-> <<>>, interim |-> @.interim,
             wire |-> IF s = "reset" THEN <<>> ELSE SubSeq(@.wire, 1, k)]]
    BY <1>3 DEF Cut
  <2>2. SubSeq(link[c].wire, 1, k) \in Seq(Token)
    BY <1>1, SubSeqProperties
  <2>3. link' \in [Conn -> Link]
    BY <1>1, <2>1, <2>2 DEF TypeOK, Link, LinkState
  <2> QED BY <1>3, <2>3 DEF Cut, TypeOK, Link
<1> QED BY <1>2, <1>3

-----------------------------------------------------------------------------
(* Who has which connection                                                *)

LEMMA OwnedInit == Init => Owned
<1> SUFFICES ASSUME Init PROVE Owned
  OBVIOUS
<1>1. IsInjective(idle) /\ ToSet(idle) \subseteq Old
  BY OldPool DEF Init
<1>2. \A c \in Old : c \in Conn /\ link[c].state = "up"
  BY DEF Init, Conn
<1>3. \A t \in Task : t \in Conn /\ link[t].state = "none"
  BY Http1Assumption DEF Init, Conn
<1>4. \A t \in Task : conn[t] = NoConn /\ pc[t] = "checkout"
  BY DEF Init
<1>5. \A c \in Conn : link[c].wire = <<>> /\ link[c].asked = <<>>
  BY DEF Init
<1>6. \A c \in ToSet(idle) : c # NoConn
  BY <1>1, <1>2, Http1Assumption
<1> QED BY <1>1, <1>2, <1>3, <1>4, <1>5, <1>6 DEF Owned, Using, Seeking

\* A task that has a connection it uses, or none; what it may take.
LEMMA UsedConnection ==
  ASSUME TypeOK, Owned, NEW t \in Task, Using(t)
  PROVE  /\ conn[t] \in Conn /\ conn[t] # NoConn /\ conn[t] \notin ToSet(idle)
         /\ link[conn[t]].state \notin {"none", "dropped"}
         /\ \A u \in Task \ {t} : conn[u] = conn[t] => pc[u] = "ok"
BY Http1Assumption DEF TypeOK, Owned

LEMMA OwnedExchangeFails ==
  ASSUME TypeOK, Owned, NEW t \in Task, Using(t), ExchangeFails(t)
  PROVE  Owned'
<1>1. /\ link' \in [Conn -> Link]
      /\ link'[conn[t]] = [state |-> "dropped", asked |-> <<>>, wire |-> <<>>,
                           interim |-> link[conn[t]].interim]
      /\ \A c \in Conn \ {conn[t]} : link'[c] = link[c]
  BY DropType, UsedConnection DEF ExchangeFails
<1>2. idle' = idle
  BY DEF ExchangeFails
<1>3. \/ /\ conn[t] = t
         /\ pc' = [pc EXCEPT ![t] = "failed"] /\ conn' = conn
      \/ /\ conn[t] # t
         /\ pc' = [pc EXCEPT ![t] = "checkout"] /\ conn' = [conn EXCEPT ![t] = NoConn]
  BY DEF ExchangeFails
<1>4. t \in Conn
  BY DEF Conn
<1>5. ToSet(idle) \subseteq Conn
  BY PoolType, LenProperties DEF ToSet
<1>6. idle' = idle /\ ToSet(idle') = ToSet(idle) /\ IsInjective(idle')
  BY <1>2 DEF Owned
<1> USE UsedConnection, Http1Assumption
<1>7. \A c \in Conn : link'[c].state = "none" => link'[c].wire = <<>> /\ link'[c].asked = <<>>
  BY <1>1 DEF Owned
<1>8. \A u \in Task : Seeking(u)' => conn'[u] = NoConn
  BY <1>3 DEF Owned, TypeOK, Seeking
<1>9. \A u \in Task : Seeking(u)' \/ (Using(u)' /\ conn'[u] # u) => link'[u].state = "none"
  <2> SUFFICES ASSUME NEW u \in Task, Seeking(u)' \/ (Using(u)' /\ conn'[u] # u)
               PROVE  link'[u].state = "none"
    OBVIOUS
  <2>1. u \in Conn
    BY DEF Conn
  <2>2. link[u].state = "none"
    BY <1>3 DEF Owned, TypeOK, Seeking, Using
  <2> QED BY <1>1, <2>1, <2>2
<1>10. \A u \in Task : conn'[u] # NoConn => link'[conn'[u]].state # "none"
  <2> SUFFICES ASSUME NEW u \in Task, conn'[u] # NoConn
               PROVE  link'[conn'[u]].state # "none"
    OBVIOUS
  <2>1. conn'[u] = conn[u] /\ conn[u] \in Conn
    BY <1>3 DEF TypeOK
  <2>2. link[conn[u]].state # "none"
    BY <2>1 DEF Owned
  <2> QED BY <1>1, <2>1, <2>2
<1>11. \A u \in Task : pc'[u] = "ok" => conn'[u] # NoConn
  BY <1>3 DEF Owned, TypeOK
<1>12. \A u \in Task : Using(u)' =>
         /\ conn'[u] # NoConn /\ link'[conn'[u]].state # "dropped"
         /\ conn'[u] \notin ToSet(idle')
         /\ \A v \in Task \ {u} : conn'[v] = conn'[u] => pc'[v] = "ok"
  <2> SUFFICES ASSUME NEW u \in Task, Using(u)'
               PROVE  /\ conn'[u] # NoConn /\ link'[conn'[u]].state # "dropped"
                      /\ conn'[u] \notin ToSet(idle')
                      /\ \A v \in Task \ {u} : conn'[v] = conn'[u] => pc'[v] = "ok"
    OBVIOUS
  <2>1. u # t /\ Using(u) /\ conn'[u] = conn[u] /\ pc'[u] = pc[u]
    BY <1>3 DEF TypeOK, Using
  <2>2. conn[u] # conn[t]
    BY <2>1 DEF Using
  <2>3. \A v \in Task \ {u} : conn'[v] = conn[u] => conn[v] = conn[u] /\ v # t
    BY <1>3, <2>1, <2>2 DEF TypeOK
  <2>4. \A v \in Task \ {t} : pc'[v] = pc[v]
    BY <1>3 DEF TypeOK
  <2> QED BY <1>1, <1>6, <2>1, <2>2, <2>3, <2>4
<1>13. \A c \in ToSet(idle') :
         /\ link'[c].state \notin {"none", "dropped"}
         /\ \A u \in Task : conn'[u] = c => pc'[u] = "ok"
  <2> SUFFICES ASSUME NEW c \in ToSet(idle)
               PROVE  /\ link'[c].state \notin {"none", "dropped"}
                      /\ \A u \in Task : conn'[u] = c => pc'[u] = "ok"
    BY <1>6
  <2>1. c \in Conn /\ c # conn[t] /\ c # NoConn
    BY <1>5
  <2>2. link'[c] = link[c] /\ link[c].state \notin {"none", "dropped"}
    BY <1>1, <2>1 DEF Owned
  <2>3. \A u \in Task : conn'[u] = c => conn[u] = c /\ u # t
    BY <1>3, <2>1 DEF TypeOK
  <2>4. \A u \in Task \ {t} : pc'[u] = pc[u]
    BY <1>3 DEF TypeOK
  <2> QED BY <2>2, <2>3, <2>4 DEF Owned
<1> QED BY <1>6, <1>7, <1>8, <1>9, <1>10, <1>11, <1>12, <1>13 DEF Owned

\* A step that leaves the pool and the connections of tasks, and neither opens
\* nor closes a connection, nor lets a task begin to use or to seek one.
LEMMA OwnedFrame ==
  ASSUME TypeOK, Owned, UNCHANGED <<idle, conn>>,
         \A t \in Task : /\ Using(t)' => Using(t)
                         /\ Seeking(t)' => Seeking(t)
                         /\ pc'[t] = "ok" <=> pc[t] = "ok",
         \A c \in Conn : /\ link'[c].state = "dropped" => link[c].state = "dropped"
                         /\ link[c].state = "dropped" => link'[c].state = "dropped"
                         /\ link'[c].state = "none" => link'[c] = link[c]
                         /\ link[c].state = "none" => link'[c] = link[c]
  PROVE  Owned'
<1>1. ToSet(idle) \subseteq Conn
  BY PoolType, LenProperties DEF ToSet
<1>2. \A t \in Task : t \in Conn /\ (conn[t] # NoConn => conn[t] \in Conn)
  BY DEF TypeOK, Conn
<1>3. \A t \in Task : Using(t) => conn[t] \in Conn
  BY UsedConnection
<1>4. IsInjective(idle)' /\ ToSet(idle)' = ToSet(idle)
  BY DEF Owned
<1>5. \A c \in Conn : link'[c].state = "none" => link'[c].wire = <<>> /\ link'[c].asked = <<>>
  BY DEF Owned
<1>6. /\ \A t \in Task : Seeking(t)' => conn'[t] = NoConn
      /\ \A t \in Task : Seeking(t)' \/ (Using(t)' /\ conn'[t] # t) => link'[t].state = "none"
  BY <1>2 DEF Owned
<1>7. \A t \in Task : conn'[t] # NoConn => link'[conn'[t]].state # "none"
  BY <1>2 DEF Owned
<1>8. \A t \in Task : pc'[t] = "ok" => conn'[t] # NoConn
  BY DEF Owned
<1>9. \A t \in Task : Using(t)' =>
         /\ conn'[t] # NoConn /\ link'[conn'[t]].state # "dropped"
         /\ conn'[t] \notin ToSet(idle)
         /\ \A u \in Task \ {t} : conn'[u] = conn'[t] => pc'[u] = "ok"
  BY <1>3 DEF Owned
<1>10. \A c \in ToSet(idle) :
         /\ link'[c].state \notin {"none", "dropped"}
         /\ \A t \in Task : conn'[t] = c => pc'[t] = "ok"
  BY <1>1 DEF Owned
<1> QED BY <1>4, <1>5, <1>6, <1>7, <1>8, <1>9, <1>10 DEF Owned

LEMMA OwnedServer ==
  ASSUME TypeOK, Owned, NEW c \in Conn, Answer(c) \/ Cut(c)
  PROVE  Owned'
<1>1. UNCHANGED <<idle, pc, conn>>
  BY DEF Answer, Cut
<1>2. /\ link[c].state \notin {"none", "dropped"}
      /\ link'[c].state \notin {"none", "dropped"}
      /\ \A d \in Conn \ {c} : link'[d] = link[d]
  <2>1. CASE Answer(c)
    BY <2>1 DEF Answer, TypeOK
  <2>2. CASE Cut(c)
    BY <2>2 DEF Cut, TypeOK
  <2> QED BY <2>1, <2>2
<1>3. \A t \in Task : /\ Using(t)' => Using(t)
                      /\ Seeking(t)' => Seeking(t)
                      /\ pc'[t] = "ok" <=> pc[t] = "ok"
  BY <1>1 DEF Using, Seeking
<1>4. \A d \in Conn : /\ link'[d].state = "dropped" => link[d].state = "dropped"
                      /\ link[d].state = "dropped" => link'[d].state = "dropped"
                      /\ link'[d].state = "none" => link'[d] = link[d]
                      /\ link[d].state = "none" => link'[d] = link[d]
  BY <1>2
<1> QED BY <1>1, <1>3, <1>4, OwnedFrame

\* A task returns its response and closes the connection.
LEMMA OwnedClose ==
  ASSUME TypeOK, Owned, NEW t \in Task, Using(t), pc' = [pc EXCEPT ![t] = "ok"],
         UNCHANGED <<idle, conn>>, Drop({conn[t]})
  PROVE  Owned'
<1>1. /\ conn[t] \in Conn /\ conn[t] \notin ToSet(idle) /\ conn[t] # NoConn
      /\ link[conn[t]].state \notin {"none", "dropped"}
      /\ \A u \in Task \ {t} : conn[u] = conn[t] => pc[u] = "ok"
  BY UsedConnection
<1>2. /\ link'[conn[t]].state = "dropped"
      /\ link'[conn[t]].wire = <<>> /\ link'[conn[t]].asked = <<>>
      /\ \A c \in Conn \ {conn[t]} : link'[c] = link[c]
  BY <1>1, DropAll
<1>3. /\ idle' = idle /\ ToSet(idle') = ToSet(idle) /\ IsInjective(idle')
      /\ ToSet(idle) \subseteq Conn
  BY PoolType, LenProperties DEF ToSet, Owned
<1>4. \A u \in Task : u \in Conn /\ (conn[u] # NoConn => conn[u] \in Conn) /\ conn'[u] = conn[u]
  BY DEF TypeOK, Conn
<1>5. pc'[t] = "ok" /\ \A u \in Task \ {t} : pc'[u] = pc[u]
  BY DEF TypeOK
<1>6. \A c \in Conn : link'[c].state = "none" => link'[c].wire = <<>> /\ link'[c].asked = <<>>
  BY <1>2 DEF Owned
<1>7. /\ \A u \in Task : Seeking(u)' => conn'[u] = NoConn
      /\ \A u \in Task : Seeking(u)' \/ (Using(u)' /\ conn'[u] # u) => link'[u].state = "none"
  <2>1. \A u \in Task : Seeking(u)' \/ Using(u)' => u # t
    BY <1>5 DEF Seeking, Using
  <2>2. \A u \in Task : link[u].state = "none" => link'[u].state = "none"
    BY <1>1, <1>2, <1>4
  <2> QED BY <1>4, <1>5, <2>1, <2>2 DEF Owned, Seeking, Using
<1>8. \A u \in Task : conn'[u] # NoConn => link'[conn'[u]].state # "none"
  BY <1>2, <1>4 DEF Owned
<1>9. \A u \in Task : pc'[u] = "ok" => conn'[u] # NoConn
  BY <1>1, <1>4, <1>5 DEF Owned
<1>10. \A u \in Task : Using(u)' =>
         /\ conn'[u] # NoConn /\ link'[conn'[u]].state # "dropped"
         /\ conn'[u] \notin ToSet(idle')
         /\ \A v \in Task \ {u} : conn'[v] = conn'[u] => pc'[v] = "ok"
  <2> SUFFICES ASSUME NEW u \in Task, Using(u)'
               PROVE  /\ conn'[u] # NoConn /\ link'[conn'[u]].state # "dropped"
                      /\ conn'[u] \notin ToSet(idle')
                      /\ \A v \in Task \ {u} : conn'[v] = conn'[u] => pc'[v] = "ok"
    OBVIOUS
  <2>1. u # t /\ Using(u)
    BY <1>5 DEF Using
  <2>2. conn[u] # conn[t]
    BY <1>1, <2>1 DEF Using
  <2>3. conn[u] \in Conn /\ link'[conn[u]] = link[conn[u]]
    BY <1>2, <2>1, <2>2, UsedConnection
  <2> QED BY <1>3, <1>4, <1>5, <2>1, <2>3, UsedConnection
<1>11. \A c \in ToSet(idle') :
         /\ link'[c].state \notin {"none", "dropped"}
         /\ \A u \in Task : conn'[u] = c => pc'[u] = "ok"
  BY <1>1, <1>2, <1>3, <1>4, <1>5 DEF Owned
<1> QED BY <1>3, <1>6, <1>7, <1>8, <1>9, <1>10, <1>11 DEF Owned

LEMMA OwnedStep ==
  ASSUME TypeOK, Owned, Dialled, NEW t \in Task, Step(t)
  PROVE  Owned'
<1> USE DEF Using, Seeking
<1>1. /\ idle \in Seq(Conn) /\ ToSet(idle) \subseteq Conn /\ IsInjective(idle)
      /\ t \in Conn /\ t # NoConn /\ conn[t] \in Conn \cup {NoConn}
  <2>1. idle \in Seq(Conn) /\ ToSet(idle) \subseteq Conn
    BY PoolType, LenProperties DEF ToSet
  <2> QED BY <2>1, Http1Assumption DEF Owned, TypeOK, Conn
<1>2. ASSUME ExchangeFails(t), Using(t) PROVE Owned'
  BY <1>2, OwnedExchangeFails
<1>3. CASE CachedAddr(t) \/ LookupHost(t) \/ DialFails(t) \/ Forget(t) \/ Note(t) \/ Read(t)
  <2>1. UNCHANGED <<idle, conn>>
    BY <1>3 DEF CachedAddr, LookupHost, DialFails, Forget, Note, Read
  <2>2. \A u \in Task : /\ Using(u)' => Using(u)
                        /\ Seeking(u)' => Seeking(u)
                        /\ pc'[u] = "ok" <=> pc[u] = "ok"
    BY <1>3 DEF CachedAddr, LookupHost, DialFails, Forget, Note, Read, TypeOK
  <2>3. CASE Read(t)
    <3>1. conn[t] \in Conn /\ link[conn[t]].state \notin {"none", "dropped"}
      BY <2>3, UsedConnection DEF Read
    <3>2. /\ link'[conn[t]].state = link[conn[t]].state
          /\ \A c \in Conn \ {conn[t]} : link'[c] = link[c]
      BY <2>3, <3>1 DEF Read, TypeOK
    <3> QED BY <2>1, <2>2, <3>1, <3>2, OwnedFrame
  <2>4. CASE ~Read(t)
    <3>1. link' = link
      BY <1>3, <2>4 DEF CachedAddr, LookupHost, DialFails, Forget, Note
    <3> QED BY <2>1, <2>2, <3>1, OwnedFrame
  <2> QED BY <2>3, <2>4
<1>4. CASE Write(t)
  <2>1. UNCHANGED <<idle, conn>> /\ pc' = [pc EXCEPT ![t] = "read"] /\ pc[t] = "write"
    BY <1>4 DEF Write
  <2>2. \A u \in Task : /\ Using(u)' => Using(u)
                        /\ Seeking(u)' => Seeking(u)
                        /\ pc'[u] = "ok" <=> pc[u] = "ok"
    BY <2>1 DEF TypeOK
  <2>3. conn[t] \in Conn /\ link[conn[t]].state \notin {"none", "dropped"}
    BY <2>1, UsedConnection
  <2>4. /\ link'[conn[t]].state = link[conn[t]].state
        /\ \A c \in Conn \ {conn[t]} : link'[c] = link[c]
    BY <1>4, <2>3 DEF Write, TypeOK
  <2> QED BY <2>1, <2>2, <2>3, <2>4, OwnedFrame
<1>5. CASE Checkout(t)
  <2>1. /\ pc[t] = "checkout" /\ idle # <<>>
        /\ conn' = [conn EXCEPT ![t] = Last(idle)] /\ idle' = Front(idle)
        /\ pc' = [pc EXCEPT ![t] = "write"] /\ link' = link
    BY <1>5 DEF Checkout
  <2>2. /\ Last(idle) \in ToSet(idle) /\ IsInjective(idle')
        /\ ToSet(idle') = ToSet(idle) \ {Last(idle)}
    BY <1>1, <2>1, TakeLast
  <2>3. IsInjective(idle')
    BY <1>1, <2>1, <2>2 DEF Owned, TypeOK
  <2>4. \A c \in Conn : link'[c].state = "none" => link'[c].wire = <<>> /\ link'[c].asked = <<>>
    BY <1>1, <2>1, <2>2 DEF Owned, TypeOK
  <2>5. \A u \in Task : Seeking(u)' => conn'[u] = NoConn
    BY <1>1, <2>1, <2>2 DEF Owned, TypeOK
  <2>6. \A u \in Task :
          Seeking(u)' \/ (Using(u)' /\ conn'[u] # u) => link'[u].state = "none"
    BY <1>1, <2>1, <2>2 DEF Owned, TypeOK
  <2>7. \A u \in Task : conn'[u] # NoConn => link'[conn'[u]].state # "none"
    BY <1>1, <2>1, <2>2 DEF Owned, TypeOK
  <2>8. \A u \in Task : pc'[u] = "ok" => conn'[u] # NoConn
    BY <1>1, <2>1, <2>2 DEF Owned, TypeOK
  <2>9. \A u \in Task : Using(u)' =>
          /\ conn'[u] # NoConn /\ link'[conn'[u]].state # "dropped"
          /\ conn'[u] \notin ToSet(idle')
          /\ \A v \in Task \ {u} : conn'[v] = conn'[u] => pc'[v] = "ok"
    <3> SUFFICES ASSUME NEW u \in Task, Using(u)'
                 PROVE  /\ conn'[u] # NoConn /\ link'[conn'[u]].state # "dropped"
                        /\ conn'[u] \notin ToSet(idle')
                        /\ \A v \in Task \ {u} : conn'[v] = conn'[u] => pc'[v] = "ok"
      OBVIOUS
    <3>1. \A v \in Task \ {t} : conn'[v] = conn[v] /\ pc'[v] = pc[v]
      BY <2>1 DEF TypeOK
    <3>2. conn'[t] = Last(idle) /\ Last(idle) \in Conn
      BY <1>1, <2>1, <2>2 DEF TypeOK
    <3>3. CASE u = t
      BY <1>1, <2>1, <2>2, <3>1, <3>2, <3>3, Http1Assumption DEF Owned
    <3>4. CASE u # t
      <4>1. Using(u) /\ conn'[u] = conn[u]
        BY <3>1, <3>4
      <4>2. /\ conn[u] # NoConn /\ conn[u] \notin ToSet(idle)
            /\ link[conn[u]].state # "dropped"
            /\ \A v \in Task \ {u} : conn[v] = conn[u] => pc[v] = "ok"
        BY <4>1, UsedConnection
      <4> QED BY <2>1, <2>2, <3>1, <3>2, <4>1, <4>2
    <3> QED BY <3>3, <3>4
  <2>10. \A c \in ToSet(idle') :
           /\ link'[c].state \notin {"none", "dropped"}
           /\ \A u \in Task : conn'[u] = c => pc'[u] = "ok"
    BY <1>1, <2>1, <2>2 DEF Owned, TypeOK
  <2> QED BY <2>3, <2>4, <2>5, <2>6, <2>7, <2>8, <2>9, <2>10 DEF Owned
<1>6. CASE CheckoutNone(t)
  <2>1. /\ pc[t] = "checkout" /\ idle' = <<>> /\ conn' = conn
        /\ pc' = [pc EXCEPT ![t] = "cached"]
    BY <1>6 DEF CheckoutNone
  <2>2. /\ \A c \in ToSet(idle) : link'[c].state = "dropped"
        /\ \A c \in ToSet(idle) : link'[c].wire = <<>> /\ link'[c].asked = <<>>
        /\ \A c \in Conn \ ToSet(idle) : link'[c] = link[c]
    BY <1>1, <1>6, DropAll DEF CheckoutNone
  <2>3. IsInjective(idle') /\ ToSet(idle') = {}
    BY <2>1, EmptyPool
  <2>4. IsInjective(idle')
    BY <1>1, <2>1, <2>2, <2>3 DEF Owned, TypeOK
  <2>5. \A c \in Conn : link'[c].state = "none" => link'[c].wire = <<>> /\ link'[c].asked = <<>>
    BY <1>1, <2>1, <2>2, <2>3 DEF Owned, TypeOK
  <2>6. \A u \in Task : Seeking(u)' => conn'[u] = NoConn
    BY <1>1, <2>1, <2>2, <2>3 DEF Owned, TypeOK
  <2>7. \A u \in Task :
          Seeking(u)' \/ (Using(u)' /\ conn'[u] # u) => link'[u].state = "none"
    <3>1. \A u \in Task : link[u].state = "none" => u \in Conn /\ u \notin ToSet(idle)
      BY DEF Owned, Conn
    <3>2. \A u \in Task :
            Seeking(u)' \/ (Using(u)' /\ conn'[u] # u) => link[u].state = "none"
      BY <2>1 DEF Owned, TypeOK
    <3> QED BY <2>2, <3>1, <3>2
  <2>8. \A u \in Task : conn'[u] # NoConn => link'[conn'[u]].state # "none"
    <3>1. \A u \in Task : conn[u] # NoConn => conn[u] \in Conn /\ link[conn[u]].state # "none"
      BY DEF Owned, TypeOK
    <3> QED BY <2>1, <2>2, <3>1
  <2>9. \A u \in Task : pc'[u] = "ok" => conn'[u] # NoConn
    BY <1>1, <2>1, <2>2, <2>3 DEF Owned, TypeOK
  <2>10. \A u \in Task : Using(u)' =>
           /\ conn'[u] # NoConn /\ link'[conn'[u]].state # "dropped"
           /\ conn'[u] \notin ToSet(idle')
           /\ \A v \in Task \ {u} : conn'[v] = conn'[u] => pc'[v] = "ok"
    BY <1>1, <2>1, <2>2, <2>3 DEF Owned, TypeOK
  <2>11. \A c \in ToSet(idle') :
           /\ link'[c].state \notin {"none", "dropped"}
           /\ \A u \in Task : conn'[u] = c => pc'[u] = "ok"
    BY <1>1, <2>1, <2>2, <2>3 DEF Owned, TypeOK
  <2> QED BY <2>4, <2>5, <2>6, <2>7, <2>8, <2>9, <2>10, <2>11 DEF Owned
<1>7. CASE ReturnIdle(t)
  <2>1. /\ pc[t] = "return" /\ pc' = [pc EXCEPT ![t] = "ok"] /\ conn' = conn
    BY <1>7 DEF ReturnIdle
  <2>2. /\ conn[t] \in Conn /\ conn[t] \notin ToSet(idle)
        /\ link[conn[t]].state \notin {"none", "dropped"}
        /\ \A u \in Task \ {t} : conn[u] = conn[t] => pc[u] = "ok"
    BY <2>1, UsedConnection
  <2>3. CASE Len(idle) >= MaxIdle
    BY <1>7, <2>1, <2>3, OwnedClose DEF ReturnIdle
  <2>4. CASE ~(Len(idle) >= MaxIdle)
    <3>1. idle' = Append(idle, conn[t]) /\ link' = link
      BY <1>7, <2>4 DEF ReturnIdle
    <3>2. IsInjective(idle') /\ ToSet(idle') = ToSet(idle) \cup {conn[t]}
      BY <1>1, <2>2, <3>1, PutLast
    <3>3. IsInjective(idle')
      BY <1>1, <2>1, <2>2, <3>1, <3>2 DEF Owned, TypeOK
    <3>4. \A c \in Conn : link'[c].state = "none" => link'[c].wire = <<>> /\ link'[c].asked = <<>>
      BY <1>1, <2>1, <2>2, <3>1, <3>2 DEF Owned, TypeOK
    <3>5. \A u \in Task : Seeking(u)' => conn'[u] = NoConn
      BY <1>1, <2>1, <2>2, <3>1, <3>2 DEF Owned, TypeOK
    <3>6. \A u \in Task :
            Seeking(u)' \/ (Using(u)' /\ conn'[u] # u) => link'[u].state = "none"
      BY <1>1, <2>1, <2>2, <3>1, <3>2 DEF Owned, TypeOK
    <3>7. \A u \in Task : conn'[u] # NoConn => link'[conn'[u]].state # "none"
      BY <1>1, <2>1, <2>2, <3>1, <3>2 DEF Owned, TypeOK
    <3>8. \A u \in Task : pc'[u] = "ok" => conn'[u] # NoConn
      BY <1>1, <2>1, <2>2, <3>1, <3>2 DEF Owned, TypeOK
    <3>9. \A u \in Task : Using(u)' =>
            /\ conn'[u] # NoConn /\ link'[conn'[u]].state # "dropped"
            /\ conn'[u] \notin ToSet(idle')
            /\ \A v \in Task \ {u} : conn'[v] = conn'[u] => pc'[v] = "ok"
      BY <1>1, <2>1, <2>2, <3>1, <3>2 DEF Owned, TypeOK
    <3>10. \A c \in ToSet(idle') :
             /\ link'[c].state \notin {"none", "dropped"}
             /\ \A u \in Task : conn'[u] = c => pc'[u] = "ok"
      BY <1>1, <2>1, <2>2, <3>1, <3>2 DEF Owned, TypeOK
    <3> QED BY <3>3, <3>4, <3>5, <3>6, <3>7, <3>8, <3>9, <3>10 DEF Owned
  <2> QED BY <2>3, <2>4
<1>8. CASE Dial(t)
  <2>1. /\ pc[t] = "dial" /\ conn' = [conn EXCEPT ![t] = t] /\ idle' = idle
        /\ \E w \in {"write", "note"} : pc' = [pc EXCEPT ![t] = w]
        /\ link'[t].state = "up"
        /\ \A c \in Conn \ {t} : link'[c] = link[c]
    BY <1>1, <1>8 DEF Dial, TypeOK
  <2>2. link[t].state = "none" /\ t \notin ToSet(idle) /\ conn[t] = NoConn
    BY <2>1 DEF Owned
  <2>3. \A u \in Task : conn[u] # t
    BY <1>1, <2>2 DEF Owned
  <2>4. IsInjective(idle')
    BY <1>1, <2>1, <2>2, <2>3 DEF Owned, TypeOK
  <2>5. \A c \in Conn : link'[c].state = "none" => link'[c].wire = <<>> /\ link'[c].asked = <<>>
    <3>1. \A c \in Conn : link'[c].state = "none" => link'[c] = link[c]
      BY <2>1
    <3> QED BY <3>1 DEF Owned
  <2>6. \A u \in Task : Seeking(u)' => conn'[u] = NoConn
    BY <1>1, <2>1, <2>2, <2>3 DEF Owned, TypeOK
  <2>7. \A u \in Task :
          Seeking(u)' \/ (Using(u)' /\ conn'[u] # u) => link'[u].state = "none"
    <3>1. conn'[t] = t /\ pc'[t] \in {"write", "note"}
      BY <2>1 DEF TypeOK
    <3>2. \A u \in Task \ {t} : u \in Conn /\ conn'[u] = conn[u] /\ pc'[u] = pc[u]
      BY <2>1 DEF TypeOK, Conn
    <3> QED BY <2>1, <3>1, <3>2 DEF Owned
  <2>8. \A u \in Task : conn'[u] # NoConn => link'[conn'[u]].state # "none"
    BY <1>1, <2>1, <2>2, <2>3 DEF Owned, TypeOK
  <2>9. \A u \in Task : pc'[u] = "ok" => conn'[u] # NoConn
    BY <1>1, <2>1, <2>2, <2>3 DEF Owned, TypeOK
  <2>10. \A u \in Task : Using(u)' =>
           /\ conn'[u] # NoConn /\ link'[conn'[u]].state # "dropped"
           /\ conn'[u] \notin ToSet(idle')
           /\ \A v \in Task \ {u} : conn'[v] = conn'[u] => pc'[v] = "ok"
    BY <1>1, <2>1, <2>2, <2>3 DEF Owned, TypeOK
  <2>11. \A c \in ToSet(idle') :
           /\ link'[c].state \notin {"none", "dropped"}
           /\ \A u \in Task : conn'[u] = c => pc'[u] = "ok"
    BY <1>1, <2>1, <2>2, <2>3 DEF Owned, TypeOK
  <2> QED BY <2>4, <2>5, <2>6, <2>7, <2>8, <2>9, <2>10, <2>11 DEF Owned
<1>9. CASE WriteFails(t) \/ ReadFails(t)
  BY <1>2, <1>9 DEF WriteFails, ReadFails
<1>10. ASSUME pc[t] = "read", pc' = [pc EXCEPT ![t] = "ok"], UNCHANGED <<idle, conn>>,
              Drop({conn[t]})
       PROVE  Owned'
  BY <1>10, OwnedClose
<1>11. CASE ReadEnd(t)
  BY <1>2, <1>10, <1>11 DEF ReadEnd
<1>12. CASE Respond(t)
  <2>1. CASE Keep(buf[t])
    <3>1. /\ pc[t] = "read" /\ pc' = [pc EXCEPT ![t] = "return"]
          /\ UNCHANGED <<idle, conn, link>>
      BY <1>12, <2>1 DEF Respond
    <3> QED BY <3>1, OwnedFrame DEF TypeOK
  <2>2. CASE ~Keep(buf[t])
    BY <1>10, <1>12, <2>2 DEF Respond
  <2> QED BY <2>1, <2>2
<1> QED
  BY <1>3, <1>4, <1>5, <1>6, <1>7, <1>8, <1>9, <1>11, <1>12 DEF Step

-----------------------------------------------------------------------------
(* What tasks have read, and where they look for addresses                 *)

\* A step of a task changes the local variables of no other.
LEMMA OthersStay ==
  ASSUME TypeOK, NEW t \in Task, Step(t), NEW u \in Task, u # t
  PROVE  pc'[u] = pc[u] /\ conn'[u] = conn[u] /\ trying'[u] = trying[u] /\ buf'[u] = buf[u]
<1>1. ASSUME ExchangeFails(t)
      PROVE  pc'[u] = pc[u] /\ conn'[u] = conn[u] /\ trying'[u] = trying[u] /\ buf'[u] = buf[u]
  BY <1>1 DEF ExchangeFails, TypeOK
<1>2. CASE Checkout(t) \/ CheckoutNone(t) \/ ReturnIdle(t)
  BY <1>2 DEF Checkout, CheckoutNone, ReturnIdle, TypeOK
<1>3. CASE CachedAddr(t) \/ LookupHost(t) \/ Dial(t) \/ DialFails(t) \/ Forget(t) \/ Note(t)
  BY <1>3 DEF CachedAddr, LookupHost, Dial, DialFails, Forget, Note, TypeOK
<1>4. CASE Write(t) \/ Read(t) \/ Respond(t)
  BY <1>4 DEF Write, Read, Respond, TypeOK
<1>5. CASE WriteFails(t) \/ ReadFails(t)
  BY <1>1, <1>5 DEF WriteFails, ReadFails
<1>6. CASE ReadEnd(t)
  BY <1>1, <1>6 DEF ReadEnd, TypeOK
<1> QED BY <1>2, <1>3, <1>4, <1>5, <1>6 DEF Step

\* A connection that was closed by the client stays closed.
LEMMA DroppedStays ==
  ASSUME TypeOK, Owned, NEW c \in Conn, link[c].state = "dropped",
         (\E t \in Task : Step(t)) \/ (\E d \in Conn : Answer(d) \/ Cut(d))
  PROVE  link'[c].state = "dropped"
<1>1. ASSUME NEW C \in SUBSET Conn, Drop(C) PROVE link'[c].state = "dropped"
  BY <1>1, DropAll
<1>2. CASE \E d \in Conn : Answer(d) \/ Cut(d)
  BY <1>2 DEF Answer, Cut, TypeOK
<1>3. ASSUME NEW t \in Task, Step(t) PROVE link'[c].state = "dropped"
  <2>1. CASE link' = link
    BY <2>1
  <2>2. CASE Dial(t)
    <3>1. link[t].state = "none" /\ t \in Conn
      BY <2>2 DEF Dial, Owned, Seeking, Conn
    <3> QED BY <2>2, <3>1 DEF Dial, TypeOK
  <2>3. CASE Write(t) \/ Read(t)
    <3>1. conn[t] \in Conn
      BY <2>3, UsedConnection DEF Write, Read, Using
    <3>2. CASE Write(t)
      BY <3>1, <3>2 DEF Write, TypeOK
    <3>3. CASE Read(t)
      BY <3>1, <3>3 DEF Read, TypeOK
    <3> QED BY <2>3, <3>2, <3>3
  <2>4. CASE CheckoutNone(t)
    <3>1. ToSet(idle) \subseteq Conn
      BY PoolType, LenProperties DEF ToSet
    <3> QED BY <1>1, <2>4, <3>1 DEF CheckoutNone
  <2>5. ASSUME Using(t), Drop({conn[t]}) PROVE link'[c].state = "dropped"
    BY <1>1, <2>5, UsedConnection
  <2>6. CASE \/ Checkout(t) \/ CachedAddr(t) \/ LookupHost(t) \/ DialFails(t)
             \/ Forget(t) \/ Note(t)
    BY <2>1, <2>6 DEF Checkout, CachedAddr, LookupHost, DialFails, Forget, Note
  <2>7. CASE ReturnIdle(t) \/ Respond(t)
    BY <2>1, <2>5, <2>7 DEF ReturnIdle, Respond, Using
  <2>8. CASE WriteFails(t) \/ ReadEnd(t) \/ ReadFails(t)
    BY <2>1, <2>5, <2>8 DEF WriteFails, ReadEnd, ReadFails, ExchangeFails, Using
  <2> QED BY <1>3, <2>2, <2>3, <2>4, <2>6, <2>7, <2>8 DEF Step
<1> QED BY <1>2, <1>3

LEMMA BuffersInit == Init => Buffers /\ Dialled
BY DEF Init, Buffers, BufferOf, Dialled, DialledBy

LEMMA BuffersServer ==
  ASSUME TypeOK, Owned, Buffers, Dialled, NEW c \in Conn, Answer(c) \/ Cut(c)
  PROVE  Buffers' /\ Dialled'
<1>1. UNCHANGED <<pc, conn, trying, buf>>
  BY DEF Answer, Cut
<1>2. \A t \in Task : pc[t] = "ok" => conn[t] \in Conn
  BY DEF TypeOK, Owned
<1>3. \A d \in Conn : link[d].state = "dropped" => link'[d].state = "dropped"
  BY DroppedStays
<1>4. Buffers'
  BY <1>1, <1>2, <1>3 DEF Buffers, BufferOf
<1>5. Dialled'
  BY <1>1 DEF Dialled, DialledBy
<1> QED BY <1>4, <1>5

LEMMA BuffersStep ==
  ASSUME TypeOK, Owned, Buffers, NEW t \in Task, Step(t)
  PROVE  Buffers'
<1>1. ASSUME NEW u \in Task, u # t PROVE BufferOf(u)'
  <2>1. pc'[u] = pc[u] /\ conn'[u] = conn[u] /\ buf'[u] = buf[u]
    BY <1>1, OthersStay
  <2>2. pc[u] = "ok" => conn[u] \in Conn
    BY DEF TypeOK, Owned
  <2>3. pc[u] = "ok" /\ link[conn[u]].state = "dropped" => link'[conn[u]].state = "dropped"
    BY <2>2, DroppedStays
  <2> QED BY <2>1, <2>3 DEF Buffers, BufferOf
<1>2. BufferOf(t)
  BY DEF Buffers
<1>3. BufferOf(t)'
  <2> USE <1>2 DEF BufferOf
  <2>1. ASSUME ExchangeFails(t) PROVE BufferOf(t)'
    BY <2>1 DEF ExchangeFails, TypeOK
  <2>2. CASE Checkout(t) \/ CheckoutNone(t)
    BY <2>2 DEF Checkout, CheckoutNone, TypeOK
  <2>3. CASE CachedAddr(t) \/ LookupHost(t) \/ Dial(t) \/ DialFails(t) \/ Forget(t) \/ Note(t)
    BY <2>3 DEF CachedAddr, LookupHost, Dial, DialFails, Forget, Note, TypeOK
  <2>4. CASE ReturnIdle(t)
    BY <2>4 DEF ReturnIdle, TypeOK
  <2>5. CASE Write(t)
    BY <2>5 DEF Write, TypeOK
  <2>6. CASE Read(t)
    BY <2>6 DEF Read, TypeOK
  <2>7. CASE WriteFails(t) \/ ReadFails(t)
    BY <2>1, <2>7 DEF WriteFails, ReadFails
  <2>8. ASSUME pc[t] = "read", Drop({conn[t]}), conn' = conn PROVE link'[conn'[t]].state = "dropped"
    BY <2>8, UsedConnection, DropAll DEF Using
  <2>9. CASE ReadEnd(t)
    <3>1. CASE EndsBody(buf[t])
      BY <2>8, <2>9, <3>1 DEF ReadEnd, EndsBody, TypeOK
    <3> QED BY <2>1, <2>9, <3>1 DEF ReadEnd
  <2>10. CASE Respond(t)
    <3>1. CASE Keep(buf[t])
      BY <2>10, <3>1 DEF Respond, Framed, TypeOK
    <3>2. CASE ~Keep(buf[t])
      BY <2>8, <2>10, <3>2 DEF Respond, Framed, TypeOK
    <3> QED BY <3>1, <3>2
  <2> QED BY <2>2, <2>3, <2>4, <2>5, <2>6, <2>7, <2>9, <2>10 DEF Step
<1> QED BY <1>1, <1>3 DEF Buffers

LEMMA DialledStep ==
  ASSUME TypeOK, Owned, Dialled, NEW t \in Task, Step(t)
  PROVE  Dialled'
<1>1. ASSUME NEW u \in Task, u # t PROVE DialledBy(u)'
  BY <1>1, OthersStay DEF Dialled, DialledBy
<1>2. DialledBy(t) /\ trying[t] \in [from : {"nowhere", "cache", "lookup"}, left : Seq(Addr)]
  BY DEF Dialled, TypeOK
<1>3. DialledBy(t)'
  <2> USE <1>2 DEF DialledBy
  <2>1. ASSUME ExchangeFails(t) PROVE DialledBy(t)'
    BY <2>1 DEF ExchangeFails, TypeOK
  <2>2. CASE Checkout(t) \/ CheckoutNone(t) \/ ReturnIdle(t) \/ Forget(t) \/ Note(t)
    BY <2>2 DEF Checkout, CheckoutNone, ReturnIdle, Forget, Note, TypeOK
  <2>3. CASE CachedAddr(t)
    <3>1. CASE pc'[t] = "lookup"
      BY <3>1
    <3>2. CASE /\ trying' = [trying EXCEPT ![t] = [from |-> "cache", left |-> <<dns>>]]
               /\ pc' = [pc EXCEPT ![t] = "dial"]
      <4>1. trying'[t] = [from |-> "cache", left |-> <<dns>>] /\ pc'[t] = "dial"
        BY <3>2 DEF TypeOK
      <4>2. <<dns>> # <<>>
        OBVIOUS
      <4> QED BY <4>1, <4>2
    <3> QED BY <2>3, <3>1, <3>2 DEF CachedAddr, TypeOK
  <2>4. CASE LookupHost(t)
    <3>1. conn[t] = NoConn
      BY <2>4 DEF LookupHost, Owned, Seeking
    <3>2. PICK addrs \in Lookups \cup {<<>>} :
            /\ trying' = [trying EXCEPT ![t] = [from |-> "lookup", left |-> addrs]]
            /\ pc' = [pc EXCEPT ![t] = IF addrs = <<>> THEN "failed" ELSE "dial"]
      BY <2>4 DEF LookupHost
    <3>3. trying'[t] = [from |-> "lookup", left |-> addrs] /\ conn'[t] = NoConn
      BY <2>4, <3>1, <3>2 DEF LookupHost, TypeOK
    <3>4. pc'[t] = IF addrs = <<>> THEN "failed" ELSE "dial"
      BY <3>2 DEF TypeOK
    <3> QED BY <3>3, <3>4
  <2>5. CASE Dial(t)
    BY <2>5 DEF Dial, TypeOK
  <2>6. CASE DialFails(t)
    <3>1. /\ conn[t] = NoConn /\ conn' = conn /\ pc[t] = "dial"
          /\ trying' = [trying EXCEPT ![t].left = Tail(@)]
          /\ pc'[t] = IF trying[t].from = "cache" THEN "forget"
                      ELSE IF Len(trying[t].left) > 1 THEN "dial" ELSE "failed"
      BY <2>6 DEF DialFails, Owned, Seeking, TypeOK
    <3>2. trying'[t] = [from |-> trying[t].from, left |-> Tail(trying[t].left)]
      BY <1>2, <3>1 DEF TypeOK
    <3>3. /\ Tail(trying[t].left) \in Seq(Addr)
          /\ Len(Tail(trying[t].left)) = Len(trying[t].left) - 1
          /\ Len(trying[t].left) \in Nat
      BY <1>2, <3>1, HeadTailProperties, LenProperties
    <3>4. Len(trying[t].left) > 1 <=> Tail(trying[t].left) # <<>>
      <4> DEFINE rest == Tail(trying[t].left)
      <4> HIDE DEF rest
      <4>1. rest \in Seq(Addr) => (rest = <<>> <=> Len(rest) = 0)
        BY EmptySeq
      <4>2. rest \in Seq(Addr) /\ Len(rest) = Len(trying[t].left) - 1 /\ Len(trying[t].left) \in Nat
        BY <3>3 DEF rest
      <4>3. Len(trying[t].left) > 1 <=> rest # <<>>
        BY <4>1, <4>2
      <4> QED BY <4>3 DEF rest
    <3> QED BY <1>2, <3>1, <3>2, <3>4
  <2>7. CASE Write(t) \/ Read(t) \/ Respond(t)
    BY <2>7 DEF Write, Read, Respond, TypeOK
  <2>8. CASE WriteFails(t) \/ ReadFails(t)
    BY <2>1, <2>8 DEF WriteFails, ReadFails
  <2>9. CASE ReadEnd(t)
    BY <2>1, <2>9 DEF ReadEnd, TypeOK
  <2> QED BY <2>2, <2>3, <2>4, <2>5, <2>6, <2>7, <2>8, <2>9 DEF Step
<1> QED BY <1>1, <1>3 DEF Dialled

-----------------------------------------------------------------------------
(* What is under way on a connection                                       *)

LEMMA InStepInit == Init => InStep
<1> SUFFICES ASSUME Init PROVE InStep
  OBVIOUS
<1>1. ToSet(idle) \subseteq Conn
  BY OldPool DEF Init, Conn
<1>2. \A c \in Conn : Clear(c)
  BY DEF Init, Clear
<1>3. \A t \in Task : pc[t] = "checkout"
  BY DEF Init
<1> QED BY <1>1, <1>2, <1>3 DEF InStep, Pending, Held, Using, Answered

\* A step of t touches its own connection and those in the pool, no other in use.
LEMMA StepLinks ==
  ASSUME TypeOK, Owned, NEW t \in Task, Step(t)
  PROVE  /\ \A c \in Conn : link'[c].interim = link[c].interim
         /\ \A u \in Task \ {t} : Using(u) => link'[conn[u]] = link[conn[u]]
         /\ \A c \in ToSet(idle') : \/ c \in ToSet(idle) /\ link'[c] = link[c]
                                    \/ c = conn[t] /\ ReturnIdle(t) /\ link' = link
<1>1. /\ idle \in Seq(Conn) /\ ToSet(idle) \subseteq Conn /\ IsInjective(idle)
      /\ t \in Conn
  <2>1. idle \in Seq(Conn) /\ ToSet(idle) \subseteq Conn
    BY PoolType, LenProperties DEF ToSet
  <2> QED BY <2>1 DEF Owned, Conn
<1>2. ASSUME NEW C \in SUBSET Conn, Drop(C)
      PROVE  /\ \A c \in Conn : link'[c].interim = link[c].interim
             /\ \A c \in Conn \ C : link'[c] = link[c]
  BY <1>2, DropAll
<1>3. \A u \in Task \ {t} : Using(u) => /\ conn[u] \in Conn /\ conn[u] \notin ToSet(idle)
                                        /\ link[conn[u]].state # "none"
                                        /\ Using(t) => conn[u] # conn[t]
  <2> SUFFICES ASSUME NEW u \in Task \ {t}, Using(u)
               PROVE  /\ conn[u] \in Conn /\ conn[u] \notin ToSet(idle)
                      /\ link[conn[u]].state # "none"
                      /\ Using(t) => conn[u] # conn[t]
    OBVIOUS
  <2> QED BY UsedConnection DEF Using
<1>4. Using(t) => conn[t] \in Conn /\ conn[t] \notin ToSet(idle)
  BY UsedConnection
<1>5. CASE link' = link /\ (idle' = idle \/ ReturnIdle(t) \/ Checkout(t))
  <2>1. CASE idle' = idle
    BY <1>5, <2>1
  <2>2. CASE ReturnIdle(t) /\ idle' # idle
    <3>1. idle' = Append(idle, conn[t]) /\ conn[t] \in Conn /\ conn[t] \notin ToSet(idle)
      BY <1>4, <2>2 DEF ReturnIdle, Using
    <3>2. ToSet(idle') = ToSet(idle) \cup {conn[t]}
      BY <1>1, <3>1, PutLast
    <3> QED BY <1>5, <2>2, <3>2
  <2>3. CASE Checkout(t)
    <3>1. idle # <<>> /\ idle' = Front(idle)
      BY <2>3 DEF Checkout
    <3>2. ToSet(idle') = ToSet(idle) \ {Last(idle)}
      BY <1>1, <3>1, TakeLast
    <3> QED BY <1>5, <3>2
  <2> QED BY <1>5, <2>1, <2>2, <2>3
<1>6. CASE CheckoutNone(t)
  <2>1. idle' = <<>> /\ Drop(ToSet(idle))
    BY <1>6 DEF CheckoutNone
  <2>2. ToSet(idle') = {}
    BY <2>1, EmptyPool
  <2> QED BY <1>1, <1>2, <1>3, <2>1, <2>2
<1>7. ASSUME Using(t), Drop({conn[t]}), idle' = idle
      PROVE  /\ \A c \in Conn : link'[c].interim = link[c].interim
             /\ \A u \in Task \ {t} : Using(u) => link'[conn[u]] = link[conn[u]]
             /\ \A c \in ToSet(idle') : c \in ToSet(idle) /\ link'[c] = link[c]
  <2>1. {conn[t]} \in SUBSET Conn
    BY <1>4, <1>7
  <2>2. /\ \A c \in Conn : link'[c].interim = link[c].interim
        /\ \A c \in Conn \ {conn[t]} : link'[c] = link[c]
    BY <1>2, <1>7, <2>1
  <2>3. ToSet(idle') = ToSet(idle)
    BY <1>7
  <2> QED BY <1>1, <1>3, <1>4, <1>7, <2>2, <2>3
<1>8. CASE Dial(t) \/ Write(t) \/ Read(t)
  <2> DEFINE c0 == IF Dial(t) THEN t ELSE conn[t]
  <2>1. idle' = idle /\ ToSet(idle') = ToSet(idle)
    BY <1>8 DEF Dial, Write, Read
  <2>2. c0 \in Conn /\ (Dial(t) => link[t].state = "none") /\ (~Dial(t) => Using(t))
    BY <1>1, <1>4, <1>8 DEF Dial, Write, Read, Using, Owned, Seeking
  <2>3. \A c \in Conn \ {c0} : link'[c] = link[c]
    <3>1. CASE Dial(t)
      BY <3>1 DEF Dial, TypeOK
    <3>2. CASE ~Dial(t)
      <4>1. CASE Write(t)
        BY <3>2, <4>1 DEF Write, TypeOK
      <4>2. CASE Read(t)
        BY <3>2, <4>2 DEF Read, TypeOK
      <4> QED BY <1>8, <3>2, <4>1, <4>2
    <3> QED BY <3>1, <3>2
  <2>4. link'[c0].interim = link[c0].interim
    <3>1. CASE Dial(t)
      BY <2>2, <3>1 DEF Dial, TypeOK
    <3>2. CASE Write(t) /\ ~Dial(t)
      BY <2>2, <3>2 DEF Write, TypeOK
    <3>3. CASE Read(t) /\ ~Dial(t)
      BY <2>2, <3>3 DEF Read, TypeOK
    <3> QED BY <1>8, <3>1, <3>2, <3>3
  <2>5. c0 \notin ToSet(idle)
    <3>1. \A c \in ToSet(idle) : link[c].state # "none"
      BY DEF Owned
    <3> QED BY <1>4, <2>2, <3>1
  <2>6. \A u \in Task \ {t} : Using(u) => conn[u] # c0 /\ conn[u] \in Conn
    BY <1>3, <2>2
  <2> HIDE DEF c0
  <2> QED BY <1>1, <2>1, <2>3, <2>4, <2>5, <2>6
<1>9. CASE Checkout(t)
  BY <1>5, <1>9 DEF Checkout
<1>10. CASE CachedAddr(t) \/ LookupHost(t) \/ DialFails(t) \/ Forget(t) \/ Note(t)
  BY <1>5, <1>10 DEF CachedAddr, LookupHost, DialFails, Forget, Note
<1>11. CASE ReturnIdle(t) \/ Respond(t)
  BY <1>5, <1>7, <1>11 DEF ReturnIdle, Respond, Using
<1>12. CASE WriteFails(t) \/ ReadEnd(t) \/ ReadFails(t)
  BY <1>5, <1>7, <1>12 DEF WriteFails, ReadEnd, ReadFails, ExchangeFails, Using
<1> QED BY <1>6, <1>8, <1>9, <1>10, <1>11, <1>12 DEF Step

LEMMA OthersInStep ==
  ASSUME TypeOK, Owned, InStep, NEW t \in Task, Step(t), NEW u \in Task, u # t
  PROVE  Pending(u)' /\ Held(u)'
<1>1. pc'[u] = pc[u] /\ conn'[u] = conn[u] /\ buf'[u] = buf[u]
  BY OthersStay
<1>2. Using(u) \/ Answered(u) => conn[u] \in Conn
  BY UsedConnection DEF Owned, TypeOK, Using, Answered
<1>3. Using(u) => link'[conn[u]] = link[conn[u]]
  BY StepLinks
<1>4. Answered(u) => link'[conn[u]].interim = link[conn[u]].interim
  BY <1>2, StepLinks
<1>5. Pending(u) /\ Held(u)
  BY DEF InStep
<1>6. Pending(u)'
  BY <1>1, <1>3, <1>5 DEF Pending, Using, Clear, Unanswered, Answering
<1>7. Held(u)'
  BY <1>1, <1>4, <1>5 DEF Held, Answered, Holds
<1> QED BY <1>6, <1>7

\* What t reads of its answer.
LEMMA ReadInStep ==
  ASSUME TypeOK, Owned, InStep, NEW t \in Task, Read(t)
  PROVE  Pending(t)'
<1>1. /\ pc[t] = "read" /\ pc' = pc /\ conn' = conn /\ conn[t] \in Conn
  BY UsedConnection DEF Read, Using
<1> DEFINE b == buf[t]
           w == link[conn[t]].wire
<1>2. b \in Seq(Token) /\ w \in Seq(Token) /\ Len(b) \in Nat /\ Len(w) \in Nat
  BY <1>1, LenProperties DEF TypeOK
<1>3. PICK k \in 1..Len(w) :
        /\ buf' = [buf EXCEPT ![t] = @ \o SubSeq(w, 1, k)]
        /\ link' = [link EXCEPT ![conn[t]].wire = SubSeq(@, k + 1, Len(@))]
  BY DEF Read
<1> DEFINE x == SubSeq(w, 1, k)
           y == SubSeq(w, k + 1, Len(w))
<1>4. /\ x \in Seq(Token) /\ Len(x) = k /\ \A i \in 1..k : x[i] = w[i]
      /\ y \in Seq(Token) /\ Len(y) = Len(w) - k /\ \A i \in 1..(Len(w) - k) : y[i] = w[k + i]
  <2>1. x \in Seq(Token) /\ Len(x) = k /\ \A i \in 1..k : x[i] = w[i]
    BY <1>2, SubSeqProperties
  <2>2. CASE k < Len(w)
    <3>1. PICK v, m : v = w /\ m = Len(v)
      OBVIOUS
    <3>2. v \in Seq(Token) /\ m \in Nat /\ k + 1 \in 1..m + 1 /\ m \in k..m /\ k \in 1..m
      BY <1>2, <2>2, <3>1
    <3> DEFINE z == SubSeq(v, k + 1, m)
    <3>3. z \in Seq(Token)
      BY <3>1, <3>2, SubSeqProperties
    <3>4. Len(z) = m - k
      BY <3>1, <3>2, SubSeqProperties
    <3>5. ASSUME NEW i \in 1..(m - k) PROVE z[i] = v[k + i]
      <4>1. \A j \in (k + 1)..m : v[j] \in Token
        BY <3>1, <3>2
      <4>2. \A j \in 1..((m - (k + 1)) + 1) : z[j] = v[((k + 1) + j) - 1]
        BY <3>2, <4>1, SubSeqProperties
      <4>3. i \in 1..((m - (k + 1)) + 1) /\ ((k + 1) + i) - 1 = k + i
        BY <3>2
      <4> QED BY <4>2, <4>3
    <3>6. y = z
      BY <3>1
    <3> HIDE DEF z
    <3> QED BY <2>1, <3>1, <3>3, <3>4, <3>5, <3>6
  <2>3. CASE k = Len(w)
    <3>1. y = <<>>
      BY <1>2, <2>3, SubSeqProperties
    <3> QED BY <2>1, <2>3, <3>1, <1>2
  <2> QED BY <2>2, <2>3, <1>2
<1>5. /\ buf'[t] = b \o x /\ link'[conn[t]].wire = y
      /\ link'[conn[t]].asked = link[conn[t]].asked
      /\ link'[conn[t]].state = link[conn[t]].state
      /\ link'[conn[t]].interim = link[conn[t]].interim
  BY <1>1, <1>3 DEF TypeOK
<1> HIDE DEF b, w, x, y
<1>6. /\ Len(b \o x) = Len(b) + k
      /\ \A i \in 1..(Len(b) + k) : (b \o x)[i] = IF i <= Len(b) THEN b[i] ELSE x[i - Len(b)]
  BY <1>2, <1>4, ConcatProperties
<1>7. SUFFICES ASSUME ~link[conn[t]].interim
               PROVE  \E r \in Answers : Answering(t, r)'
  BY <1>1, <1>5 DEF Pending
<1>8. w # <<>>
  <2>1. w = <<>> => Len(w) = 0
    OBVIOUS
  <2> QED BY <1>2, <2>1
<1>9. PICK r \in Answers : Answering(t, r)
  BY <1>1, <1>7, <1>8 DEF InStep, Pending, Using, Unanswered, w
<1>10. /\ Len(b) + Len(w) <= Total(r)
       /\ \A i \in 1..Len(b) : b[i] = TokenAt(t, r, i)
       /\ \A i \in 1..Len(w) : w[i] = TokenAt(t, r, Len(b) + i)
  BY <1>9 DEF Answering, b, w
<1>11. \A i \in 1..(Len(b) + k) : (b \o x)[i] = TokenAt(t, r, i)
  <2> SUFFICES ASSUME NEW i \in 1..(Len(b) + k) PROVE (b \o x)[i] = TokenAt(t, r, i)
    OBVIOUS
  <2>1. CASE i <= Len(b)
    BY <1>2, <1>6, <1>10, <2>1
  <2>2. CASE i > Len(b)
    <3> DEFINE j == i - Len(b)
    <3>1. j \in 1..k /\ j \in 1..Len(w) /\ Len(b) + j = i
      BY <1>2, <2>2
    <3>2. x[j] = w[j] /\ w[j] = TokenAt(t, r, Len(b) + j)
      BY <1>4, <1>10, <3>1
    <3>3. (b \o x)[i] = x[j]
      BY <1>2, <1>6, <2>2
    <3> HIDE DEF j
    <3> QED BY <3>1, <3>2, <3>3
  <2>3. k \in Int /\ Len(b) \in Int
    BY <1>2
  <2>4. i <= Len(b) \/ i > Len(b)
    BY <2>3
  <2> QED BY <2>1, <2>2, <2>4
<1>12. \A i \in 1..Len(y) : y[i] = TokenAt(t, r, Len(b) + k + i)
  <2> SUFFICES ASSUME NEW i \in 1..Len(y) PROVE y[i] = TokenAt(t, r, Len(b) + k + i)
    OBVIOUS
  <2>1. k + i \in 1..Len(w) /\ i \in 1..(Len(w) - k)
    BY <1>2, <1>4
  <2>2. y[i] = w[k + i] /\ w[k + i] = TokenAt(t, r, Len(b) + (k + i))
    BY <1>4, <1>10, <2>1
  <2>3. Len(b) + (k + i) = Len(b) + k + i
    BY <1>2, <1>4
  <2> QED BY <2>2, <2>3
<1>13. Len(buf'[t]) + Len(y) = Len(b) + Len(w) /\ Len(buf'[t]) = Len(b) + k
  BY <1>2, <1>4, <1>5, <1>6
<1>14. Answering(t, r)'
  BY <1>1, <1>5, <1>9, <1>10, <1>11, <1>12, <1>13 DEF Answering, b, w
<1> QED BY <1>14

LEMMA StepInStep ==
  ASSUME TypeOK, Owned, Buffers, InStep, NEW t \in Task, Step(t)
  PROVE  Pending(t)' /\ Held(t)'
<1>1. /\ Pending(t) /\ Held(t) /\ BufferOf(t) /\ t \in Conn
      /\ pc[t] \in Place
  BY DEF InStep, Buffers, Conn, TypeOK
<1>2. Using(t) => conn[t] \in Conn
  BY UsedConnection
<1>3. \A c \in Conn : link'[c].interim = link[c].interim
  BY StepLinks
<1> USE DEF Using, Answered
<1>4. ASSUME pc'[t] \notin {"note", "write", "read", "return", "ok"}
      PROVE  Pending(t)' /\ Held(t)'
  BY <1>4 DEF Pending, Held
<1>5. CASE Checkout(t)
  <2>1. /\ pc'[t] = "write" /\ conn'[t] = Last(idle) /\ link' = link /\ idle # <<>>
    BY <1>5 DEF Checkout, TypeOK
  <2>2. Last(idle) \in ToSet(idle)
    BY <2>1, PoolType, TakeLast DEF Owned
  <2>3. ~link[Last(idle)].interim => Clear(Last(idle))
    BY <2>2 DEF InStep
  <2> QED BY <2>1, <2>3 DEF Pending, Held, Clear
<1>6. CASE CheckoutNone(t) \/ CachedAddr(t) \/ LookupHost(t) \/ DialFails(t) \/ Forget(t)
  BY <1>4, <1>6 DEF CheckoutNone, CachedAddr, LookupHost, DialFails, Forget, TypeOK
<1>7. ASSUME ExchangeFails(t) PROVE Pending(t)' /\ Held(t)'
  BY <1>4, <1>7 DEF ExchangeFails, TypeOK
<1>8. CASE WriteFails(t) \/ ReadFails(t)
  BY <1>7, <1>8 DEF WriteFails, ReadFails
<1>9. CASE ReturnIdle(t)
  <2>1. pc[t] = "return" /\ pc'[t] = "ok" /\ conn' = conn /\ buf' = buf
    BY <1>9 DEF ReturnIdle, TypeOK
  <2> QED BY <1>1, <1>2, <1>3, <2>1 DEF Pending, Held, Holds
<1>10. CASE Note(t)
  <2>1. /\ pc[t] = "note" /\ pc'[t] = "write" /\ conn' = conn /\ link' = link
    BY <1>10 DEF Note, TypeOK
  <2> QED BY <1>1, <2>1 DEF Pending, Held, Clear
<1>11. CASE Dial(t)
  <2>1. pc[t] = "dial" /\ conn'[t] = t /\ pc'[t] \in {"write", "note"}
    BY <1>11 DEF Dial, TypeOK
  <2>2. link[t].wire = <<>> /\ link[t].asked = <<>>
    BY <1>1, <2>1 DEF Owned, Seeking
  <2>3. link'[t].wire = <<>> /\ link'[t].asked = <<>>
    BY <1>1, <1>11, <2>2 DEF Dial, TypeOK
  <2> QED BY <2>1, <2>3 DEF Pending, Held, Clear
<1>12. CASE Write(t)
  <2>1. pc[t] = "write" /\ pc'[t] = "read" /\ conn' = conn /\ buf' = buf
    BY <1>12 DEF Write, TypeOK
  <2>2. link' = [link EXCEPT ![conn[t]].asked = IF link[conn[t]].state = "up"
                                                THEN Append(@, t) ELSE @]
    BY <1>12 DEF Write
  <2>3. /\ link'[conn[t]].wire = link[conn[t]].wire
        /\ link'[conn[t]].asked \in {link[conn[t]].asked, Append(link[conn[t]].asked, t)}
    BY <1>2, <2>1, <2>2 DEF TypeOK
  <2>4. Append(<<>>, t) = <<t>>
    OBVIOUS
  <2>5. ~link[conn[t]].interim => Unanswered(t)'
    <3> SUFFICES ASSUME ~link[conn[t]].interim PROVE Unanswered(t)'
      OBVIOUS
    <3>1. Clear(conn[t]) /\ buf[t] = <<>>
      BY <1>1, <2>1 DEF Pending, BufferOf
    <3> QED BY <2>1, <2>3, <2>4, <3>1 DEF Clear, Unanswered
  <2> QED BY <1>2, <1>3, <2>1, <2>5 DEF Pending, Held
<1>13. CASE Read(t)
  <2>1. pc'[t] = "read"
    BY <1>13 DEF Read
  <2> QED BY <1>13, <2>1, ReadInStep DEF Held
<1> DEFINE Part(r) == /\ Answering(t, r)
                      /\ Len(buf[t]) <= Total(r) /\ buf[t] \in Seq(Token)
                      /\ buf[t] # <<>> => buf[t][1] = HeadOf(t, r)
<1>14. ASSUME NEW r \in Answers, Answering(t, r), pc[t] = "read" PROVE Part(r)
  <2> DEFINE b == buf[t]
             w == link[conn[t]].wire
  <2>1. b \in Seq(Token) /\ w \in Seq(Token) /\ Len(b) \in Nat /\ Len(w) \in Nat /\ Total(r) \in Nat
    BY <1>2, <1>14, LenProperties, TotalType DEF TypeOK
  <2>2. Len(b) + Len(w) <= Total(r) /\ \A i \in 1..Len(b) : b[i] = TokenAt(t, r, i)
    BY <1>14 DEF Answering
  <2>3. b # <<>> => Len(b) # 0
    BY <2>1, EmptySeq
  <2> HIDE DEF b, w
  <2>4. b # <<>> => b[1] = HeadOf(t, r)
    BY <2>1, <2>2, <2>3 DEF TokenAt
  <2>5. Len(b) <= Total(r)
    BY <2>1, <2>2
  <2> QED BY <1>14, <2>1, <2>4, <2>5 DEF b
<1> HIDE DEF Part
<1>15. CASE ReadEnd(t)
  <2>1. CASE EndsBody(buf[t])
    <3>1. pc[t] = "read" /\ pc'[t] = "ok" /\ conn' = conn /\ buf' = buf
      BY <1>15, <2>1 DEF ReadEnd, TypeOK
    <3>2. buf[t] # <<>> /\ buf[t][1].shape = "until_close"
      BY <2>1 DEF EndsBody
    <3>3. ASSUME ~link[conn[t]].interim PROVE \E r \in Answers : Holds(t, r)
      <4>1. PICK r \in Answers : Answering(t, r)
        BY <1>1, <3>1, <3>2, <3>3 DEF Pending, Unanswered
      <4>2. Part(r)
        BY <1>14, <3>1, <4>1
      <4>3. r.shape = "until_close"
        BY <3>2, <4>2 DEF Part, HeadOf
      <4> QED BY <3>2, <4>1, <4>2, <4>3 DEF Holds, Part, Answering
    <3>4. (\E r \in Answers : Holds(t, r)) => (\E r \in Answers : Holds(t, r)')
      BY <3>1 DEF Holds
    <3> QED BY <1>2, <1>3, <3>1, <3>3, <3>4 DEF Pending, Held
  <2> QED BY <1>7, <1>15, <2>1 DEF ReadEnd
<1>16. CASE Respond(t)
  <2>1. /\ pc[t] = "read" /\ Framed(buf[t]) /\ buf' = buf /\ conn' = conn
        /\ pc'[t] \in {"return", "ok"} /\ (pc'[t] = "return" => link' = link)
    BY <1>16 DEF Respond, TypeOK
  <2>2. ASSUME ~link[conn[t]].interim
        PROVE  Clear(conn[t]) /\ \E r \in Answers : Holds(t, r)
    <3>1. buf[t] # <<>>
      BY <2>1 DEF Framed
    <3>2. PICK r \in Answers : Answering(t, r)
      BY <1>1, <2>1, <2>2, <3>1 DEF Pending, Unanswered
    <3>3. Part(r)
      BY <1>14, <2>1, <3>2
    <3> DEFINE w == link[conn[t]].wire
    <3>4. Len(buf[t]) = Total(r) /\ r.shape # "bad"
      BY <2>1, <3>2, <3>3, FramedIsWhole DEF Part, Answering
    <3>5. w \in Seq(Token) /\ Len(w) \in Nat /\ Total(r) \in Nat
      BY <1>2, <2>1, TotalType, LenProperties DEF TypeOK
    <3>6. Len(buf[t]) + Len(w) <= Total(r) /\ link[conn[t]].asked = <<>>
      BY <3>2 DEF Answering
    <3> HIDE DEF w
    <3>7. Len(w) = 0
      BY <3>4, <3>5, <3>6
    <3>8. w = <<>>
      BY <3>5, <3>7, EmptySeq
    <3>9. Clear(conn[t])
      BY <3>6, <3>8 DEF Clear, w
    <3>10. Holds(t, r)
      BY <3>1, <3>2, <3>3, <3>4 DEF Holds, Part, Answering
    <3> QED BY <3>9, <3>10
  <2>3. (\E r \in Answers : Holds(t, r)) => (\E r \in Answers : Holds(t, r)')
    BY <2>1 DEF Holds
  <2>4. Held(t)'
    BY <1>2, <1>3, <2>1, <2>2, <2>3 DEF Held
  <2>5. Pending(t)'
    BY <2>1, <2>2 DEF Pending, Clear
  <2> QED BY <2>4, <2>5
<1> QED
  BY <1>5, <1>6, <1>8, <1>9, <1>10, <1>11, <1>12, <1>13, <1>15, <1>16 DEF Step

LEMMA TasksKeepStep ==
  ASSUME TypeOK, Owned, Buffers, InStep, NEW t \in Task, Step(t)
  PROVE  InStep'
<1>1. ASSUME NEW c \in ToSet(idle'), ~link'[c].interim PROVE Clear(c)'
  <2>1. CASE c \in ToSet(idle) /\ link'[c] = link[c]
    BY <1>1, <2>1 DEF InStep, Clear
  <2>2. CASE c = conn[t] /\ ReturnIdle(t) /\ link' = link
    <3>1. Pending(t) /\ pc[t] = "return"
      BY <2>2 DEF InStep, ReturnIdle
    <3> QED BY <1>1, <2>2, <3>1 DEF Pending, Using, Clear
  <2> QED BY <2>1, <2>2, StepLinks
<1>2. \A u \in Task : Pending(u)' /\ Held(u)'
  BY OthersInStep, StepInStep
<1> QED BY <1>1, <1>2 DEF InStep

\* The server answers a request of the task that uses the connection, or the
\* connection is out of step.
LEMMA ServerInStep ==
  ASSUME TypeOK, Owned, Buffers, InStep, NEW c \in Conn, Answer(c) \/ Cut(c)
  PROVE  InStep'
<1>1. UNCHANGED <<idle, pc, conn, trying, buf>>
  BY DEF Answer, Cut
<1>2. \A d \in Conn \ {c} : link'[d] = link[d]
  BY DEF Answer, Cut, TypeOK
<1>3. /\ link[c].wire \in Seq(Token) /\ link[c].asked \in Seq(Task)
      /\ Len(link[c].wire) \in Nat /\ link[c].interim \in BOOLEAN
  BY LenProperties DEF TypeOK
<1>4. ToSet(idle) \subseteq Conn
  BY PoolType, LenProperties DEF ToSet
<1>5. CASE Answer(c)
  <2>1. PICK r \in Answers : link' = [link EXCEPT ![c] =
          [state |-> IF r.shape \in {"until_close", "bad"} \/ r.close THEN "closed" ELSE "up",
           asked |-> Tail(@.asked),
           wire |-> @.wire \o Tokens(Head(@.asked), r),
           interim |-> @.interim \/ r.interim]]
    BY <1>5 DEF Answer
  <2>2. /\ link'[c].asked = Tail(link[c].asked)
        /\ link'[c].wire = link[c].wire \o Tokens(Head(link[c].asked), r)
        /\ link'[c].interim = (link[c].interim \/ r.interim)
        /\ link'[c].state = IF r.shape \in {"until_close", "bad"} \/ r.close THEN "closed" ELSE "up"
    BY <2>1 DEF TypeOK
  <2>3. link[c].asked # <<>> /\ ~Clear(c)
    BY <1>5 DEF Answer, Clear
  <2>4. \A d \in Conn : ~link'[d].interim => ~link[d].interim
    BY <1>2, <2>2
  <2>5. \A d \in ToSet(idle') : ~link'[d].interim => Clear(d)'
    BY <1>1, <1>2, <1>4, <2>3, <2>4 DEF InStep, Clear
  <2>6. ASSUME NEW t \in Task PROVE Held(t)'
    <3>1. Answered(t) => conn[t] \in Conn
      BY UsedConnection DEF Owned, TypeOK, Using, Answered
    <3> QED BY <1>1, <2>4, <3>1 DEF InStep, Held, Answered, Holds
  <2>7. ASSUME NEW t \in Task PROVE Pending(t)'
    <3>1. Using(t) => conn[t] \in Conn
      BY UsedConnection
    <3>2. Pending(t)
      BY DEF InStep
    <3>3. CASE ~Using(t) \/ conn[t] # c
      BY <1>1, <1>2, <3>1, <3>2, <3>3 DEF Pending, Using, Clear, Unanswered, Answering
    <3>4. CASE Using(t) /\ conn[t] = c
      <4> SUFFICES ASSUME ~link'[c].interim
                   PROVE  pc[t] = "read" /\ Answering(t, r)'
        BY <1>1, <3>4 DEF Pending
      <4>1. ~link[c].interim /\ ~r.interim
        BY <2>2, <1>3, TokenTypes
      <4>2. pc[t] = "read" /\ Unanswered(t) /\ link[c].asked = <<t>>
        BY <2>3, <3>2, <3>4, <4>1 DEF Pending, Unanswered, Answering
      <4>3. buf[t] = <<>> /\ link[c].wire = <<>>
        BY <3>4, <4>2 DEF Unanswered
      <4>4. Head(<<t>>) = t /\ Tail(<<t>>) = <<>>
        OBVIOUS
      <4>5. /\ Tokens(t, r) \in Seq(Token) /\ Len(Tokens(t, r)) = Total(r)
            /\ \A i \in 1..Total(r) : Tokens(t, r)[i] = TokenAt(t, r, i)
        BY <4>1, TokensOf
      <4>6. link'[c].wire = Tokens(t, r) /\ link'[c].asked = <<>>
        BY <2>2, <4>2, <4>3, <4>4, <4>5, ConcatEmptySeq
      <4>7. Len(buf[t]) = 0 /\ Total(r) \in Nat
        BY <4>3, TotalType
      <4>8. \A i \in 1..Len(buf[t]) : buf[t][i] = TokenAt(t, r, i)
        BY <4>7
      <4>9. \A i \in 1..Total(r) : Tokens(t, r)[i] = TokenAt(t, r, Len(buf[t]) + i)
        BY <4>5, <4>7
      <4>10. Len(buf[t]) + Total(r) = Total(r) /\ Total(r) <= Total(r)
        BY <4>7
      <4>11. link'[c].state = "up" => r.shape \notin {"until_close", "bad"} /\ ~r.close
        BY <2>2
      <4>12. Answering(t, r)'
        BY <1>1, <3>4, <4>5, <4>6, <4>8, <4>9, <4>10, <4>11 DEF Answering
      <4> QED BY <4>2, <4>12
    <3> QED BY <3>3, <3>4
  <2> QED BY <2>5, <2>6, <2>7 DEF InStep
<1>6. CASE Cut(c)
  <2>1. PICK k \in 0..Len(link[c].wire), s \in {"closed", "reset"} :
          link' = [link EXCEPT ![c] =
            [state |-> s, asked |-> <<>>, interim |-> @.interim,
             wire |-> IF s = "reset" THEN <<>> ELSE SubSeq(@.wire, 1, k)]]
    BY <1>6 DEF Cut
  <2> DEFINE w == link'[c].wire
  <2>2. /\ link'[c].asked = <<>> /\ link'[c].interim = link[c].interim
        /\ link'[c].state \in {"closed", "reset"}
        /\ w = <<>> \/ w = SubSeq(link[c].wire, 1, k)
    BY <2>1 DEF TypeOK
  <2>3. /\ Len(w) \in Nat /\ Len(w) <= Len(link[c].wire)
        /\ \A i \in 1..Len(w) : w[i] = link[c].wire[i]
    <3>1. CASE w = <<>>
      <4>1. Len(w) = 0
        BY <3>1
      <4> QED BY <1>3, <4>1
    <3>2. CASE w = SubSeq(link[c].wire, 1, k)
      <4>1. /\ Len(SubSeq(link[c].wire, 1, k)) = k
            /\ \A i \in 1..k : SubSeq(link[c].wire, 1, k)[i] = link[c].wire[i]
        BY <1>3, SubSeqProperties
      <4> QED BY <1>3, <3>2, <4>1
    <3> QED BY <2>2, <3>1, <3>2
  <2>4. w \in Seq(Token)
    <3>1. SubSeq(link[c].wire, 1, k) \in Seq(Token) /\ <<>> \in Seq(Token)
      BY <1>3, SubSeqProperties
    <3> HIDE DEF w
    <3> QED BY <2>2, <3>1
  <2>5. link[c].wire = <<>> => w = <<>>
    <3>1. link[c].wire = <<>> => Len(link[c].wire) = 0
      OBVIOUS
    <3>2. Len(w) = 0 => w = <<>>
      BY <2>4, EmptySeq
    <3> HIDE DEF w
    <3> QED BY <1>3, <2>3, <3>1, <3>2
  <2>6. \A d \in Conn : Clear(d) => Clear(d)'
    BY <1>2, <2>2, <2>5 DEF Clear
  <2>7. \A d \in Conn : link'[d].interim = link[d].interim
    BY <1>2, <2>2
  <2>8. \A d \in ToSet(idle') : ~link'[d].interim => Clear(d)'
    BY <1>1, <1>4, <2>6, <2>7 DEF InStep
  <2>9. ASSUME NEW t \in Task PROVE Held(t)'
    <3>1. Answered(t) => conn[t] \in Conn
      BY UsedConnection DEF Owned, TypeOK, Using, Answered
    <3> QED BY <1>1, <2>7, <3>1 DEF InStep, Held, Answered, Holds
  <2>10. ASSUME NEW t \in Task PROVE Pending(t)'
    <3>1. Using(t) => conn[t] \in Conn
      BY UsedConnection
    <3>2. Pending(t)
      BY DEF InStep
    <3>3. CASE ~Using(t) \/ conn[t] # c
      BY <1>1, <1>2, <3>1, <3>2, <3>3 DEF Pending, Using, Clear, Unanswered, Answering
    <3>4. CASE Using(t) /\ conn[t] = c /\ pc[t] # "read"
      BY <1>1, <2>6, <2>7, <3>2, <3>4 DEF Pending, Using
    <3>5. CASE Using(t) /\ conn[t] = c /\ pc[t] = "read"
      <4> SUFFICES ASSUME ~link[c].interim
                   PROVE  Unanswered(t)' \/ \E r \in Answers : Answering(t, r)'
        BY <1>1, <2>7, <3>5 DEF Pending
      <4>1. CASE Unanswered(t)
        BY <1>1, <2>2, <2>5, <3>5, <4>1 DEF Unanswered
      <4>2. ASSUME NEW r \in Answers, Answering(t, r) PROVE Answering(t, r)'
        <5>1. Len(buf[t]) \in Nat /\ Total(r) \in Nat
          BY LenProperties, TotalType DEF TypeOK
        <5>2. /\ Len(buf[t]) + Len(link[c].wire) <= Total(r)
              /\ \A i \in 1..Len(buf[t]) : buf[t][i] = TokenAt(t, r, i)
              /\ \A i \in 1..Len(link[c].wire) : link[c].wire[i] = TokenAt(t, r, Len(buf[t]) + i)
          BY <3>5, <4>2 DEF Answering
        <5> HIDE DEF w
        <5> DEFINE n == Len(buf[t])
                   m == Len(link[c].wire)
        <5> HIDE DEF n, m
        <5>3. n + Len(w) <= Total(r)
          <6>1. n \in Nat /\ m \in Nat /\ Len(w) \in Nat /\ Len(w) <= m /\ n + m <= Total(r)
            BY <1>3, <2>3, <5>1, <5>2 DEF n, m
          <6> QED BY <5>1, <6>1
        <5>4. \A i \in 1..Len(w) : w[i] = TokenAt(t, r, Len(buf[t]) + i)
          BY <1>3, <2>3, <5>2
        <5> QED BY <1>1, <2>2, <3>5, <5>2, <5>3, <5>4 DEF Answering, w, n
      <4> QED BY <3>2, <3>5, <4>1, <4>2 DEF Pending
    <3> QED BY <3>3, <3>4, <3>5
  <2> QED BY <2>8, <2>9, <2>10 DEF InStep
<1> QED BY <1>5, <1>6

-----------------------------------------------------------------------------
(* The theorems                                                            *)

LEMMA StutterKeeps ==
  ASSUME IInv, UNCHANGED vars
  PROVE  IInv'
BY DEF IInv, vars, TypeOK, Owned, Buffers, Dialled, InStep, BufferOf, DialledBy, Pending,
       Held, Using, Seeking, Answered, Clear, Unanswered, Answering, Holds

LEMMA NextKeeps ==
  ASSUME IInv, Next
  PROVE  IInv'
<1>1. TypeOK /\ Owned /\ Buffers /\ Dialled /\ InStep
  BY DEF IInv
<1>2. ASSUME NEW t \in Task, Step(t) PROVE IInv'
  BY <1>1, <1>2, TypeStep, OwnedStep, BuffersStep, DialledStep, TasksKeepStep DEF IInv
<1>3. ASSUME NEW c \in Conn, Answer(c) \/ Cut(c) PROVE IInv'
  BY <1>1, <1>3, TypeServer, OwnedServer, BuffersServer, ServerInStep DEF IInv
<1> QED BY <1>2, <1>3 DEF Next

\* Whatever the tasks, the addresses and the server, every state keeps the
\* invariant: who has which connection (Pool::checkout, checkin), what is under
\* way on it (exchange, read_response), where its address came from (connect_tcp).
THEOREM Http1Invariant == Spec => []IInv
<1>1. Init => IInv
  BY TypeInit, OwnedInit, BuffersInit, InStepInit DEF IInv
<1>2. IInv /\ [Next]_vars => IInv'
  BY NextKeeps, StutterKeeps
<1> QED BY <1>1, <1>2, PTL DEF Spec

\* The state of the client stays in its types: the bucket of the pool is never
\* longer than POOL_MAX_IDLE_PER_ORIGIN.
THEOREM Http1TypeOK == Spec => []TypeOK
<1>1. IInv => TypeOK
  BY DEF IInv
<1> QED BY <1>1, Http1Invariant, PTL

\* A request gets the answer to itself and nothing of another one's: a pooled
\* connection is at the start of a response (read_response, checkin).
THEOREM Http1OwnResponse == Spec => []OwnResponse
<1>1. IInv => OwnResponse
  <2> SUFFICES ASSUME IInv, NEW t \in Task, Answered(t), ~link[conn[t]].interim
               PROVE  /\ buf[t] # <<>> /\ buf[t][1].kind = "head" /\ buf[t][1].of = t
                      /\ \A i \in DOMAIN Body(buf[t]) : Body(buf[t])[i] = Piece(t)
    BY DEF OwnResponse
  <2>1. PICK r \in Answers : Holds(t, r)
    BY DEF IInv, InStep, Held
  <2>2. buf[t] \in Seq(Token)
    BY DEF IInv, TypeOK
  <2>3. /\ buf[t] # <<>> /\ buf[t][1] = HeadOf(t, r)
        /\ Body(buf[t]) \in Seq(Token)
        /\ \A i \in 1..Len(Body(buf[t])) : Body(buf[t])[i] = Piece(t)
    BY <2>1, <2>2, BodyOfAnswer DEF Holds
  <2>4. DOMAIN Body(buf[t]) = 1..Len(Body(buf[t]))
    BY <2>3, LenProperties
  <2>5. buf[t][1].kind = "head" /\ buf[t][1].of = t
    BY <2>3 DEF HeadOf
  <2> QED BY <2>3, <2>4, <2>5
<1> QED BY <1>1, Http1Invariant, PTL

\* Only a body that ends with the connection can be cut short unnoticed; any
\* other is returned whole or the request fails (read_response, read_chunked).
THEOREM Http1CompleteOrError == Spec => []CompleteOrError
<1>1. IInv => CompleteOrError
  <2> SUFFICES ASSUME IInv, NEW t \in Task, Answered(t), ~link[conn[t]].interim,
                      buf[t][1].shape # "until_close"
               PROVE  Len(Body(buf[t])) = buf[t][1].n
    BY DEF CompleteOrError
  <2>1. PICK r \in Answers : Holds(t, r)
    BY DEF IInv, InStep, Held
  <2>2. buf[t] \in Seq(Token)
    BY DEF IInv, TypeOK
  <2>3. /\ buf[t][1] = HeadOf(t, r)
        /\ r.shape # "until_close" => Len(Body(buf[t])) = r.n
    BY <2>1, <2>2, BodyOfAnswer DEF Holds
  <2>4. buf[t][1].shape = r.shape /\ buf[t][1].n = r.n
    BY <2>3 DEF HeadOf
  <2> QED BY <2>3, <2>4
<1> QED BY <1>1, Http1Invariant, PTL

\* What checkin has put into the pool, checkout can give to any request: it is
\* there once, open, used by nobody, and nothing is under way on it.
THEOREM Http1IdleIsReusable == Spec => []IdleIsReusable
<1>1. IInv => IdleIsReusable
  <2> SUFFICES ASSUME IInv PROVE IdleIsReusable
    OBVIOUS
  <2>1. IsInjective(idle) /\ Len(idle) <= MaxIdle
    BY PoolType DEF IInv, Owned
  <2>2. ASSUME NEW c \in ToSet(idle)
        PROVE  /\ \A t \in Task : conn[t] = c => pc[t] = "ok"
               /\ link[c].state # "dropped"
               /\ ~link[c].interim => Clear(c)
    BY DEF IInv, Owned, InStep
  <2>3. ASSUME NEW c \in ToSet(idle), NEW t \in Task, conn[t] = c PROVE ~buf[t][1].close
    <3>1. pc[t] = "ok" /\ link[conn[t]].state # "dropped"
      BY <2>2, <2>3
    <3> QED BY <3>1 DEF IInv, Buffers, BufferOf, Keep
  <2> QED BY <2>1, <2>2, <2>3 DEF IdleIsReusable, Clear
<1> QED BY <1>1, Http1Invariant, PTL

\* Neither a stale pooled connection nor a stale cached address fails a request
\* (execute's retry loop, connect_tcp's lookup after a refused cached address).
THEOREM Http1OnlyFreshFails == Spec => []OnlyFreshFails
<1>1. IInv => OnlyFreshFails
  BY DEF IInv, Dialled, DialledBy, OnlyFreshFails
<1> QED BY <1>1, Http1Invariant, PTL
=============================================================================
