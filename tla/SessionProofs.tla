---------------------------- MODULE SessionProofs ----------------------------
(***************************************************************************)
(* Proofs about what an HTTP/2 session keeps from frame to frame: the      *)
(* windows of H2Flow and the header tables of Hpack.                       *)
(*                                                                         *)
(* Flow control, for any streams, windows, capacities and load. The        *)
(* windows never lose credit (Conserved) by adding up what each step       *)
(* moves. That a server can always go on (NeverStalls) needs one fact      *)
(* about numbers: credit that waits is below a quarter of the scanner's    *)
(* window, and the window of a session is never below that quarter, since  *)
(* the load takes away three quarters at most (GenerousBounds).            *)
(*                                                                         *)
(* Header tables, for any names, values, sizes of entries and of tables,   *)
(* and blocks of any length. Blocks and tables are folded over: what a     *)
(* fold amounts to is stated by its values after each element              *)
(* (TotalSizeValues, DecodeValues, EncodeValues).                          *)
(***************************************************************************)
EXTENDS H2Flow, Hpack, Induction

-----------------------------------------------------------------------------
(* Flow control                                                            *)

\* The most credit that a threshold can ask for.
Most == Greater(ScannerWindow \div 4, MinThreshold)

IInv ==
  /\ FlowTypeOK
  /\ Conserved
  /\ initial = 0 => pending = 0
  /\ initial > 0 => Most <= initial /\ pending < Most

-----------------------------------------------------------------------------
\* A product of naturals is a natural, and grows with its factors.
LEMMA Products ==
  ASSUME NEW x \in Nat, NEW a \in Nat, NEW b \in Nat, a <= b
  PROVE  x * a \in Nat /\ x * b \in Nat /\ x * a <= x * b
PROOF
<1>1. x * (b - a) >= 0
  OBVIOUS
<1>2. x * b = x * a + x * (b - a)
  OBVIOUS
<1> QED BY <1>1, <1>2

\* What a divisor fits into a number no more often than.
LEMMA Quotient ==
  ASSUME NEW a \in Nat, NEW b \in Nat \ {0}, NEW q \in Nat, q * b <= a
  PROVE  q <= a \div b
PROOF
<1> DEFINE d == a \div b
<1>1. d \in Nat /\ a < b * (d + 1)
  OBVIOUS
<1>2. SUFFICES ASSUME d + 1 <= q PROVE FALSE
  BY <1>1
<1> HIDE DEF d
<1>3. b * (d + 1) <= b * q
  BY <1>1, <1>2, Products
<1>4. b * q = q * b
  OBVIOUS
<1> QED BY <1>1, <1>3, <1>4

LEMMA OneMore ==
  ASSUME NEW x \in Nat, NEW c \in Nat
  PROVE  c * (x + 1) = x * c + c
PROOF
  OBVIOUS

\* The load leaves between a quarter of a size and all of it.
LEMMA GenerousBounds ==
  ASSUME NEW x \in Nat, capacity \in Nat \ {0}, inflight \in Nat
  PROVE  Generous(x) \in Nat /\ x \div 4 <= Generous(x) /\ Generous(x) <= x
PROOF
<1> DEFINE k == 4 * capacity - Lesser(2 * inflight, 3 * capacity)
           c == 4 * capacity
<1>1. k \in Nat /\ c \in Nat \ {0} /\ capacity <= k /\ k <= c
  BY DEF Lesser
<1> HIDE DEF k, c
<1>2. x * k \in Nat /\ x * c \in Nat /\ x * k <= x * c /\ x * capacity <= x * k
  BY <1>1, Products
<1>3. Generous(x) = (x * k) \div c
  BY DEF Generous, k, c
<1>4. (x * k) \div c <= x
  <2> DEFINE q == (x * k) \div c
  <2>1. q \in Nat /\ c * q <= x * k
    BY <1>1, <1>2
  <2>2. SUFFICES ASSUME x + 1 <= q PROVE FALSE
    BY <2>1
  <2> HIDE DEF q
  <2>3. c * (x + 1) <= c * q
    BY <1>1, <2>1, <2>2, Products
  <2>4. c * (x + 1) = x * c + c
    BY <1>1, OneMore
  <2> QED BY <1>1, <1>2, <2>1, <2>3, <2>4
<1>5. x \div 4 <= (x * k) \div c
  <2> DEFINE q == x \div 4
  <2>1. q \in Nat /\ 4 * q <= x
    OBVIOUS
  <2> HIDE DEF q
  <2>2. capacity * (4 * q) <= capacity * x
    BY <2>1, Products
  <2>3. capacity * (4 * q) = q * c /\ capacity * x = x * capacity
    BY <2>1 DEF c
  <2>4. q * c <= x * k
    BY <1>1, <1>2, <2>1, <2>2, <2>3
  <2> QED BY <1>1, <1>2, <2>1, <2>4, Quotient DEF q
<1>6. (x * k) \div c \in Nat
  BY <1>1, <1>2
<1> QED BY <1>3, <1>4, <1>5, <1>6

LEMMA ThresholdBounds ==
  ASSUME FlowTypeOK
  PROVE  /\ Threshold \in Nat \ {0} /\ Threshold <= Most
         /\ ScaledInitialWindow \in Nat /\ Most <= ScaledInitialWindow
PROOF
<1>1. capacity \in Nat \ {0} /\ inflight \in Nat
  BY FlowAssumption DEF FlowTypeOK
<1>2. ScannerWindow \in Nat /\ ScannerWindow \div 4 \in Nat
  BY FlowAssumption
<1>3. /\ Generous(ScannerWindow) \in Nat
      /\ ScannerWindow \div 4 <= Generous(ScannerWindow)
  BY <1>1, <1>2, GenerousBounds
<1>4. /\ Generous(ScannerWindow \div 4) \in Nat
      /\ Generous(ScannerWindow \div 4) <= ScannerWindow \div 4
  BY <1>1, <1>2, GenerousBounds
<1> QED BY <1>2, <1>3, <1>4, FlowAssumption DEF Threshold, ScaledInitialWindow, Most, Greater

-----------------------------------------------------------------------------
LEMMA InitIInv == FlowInit => IInv
PROOF
  BY FlowAssumption DEF FlowInit, IInv, FlowTypeOK, Conserved

\* Reading a frame moves what it takes from the windows to the credit and the
\* padding.
LEMMA ReadIInv ==
  ASSUME IInv, NEW s \in Stream, NEW n \in 0..MaxBody, NEW p \in 0..MaxPadding,
         ReadData(s, n, p)
  PROVE  IInv'
PROOF
<1>1. FlowTypeOK /\ Conserved /\ initial > 0 /\ pending < Most
  BY DEF IInv, ReadData
<1>2. n \in Nat /\ p \in Nat
  BY FlowAssumption
<1>3. Threshold \in Nat \ {0} /\ Threshold <= Most
  BY <1>1, ThresholdBounds
<1>4. /\ pending' \in Nat /\ connCredit' \in Nat
      /\ connCredit' + pending' = connCredit + pending + n
      /\ pending' < Most
  <2>1. Most \in Int
    BY FlowAssumption DEF Most, Greater
  <2>2. CASE n > 0 /\ pending + n >= Threshold
    BY <1>1, <1>2, <1>3, <2>1, <2>2 DEF ReadData, ReleaseWindow, FlowTypeOK
  <2>3. CASE ~(n > 0 /\ pending + n >= Threshold)
    BY <1>1, <1>2, <1>3, <2>1, <2>3 DEF ReadData, ReleaseWindow, FlowTypeOK
  <2> QED BY <2>2, <2>3
<1>5. /\ UNCHANGED <<inflight, capacity, initial>>
      /\ connWindow' = connWindow - (n + p) /\ n + p <= connWindow
      /\ padding' = padding + p /\ padding + p <= MaxPadding
      /\ n <= left[s] /\ n + p <= streamWindow[s]
  BY DEF ReadData, load
<1>6. /\ streamWindow' = [streamWindow EXCEPT ![s] = @ - (n + p)]
      /\ streamCredit' = [streamCredit EXCEPT ![s] = @ + n]
      /\ paddingOn' = [paddingOn EXCEPT ![s] = @ + p]
      /\ left' = [left EXCEPT ![s] = @ - n]
  BY DEF ReadData, ReleaseWindow
<1>7. FlowTypeOK'
  BY <1>1, <1>2, <1>4, <1>5, <1>6, FlowAssumption DEF FlowTypeOK
<1>8. Conserved'
  <2>1. connWindow' + connCredit' + pending' + padding' = initial'
    <3>1. /\ connWindow \in Nat /\ connCredit \in Nat /\ pending \in Nat
          /\ padding \in Nat /\ initial \in Nat
          /\ connWindow + connCredit + pending + padding = initial
      BY <1>1, FlowAssumption DEF FlowTypeOK, Conserved
    <3>2. /\ connWindow' = connWindow - (n + p) /\ padding' = padding + p
          /\ initial' = initial
      BY <1>5
    <3>3. /\ pending' \in Nat /\ connCredit' \in Nat
          /\ connCredit' + pending' = connCredit + pending + n
      BY <1>4
    <3>4. n \in Nat /\ p \in Nat
      BY <1>2
    <3> DEFINE c == connCredit'
               q == pending'
    <3>5. c \in Nat /\ q \in Nat /\ c + q = connCredit + pending + n
      BY <3>3
    <3> HIDE DEF c, q
    <3>6. (connWindow - (n + p)) + c + q + (padding + p)
            = connWindow + connCredit + pending + padding
      BY <3>1, <3>4, <3>5
    <3> QED BY <3>1, <3>2, <3>6 DEF c, q
  <2>2. ASSUME NEW t \in Stream
        PROVE  streamWindow'[t] + streamCredit'[t] + paddingOn'[t] = initial'
    BY <1>1, <1>2, <1>5, <1>6 DEF FlowTypeOK, Conserved
  <2> QED BY <2>1, <2>2 DEF Conserved
<1> QED BY <1>1, <1>4, <1>5, <1>7, <1>8 DEF IInv, Most

LEMMA NextIInv == IInv /\ [FlowNext]_flowVars => IInv'
PROOF
<1> SUFFICES ASSUME IInv, [FlowNext]_flowVars PROVE IInv'
  OBVIOUS
<1>a. FlowTypeOK /\ Conserved
  BY DEF IInv
<1> USE FlowAssumption
<1>1. CASE \E c \in Capacity : SetCapacity(c)
  BY <1>a, <1>1 DEF IInv, FlowTypeOK, Conserved, Most, SetCapacity, windows
<1>2. CASE Enter
  BY <1>a, <1>2 DEF IInv, FlowTypeOK, Conserved, Most, Enter, windows
<1>3. CASE Leave
  BY <1>a, <1>3 DEF IInv, FlowTypeOK, Conserved, Most, Leave, windows
<1>4. CASE Connect
  <2>1. ScaledInitialWindow \in Nat /\ Most <= ScaledInitialWindow /\ Most > 0
    BY <1>a, ThresholdBounds DEF Most, Greater
  <2>2. /\ initial = 0 /\ pending = 0 /\ connCredit = 0 /\ padding = 0
        /\ \A s \in Stream : streamCredit[s] = 0 /\ paddingOn[s] = 0
    BY <1>a, <1>4 DEF FlowTypeOK, Conserved, Connect
  <2>3. /\ UNCHANGED <<inflight, capacity, pending, connCredit, streamCredit,
                       left, padding, paddingOn>>
        /\ initial' = ScaledInitialWindow /\ connWindow' = ScaledInitialWindow
        /\ streamWindow' = [s \in Stream |-> ScaledInitialWindow]
    BY <1>4 DEF Connect, load
  <2>4. FlowTypeOK'
    BY <1>a, <2>1, <2>3 DEF FlowTypeOK
  <2>5. Conserved'
    BY <2>1, <2>2, <2>3 DEF Conserved
  <2> QED BY <2>1, <2>2, <2>3, <2>4, <2>5 DEF IInv, Most
<1>5. CASE \E s \in Stream, n \in 0..MaxBody, p \in 0..MaxPadding : ReadData(s, n, p)
  BY <1>5, ReadIInv
<1>6. CASE \E k \in Size : CreditConn(k)
  BY <1>a, <1>6 DEF IInv, FlowTypeOK, Conserved, Most, CreditConn, Size, load
<1>7. CASE \E s \in Stream, k \in Size : CreditStream(s, k)
  <2>1. PICK s \in Stream, k \in Size : CreditStream(s, k)
    BY <1>7
  <2>2. /\ UNCHANGED <<load, initial, connWindow, pending, connCredit, left,
                       padding, paddingOn>>
        /\ k \in Nat /\ k <= streamCredit[s]
        /\ streamWindow' = [streamWindow EXCEPT ![s] = @ + k]
        /\ streamCredit' = [streamCredit EXCEPT ![s] = @ - k]
    BY <2>1 DEF CreditStream, Size
  <2>3. FlowTypeOK'
    BY <1>a, <2>2 DEF FlowTypeOK, load
  <2>4. Conserved'
    BY <1>a, <2>2 DEF FlowTypeOK, Conserved
  <2> QED BY <2>2, <2>3, <2>4 DEF IInv, Most
<1>8. CASE UNCHANGED flowVars
  BY <1>a, <1>8 DEF IInv, FlowTypeOK, Conserved, Most, flowVars, load, windows
<1> QED BY <1>1, <1>2, <1>3, <1>4, <1>5, <1>6, <1>7, <1>8 DEF FlowNext

LEMMA IInvStalls == IInv => NeverStalls
PROOF
<1> SUFFICES ASSUME IInv, initial > 0 PROVE NeverStalls
  BY DEF NeverStalls
<1>1. pending < initial
  BY FlowAssumption DEF IInv, FlowTypeOK, Most, Greater
<1> QED BY <1>1, FlowAssumption DEF IInv, FlowTypeOK, Conserved, NeverStalls

THEOREM FlowInvariant == FlowSpec => []IInv
PROOF
  BY InitIInv, NextIInv, PTL DEF FlowSpec

-----------------------------------------------------------------------------
\* No window ever loses credit but to padding, and none grows: whatever the
\* sizes, the load and the way in which frames fill the windows.
THEOREM FlowConserved == FlowSpec => []Conserved
PROOF
<1>1. IInv => Conserved
  BY DEF IInv
<1> QED BY <1>1, FlowInvariant, PTL

\* The threshold never asks for more than the session's window can hold back,
\* so without padding the server can always go on, under any load.
THEOREM FlowNeverStalls == FlowSpec => []NeverStalls
PROOF
  BY IInvStalls, FlowInvariant, PTL

\* Types, and no more padding and data than the bounds.
THEOREM FlowTypes == FlowSpec => []FlowTypeOK
PROOF
<1>1. IInv => FlowTypeOK
  BY DEF IInv
<1> QED BY <1>1, FlowInvariant, PTL

-----------------------------------------------------------------------------
(* The size of a table                                                     *)

Sums(P, t) == P[0] = 0 /\ \A k \in 1..Len(t) : P[k] = P[k - 1] + EntrySize[t[k]]

LEMMA TotalSizeValues ==
  ASSUME NEW t \in Seq(Field)
  PROVE  \E P \in [0..Len(t) -> Nat] : Sums(P, t) /\ TotalSize(t) = P[Len(t)]
<1> DEFINE n == Len(t)
           D == 1..n
           F == [x \in Nat \X D |-> x[1] + EntrySize[t[x[2]]]]
<1>1. n \in Nat /\ DOMAIN t = D /\ \A k \in D : EntrySize[t[k]] \in Nat
  BY HpackAssumption
<1>2. 0 \in Nat
  OBVIOUS
<1>3. F \in [Nat \X D -> Nat]
  BY <1>1
<1>4. PICK it : it = CHOOSE h : h = [s \in SUBSET D |-> IF s = {} THEN 0
                         ELSE h[s \ {Max(s)}] + EntrySize[t[Max(s)]]]
  OBVIOUS
<1>5. TotalSize(t) = it[D]
  BY <1>1, <1>4 DEF TotalSize, FoldLeft, MapThenFoldSet
<1>6. ASSUME NEW s \in SUBSET D, s # {}, NEW v \in Nat
      PROVE  F[<<v, Max(s)>>] = v + EntrySize[t[Max(s)]]
  BY <1>1, <1>6, MaxTaken
<1>7. PICK g \in [SUBSET D -> Nat] : IsFold(g, n, 0, F)
  BY <1>1, <1>2, <1>3, FoldExists
<1>8. g = [s \in SUBSET D |-> IF s = {} THEN 0 ELSE g[s \ {Max(s)}] + EntrySize[t[Max(s)]]]
  <2>1. ASSUME NEW s \in SUBSET D
        PROVE  g[s] = IF s = {} THEN 0 ELSE g[s \ {Max(s)}] + EntrySize[t[Max(s)]]
    BY <1>1, <1>6, <1>7, MaxTaken DEF IsFold
  <2> HIDE DEF F, n, D
  <2> QED BY <1>7, <2>1
<1>9. it = [s \in SUBSET D |-> IF s = {} THEN 0 ELSE it[s \ {Max(s)}] + EntrySize[t[Max(s)]]]
  BY <1>4, <1>8
<1> HIDE DEF F
<1>10. PICK x : IsTrace(x, n, Nat, 0, F) /\ it[D] = x[n]
  <2>1. Folds(it, n, Nat, 0, F)
    BY <1>6, <1>9 DEF Folds
  <2>2. HasTrace(it, n, Nat, 0, F)
    BY <1>1, <1>2, <1>3, <2>1, FoldTrace
  <2> QED BY <2>2 DEF HasTrace
<1>11. ASSUME NEW k \in D PROVE x[k] = x[k - 1] + EntrySize[t[k]]
  <2>1. x[k] = F[<<x[k - 1], k>>] /\ x \in [0..n -> Nat]
    BY <1>10 DEF IsTrace
  <2>2. k - 1 \in 0..n
    BY <1>1
  <2>3. x[k - 1] \in Nat
    BY <2>1, <2>2
  <2> QED BY <2>1, <2>3 DEF F
<1>12. x \in [0..n -> Nat] /\ Sums(x, t)
  BY <1>10, <1>11 DEF IsTrace, Sums
<1> QED BY <1>5, <1>10, <1>12

\* There is one way to sum up.
LEMMA SumsUnique ==
  ASSUME NEW t \in Seq(Field), NEW P \in [0..Len(t) -> Int], Sums(P, t)
  PROVE  TotalSize(t) = P[Len(t)]
<1>1. PICK Q \in [0..Len(t) -> Nat] : Sums(Q, t) /\ TotalSize(t) = Q[Len(t)]
  BY TotalSizeValues
<1> DEFINE T == {k \in 0..Len(t) : P[k] = Q[k]}
<1>2. Len(t) \in Nat
  OBVIOUS
<1>3. 0 \in T
  BY <1>1, <1>2 DEF Sums
<1>4. ASSUME NEW k \in 1..Len(t), k - 1 \in T PROVE k \in T
  BY <1>1, <1>4 DEF Sums
<1> HIDE DEF T
<1>5. \A k \in 0..Len(t) : k \in T
  BY <1>2, <1>3, <1>4, UpTo
<1> QED BY <1>1, <1>2, <1>5 DEF T

\* The size of the first k entries.
SizeUpTo(t, k) == TotalSize(SubSeq(t, 1, k))

LEMMA SumsAre ==
  ASSUME NEW t \in Seq(Field), NEW P \in [0..Len(t) -> Nat], Sums(P, t), NEW k \in 0..Len(t)
  PROVE  SizeUpTo(t, k) = P[k]
<1> DEFINE u == SubSeq(t, 1, k)
           Q == [i \in 0..k |-> P[i]]
<1>1. u \in Seq(Field) /\ Len(u) = k /\ \A i \in 1..k : u[i] = t[i]
  BY SubSeqProperties
<1> HIDE DEF u
<1>2. Q \in [0..Len(u) -> Int] /\ Q[Len(u)] = P[k]
  BY <1>1
<1>3. Sums(Q, u)
  BY <1>1 DEF Sums
<1> HIDE DEF Q
<1>4. TotalSize(u) = P[k]
  BY <1>1, <1>2, <1>3, SumsUnique
<1> QED BY <1>4 DEF SizeUpTo, u

LEMMA SizeType ==
  ASSUME NEW t \in Seq(Field)
  PROVE  TotalSize(t) \in Nat
BY TotalSizeValues

LEMMA SizeOfNone == TotalSize(<<>>) = 0
<1>1. PICK t \in Seq(Field) : t = <<>>
  BY EmptySeq
<1>2. PICK P \in [0..Len(t) -> Nat] : Sums(P, t) /\ TotalSize(t) = P[Len(t)]
  BY TotalSizeValues
<1> QED BY <1>1, <1>2 DEF Sums

\* Sizes grow with the number of entries.
LEMMA SizeUpToGrows ==
  ASSUME NEW t \in Seq(Field)
  PROVE  /\ SizeUpTo(t, 0) = 0 /\ SizeUpTo(t, Len(t)) = TotalSize(t)
         /\ \A k \in 0..Len(t) : SizeUpTo(t, k) \in Nat
<1>1. PICK P \in [0..Len(t) -> Nat] : Sums(P, t) /\ TotalSize(t) = P[Len(t)]
  BY TotalSizeValues
<1>2. \A k \in 0..Len(t) : SizeUpTo(t, k) = P[k]
  BY <1>1, SumsAre
<1>3. 0 \in 0..Len(t) /\ Len(t) \in 0..Len(t) /\ P[0] = 0
  BY <1>1 DEF Sums
<1> QED BY <1>1, <1>2, <1>3

\* What is not among the first k entries is the rest.
LEMMA SizeOfRest ==
  ASSUME NEW t \in Seq(Field), NEW k \in 0..Len(t)
  PROVE  TotalSize(SubSeq(t, k + 1, Len(t))) = TotalSize(t) - SizeUpTo(t, k)
<1>1. PICK P \in [0..Len(t) -> Nat] : Sums(P, t) /\ TotalSize(t) = P[Len(t)]
  BY TotalSizeValues
<1>2. SizeUpTo(t, k) = P[k]
  BY <1>1, SumsAre
<1> DEFINE u == SubSeq(t, k + 1, Len(t))
           n == Len(t) - k
           Q == [i \in 0..n |-> P[k + i] - P[k]]
<1>3. u \in Seq(Field) /\ Len(u) = n /\ \A i \in 1..n : u[i] = t[k + i]
  <2>1. Len(t) \in Nat /\ k \in Nat /\ n \in Nat
    OBVIOUS
  <2> QED BY <2>1, SubSeqProperties
<1> HIDE DEF u
<1>4. Q \in [0..Len(u) -> Int] /\ Q[Len(u)] = P[Len(t)] - P[k]
  BY <1>3
<1>5. Sums(Q, u)
  <2>1. Q[0] = 0
    BY <1>3
  <2>2. ASSUME NEW i \in 1..n PROVE Q[i] = Q[i - 1] + EntrySize[u[i]]
    <3>1. k + i \in 1..Len(t) /\ i - 1 \in 0..n /\ i \in 0..n
      OBVIOUS
    <3>2. P[k + i] = P[(k + i) - 1] + EntrySize[t[k + i]]
      BY <1>1, <3>1 DEF Sums
    <3>3. EntrySize[t[k + i]] \in Nat
      BY <3>1, HpackAssumption
    <3>4. (k + i) - 1 = k + (i - 1) /\ k + (i - 1) \in 0..Len(t) /\ k \in 0..Len(t)
      OBVIOUS
    <3>5. PICK a, b, c, e : /\ a = P[k + i] /\ b = P[k + (i - 1)] /\ c = P[k]
                            /\ e = EntrySize[t[k + i]]
      OBVIOUS
    <3>6. a \in Nat /\ b \in Nat /\ c \in Nat /\ e \in Nat /\ a = b + e
      BY <3>1, <3>2, <3>3, <3>4, <3>5
    <3>7. Q[i] = a - c /\ Q[i - 1] = b - c /\ EntrySize[u[i]] = e
      BY <1>3, <3>1, <3>5
    <3> QED BY <3>6, <3>7
  <2> QED BY <1>3, <2>1, <2>2 DEF Sums
<1> HIDE DEF Q
<1>6. TotalSize(u) = P[Len(t)] - P[k]
  BY <1>3, <1>4, <1>5, SumsUnique
<1> QED BY <1>1, <1>2, <1>6 DEF u

LEMMA SizeOfMore ==
  ASSUME NEW t \in Seq(Field), NEW f \in Field
  PROVE  TotalSize(<<f>> \o t) = TotalSize(t) + EntrySize[f]
<1>1. PICK P \in [0..Len(t) -> Nat] : Sums(P, t) /\ TotalSize(t) = P[Len(t)]
  BY TotalSizeValues
<1> DEFINE u == <<f>> \o t
           n == Len(t) + 1
           Q == [i \in 0..n |-> IF i = 0 THEN 0 ELSE P[i - 1] + EntrySize[f]]
<1>2. u \in Seq(Field) /\ Len(u) = n /\ u[1] = f /\ \A i \in 1..Len(t) : u[i + 1] = t[i]
  BY ConcatProperties
<1> HIDE DEF u
<1>3. EntrySize[f] \in Nat /\ Len(t) \in Nat
  BY HpackAssumption
<1>4. Q \in [0..Len(u) -> Int] /\ Q[Len(u)] = P[Len(t)] + EntrySize[f]
  BY <1>2, <1>3
<1>5. Sums(Q, u)
  <2>1. Q[0] = 0
    OBVIOUS
  <2>2. ASSUME NEW i \in 1..n PROVE Q[i] = Q[i - 1] + EntrySize[u[i]]
    <3>1. CASE i = 1
      BY <1>1, <1>2, <1>3, <3>1 DEF Sums
    <3>2. CASE i # 1
      <4>1. i - 1 \in 1..Len(t) /\ i \in 0..n /\ i # 0 /\ i - 1 \in 0..n /\ i - 1 # 0
        BY <1>3, <3>2
      <4>2. P[i - 1] = P[(i - 1) - 1] + EntrySize[t[i - 1]]
        BY <1>1, <4>1 DEF Sums
      <4>3. u[i] = t[i - 1]
        <5>1. (i - 1) + 1 = i
          OBVIOUS
        <5> QED BY <1>2, <4>1, <5>1
      <4>4. EntrySize[t[i - 1]] \in Nat /\ P[(i - 1) - 1] \in Nat
        <5>1. (i - 1) - 1 \in 0..Len(t) /\ t[i - 1] \in Field
          BY <4>1
        <5> QED BY <5>1, HpackAssumption
      <4>5. Q[i] = P[i - 1] + EntrySize[f] /\ Q[i - 1] = P[(i - 1) - 1] + EntrySize[f]
        BY <4>1
      <4> HIDE DEF Q
      <4> QED BY <1>3, <4>2, <4>3, <4>4, <4>5
    <3> QED BY <3>1, <3>2
  <2> QED BY <1>2, <2>1, <2>2 DEF Sums
<1> HIDE DEF Q
<1>6. TotalSize(u) = P[Len(t)] + EntrySize[f]
  BY <1>2, <1>4, <1>5, SumsUnique
<1> QED BY <1>1, <1>6 DEF u

-----------------------------------------------------------------------------
(* Eviction                                                                *)

LEMMA PrefixIs ==
  ASSUME NEW s \in Seq(Field), NEW t \in Seq(Field)
  PROVE  IsPrefix(s, t) <=> Len(s) <= Len(t) /\ \A i \in 1..Len(s) : s[i] = t[i]
<1>1. SubSeq(s, 1, Len(s)) = s
  BY SubSeqProperties
<1> SUFFICES ASSUME Len(s) <= Len(t)
             PROVE  s = SubSeq(t, 1, Len(s)) <=> \A i \in 1..Len(s) : s[i] = t[i]
  BY <1>1 DEF IsPrefix
<1> DEFINE u == SubSeq(t, 1, Len(s))
<1>2. u \in Seq(Field) /\ Len(u) = Len(s) /\ \A i \in 1..Len(s) : u[i] = t[i]
  BY SubSeqProperties
<1> HIDE DEF u
<1>3. (\A i \in 1..Len(s) : s[i] = t[i]) => s = u
  BY <1>2, SeqEqual
<1> QED BY <1>2, <1>3 DEF u

\* The encoder keeps the longest part of the newest entries that fits.
LEMMA FittingIs ==
  ASSUME NEW t \in Seq(Field), NEW m \in Nat
  PROVE  \E k \in 0..Len(t) : /\ Fitting(t, m) = SubSeq(t, 1, k) /\ SizeUpTo(t, k) <= m
                              /\ \A i \in 0..Len(t) : SizeUpTo(t, i) <= m => i <= k
<1> DEFINE K == {k \in 0..Len(t) : SizeUpTo(t, k) <= m}
<1>1. Fitting(t, m) = SubSeq(t, 1, Max(K))
  BY DEF Fitting, SizeUpTo
<1>2. K \in SUBSET (0..Len(t)) /\ 0 \in K /\ Len(t) \in Nat
  BY SizeUpToGrows
<1>3. PICK k : k = Max(K)
  OBVIOUS
<1>4. k \in K /\ \A i \in K : k >= i
  BY <1>2, <1>3, MaxIs
<1> QED BY <1>1, <1>3, <1>4

LEMMA FittingFits ==
  ASSUME NEW t \in Seq(Field), NEW m \in Nat
  PROVE  /\ Fitting(t, m) \in Seq(Field) /\ TotalSize(Fitting(t, m)) <= m
         /\ TotalSize(t) <= m => Fitting(t, m) = t
<1>1. PICK k \in 0..Len(t) : /\ Fitting(t, m) = SubSeq(t, 1, k) /\ SizeUpTo(t, k) <= m
                             /\ \A i \in 0..Len(t) : SizeUpTo(t, i) <= m => i <= k
  BY FittingIs
<1>2. SubSeq(t, 1, k) \in Seq(Field)
  BY SubSeqProperties
<1>3. ASSUME TotalSize(t) <= m PROVE SubSeq(t, 1, k) = t
  <2>1. Len(t) \in 0..Len(t) /\ SizeUpTo(t, Len(t)) <= m
    BY <1>3, SizeUpToGrows
  <2>2. k = Len(t)
    BY <1>1, <2>1
  <2> QED BY <2>2, SubSeqProperties
<1> QED BY <1>1, <1>2, <1>3 DEF SizeUpTo

LEMMA PrefixFits ==
  ASSUME NEW s \in Seq(Field), NEW t \in Seq(Field), IsPrefix(s, t),
         NEW m \in Nat, NEW n \in Nat, m <= n
  PROVE  IsPrefix(Fitting(s, m), Fitting(t, n))
<1>1. Len(s) <= Len(t) /\ \A i \in 1..Len(s) : s[i] = t[i]
  BY PrefixIs
<1>2. PICK j \in 0..Len(s) : Fitting(s, m) = SubSeq(s, 1, j) /\ SizeUpTo(s, j) <= m
  BY FittingIs
<1>3. PICK k \in 0..Len(t) : /\ Fitting(t, n) = SubSeq(t, 1, k)
                             /\ \A i \in 0..Len(t) : SizeUpTo(t, i) <= n => i <= k
  BY FittingIs
<1>4. SubSeq(s, 1, j) = SubSeq(t, 1, j) /\ j \in 0..Len(t)
  <2> DEFINE u == SubSeq(s, 1, j)
             v == SubSeq(t, 1, j)
  <2>1. Len(s) \in Nat /\ Len(t) \in Nat /\ j <= Len(t)
    BY <1>1
  <2>2. u \in Seq(Field) /\ Len(u) = j /\ \A i \in 1..j : u[i] = s[i]
    BY SubSeqProperties
  <2>3. v \in Seq(Field) /\ Len(v) = j /\ \A i \in 1..j : v[i] = t[i]
    BY <2>1, SubSeqProperties
  <2>4. \A i \in 1..j : s[i] = t[i]
    BY <1>1, <2>1
  <2> HIDE DEF u, v
  <2>5. u = v
    BY <2>2, <2>3, <2>4, SeqEqual
  <2> QED BY <2>1, <2>5 DEF u, v
<1>5. SizeUpTo(t, j) <= n
  <2>1. SizeUpTo(s, j) = SizeUpTo(t, j) /\ SizeUpTo(s, j) \in Nat
    BY <1>4, SizeUpToGrows DEF SizeUpTo
  <2> QED BY <1>2, <2>1
<1>6. j <= k
  BY <1>3, <1>4, <1>5
<1> DEFINE u == SubSeq(t, 1, j)
           v == SubSeq(t, 1, k)
<1>7. u \in Seq(Field) /\ Len(u) = j /\ \A i \in 1..j : u[i] = t[i]
  BY <1>4, SubSeqProperties
<1>8. v \in Seq(Field) /\ Len(v) = k /\ \A i \in 1..k : v[i] = t[i]
  BY SubSeqProperties
<1> HIDE DEF u, v
<1>9. Len(u) <= Len(v) /\ \A i \in 1..Len(u) : u[i] = v[i]
  BY <1>6, <1>7, <1>8
<1>10. IsPrefix(u, v)
  BY <1>7, <1>8, <1>9, PrefixIs
<1> QED BY <1>2, <1>3, <1>4, <1>10 DEF u, v

LEMMA PrefixMore ==
  ASSUME NEW s \in Seq(Field), NEW t \in Seq(Field), IsPrefix(s, t), NEW f \in Field
  PROVE  /\ <<f>> \o s \in Seq(Field) /\ <<f>> \o t \in Seq(Field)
         /\ IsPrefix(<<f>> \o s, <<f>> \o t)
<1>1. Len(s) <= Len(t) /\ \A i \in 1..Len(s) : s[i] = t[i]
  BY PrefixIs
<1> DEFINE u == <<f>> \o s
           v == <<f>> \o t
<1>2. u \in Seq(Field) /\ Len(u) = Len(s) + 1 /\ u[1] = f /\ \A i \in 2..Len(u) : u[i] = s[i - 1]
  BY ConcatProperties
<1>3. v \in Seq(Field) /\ Len(v) = Len(t) + 1 /\ v[1] = f /\ \A i \in 2..Len(v) : v[i] = t[i - 1]
  BY ConcatProperties
<1> HIDE DEF u, v
<1>4. Len(s) \in Nat /\ Len(t) \in Nat
  OBVIOUS
<1>5. ASSUME NEW i \in 1..Len(u) PROVE u[i] = v[i]
  <2>1. CASE i = 1
    BY <1>2, <1>3, <2>1
  <2>2. CASE i # 1
    <3>1. i \in 2..Len(u) /\ i \in 2..Len(v) /\ i - 1 \in 1..Len(s)
      BY <1>1, <1>2, <1>3, <1>4, <2>2
    <3> QED BY <1>1, <1>2, <1>3, <3>1
  <2> QED BY <2>1, <2>2
<1>6. IsPrefix(u, v)
  BY <1>1, <1>2, <1>3, <1>4, <1>5, PrefixIs
<1> QED BY <1>2, <1>3, <1>6 DEF u, v

\* A decoder whose size is the size of its entries, and that keeps its bounds.
Counted(d) ==
  /\ d \in [dynamic : Seq(Field), size : Nat, max : Nat, allowed : Nat]
  /\ d.size = TotalSize(d.dynamic)

Decoder == {d \in [dynamic : Seq(Field), size : Nat, max : Nat, allowed : Nat] :
              Counted(d) /\ d.size <= d.max /\ d.max <= d.allowed}

\* evict_dynamic, one entry after the other, comes to the same.
LEMMA EvictIs ==
  ASSUME NEW d, Counted(d)
  PROVE  /\ Counted(Evict(d))
         /\ Evict(d).dynamic = Fitting(d.dynamic, d.max)
         /\ Evict(d).max = d.max /\ Evict(d).allowed = d.allowed
         /\ Evict(d).size <= d.max
<1> DEFINE t == d.dynamic
           m == d.max
           n == Len(t)
           K == {k \in 0..n : SizeUpTo(t, k) <= m}
<1>1. t \in Seq(Field) /\ m \in Nat /\ n \in Nat /\ d.size = TotalSize(t)
  BY DEF Counted
<1>2. \A k \in 0..n : SizeOfFirst(d, k) = SizeUpTo(t, k)
  <2> SUFFICES ASSUME NEW k \in 0..n PROVE SizeOfFirst(d, k) = SizeUpTo(t, k)
    OBVIOUS
  <2>1. TotalSize(SubSeq(t, k + 1, n)) = TotalSize(t) - SizeUpTo(t, k)
    BY <1>1, SizeOfRest
  <2>2. TotalSize(t) \in Nat /\ SizeUpTo(t, k) \in Nat
    BY <1>1, SizeType, SizeUpToGrows
  <2> QED BY <1>1, <2>1, <2>2 DEF SizeOfFirst
<1>3. 0 \in K
  BY <1>1, SizeUpToGrows
<1>4. {i \in 0..n : SizeOfFirst(d, i) <= m} \cup {0} = K
  BY <1>2, <1>3
<1>5. PICK k : k = Max(K)
  OBVIOUS
<1>6. k \in K
  BY <1>1, <1>3, <1>5, MaxIs
<1>7. Evict(d) = [d EXCEPT !.dynamic = SubSeq(t, 1, k), !.size = SizeOfFirst(d, k)]
  BY <1>4, <1>5 DEF Evict
<1>8. Fitting(t, m) = SubSeq(t, 1, k)
  BY <1>5 DEF Fitting, SizeUpTo
<1>9. Evict(d) = [d EXCEPT !.dynamic = Fitting(t, m), !.size = TotalSize(Fitting(t, m))]
  BY <1>2, <1>6, <1>7, <1>8 DEF SizeUpTo
<1>10. Fitting(t, m) \in Seq(Field) /\ TotalSize(Fitting(t, m)) <= m
       /\ TotalSize(Fitting(t, m)) \in Nat
  BY <1>1, FittingFits, SizeType
<1> HIDE DEF K
<1>11. PICK u, z : u = Fitting(t, m) /\ z = TotalSize(u)
  OBVIOUS
<1>12. u \in Seq(Field) /\ z \in Nat /\ z <= m /\ Evict(d) = [d EXCEPT !.dynamic = u, !.size = z]
  BY <1>9, <1>10, <1>11
<1>13. PICK e : e = Evict(d)
  OBVIOUS
<1>14. /\ e \in [dynamic : Seq(Field), size : Nat, max : Nat, allowed : Nat]
       /\ e.dynamic = u /\ e.size = z /\ e.max = m /\ e.allowed = d.allowed
  BY <1>12, <1>13 DEF Counted
<1> QED BY <1>11, <1>12, <1>13, <1>14 DEF Counted

LEMMA SetMaxSizeIs ==
  ASSUME NEW d \in Decoder, NEW n \in Nat
  PROVE  /\ Counted(SetMaxSize(d, n)) /\ SetMaxSize(d, n).size <= n
         /\ SetMaxSize(d, n).dynamic = Fitting(d.dynamic, n)
         /\ SetMaxSize(d, n).max = n /\ SetMaxSize(d, n).allowed = d.allowed
         /\ n <= d.allowed => SetMaxSize(d, n) \in Decoder
<1> DEFINE e == [d EXCEPT !.max = n]
<1>1. /\ e \in [dynamic : Seq(Field), size : Nat, max : Nat, allowed : Nat]
      /\ e.dynamic = d.dynamic /\ e.size = d.size /\ e.max = n /\ e.allowed = d.allowed
  BY DEF Decoder
<1>2. SetMaxSize(d, n) = Evict(e)
  BY DEF SetMaxSize
<1> HIDE DEF e
<1>3. Counted(e)
  BY <1>1 DEF Counted, Decoder
<1>4. PICK x : x = Evict(e)
  OBVIOUS
<1>5. /\ Counted(x) /\ x.dynamic = Fitting(d.dynamic, n) /\ x.size <= n
      /\ x.max = n /\ x.allowed = d.allowed
  BY <1>1, <1>3, <1>4, EvictIs
<1>6. n <= d.allowed => x \in Decoder
  BY <1>5 DEF Decoder, Counted
<1> QED BY <1>2, <1>4, <1>5, <1>6

LEMMA SetAllowedMaxSizeIs ==
  ASSUME NEW d \in Decoder, NEW n \in Nat
  PROVE  /\ SetAllowedMaxSize(d, n) \in Decoder
         /\ SetAllowedMaxSize(d, n).allowed = n
         /\ \/ d.max <= n /\ SetAllowedMaxSize(d, n).max = d.max
                          /\ SetAllowedMaxSize(d, n).dynamic = d.dynamic
            \/ n < d.max /\ SetAllowedMaxSize(d, n).max = n
                         /\ SetAllowedMaxSize(d, n).dynamic = Fitting(d.dynamic, n)
<1> DEFINE e == [d EXCEPT !.allowed = n]
<1>1. /\ e \in [dynamic : Seq(Field), size : Nat, max : Nat, allowed : Nat]
      /\ e.dynamic = d.dynamic /\ e.size = d.size /\ e.max = d.max /\ e.allowed = n
  BY DEF Decoder
<1>2. d.max \in Nat /\ d.size = TotalSize(d.dynamic) /\ d.size <= d.max
  BY DEF Decoder, Counted
<1>3. SetAllowedMaxSize(d, n) = IF d.max > n THEN Evict([e EXCEPT !.max = n]) ELSE e
  BY DEF SetAllowedMaxSize, SetMaxSize
<1> HIDE DEF e
<1>4. CASE d.max <= n
  <2>1. SetAllowedMaxSize(d, n) = e
    BY <1>2, <1>3, <1>4
  <2>2. e \in Decoder
    BY <1>1, <1>2, <1>4 DEF Decoder, Counted
  <2> QED BY <1>1, <1>4, <2>1, <2>2
<1>5. CASE n < d.max
  <2> DEFINE c == [e EXCEPT !.max = n]
  <2>1. SetAllowedMaxSize(d, n) = Evict(c)
    BY <1>2, <1>3, <1>5
  <2>2. /\ c \in [dynamic : Seq(Field), size : Nat, max : Nat, allowed : Nat]
        /\ c.dynamic = d.dynamic /\ c.size = d.size /\ c.max = n /\ c.allowed = n
    BY <1>1
  <2> HIDE DEF c
  <2>3. Counted(c)
    BY <1>2, <2>2 DEF Counted
  <2>4. PICK x : x = Evict(c)
    OBVIOUS
  <2>5. /\ Counted(x) /\ x.dynamic = Fitting(d.dynamic, n) /\ x.size <= n
        /\ x.max = n /\ x.allowed = n
    BY <2>2, <2>3, <2>4, EvictIs
  <2>6. x \in Decoder
    BY <2>5 DEF Decoder, Counted
  <2> QED BY <1>5, <2>1, <2>4, <2>5, <2>6
<1> QED BY <1>2, <1>4, <1>5

\* An entry that does not fit leaves nothing, as no part of a table with it
\* in front fits.
LEMMA FittingNone ==
  ASSUME NEW t \in Seq(Field), NEW f \in Field, NEW m \in Nat, EntrySize[f] > m
  PROVE  Fitting(<<f>> \o t, m) = <<>>
<1> DEFINE u == <<f>> \o t
<1>1. u \in Seq(Field) /\ Len(u) = Len(t) + 1 /\ u[1] = f /\ \A i \in 2..Len(u) : u[i] = t[i - 1]
  BY ConcatProperties
<1> HIDE DEF u
<1>2. PICK k \in 0..Len(u) : Fitting(u, m) = SubSeq(u, 1, k) /\ SizeUpTo(u, k) <= m
  BY <1>1, FittingIs
<1>3. k = 0
  <2> SUFFICES ASSUME k # 0 PROVE FALSE
    OBVIOUS
  <2>1. PICK P \in [0..Len(u) -> Nat] : Sums(P, u)
    BY <1>1, TotalSizeValues
  <2>2. SizeUpTo(u, k) = P[k]
    BY <1>1, <2>1, SumsAre
  <2> DEFINE T == {i \in 0..Len(u) : i = 0 \/ P[i] >= EntrySize[f]}
  <2>3. EntrySize[f] \in Nat /\ Len(u) \in Nat /\ 0 \in T
    BY <1>1, HpackAssumption
  <2>4. ASSUME NEW i \in 1..Len(u), i - 1 \in T PROVE i \in T
    <3>1. P[i] = P[i - 1] + EntrySize[u[i]]
      BY <2>1 DEF Sums
    <3>2. EntrySize[u[i]] \in Nat /\ P[i - 1] \in Nat /\ i - 1 \in 0..Len(u)
      <4>1. u[i] \in Field /\ i - 1 \in 0..Len(u)
        BY <1>1
      <4> QED BY <2>1, <4>1, HpackAssumption
    <3>3. P[i] >= EntrySize[f]
      <4>1. CASE i = 1
        BY <1>1, <3>1, <3>2, <4>1
      <4>2. CASE i # 1
        <5>1. P[i - 1] >= EntrySize[f]
          BY <2>4, <4>2
        <5> QED BY <2>3, <3>1, <3>2, <5>1
      <4> QED BY <4>1, <4>2
    <3> QED BY <3>3
  <2> HIDE DEF T
  <2>5. \A i \in 0..Len(u) : i \in T
    BY <2>3, <2>4, UpTo
  <2>6. P[k] >= EntrySize[f] /\ P[k] \in Nat
    BY <2>1, <2>5 DEF T
  <2> QED BY <1>2, <2>2, <2>3, <2>6
<1>4. SubSeq(u, 1, 0) = <<>>
  BY <1>1, SubSeqProperties, EmptySeq
<1> QED BY <1>2, <1>3, <1>4 DEF u

LEMMA InsertDynamicIs ==
  ASSUME NEW d \in Decoder, NEW f \in Field
  PROVE  /\ InsertDynamic(d, f) \in Decoder
         /\ InsertDynamic(d, f).dynamic = Fitting(<<f>> \o d.dynamic, d.max)
         /\ InsertDynamic(d, f).max = d.max /\ InsertDynamic(d, f).allowed = d.allowed
<1>1. /\ d \in [dynamic : Seq(Field), size : Nat, max : Nat, allowed : Nat]
      /\ d.size = TotalSize(d.dynamic) /\ d.size <= d.max /\ d.max <= d.allowed
      /\ EntrySize[f] \in Nat
  BY HpackAssumption DEF Decoder, Counted
<1>2. CASE EntrySize[f] > d.max
  <2>1. PICK e : e = [d EXCEPT !.dynamic = <<>>, !.size = 0]
    OBVIOUS
  <2>2. InsertDynamic(d, f) = e
    BY <1>2, <2>1 DEF InsertDynamic
  <2>3. /\ e \in [dynamic : Seq(Field), size : Nat, max : Nat, allowed : Nat]
        /\ e.dynamic = <<>> /\ e.size = 0 /\ e.max = d.max /\ e.allowed = d.allowed
    BY <1>1, <2>1, EmptySeq
  <2>4. e \in Decoder
    BY <1>1, <2>3, SizeOfNone DEF Decoder, Counted
  <2>5. Fitting(<<f>> \o d.dynamic, d.max) = <<>>
    BY <1>1, <1>2, FittingNone
  <2> QED BY <2>2, <2>3, <2>4, <2>5
<1>3. CASE ~(EntrySize[f] > d.max)
  <2>1. PICK u : u = <<f>> \o d.dynamic
    OBVIOUS
  <2>2. PICK e : e = [d EXCEPT !.dynamic = u, !.size = @ + EntrySize[f]]
    OBVIOUS
  <2>3. InsertDynamic(d, f) = Evict(e)
    BY <1>3, <2>1, <2>2 DEF InsertDynamic
  <2>4. u \in Seq(Field) /\ TotalSize(u) = TotalSize(d.dynamic) + EntrySize[f]
    BY <1>1, <2>1, SizeOfMore, ConcatProperties
  <2>5. /\ e \in [dynamic : Seq(Field), size : Nat, max : Nat, allowed : Nat]
        /\ e.dynamic = u /\ e.size = d.size + EntrySize[f]
        /\ e.max = d.max /\ e.allowed = d.allowed
    <3>1. PICK z : z = d.size + EntrySize[f]
      OBVIOUS
    <3>2. z \in Nat
      BY <1>1, <3>1
    <3>3. e = [d EXCEPT !.dynamic = u, !.size = z]
      BY <2>2, <3>1
    <3> QED BY <1>1, <2>4, <3>1, <3>2, <3>3
  <2>6. Counted(e)
    BY <1>1, <2>4, <2>5 DEF Counted
  <2>7. PICK x : x = Evict(e)
    OBVIOUS
  <2>8. /\ Counted(x) /\ x.dynamic = Fitting(u, d.max) /\ x.size <= d.max
        /\ x.max = d.max /\ x.allowed = d.allowed
    BY <2>5, <2>6, <2>7, EvictIs
  <2>9. x \in Decoder
    BY <1>1, <2>8 DEF Decoder, Counted
  <2> QED BY <2>1, <2>3, <2>7, <2>8, <2>9
<1> QED BY <1>2, <1>3

-----------------------------------------------------------------------------
(* Decoding                                                                *)

Reps == {r \in [kind : {"resize", "indexed", "insert", "literal"},
                index : Nat, name : Name, value : Value] : r.kind = "indexed" => r.index # 0}

\* What decode has come to.
Reading == [decoder : Decoder, out : Seq(Field), canResize : BOOLEAN, ok : BOOLEAN]

\* The field that a representation stands for with a table.
Meant(t, r) ==
  IF r.kind = "indexed" THEN t[r.index]
  ELSE <<IF r.index = 0 THEN r.name ELSE t[r.index][1], r.value>>

Found(t, r) == r.kind # "resize" /\ (r.index = 0 \/ r.index \in DOMAIN t)

LEMMA MeantIs ==
  ASSUME NEW t \in Seq(Field), NEW r \in Reps, Found(t, r)
  PROVE  Meant(t, r) \in Field
<1>1. r.index # 0 => t[r.index] \in Field
  BY DEF Found
<1>2. r.name \in Name /\ r.value \in Value /\ (r.kind = "indexed" => r.index # 0)
  BY DEF Reps
<1>3. CASE r.kind = "indexed"
  BY <1>1, <1>2, <1>3 DEF Meant
<1>4. CASE r.kind # "indexed"
  <2>1. PICK a : a = IF r.index = 0 THEN r.name ELSE t[r.index][1]
    OBVIOUS
  <2>2. a \in Name
    BY <1>1, <1>2, <2>1 DEF Field
  <2> QED BY <1>2, <1>4, <2>1, <2>2 DEF Meant, Field
<1> QED BY <1>3, <1>4

LEMMA DecodeOneIs ==
  ASSUME NEW x \in Reading, NEW r \in Reps
  PROVE  /\ DecodeOne(x, r) \in Reading
         /\ ~x.ok => DecodeOne(x, r) = x
         /\ x.ok => DecodeOne(x, r).ok =
                      IF r.kind = "resize" THEN x.canResize /\ r.index <= x.decoder.allowed
                                           ELSE Found(x.decoder.dynamic, r)
         /\ DecodeOne(x, r).ok =>
              /\ DecodeOne(x, r).decoder =
                   CASE r.kind = "resize" -> SetMaxSize(x.decoder, r.index)
                     [] r.kind = "insert" -> InsertDynamic(x.decoder, Meant(x.decoder.dynamic, r))
                     [] OTHER -> x.decoder
              /\ DecodeOne(x, r).out = IF r.kind = "resize" THEN x.out
                                       ELSE Append(x.out, Meant(x.decoder.dynamic, r))
<1> DEFINE d == x.decoder
           y == DecodeOne(x, r)
           found == r.index \in DOMAIN d.dynamic
           name == IF r.index = 0 THEN r.name ELSE d.dynamic[r.index][1]
<1>1. d \in Decoder /\ d.dynamic \in Seq(Field) /\ d.allowed \in Nat /\ x.ok \in BOOLEAN
      /\ x.canResize \in BOOLEAN /\ x.out \in Seq(Field)
  BY DEF Reading, Decoder
<1>2. /\ r.kind \in {"resize", "indexed", "insert", "literal"}
      /\ r.index \in Nat /\ (r.kind = "indexed" => r.index # 0)
  BY DEF Reps
<1>3. CASE ~x.ok
  BY <1>3 DEF DecodeOne
<1>4. CASE x.ok /\ r.kind = "resize"
  <2>1. y = IF x.canResize /\ r.index <= d.allowed
            THEN [x EXCEPT !.decoder = SetMaxSize(d, r.index)]
            ELSE [x EXCEPT !.ok = FALSE]
    BY <1>4 DEF DecodeOne
  <2> HIDE DEF y
  <2>2. CASE x.canResize /\ r.index <= d.allowed
    <3>1. PICK e : e = SetMaxSize(d, r.index)
      OBVIOUS
    <3>2. e \in Decoder
      BY <1>1, <1>2, <2>2, <3>1, SetMaxSizeIs
    <3>3. y = [x EXCEPT !.decoder = e]
      BY <2>1, <2>2, <3>1
    <3>4. y \in Reading /\ y.ok = TRUE /\ y.decoder = e /\ y.out = x.out
      BY <1>4, <3>2, <3>3 DEF Reading
    <3> QED BY <1>4, <2>2, <3>1, <3>4 DEF y
  <2>3. CASE ~(x.canResize /\ r.index <= d.allowed)
    <3>1. y \in Reading /\ y.ok = FALSE
      BY <2>1, <2>3 DEF Reading
    <3> QED BY <1>4, <2>3, <3>1 DEF y
  <2> QED BY <2>2, <2>3
<1>5. CASE x.ok /\ r.kind # "resize" /\ ~Found(d.dynamic, r)
  <2>1. r.index # 0 /\ ~found
    BY <1>5 DEF Found
  <2>2. y = [x EXCEPT !.ok = FALSE]
    BY <1>2, <1>5, <2>1 DEF DecodeOne
  <2> HIDE DEF y
  <2>3. y \in Reading /\ y.ok = FALSE
    BY <2>2 DEF Reading
  <2> QED BY <1>5, <2>1, <2>3 DEF Found, y
<1>6. CASE x.ok /\ Found(d.dynamic, r)
  <2>1. r.kind # "resize" /\ (r.index = 0 \/ found)
    BY <1>6 DEF Found
  <2>2. PICK f : f = Meant(d.dynamic, r)
    OBVIOUS
  <2>3. f \in Field
    BY <1>1, <1>6, <2>2, MeantIs
  <2>4. PICK out : out = Append(x.out, f)
    OBVIOUS
  <2>5. out \in Seq(Field)
    BY <1>1, <2>3, <2>4
  <2>6. CASE r.kind = "indexed"
    <3>1. f = d.dynamic[r.index] /\ found
      BY <1>2, <2>1, <2>2, <2>6 DEF Meant
    <3>2. y = [x EXCEPT !.canResize = FALSE, !.out = out]
      BY <1>2, <1>6, <2>4, <2>6, <3>1 DEF DecodeOne
    <3> HIDE DEF y
    <3>3. y \in Reading /\ y.ok = TRUE /\ y.decoder = d /\ y.out = out
      BY <1>6, <2>5, <3>2 DEF Reading
    <3> QED BY <1>6, <2>2, <2>4, <2>6, <3>3 DEF y
  <2>7. CASE r.kind = "insert"
    <3>1. f = <<name, r.value>>
      BY <2>2, <2>7 DEF Meant
    <3>2. PICK e : e = InsertDynamic(d, f)
      OBVIOUS
    <3>3. y = [x EXCEPT !.canResize = FALSE, !.out = out, !.decoder = e]
      BY <1>2, <1>6, <2>1, <2>4, <2>7, <3>1, <3>2 DEF DecodeOne
    <3>4. e \in Decoder
      BY <1>1, <2>3, <3>2, InsertDynamicIs
    <3> HIDE DEF y
    <3>5. y \in Reading /\ y.ok = TRUE /\ y.decoder = e /\ y.out = out
      BY <1>6, <2>5, <3>3, <3>4 DEF Reading
    <3> QED BY <1>6, <2>2, <2>4, <2>7, <3>2, <3>5 DEF y
  <2>8. CASE r.kind = "literal"
    <3>1. f = <<name, r.value>>
      BY <2>2, <2>8 DEF Meant
    <3>2. y = [x EXCEPT !.canResize = FALSE, !.out = out]
      BY <1>2, <1>6, <2>1, <2>4, <2>8, <3>1 DEF DecodeOne
    <3> HIDE DEF y
    <3>3. y \in Reading /\ y.ok = TRUE /\ y.decoder = d /\ y.out = out
      BY <1>6, <2>5, <3>2 DEF Reading
    <3> QED BY <1>6, <2>2, <2>4, <2>8, <3>3 DEF y
  <2> QED BY <1>2, <2>1, <2>6, <2>7, <2>8
<1> QED BY <1>1, <1>3, <1>4, <1>5, <1>6

\* What decode has come to after each representation of a block.
Reads(x, d, B) ==
  /\ x \in [0..Len(B) -> Reading]
  /\ x[0] = [decoder |-> d, out |-> <<>>, canResize |-> TRUE, ok |-> TRUE]
  /\ \A k \in 1..Len(B) : x[k] = DecodeOne(x[k - 1], B[k])

LEMMA DecodeValues ==
  ASSUME NEW d \in Decoder, NEW B \in Seq(Reps)
  PROVE  \E x : Reads(x, d, B) /\ Decode(d, B) = x[Len(B)]
<1> DEFINE n == Len(B)
           D == 1..n
           b == [decoder |-> d, out |-> <<>>, canResize |-> TRUE, ok |-> TRUE]
           F == [x \in Reading \X D |-> DecodeOne(x[1], B[x[2]])]
<1>1. n \in Nat /\ DOMAIN B = D /\ \A k \in D : B[k] \in Reps
  OBVIOUS
<1>2. b \in Reading
  BY EmptySeq DEF Reading
<1> HIDE DEF b
<1>3. F \in [Reading \X D -> Reading]
  BY <1>1, DecodeOneIs
<1>4. PICK it : it = CHOOSE h : h = [s \in SUBSET D |-> IF s = {} THEN b
                         ELSE DecodeOne(h[s \ {Max(s)}], B[Max(s)])]
  OBVIOUS
<1>5. Decode(d, B) = it[D]
  BY <1>1, <1>4 DEF Decode, FoldLeft, MapThenFoldSet, b
<1>6. ASSUME NEW s \in SUBSET D, s # {}, NEW v \in Reading
      PROVE  F[<<v, Max(s)>>] = DecodeOne(v, B[Max(s)])
  BY <1>1, <1>6, MaxTaken
<1>7. PICK g \in [SUBSET D -> Reading] : IsFold(g, n, b, F)
  BY <1>1, <1>2, <1>3, FoldExists
<1>8. g = [s \in SUBSET D |-> IF s = {} THEN b ELSE DecodeOne(g[s \ {Max(s)}], B[Max(s)])]
  <2>1. ASSUME NEW s \in SUBSET D
        PROVE  g[s] = IF s = {} THEN b ELSE DecodeOne(g[s \ {Max(s)}], B[Max(s)])
    BY <1>1, <1>6, <1>7, MaxTaken DEF IsFold
  <2> HIDE DEF F, n, D
  <2> QED BY <1>7, <2>1
<1>9. it = [s \in SUBSET D |-> IF s = {} THEN b ELSE DecodeOne(it[s \ {Max(s)}], B[Max(s)])]
  BY <1>4, <1>8
<1> HIDE DEF F
<1>10. PICK x : IsTrace(x, n, Reading, b, F) /\ it[D] = x[n]
  <2>1. Folds(it, n, Reading, b, F)
    BY <1>6, <1>9 DEF Folds
  <2>2. HasTrace(it, n, Reading, b, F)
    BY <1>1, <1>2, <1>3, <2>1, FoldTrace
  <2> QED BY <2>2 DEF HasTrace
<1>11. ASSUME NEW k \in D PROVE x[k] = DecodeOne(x[k - 1], B[k])
  <2>1. x[k] = F[<<x[k - 1], k>>] /\ x \in [0..n -> Reading]
    BY <1>10 DEF IsTrace
  <2>2. k - 1 \in 0..n
    BY <1>1
  <2>3. x[k - 1] \in Reading
    BY <2>1, <2>2
  <2> QED BY <2>1, <2>3 DEF F
<1>12. Reads(x, d, B)
  BY <1>10, <1>11 DEF IsTrace, Reads, b
<1> QED BY <1>5, <1>10, <1>12

-----------------------------------------------------------------------------
(* Encoding                                                                *)

Chosen == {c \in Seq(Choice) : Len(c) # 0}

\* The server's encoder while it writes a block.
Writing == [dynamic : Seq(Field), max : Nat, block : Seq(Reps)]

\* A representation stands for its field with the table it was made for.
LEMMA EncodingIs ==
  ASSUME NEW t \in Seq(Field), NEW c \in Choice
  PROVE  /\ Encoding(t, c.field, c.how) \in Reps
         /\ Found(t, Encoding(t, c.field, c.how))
         /\ Meant(t, Encoding(t, c.field, c.how)) = c.field
<1> DEFINE f == c.field
           same == {i \in DOMAIN t : t[i] = f}
           named == {i \in DOMAIN t : t[i][1] = f[1]}
           r == Encoding(t, f, c.how)
<1>1. PICK a \in Name, v \in Value : f = <<a, v>>
  BY DEF Choice, Field
<1>2. c.how \in {"indexed", "insert", "literal"}
  BY DEF Choice
<1>3. DOMAIN t = 1..Len(t) /\ Len(t) \in Nat /\ same \in SUBSET Nat /\ named \in SUBSET (0..Len(t))
  OBVIOUS
<1>4. CASE c.how = "indexed" /\ same # {}
  <2>1. PICK i : i = Min(same)
    OBVIOUS
  <2>2. i \in DOMAIN t /\ t[i] = f /\ i \in Nat /\ i # 0
    <3>1. Min(same) \in same
      BY <1>3, <1>4, MinIs
    <3> QED BY <1>3, <2>1, <3>1
  <2>3. r = [kind |-> "indexed", index |-> i, name |-> a, value |-> v]
    BY <1>1, <1>4, <2>1 DEF Encoding, Rep
  <2> HIDE DEF r
  <2>4. r \in Reps /\ r.kind = "indexed" /\ r.index = i
    BY <2>2, <2>3 DEF Reps
  <2> QED BY <2>2, <2>4 DEF Found, Meant, r
<1>5. CASE ~(c.how = "indexed" /\ same # {})
  <2>1. PICK i : i = IF named = {} THEN 0 ELSE Max(named)
    OBVIOUS
  <2>2. i = 0 \/ (i \in DOMAIN t /\ t[i][1] = a)
    <3>1. named # {} => Max(named) \in named
      BY <1>3, MaxIs
    <3>2. f[1] = a
      BY <1>1
    <3> HIDE DEF f
    <3> QED BY <2>1, <3>1, <3>2
  <2>3. i \in Nat
    BY <1>3, <2>2
  <2>4. PICK kind \in {"insert", "literal"} :
          r = [kind |-> kind, index |-> i, name |-> a, value |-> v]
    BY <1>1, <1>2, <1>5, <2>1 DEF Encoding, Rep
  <2> HIDE DEF r
  <2>5. r \in Reps /\ r.kind \in {"insert", "literal"} /\ r.index = i /\ r.name = a /\ r.value = v
    BY <2>3, <2>4 DEF Reps
  <2> QED BY <1>1, <2>2, <2>5 DEF Found, Meant, r
<1> QED BY <1>4, <1>5

LEMMA EncodeOneIs ==
  ASSUME NEW x \in Writing, NEW c \in Choice
  PROVE  /\ EncodeOne(x, c) \in Writing
         /\ EncodeOne(x, c).max = x.max
         /\ EncodeOne(x, c).block = Append(x.block, Encoding(x.dynamic, c.field, c.how))
         /\ EncodeOne(x, c).dynamic =
              IF Encoding(x.dynamic, c.field, c.how).kind = "insert"
              THEN Fitting(<<c.field>> \o x.dynamic, x.max) ELSE x.dynamic
<1>1. PICK r : r = Encoding(x.dynamic, c.field, c.how)
  OBVIOUS
<1>2. x.dynamic \in Seq(Field) /\ x.block \in Seq(Reps) /\ x.max \in Nat /\ c.field \in Field
  BY DEF Writing, Choice
<1>3. r \in Reps
  BY <1>1, <1>2, EncodingIs
<1>4. PICK B : B = Append(x.block, r)
  OBVIOUS
<1>5. PICK t : t = IF r.kind = "insert" THEN Fitting(<<c.field>> \o x.dynamic, x.max)
                                        ELSE x.dynamic
  OBVIOUS
<1>6. B \in Seq(Reps) /\ t \in Seq(Field)
  <2>1. <<c.field>> \o x.dynamic \in Seq(Field)
    BY <1>2, ConcatProperties
  <2>2. Fitting(<<c.field>> \o x.dynamic, x.max) \in Seq(Field)
    BY <1>2, <2>1, FittingFits
  <2> QED BY <1>2, <1>3, <1>4, <1>5, <2>2
<1>7. EncodeOne(x, c) = [x EXCEPT !.block = B, !.dynamic = t]
  BY <1>1, <1>4, <1>5 DEF EncodeOne
<1>8. PICK y : y = [x EXCEPT !.block = B, !.dynamic = t]
  OBVIOUS
<1>9. y \in Writing /\ y.max = x.max /\ y.block = B /\ y.dynamic = t
  BY <1>6, <1>8 DEF Writing
<1> QED BY <1>1, <1>4, <1>5, <1>7, <1>8, <1>9

\* The encoder before it writes the first of the fields.
Resized(e, size, c) ==
  [dynamic |-> Fitting(e.dynamic, size), max |-> size,
   block |-> IF size = e.max THEN <<>>
             ELSE <<[kind |-> "resize", index |-> size,
                     name |-> c[1].field[1], value |-> c[1].field[2]]>>]

\* What encoding has come to after each field.
Writes(y, e, size, c) ==
  /\ y \in [0..Len(c) -> Writing]
  /\ y[0] = Resized(e, size, c)
  /\ \A k \in 1..Len(c) : y[k] = EncodeOne(y[k - 1], c[k])

LEMMA ResizedIs ==
  ASSUME NEW e \in [dynamic : Seq(Field), max : Nat], NEW size \in Nat, NEW c \in Chosen
  PROVE  Resized(e, size, c) \in Writing
<1>1. PICK a \in Name, v \in Value : c[1].field = <<a, v>>
  <2>1. c \in Seq(Choice) /\ 1 \in 1..Len(c)
    BY DEF Chosen
  <2>2. c[1] \in Choice
    BY <2>1
  <2> QED BY <2>2 DEF Choice, Field
<1>2. PICK B : B = (IF size = e.max THEN <<>>
                    ELSE <<[kind |-> "resize", index |-> size, name |-> c[1].field[1],
                            value |-> c[1].field[2]]>>)
  OBVIOUS
<1>3. [kind |-> "resize", index |-> size, name |-> a, value |-> v] \in Reps
  BY DEF Reps
<1>4. B \in Seq(Reps)
  BY <1>1, <1>2, <1>3, EmptySeq
<1>5. PICK t : t = Fitting(e.dynamic, size)
  OBVIOUS
<1>6. t \in Seq(Field)
  BY <1>5, FittingFits
<1>7. Resized(e, size, c) = [dynamic |-> t, max |-> size, block |-> B]
  BY <1>2, <1>5 DEF Resized
<1> QED BY <1>4, <1>6, <1>7 DEF Writing

LEMMA EncodeValues ==
  ASSUME NEW e \in [dynamic : Seq(Field), max : Nat], NEW size \in Nat, NEW c \in Chosen
  PROVE  \E y : Writes(y, e, size, c) /\ Encode(e, size, c) = y[Len(c)]
<1> DEFINE n == Len(c)
           D == 1..n
           b == Resized(e, size, c)
           F == [x \in Writing \X D |-> EncodeOne(x[1], c[x[2]])]
<1>1. n \in Nat /\ DOMAIN c = D /\ \A k \in D : c[k] \in Choice
  BY DEF Chosen
<1>2. b \in Writing
  BY ResizedIs
<1> HIDE DEF b
<1>3. F \in [Writing \X D -> Writing]
  BY <1>1, EncodeOneIs
<1>4. PICK it : it = CHOOSE h : h = [s \in SUBSET D |-> IF s = {} THEN b
                         ELSE EncodeOne(h[s \ {Max(s)}], c[Max(s)])]
  OBVIOUS
<1>5. Encode(e, size, c) = it[D]
  BY <1>1, <1>4 DEF Encode, FoldLeft, MapThenFoldSet, b, Resized
<1>6. ASSUME NEW s \in SUBSET D, s # {}, NEW v \in Writing
      PROVE  F[<<v, Max(s)>>] = EncodeOne(v, c[Max(s)])
  BY <1>1, <1>6, MaxTaken
<1>7. PICK g \in [SUBSET D -> Writing] : IsFold(g, n, b, F)
  BY <1>1, <1>2, <1>3, FoldExists
<1>8. g = [s \in SUBSET D |-> IF s = {} THEN b ELSE EncodeOne(g[s \ {Max(s)}], c[Max(s)])]
  <2>1. ASSUME NEW s \in SUBSET D
        PROVE  g[s] = IF s = {} THEN b ELSE EncodeOne(g[s \ {Max(s)}], c[Max(s)])
    BY <1>1, <1>6, <1>7, MaxTaken DEF IsFold
  <2> HIDE DEF F, n, D
  <2> QED BY <1>7, <2>1
<1>9. it = [s \in SUBSET D |-> IF s = {} THEN b ELSE EncodeOne(it[s \ {Max(s)}], c[Max(s)])]
  BY <1>4, <1>8
<1> HIDE DEF F
<1>10. PICK x : IsTrace(x, n, Writing, b, F) /\ it[D] = x[n]
  <2>1. Folds(it, n, Writing, b, F)
    BY <1>6, <1>9 DEF Folds
  <2>2. HasTrace(it, n, Writing, b, F)
    BY <1>1, <1>2, <1>3, <2>1, FoldTrace
  <2> QED BY <2>2 DEF HasTrace
<1>11. ASSUME NEW k \in D PROVE x[k] = EncodeOne(x[k - 1], c[k])
  <2>1. x[k] = F[<<x[k - 1], k>>] /\ x \in [0..n -> Writing]
    BY <1>10 DEF IsTrace
  <2>2. k - 1 \in 0..n
    BY <1>1
  <2>3. x[k - 1] \in Writing
    BY <2>1, <2>2
  <2> QED BY <2>1, <2>3 DEF F
<1>12. Writes(x, e, size, c)
  BY <1>10, <1>11 DEF IsTrace, Writes, b
<1> QED BY <1>5, <1>10, <1>12

\* The representation of each field follows those of the fields before it, and
\* those follow the size update, if there is one.
Offset(e, size) == IF size = e.max THEN 0 ELSE 1

IsBlock(B, o, y, size, c) ==
  /\ Len(B) = o + Len(c)
  /\ o = 1 => B[1].kind = "resize" /\ B[1].index = size
  /\ \A i \in 1..Len(c) : B[o + i] = Encoding(y[i - 1].dynamic, c[i].field, c[i].how)
  /\ \A k \in 0..Len(c) : y[k].max = size

LEMMA BlockIs ==
  ASSUME NEW e \in [dynamic : Seq(Field), max : Nat], NEW size \in Nat, NEW c \in Chosen,
         NEW y, Writes(y, e, size, c),
         NEW B, B = y[Len(c)].block, NEW o, o = Offset(e, size)
  PROVE  IsBlock(B, o, y, size, c)
<1> DEFINE n == Len(c)
           r(i) == Encoding(y[i - 1].dynamic, c[i].field, c[i].how)
           Q(z, k) == /\ Len(z.block) = o + k /\ z.max = size
                      /\ o = 1 => z.block[1].kind = "resize" /\ z.block[1].index = size
                      /\ \A i \in 1..k : z.block[o + i] = r(i)
           T == {k \in 0..n : Q(y[k], k)}
<1>1. /\ n \in Nat /\ o \in {0, 1} /\ y \in [0..n -> Writing]
      /\ \A k \in 1..n : c[k] \in Choice
  <2>1. c \in Seq(Choice)
    BY DEF Chosen
  <2> QED BY <2>1 DEF Offset, Writes
<1>2. 0 \in T
  <2>1. y[0] = Resized(e, size, c)
    BY DEF Writes
  <2>2. CASE size = e.max
    <3>1. y[0].block = <<>> /\ y[0].max = size
      BY <2>1, <2>2 DEF Resized
    <3>2. Len(<<>>) = 0
      OBVIOUS
    <3>3. o = 0
      BY <2>2 DEF Offset
    <3> HIDE DEF r
    <3>4. Q(y[0], 0)
      BY <3>1, <3>2, <3>3
    <3> QED BY <1>1, <3>4
  <2>3. CASE size # e.max
    <3>1. PICK p : p = [kind |-> "resize", index |-> size, name |-> c[1].field[1],
                        value |-> c[1].field[2]]
      OBVIOUS
    <3>2. y[0].block = <<p>> /\ y[0].max = size /\ p.kind = "resize" /\ p.index = size
      BY <2>1, <2>3, <3>1 DEF Resized
    <3>3. Len(<<p>>) = 1 /\ <<p>>[1] = p
      OBVIOUS
    <3>4. o = 1
      BY <2>3 DEF Offset
    <3> HIDE DEF r
    <3>5. Q(y[0], 0)
      BY <3>2, <3>3, <3>4
    <3> QED BY <1>1, <3>5
  <2> QED BY <2>2, <2>3
<1>3. ASSUME NEW k \in 1..n, k - 1 \in T PROVE k \in T
  <2>1. PICK w, z, A, C : /\ w = y[k - 1] /\ z = y[k] /\ A = w.block /\ C = z.block
    OBVIOUS
  <2>2. w \in Writing /\ z = EncodeOne(w, c[k]) /\ c[k] \in Choice /\ A \in Seq(Reps)
    BY <1>1, <2>1 DEF Writes, Writing
  <2>3. PICK q : q = r(k)
    OBVIOUS
  <2>4. C = Append(A, q) /\ z.max = w.max /\ q \in Reps
    <3>1. w.dynamic \in Seq(Field)
      BY <2>2 DEF Writing
    <3>2. q = Encoding(w.dynamic, c[k].field, c[k].how)
      BY <2>1, <2>3
    <3>3. q \in Reps
      BY <2>2, <3>1, <3>2, EncodingIs
    <3> HIDE DEF r
    <3>4. EncodeOne(w, c[k]).max = w.max
      BY <2>2, EncodeOneIs
    <3>5. EncodeOne(w, c[k]).block = Append(w.block, q)
      BY <2>2, <3>2, EncodeOneIs
    <3> QED BY <2>1, <2>2, <3>3, <3>4, <3>5
  <2>5. /\ Len(A) = o + (k - 1) /\ w.max = size
        /\ o = 1 => A[1].kind = "resize" /\ A[1].index = size
        /\ \A i \in 1..(k - 1) : A[o + i] = r(i)
    BY <1>3, <2>1
  <2> HIDE DEF r
  <2>6. Len(C) = o + k /\ C[o + k] = q /\ \A i \in 1..(o + (k - 1)) : C[i] = A[i]
    BY <1>1, <2>2, <2>4, <2>5, AppendProperties
  <2>7. \A i \in 1..k : C[o + i] = r(i)
    <3> SUFFICES ASSUME NEW i \in 1..k PROVE C[o + i] = r(i)
      OBVIOUS
    <3>1. CASE i = k
      BY <2>3, <2>6, <3>1
    <3>2. CASE i # k
      <4>1. i \in 1..(k - 1) /\ o + i \in 1..(o + (k - 1))
        BY <1>1, <3>2
      <4> QED BY <2>5, <2>6, <4>1
    <3> QED BY <3>1, <3>2
  <2>8. o = 1 => C[1] = A[1]
    <3>1. o = 1 => 1 \in 1..(o + (k - 1))
      OBVIOUS
    <3> QED BY <2>6, <3>1
  <2>9. Q(z, k)
    BY <2>1, <2>4, <2>5, <2>6, <2>7, <2>8
  <2> QED BY <2>1, <2>9
<1> HIDE DEF T
<1>4. \A k \in 0..n : k \in T
  BY <1>1, <1>2, <1>3, UpTo
<1>5. n \in T /\ \A k \in 0..n : y[k].max = size
  BY <1>1, <1>4 DEF T
<1> QED BY <1>5 DEF T, IsBlock

-----------------------------------------------------------------------------
(* The two tables side by side                                             *)

\* The decoder has the newest part of the encoder's entries, in no more room.
Behind(d, e) == IsPrefix(d.dynamic, e.dynamic) /\ d.max <= e.max

Alike(d, e) == d.dynamic = e.dynamic /\ d.max = e.max

LEMMA MeantByPrefix ==
  ASSUME NEW s \in Seq(Field), NEW t \in Seq(Field), IsPrefix(s, t), NEW r \in Reps, Found(s, r)
  PROVE  Meant(s, r) = Meant(t, r)
<1>1. Len(s) <= Len(t) /\ \A i \in 1..Len(s) : s[i] = t[i]
  BY PrefixIs
<1>2. r.index = 0 \/ (r.index # 0 /\ s[r.index] = t[r.index])
  BY <1>1 DEF Found
<1>3. r.kind = "indexed" => r.index # 0
  BY DEF Reps
<1> QED BY <1>2, <1>3 DEF Meant

LEMMA PrefixOfItself ==
  ASSUME NEW s \in Seq(Field)
  PROVE  IsPrefix(s, s)
BY PrefixIs

\* One field, written and read.
LEMMA OneField ==
  ASSUME NEW x \in Reading, NEW y \in Writing, NEW c \in Choice, Behind(x.decoder, y),
         NEW r, r = Encoding(y.dynamic, c.field, c.how),
         NEW u, u = DecodeOne(x, r), NEW v, v = EncodeOne(y, c)
  PROVE  /\ u.ok => /\ x.ok /\ Behind(u.decoder, v) /\ u.out = Append(x.out, c.field)
                    /\ u.decoder.allowed = x.decoder.allowed
         /\ x.ok /\ Alike(x.decoder, y) => u.ok /\ Alike(u.decoder, v)
<1>1. PICK d, s, t : d = x.decoder /\ s = d.dynamic /\ t = y.dynamic
  OBVIOUS
<1>2. /\ d \in Decoder /\ s \in Seq(Field) /\ t \in Seq(Field) /\ IsPrefix(s, t)
      /\ d.max \in Nat /\ y.max \in Nat /\ d.max <= y.max /\ c.field \in Field
  BY <1>1 DEF Reading, Decoder, Writing, Choice, Behind
<1>3. r \in Reps /\ Found(t, r) /\ Meant(t, r) = c.field
  BY <1>1, <1>2, EncodingIs
<1>4. r.kind # "resize"
  BY <1>3 DEF Found
<1>5. /\ ~x.ok => u = x
      /\ x.ok => u.ok = Found(s, r)
      /\ u.ok => /\ u.decoder = IF r.kind = "insert" THEN InsertDynamic(d, Meant(s, r)) ELSE d
                 /\ u.out = Append(x.out, Meant(s, r))
  BY <1>1, <1>3, <1>4, DecodeOneIs
<1>6. v.max = y.max /\ v.dynamic = IF r.kind = "insert" THEN Fitting(<<c.field>> \o t, y.max)
                                                        ELSE t
  BY <1>1, EncodeOneIs
<1>7. ASSUME u.ok
      PROVE  /\ x.ok /\ Behind(u.decoder, v) /\ u.out = Append(x.out, c.field)
             /\ u.decoder.allowed = x.decoder.allowed
  <2>1. x.ok /\ Found(s, r)
    BY <1>5, <1>7
  <2>2. Meant(s, r) = c.field
    BY <1>2, <1>3, <2>1, MeantByPrefix
  <2>3. CASE r.kind = "insert"
    <3>1. u.decoder = InsertDynamic(d, c.field)
      BY <1>5, <1>7, <2>2, <2>3
    <3>2. /\ u.decoder.dynamic = Fitting(<<c.field>> \o s, d.max) /\ u.decoder.max = d.max
          /\ u.decoder.allowed = d.allowed
      BY <1>1, <1>2, <3>1, InsertDynamicIs
    <3>3. /\ <<c.field>> \o s \in Seq(Field) /\ <<c.field>> \o t \in Seq(Field)
          /\ IsPrefix(<<c.field>> \o s, <<c.field>> \o t)
      BY <1>2, PrefixMore
    <3>4. IsPrefix(Fitting(<<c.field>> \o s, d.max), Fitting(<<c.field>> \o t, y.max))
      BY <1>2, <3>3, PrefixFits
    <3> QED BY <1>1, <1>2, <1>5, <1>6, <1>7, <2>1, <2>2, <2>3, <3>2, <3>4 DEF Behind
  <2>4. CASE r.kind # "insert"
    BY <1>1, <1>2, <1>5, <1>6, <1>7, <2>1, <2>2, <2>4 DEF Behind
  <2> QED BY <2>3, <2>4
<1>8. ASSUME x.ok, Alike(x.decoder, y) PROVE u.ok /\ Alike(u.decoder, v)
  <2>1. s = t /\ d.max = y.max
    BY <1>1, <1>8 DEF Alike
  <2>2. u.ok
    BY <1>3, <1>5, <1>8, <2>1
  <2>3. CASE r.kind = "insert"
    <3>1. u.decoder = InsertDynamic(d, c.field)
      BY <1>3, <1>5, <2>1, <2>2, <2>3
    <3>2. u.decoder.dynamic = Fitting(<<c.field>> \o s, d.max) /\ u.decoder.max = d.max
      BY <1>1, <1>2, <3>1, InsertDynamicIs
    <3> QED BY <1>6, <2>1, <2>2, <2>3, <3>2 DEF Alike
  <2>4. CASE r.kind # "insert"
    BY <1>1, <1>5, <1>6, <1>8, <2>1, <2>2, <2>4 DEF Alike
  <2> QED BY <2>3, <2>4
<1> QED BY <1>7, <1>8

\* The start of a block: nothing, or the size update.
LEMMA StartOfBlock ==
  ASSUME NEW d \in Decoder, NEW e \in [dynamic : Seq(Field), max : Nat],
         TotalSize(e.dynamic) <= e.max, Behind(d, e), NEW size \in Nat, NEW c \in Chosen,
         NEW B \in Seq(Reps), NEW x, Reads(x, d, B),
         NEW o, o = Offset(e, size), o <= Len(B),
         o = 1 => B[1].kind = "resize" /\ B[1].index = size
  PROVE  /\ x[o].ok => /\ Behind(x[o].decoder, Resized(e, size, c)) /\ x[o].out = <<>>
                       /\ x[o].decoder.allowed = d.allowed
         /\ Alike(d, e) /\ size <= d.allowed =>
              x[o].ok /\ Alike(x[o].decoder, Resized(e, size, c))
<1>1. x[0] = [decoder |-> d, out |-> <<>>, canResize |-> TRUE, ok |-> TRUE]
  BY DEF Reads
<1>2. /\ Resized(e, size, c).dynamic = Fitting(e.dynamic, size)
      /\ Resized(e, size, c).max = size
  BY DEF Resized
<1>3. /\ d.dynamic \in Seq(Field) /\ d.max \in Nat /\ e.dynamic \in Seq(Field) /\ e.max \in Nat
      /\ d.allowed \in Nat
  BY DEF Decoder
<1>4. CASE size = e.max
  <2>1. Fitting(e.dynamic, size) = e.dynamic
    BY <1>3, <1>4, FittingFits
  <2>2. o = 0
    BY <1>4 DEF Offset
  <2> QED BY <1>1, <1>2, <1>4, <2>1, <2>2 DEF Behind, Alike
<1>5. CASE size # e.max
  <2>1. o = 1
    BY <1>5 DEF Offset
  <2>2. PICK r, a, z : r = B[1] /\ a = x[0] /\ z = x[1]
    OBVIOUS
  <2>3. 1 \in 1..Len(B) /\ 0 \in 0..Len(B) /\ 1 - 1 = 0
    BY <2>1
  <2>4. r \in Reps /\ r.kind = "resize" /\ r.index = size
    BY <2>1, <2>2, <2>3
  <2>5. a \in Reading /\ z = DecodeOne(a, r)
    BY <2>2, <2>3 DEF Reads
  <2>6. a.ok /\ a.canResize /\ a.decoder = d /\ a.out = <<>>
    BY <1>1, <2>2
  <2>7. /\ z.ok = (a.canResize /\ r.index <= d.allowed)
        /\ z.ok => z.decoder = SetMaxSize(d, size) /\ z.out = <<>>
    BY <2>4, <2>5, <2>6, DecodeOneIs
  <2>8. /\ SetMaxSize(d, size).dynamic = Fitting(d.dynamic, size)
        /\ SetMaxSize(d, size).max = size /\ SetMaxSize(d, size).allowed = d.allowed
    BY SetMaxSizeIs
  <2>9. IsPrefix(Fitting(d.dynamic, size), Fitting(e.dynamic, size))
    BY <1>3, PrefixFits DEF Behind
  <2>10. z.ok => Behind(z.decoder, Resized(e, size, c)) /\ z.decoder.allowed = d.allowed
    BY <1>2, <2>7, <2>8, <2>9 DEF Behind
  <2>11. Alike(d, e) /\ size <= d.allowed => z.ok /\ Alike(z.decoder, Resized(e, size, c))
    BY <1>2, <2>4, <2>6, <2>7, <2>8 DEF Alike
  <2> QED BY <2>1, <2>2, <2>7, <2>10, <2>11
<1> QED BY <1>4, <1>5

\* A whole block, written and read.
InStep(d, e, size, c, E, X) ==
  /\ E \in Writing /\ E.max = size /\ TotalSize(E.dynamic) <= size
  /\ X \in Reading
  /\ X.ok => /\ Behind(X.decoder, E) /\ X.decoder.allowed = d.allowed
             /\ Len(X.out) = Len(c) /\ \A i \in 1..Len(c) : X.out[i] = c[i].field
  /\ Alike(d, e) /\ size <= d.allowed => X.ok /\ Alike(X.decoder, E)

LEMMA BlockDecodes ==
  ASSUME NEW d \in Decoder, NEW e \in [dynamic : Seq(Field), max : Nat],
         TotalSize(e.dynamic) <= e.max, Behind(d, e), NEW size \in Nat, NEW c \in Chosen,
         NEW E, E = Encode(e, size, c), NEW X, X = Decode(d, E.block)
  PROVE  InStep(d, e, size, c, E, X)
<1> DEFINE G == Alike(d, e) /\ size <= d.allowed
<1>1. PICK n, o : n = Len(c) /\ o = Offset(e, size)
  OBVIOUS
<1>2. n \in Nat /\ o \in {0, 1} /\ \A k \in 1..n : c[k] \in Choice
  <2>1. c \in Seq(Choice)
    BY DEF Chosen
  <2> QED BY <1>1, <2>1 DEF Offset
<1>3. PICK y : Writes(y, e, size, c) /\ y \in [0..n -> Writing] /\ E = y[n]
  BY <1>1, EncodeValues DEF Writes
<1>4. PICK B : B = E.block
  OBVIOUS
<1>5. E \in Writing /\ B \in Seq(Reps)
  BY <1>2, <1>3, <1>4 DEF Writing
<1>6. /\ Len(B) = o + n
      /\ o = 1 => B[1].kind = "resize" /\ B[1].index = size
      /\ \A i \in 1..n : B[o + i] = Encoding(y[i - 1].dynamic, c[i].field, c[i].how)
      /\ \A k \in 0..n : y[k].max = size
  <2>1. B = y[Len(c)].block
    BY <1>1, <1>3, <1>4
  <2>2. o = Offset(e, size) /\ Writes(y, e, size, c)
    BY <1>1, <1>3
  <2>3. IsBlock(B, o, y, size, c)
    BY <2>1, <2>2, BlockIs
  <2> QED BY <1>1, <2>3 DEF IsBlock
<1>7. PICK x : Reads(x, d, B) /\ x \in [0..Len(B) -> Reading] /\ X = x[Len(B)]
  <2>1. PICK x : Reads(x, d, B) /\ X = x[Len(B)]
    BY <1>4, <1>5, DecodeValues
  <2>2. x \in [0..Len(B) -> Reading]
    BY <2>1 DEF Reads
  <2> QED BY <2>1, <2>2
<1>8. X = x[o + n] /\ \A k \in 0..n : o + k \in 0..Len(B) /\ x[o + k] \in Reading
  BY <1>2, <1>6, <1>7
<1> DEFINE P(k) == x[o + k].ok =>
                     /\ Behind(x[o + k].decoder, y[k]) /\ x[o + k].decoder.allowed = d.allowed
                     /\ Len(x[o + k].out) = k /\ \A i \in 1..k : x[o + k].out[i] = c[i].field
           Q(k) == G => x[o + k].ok /\ Alike(x[o + k].decoder, y[k])
           R(k) == TotalSize(y[k].dynamic) <= size
           T == {k \in 0..n : P(k) /\ Q(k) /\ R(k)}
<1> HIDE DEF G
<1>9. 0 \in T
  <2>1. y[0] = Resized(e, size, c)
    BY <1>3 DEF Writes
  <2>2. /\ x[o].ok => /\ Behind(x[o].decoder, y[0]) /\ x[o].out = <<>>
                      /\ x[o].decoder.allowed = d.allowed
        /\ G => x[o].ok /\ Alike(x[o].decoder, y[0])
    <3>1. o = Offset(e, size) /\ o <= Len(B)
      BY <1>1, <1>2, <1>6
    <3>2. /\ x[o].ok => /\ Behind(x[o].decoder, Resized(e, size, c)) /\ x[o].out = <<>>
                        /\ x[o].decoder.allowed = d.allowed
          /\ Alike(d, e) /\ size <= d.allowed =>
               x[o].ok /\ Alike(x[o].decoder, Resized(e, size, c))
      BY <1>5, <1>6, <1>7, <3>1, StartOfBlock
    <3> QED BY <2>1, <3>2 DEF G
  <2>3. R(0)
    BY <2>1, FittingFits DEF Resized
  <2>4. o + 0 = o /\ Len(<<>>) = 0 /\ 0 \in 0..n
    BY <1>2
  <2>5. P(0)
    BY <2>2, <2>4
  <2>6. Q(0)
    BY <2>2, <2>4
  <2> QED BY <2>3, <2>4, <2>5, <2>6
<1>10. ASSUME NEW k \in 1..n, k - 1 \in T PROVE k \in T
  <2>1. PICK a, u, w, v, r : /\ a = x[o + (k - 1)] /\ u = x[o + k] /\ w = y[k - 1] /\ v = y[k]
                             /\ r = Encoding(w.dynamic, c[k].field, c[k].how)
    OBVIOUS
  <2>2. /\ k \in 0..n /\ k - 1 \in 0..n /\ o + k \in 1..Len(B) /\ (o + k) - 1 = o + (k - 1)
        /\ k \in Nat
    BY <1>2, <1>6
  <2>3. B[o + k] = r /\ r \in Reps
    BY <1>5, <1>6, <2>1, <2>2
  <2>4. u = DecodeOne(a, r)
    BY <1>7, <2>1, <2>2, <2>3 DEF Reads
  <2>5. v = EncodeOne(w, c[k]) /\ w \in Writing /\ c[k] \in Choice /\ w.max = size
    <3>1. v = EncodeOne(w, c[k])
      BY <1>1, <1>3, <2>1 DEF Writes
    <3> QED BY <1>2, <1>3, <1>6, <2>1, <2>2, <3>1
  <2>6. a \in Reading /\ u \in Reading
    BY <1>8, <2>1, <2>2
  <2>7. /\ a.ok => /\ Behind(a.decoder, w) /\ a.decoder.allowed = d.allowed
                   /\ Len(a.out) = k - 1 /\ \A i \in 1..(k - 1) : a.out[i] = c[i].field
        /\ G => a.ok /\ Alike(a.decoder, w)
        /\ TotalSize(w.dynamic) <= size
    BY <1>10, <2>1
  <2>8. R(k)
    <3>1. v.dynamic = IF r.kind = "insert" THEN Fitting(<<c[k].field>> \o w.dynamic, size)
                                           ELSE w.dynamic
      BY <2>1, <2>5, EncodeOneIs
    <3>2. <<c[k].field>> \o w.dynamic \in Seq(Field)
      BY <2>5, ConcatProperties DEF Writing, Choice
    <3>3. TotalSize(Fitting(<<c[k].field>> \o w.dynamic, size)) <= size
      BY <3>2, FittingFits
    <3> QED BY <2>1, <2>7, <3>1, <3>3
  <2>9. CASE ~a.ok
    <3>1. ~u.ok /\ ~G
      BY <2>3, <2>4, <2>6, <2>7, <2>9, DecodeOneIs
    <3> QED BY <2>1, <2>2, <2>8, <3>1
  <2>10. CASE a.ok
    <3>1. Behind(a.decoder, w)
      BY <2>7, <2>10
    <3>2. /\ u.ok => /\ Behind(u.decoder, v) /\ u.out = Append(a.out, c[k].field)
                     /\ u.decoder.allowed = a.decoder.allowed
          /\ Alike(a.decoder, w) => u.ok /\ Alike(u.decoder, v)
      <4>1. PICK ch : ch = c[k]
        OBVIOUS
      <4>2. ch \in Choice /\ v = EncodeOne(w, ch) /\ r = Encoding(w.dynamic, ch.field, ch.how)
        BY <2>1, <2>5, <4>1
      <4>3. a \in Reading /\ w \in Writing /\ u = DecodeOne(a, r)
        BY <2>4, <2>5, <2>6
      <4>4. /\ u.ok => /\ Behind(u.decoder, v) /\ u.out = Append(a.out, ch.field)
                       /\ u.decoder.allowed = a.decoder.allowed
            /\ a.ok /\ Alike(a.decoder, w) => u.ok /\ Alike(u.decoder, v)
        BY <3>1, <4>2, <4>3, OneField
      <4> QED BY <2>10, <4>1, <4>4
    <3>3. P(k)
      <4> SUFFICES ASSUME u.ok
                   PROVE  /\ Behind(u.decoder, v) /\ u.decoder.allowed = d.allowed
                          /\ Len(u.out) = k /\ \A i \in 1..k : u.out[i] = c[i].field
        BY <2>1
      <4>1. PICK b, f, z : b = a.out /\ f = c[k].field /\ z = u.out
        OBVIOUS
      <4>2. b \in Seq(Field) /\ f \in Field /\ z = Append(b, f) /\ Len(b) = k - 1
        BY <2>5, <2>6, <2>7, <2>10, <3>2, <4>1 DEF Reading, Choice
      <4>3. Len(z) = (k - 1) + 1 /\ (\A i \in 1..(k - 1) : z[i] = b[i]) /\ z[(k - 1) + 1] = f
        BY <4>2, AppendProperties
      <4>4. (k - 1) + 1 = k
        BY <2>2
      <4>5. \A i \in 1..k : z[i] = c[i].field
        <5> SUFFICES ASSUME NEW i \in 1..k PROVE z[i] = c[i].field
          OBVIOUS
        <5>1. CASE i = k
          BY <4>1, <4>3, <4>4, <5>1
        <5>2. CASE i # k
          <6>1. i \in 1..(k - 1)
            BY <2>2, <5>2
          <6> QED BY <2>7, <2>10, <4>1, <4>3, <6>1
        <5> QED BY <5>1, <5>2
      <4> QED BY <2>7, <2>10, <3>2, <4>1, <4>3, <4>4, <4>5
    <3>4. Q(k)
      BY <2>1, <2>7, <3>2
    <3> HIDE DEF P, Q, R
    <3> QED BY <2>2, <2>8, <3>3, <3>4
  <2> QED BY <2>9, <2>10
<1> HIDE DEF T
<1>11. \A k \in 0..n : k \in T
  BY <1>2, <1>9, <1>10, UpTo
<1>12. n \in 0..n /\ n \in T
  BY <1>2, <1>11
<1>13. P(n) /\ Q(n) /\ R(n)
  BY <1>12 DEF T
<1>14. X \in Reading /\ E.max = size
  BY <1>3, <1>6, <1>8, <1>12
<1> QED BY <1>1, <1>3, <1>5, <1>8, <1>13, <1>14 DEF G, InStep

-----------------------------------------------------------------------------
(* The session                                                             *)

\* The tables of a session that is open, and of one whose server has named no
\* smaller table than the default.
Tables ==
  /\ decoder \in Decoder
  /\ encoder \in [dynamic : Seq(Field), max : Nat]
  /\ TotalSize(encoder.dynamic) <= encoder.max /\ encoder.max <= DefaultSize

Together ==
  /\ open \in BOOLEAN /\ least \in Nat
  /\ open => header.got = header.sent /\ Behind(decoder, encoder) /\ least <= decoder.allowed
  /\ least >= DefaultSize => open /\ Alike(decoder, encoder)

HpackInv == Tables /\ Together

LEMMA HpackInvInit == HpackInit => HpackInv
<1> SUFFICES ASSUME HpackInit PROVE HpackInv
  OBVIOUS
<1>1. DefaultSize \in Nat /\ <<>> \in Seq(Field) /\ TotalSize(<<>>) = 0
  BY HpackAssumption, SizeOfNone, EmptySeq
<1>2. /\ decoder \in [dynamic : Seq(Field), size : Nat, max : Nat, allowed : Nat]
      /\ decoder.dynamic = <<>> /\ decoder.size = 0 /\ decoder.max = DefaultSize
      /\ decoder.allowed = DefaultSize
  BY <1>1 DEF HpackInit
<1>3. /\ encoder \in [dynamic : Seq(Field), max : Nat]
      /\ encoder.dynamic = <<>> /\ encoder.max = DefaultSize
  BY <1>1 DEF HpackInit
<1>4. Tables
  BY <1>1, <1>2, <1>3 DEF Tables, Decoder, Counted
<1>5. IsPrefix(decoder.dynamic, encoder.dynamic)
  BY <1>1, <1>2, <1>3, PrefixOfItself
<1>6. Together
  BY <1>1, <1>2, <1>3, <1>5 DEF Together, Behind, Alike, HpackInit
<1> QED BY <1>4, <1>6 DEF HpackInv

LEMMA ApplySettingsKeeps ==
  ASSUME HpackInv, NEW n \in Sizes, ApplySettings(n)
  PROVE  HpackInv'
<1>1. /\ decoder \in Decoder /\ encoder \in [dynamic : Seq(Field), max : Nat]
      /\ TotalSize(encoder.dynamic) <= encoder.max /\ encoder.max <= DefaultSize
      /\ open = TRUE /\ least \in Nat /\ header.got = header.sent
      /\ Behind(decoder, encoder) /\ least <= decoder.allowed
      /\ least >= DefaultSize => Alike(decoder, encoder)
  BY DEF HpackInv, Tables, Together, ApplySettings
<1>2. n \in Nat /\ DefaultSize \in Nat
  BY HpackAssumption
<1>3. decoder' = SetAllowedMaxSize(decoder, n) /\ UNCHANGED <<encoder, header, open>>
  BY DEF ApplySettings
<1>4. least' \in {least, n} /\ least' <= n /\ least' <= least
  <2>1. {least, n} \in SUBSET Nat
    BY <1>1, <1>2
  <2>2. Min({least, n}) \in {least, n} /\ Min({least, n}) <= n /\ Min({least, n}) <= least
    BY <2>1, MinIs
  <2> QED BY <2>2 DEF ApplySettings
<1>5. PICK d, t, f : d = decoder' /\ t = encoder.dynamic /\ f = decoder.dynamic
  OBVIOUS
<1>6. /\ t \in Seq(Field) /\ f \in Seq(Field) /\ IsPrefix(f, t)
      /\ encoder.max \in Nat /\ decoder.max \in Nat
      /\ decoder.max <= decoder.allowed /\ decoder.max <= encoder.max
  BY <1>1, <1>5 DEF Decoder, Behind
<1>7. /\ d \in Decoder /\ d.allowed = n
      /\ \/ decoder.max <= n /\ d.max = decoder.max /\ d.dynamic = f
         \/ n < decoder.max /\ d.max = n /\ d.dynamic = Fitting(f, n)
  BY <1>1, <1>2, <1>3, <1>5, SetAllowedMaxSizeIs
<1>8. Behind(d, encoder)
  <2>1. Fitting(t, encoder.max) = t
    BY <1>1, <1>5, <1>6, FittingFits
  <2>2. n < decoder.max => IsPrefix(Fitting(f, n), t)
    BY <1>2, <1>6, <2>1, PrefixFits
  <2> QED BY <1>2, <1>5, <1>6, <1>7, <2>2 DEF Behind
<1>9. least' >= DefaultSize => Alike(d, encoder)
  <2> SUFFICES ASSUME least' >= DefaultSize PROVE Alike(d, encoder)
    OBVIOUS
  <2>1. n >= DefaultSize /\ least >= DefaultSize
    BY <1>1, <1>2, <1>4
  <2>2. decoder.max = encoder.max /\ f = t
    BY <1>1, <1>5, <2>1 DEF Alike
  <2>3. d.max = decoder.max /\ d.dynamic = f
    BY <1>1, <1>2, <1>6, <1>7, <2>1, <2>2
  <2> QED BY <1>5, <2>2, <2>3 DEF Alike
<1>10. Tables'
  BY <1>1, <1>3, <1>5, <1>7 DEF Tables
<1>11. Together'
  <2>1. Behind(decoder, encoder)' /\ (Alike(decoder, encoder)' <=> Alike(d, encoder))
    BY <1>3, <1>5, <1>8 DEF Behind, Alike
  <2> QED BY <1>1, <1>2, <1>3, <1>4, <1>5, <1>7, <1>9, <2>1 DEF Together
<1> QED BY <1>10, <1>11 DEF HpackInv

LEMMA ReadBlockKeeps ==
  ASSUME HpackInv, NEW size \in Nat, NEW c \in Chosen, ReadBlock(size, c)
  PROVE  HpackInv'
<1>1. /\ decoder \in Decoder /\ encoder \in [dynamic : Seq(Field), max : Nat]
      /\ TotalSize(encoder.dynamic) <= encoder.max
      /\ open = TRUE /\ least \in Nat /\ Behind(decoder, encoder) /\ least <= decoder.allowed
      /\ least >= DefaultSize => Alike(decoder, encoder)
  BY DEF HpackInv, Tables, Together, ReadBlock
<1>2. PICK e : e = Encode(encoder, size, c)
  OBVIOUS
<1>3. PICK x : x = Decode(decoder, e.block)
  OBVIOUS
<1>4. /\ size <= DefaultSize /\ encoder' = [dynamic |-> e.dynamic, max |-> e.max]
      /\ decoder' = x.decoder /\ open' = x.ok /\ least' = least
      /\ header' = [sent |-> [i \in DOMAIN c |-> c[i].field], got |-> x.out]
  BY <1>2, <1>3 DEF ReadBlock
<1>5. /\ e \in Writing /\ e.max = size /\ TotalSize(e.dynamic) <= size
      /\ x \in Reading
      /\ x.ok => /\ Behind(x.decoder, e) /\ x.decoder.allowed = decoder.allowed
                 /\ Len(x.out) = Len(c) /\ \A i \in 1..Len(c) : x.out[i] = c[i].field
      /\ Alike(decoder, encoder) /\ size <= decoder.allowed => x.ok /\ Alike(x.decoder, e)
  <2>1. PICK d, t : d = decoder /\ t = encoder
    OBVIOUS
  <2>2. /\ d \in Decoder /\ t \in [dynamic : Seq(Field), max : Nat]
        /\ TotalSize(t.dynamic) <= t.max /\ Behind(d, t)
        /\ e = Encode(t, size, c) /\ x = Decode(d, e.block)
    BY <1>1, <1>2, <1>3, <2>1
  <2>3. InStep(d, t, size, c, e, x)
    BY <2>2, BlockDecodes
  <2> QED BY <2>1, <2>3 DEF InStep
<1>6. Tables'
  BY <1>4, <1>5 DEF Tables, Writing, Reading
<1>7. x.ok => header'.got = header'.sent
  <2> SUFFICES ASSUME x.ok PROVE header'.got = header'.sent
    OBVIOUS
  <2> DEFINE sent == [i \in DOMAIN c |-> c[i].field]
  <2>1. c \in Seq(Choice) /\ DOMAIN c = 1..Len(c) /\ Len(c) \in Nat
    BY DEF Chosen
  <2>2. \A i \in DOMAIN c : c[i].field \in Field
    <3>1. \A i \in DOMAIN c : c[i] \in Choice
      BY <2>1
    <3> QED BY <3>1 DEF Choice
  <2>3. sent \in Seq(Field) /\ Len(sent) = Len(c)
    BY <2>1, <2>2
  <2>4. x.out \in Seq(Field) /\ Len(x.out) = Len(c)
    BY <1>5 DEF Reading
  <2>5. \A i \in 1..Len(c) : x.out[i] = sent[i]
    BY <1>5, <2>1
  <2> HIDE DEF sent
  <2>6. x.out = sent
    BY <2>3, <2>4, <2>5, SeqEqual
  <2> QED BY <1>4, <2>6 DEF sent
<1>8. x.ok => Behind(decoder, encoder)' /\ least' <= decoder'.allowed
  BY <1>1, <1>4, <1>5 DEF Behind
<1>9. least' >= DefaultSize => x.ok /\ Alike(decoder, encoder)'
  <2> SUFFICES ASSUME least' >= DefaultSize PROVE x.ok /\ Alike(decoder, encoder)'
    OBVIOUS
  <2>1. DefaultSize \in Nat /\ decoder.allowed \in Nat
    BY <1>1, HpackAssumption DEF Decoder
  <2>2. Alike(decoder, encoder) /\ size <= decoder.allowed
    BY <1>1, <1>4, <2>1
  <2> QED BY <1>4, <1>5, <2>2 DEF Alike
<1>10. Together'
  BY <1>1, <1>4, <1>5, <1>7, <1>8, <1>9 DEF Together, Reading
<1> QED BY <1>6, <1>10 DEF HpackInv

LEMMA HpackInvNext == HpackInv /\ [HpackNext]_hpackVars => HpackInv'
<1> SUFFICES ASSUME HpackInv, [HpackNext]_hpackVars PROVE HpackInv'
  OBVIOUS
<1>1. CASE \E n \in Sizes : ApplySettings(n)
  BY <1>1, ApplySettingsKeeps
<1>2. CASE \E n \in Sizes \cup {encoder.max}, k \in 1..MaxFields :
             \E choices \in [1..k -> Choice] : ReadBlock(n, choices)
  <2>1. PICK n \in Sizes \cup {encoder.max}, k \in 1..MaxFields :
               \E choices \in [1..k -> Choice] : ReadBlock(n, choices)
    BY <1>2
  <2>2. PICK c \in [1..k -> Choice] : ReadBlock(n, c)
    BY <2>1
  <2>3. n \in Nat
    BY HpackAssumption DEF HpackInv, Tables
  <2>4. k \in Nat /\ k # 0
    BY HpackAssumption
  <2>5. c \in Chosen
    BY <2>4 DEF Chosen
  <2> QED BY <2>2, <2>3, <2>5, ReadBlockKeeps
<1>3. CASE UNCHANGED hpackVars
  BY <1>3 DEF hpackVars, HpackInv, Tables, Together, Behind, Alike
<1> QED BY <1>1, <1>2, <1>3 DEF HpackNext

\* The two tables stay together, for any sequence of blocks, of sizes in the
\* server's SETTINGS (set_allowed_max_size) and of size updates (decode): the
\* decoder's is the newest part of the encoder's, all of it unless a smaller
\* size has been named.
THEOREM HpackInvariant == HpackSpec => []HpackInv
<1>1. HpackInit => HpackInv
  BY HpackInvInit
<1>2. HpackInv /\ [HpackNext]_hpackVars => HpackInv'
  BY HpackInvNext
<1> QED BY <1>1, <1>2, PTL DEF HpackSpec

\* Whatever decode accepts is what the server has sent, it refuses nothing of
\* a server that names no smaller table, and the size that insert_dynamic and
\* evict_dynamic keep count of is that of the entries, within the maximum.
THEOREM HpackDecodesAsSent == HpackSpec => []DecodesAsSent
<1>1. HpackInv => DecodesAsSent
  <2> SUFFICES ASSUME HpackInv PROVE DecodesAsSent
    OBVIOUS
  <2>1. decoder.size = TotalSize(decoder.dynamic) /\ decoder.size <= decoder.max
        /\ decoder.max <= decoder.allowed
    BY DEF HpackInv, Tables, Decoder, Counted
  <2> QED BY <2>1 DEF HpackInv, Together, Behind, Alike, DecodesAsSent
<1> QED BY <1>1, HpackInvariant, PTL
=============================================================================
