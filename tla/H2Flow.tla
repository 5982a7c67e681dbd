------------------------------- MODULE H2Flow -------------------------------
(***************************************************************************)
(* Flow control of one HTTP/2 session: the windows that the client gives   *)
(* the server when it connects (h2/session.rs) and gives back as DATA      *)
(* frames are read (h2/read.rs, h2/window.rs), both sized by the load      *)
(* (backpressure.rs). A stream's credit is given back with every frame,    *)
(* the connection's when enough of it has come together.                   *)
(*                                                                         *)
(* The server is external: it sends what both windows allow. A frame is    *)
(* counted when it is read, so sending and reading it are one step; credit *)
(* on its way back to the server is a number per window. f32 arithmetic is *)
(* that of the rationals here.                                             *)
(***************************************************************************)
EXTENDS Integers

CONSTANTS
  Stream,         \* streams of the session, all with a response to send
  ScannerWindow,  \* SCANNER_INITIAL_WINDOW
  MinWindow,      \* DEFAULT_H2_WINDOW * 4
  MinThreshold,   \* the least credit that is given back at once
  Capacity,       \* capacities that are set
  MaxLoad,        \* requests in flight at most
  MaxBody,        \* length of a response
  MaxPadding      \* bytes of padding the server sends at most

ASSUME FlowAssumption ==
  /\ ScannerWindow \in Nat /\ MinWindow \in Nat \ {0} /\ MinThreshold \in Nat \ {0}
  /\ MinThreshold <= MinWindow
  /\ Capacity \subseteq Nat \ {0}
  /\ MaxLoad \in Nat /\ MaxBody \in Nat /\ MaxPadding \in Nat

VARIABLES
  inflight,      \* Backpressure::inflight
  capacity,      \* Backpressure::capacity
  initial,       \* the window the session has started with, 0 before
  connWindow,    \* what the server may send on the connection
  streamWindow,  \* Stream -> what it may send on the stream
  pending,       \* conn_pending_credit
  connCredit,    \* connection credit on its way to the server
  streamCredit,  \* Stream -> credit on its way
  left,          \* Stream -> bytes of the response to be sent
  padding,       \* bytes of padding received
  paddingOn      \* Stream -> bytes of padding received on it

load == <<inflight, capacity>>
windows == <<connWindow, streamWindow, pending, connCredit, streamCredit>>
flowVars == <<load, initial, windows, left, padding, paddingOn>>

-----------------------------------------------------------------------------
(* Backpressure                                                            *)

Lesser(a, b) == IF a < b THEN a ELSE b
Greater(a, b) == IF a > b THEN a ELSE b

\* generosity() * x, rounded down: 1 when idle, 1 - load/2 down to a quarter.
Generous(x) ==
  (x * (4 * capacity - Lesser(2 * inflight, 3 * capacity))) \div (4 * capacity)

\* scaled_initial_window
ScaledInitialWindow == Greater(Generous(ScannerWindow), MinWindow)

\* Mutant: credit waits for as much as the window is.
Threshold_Whole == Greater(Generous(ScannerWindow), MinThreshold)

Threshold == Greater(Generous(ScannerWindow \div 4), MinThreshold)

SetCapacity(c) ==
  /\ capacity' = c
  /\ UNCHANGED <<inflight, initial, windows, left, padding, paddingOn>>

Enter ==
  /\ inflight < MaxLoad
  /\ inflight' = inflight + 1
  /\ UNCHANGED <<capacity, initial, windows, left, padding, paddingOn>>

Leave ==
  /\ inflight > 0
  /\ inflight' = inflight - 1
  /\ UNCHANGED <<capacity, initial, windows, left, padding, paddingOn>>

-----------------------------------------------------------------------------
(* The session                                                             *)

\* SETTINGS give every stream the window, a WINDOW_UPDATE the connection.
Connect ==
  /\ initial = 0
  /\ initial' = ScaledInitialWindow
  /\ connWindow' = initial'
  /\ streamWindow' = [s \in Stream |-> initial']
  /\ UNCHANGED <<load, pending, connCredit, streamCredit, left, padding, paddingOn>>

\* Mutant: the credit is given back and kept.
ReleaseWindow_Kept(s, n) ==
  /\ streamCredit' = [streamCredit EXCEPT ![s] = @ + n]
  /\ IF n > 0 /\ pending + n >= Threshold
     THEN connCredit' = connCredit + pending + n /\ UNCHANGED pending
     ELSE pending' = pending + n /\ UNCHANGED connCredit

\* release_window: the stream's credit at once, the connection's when it has
\* reached the threshold of the moment.
ReleaseWindow(s, n) ==
  /\ streamCredit' = [streamCredit EXCEPT ![s] = @ + n]
  /\ IF n > 0 /\ pending + n >= Threshold
     THEN connCredit' = connCredit + pending + n /\ pending' = 0
     ELSE pending' = pending + n /\ UNCHANGED connCredit

\* A DATA frame with n bytes of the body and p of padding: the windows count
\* both, data_payload leaves n to give back.
ReadData(s, n, p) ==
  /\ initial > 0
  /\ n <= left[s] /\ padding + p <= MaxPadding
  /\ n + p <= connWindow /\ n + p <= streamWindow[s]
  /\ connWindow' = connWindow - (n + p)
  /\ streamWindow' = [streamWindow EXCEPT ![s] = @ - (n + p)]
  /\ left' = [left EXCEPT ![s] = @ - n]
  /\ padding' = padding + p
  /\ paddingOn' = [paddingOn EXCEPT ![s] = @ + p]
  /\ ReleaseWindow(s, n)
  /\ UNCHANGED <<load, initial>>

\* WINDOW_UPDATE frames reach the server.
CreditConn(k) ==
  /\ k <= connCredit
  /\ connWindow' = connWindow + k
  /\ connCredit' = connCredit - k
  /\ UNCHANGED <<load, initial, streamWindow, pending, streamCredit, left,
                 padding, paddingOn>>

CreditStream(s, k) ==
  /\ k <= streamCredit[s]
  /\ streamWindow' = [streamWindow EXCEPT ![s] = @ + k]
  /\ streamCredit' = [streamCredit EXCEPT ![s] = @ - k]
  /\ UNCHANGED <<load, initial, connWindow, pending, connCredit, left, padding,
                 paddingOn>>

-----------------------------------------------------------------------------
FlowInit ==
  /\ inflight = 0
  /\ capacity \in Capacity
  /\ initial = 0 /\ connWindow = 0 /\ pending = 0 /\ connCredit = 0
  /\ streamWindow = [s \in Stream |-> 0]
  /\ streamCredit = [s \in Stream |-> 0]
  /\ left = [s \in Stream |-> MaxBody]
  /\ padding = 0
  /\ paddingOn = [s \in Stream |-> 0]

\* Sizes that are sent and credited.
Size == 1..(MaxBody + MaxPadding)

FlowNext ==
  \/ \E c \in Capacity : SetCapacity(c)
  \/ Enter \/ Leave \/ Connect
  \/ \E s \in Stream, n \in 0..MaxBody, p \in 0..MaxPadding : ReadData(s, n, p)
  \/ \E k \in Size : CreditConn(k)
  \/ \E s \in Stream, k \in Size : CreditStream(s, k)

FlowSpec == FlowInit /\ [][FlowNext]_flowVars

-----------------------------------------------------------------------------
(* Properties                                                              *)

FlowTypeOK ==
  /\ inflight \in 0..MaxLoad
  /\ capacity \in Capacity
  /\ initial \in Nat /\ connWindow \in Nat /\ pending \in Nat
  /\ connCredit \in Nat /\ padding \in 0..MaxPadding
  /\ streamWindow \in [Stream -> Nat]
  /\ streamCredit \in [Stream -> Nat]
  /\ left \in [Stream -> 0..MaxBody]
  /\ paddingOn \in [Stream -> Nat]

\* No credit is invented and none but that for padding is lost: what the
\* server may send, what is on its way to it, what waits to be given back and
\* the padding make up the window the session has started with. So no window
\* ever grows beyond that one.
Conserved ==
  /\ connWindow + connCredit + pending + padding = initial
  /\ \A s \in Stream : streamWindow[s] + streamCredit[s] + paddingOn[s] = initial

\* A server that has been given all the credit there is can go on sending on
\* every stream, whatever the load was when the session started and has been
\* since; padding is the one thing that takes that away, byte by byte.
NeverStalls ==
  initial > 0 =>
    /\ connCredit = 0 => connWindow + padding > 0
    /\ \A s \in Stream : streamCredit[s] = 0 => streamWindow[s] + paddingOn[s] > 0

=============================================================================
