------------------------------- MODULE MCHttp1 -------------------------------
(***************************************************************************)
(* Two requests of an origin that an earlier one has left a connection of: *)
(* one of them can find that connection closed, then the one which the     *)
(* other has returned, and then has to open its own.                       *)
(***************************************************************************)
EXTENDS Http1

CONSTANTS t1, t2, o1, a1, a2

MCLookups == {<<a1, a2>>}

MCAnswers ==
  {[shape |-> s, n |-> IF s \in {"empty", "bad"} THEN 0 ELSE 1,
    close |-> FALSE, interim |-> FALSE] : s \in Shape}
  \cup {[shape |-> "length", n |-> 0, close |-> TRUE, interim |-> FALSE],
        [shape |-> "length", n |-> 1, close |-> FALSE, interim |-> TRUE]}
=============================================================================
