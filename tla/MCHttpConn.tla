----------------------------- MODULE MCHttpConn ------------------------------
(***************************************************************************)
(* HttpConn for TLC: a request that is kept alive and the next one, one    *)
(* with content (with a line end in it, and more than asked for), lines    *)
(* that are wrong in each way, and every kind of Content-Length: taken     *)
(* back by a second one, negative by little and by more than the head,     *)
(* too large to be added to, too large for an int.                         *)
(***************************************************************************)
EXTENDS HttpConn

MCLength == [two |-> 2, zero |-> 0, minus |-> -3, far |-> -20, huge |-> 35, wraps |-> 84]

MCStreams ==
    { <<"get", "CR", "LF", "keep", "CR", "LF", "CR", "LF", "get", "CR", "LF", "CR", "LF">>,
      <<"get", "CR", "LF", "keep", "CR", "LF", "two", "CR", "LF", "CR", "LF", "x", "x", "x">>,
      <<"get", "CR", "LF", "two", "CR", "LF", "CR", "LF", "CR", "LF", "x", "x", "x">>,
      <<"get", "CR", "LF", "two", "CR", "LF", "zero", "CR", "LF", "CR", "LF">>,
      <<"get", "CR", "LF", "minus", "CR", "LF", "CR", "LF", "x">>,
      <<"get", "CR", "LF", "far", "CR", "LF", "CR", "LF">>,
      <<"get", "CR", "LF", "huge", "CR", "LF", "CR", "LF", "x", "CR", "LF", "x">>,
      <<"get", "CR", "LF", "wraps", "CR", "LF", "CR", "LF", "x", "x">>,
      <<"bad", "CR", "LF", "CR", "LF">>,
      <<"get", "CR", "LF", "bad", "CR", "LF", "keep", "LF", "CR", "LF">>,
      <<"get", "CR", "x", "CR", "LF">> }
=============================================================================
