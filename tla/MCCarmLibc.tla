----------------------------- MODULE MCCarmLibc -----------------------------
(***************************************************************************)
(* Model-checking instance of CarmLibc and CarmStdio.                      *)
(***************************************************************************)
EXTENDS CarmStdio

(* Files that end inside the second object and behind the buffer. *)
MCFiles == {<<1, 0, 1>>, <<0, 1, 1, 0, 1, 1, 1>>}

(* The second is the byte 1 and the first becomes it as a byte. *)
MCInts == {-1, 1}

MCFormats == {<<"d">>, <<"lit", "s">>, <<"s", "s">>}
=============================================================================
