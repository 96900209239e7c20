---------------------------- MODULE MCSubmissions ----------------------------
(* A small instance of module Submissions.  Two different bytes tell an      *)
(* order from another; a limit of two bytes is met exactly, missed by one,   *)
(* and overrun by one and by two.                                            *)
EXTENDS Submissions

MCByte == {0, 1}
MCChunks == {<<>>, <<0>>, <<1>>, <<0, 1>>, <<1, 1, 0>>}
MCRequests ==
  [gated: BOOLEAN, encoded: BOOLEAN,
   lengths: {<<>>, <<1, 1>>, <<-1>>, <<NotANumber>>} \cup {<<n>> : n \in 0..3}]

(* The shortest body and the empty one do not validate. *)
MCValid == {<<0, 1>>, <<1, 0>>}
=============================================================================
