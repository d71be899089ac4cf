---------------------------- MODULE MCTransport -----------------------------
(***************************************************************************)
(* Messages of no, one, two and three bytes, the last one too large.       *)
(***************************************************************************)
EXTENDS Transport

MCMessages == {<<>>, <<1, 0>>, <<0, 2, 1>>}
=============================================================================
