--------------------------- MODULE MCVideoBroker ----------------------------
(***************************************************************************)
(* Two callers of one broker.                                              *)
(***************************************************************************)
EXTENDS VideoBroker

CONSTANTS c1, c2

TwoCallers == {c1, c2}
=============================================================================
