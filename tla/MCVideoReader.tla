--------------------------- MODULE MCVideoReader ----------------------------
(***************************************************************************)
(* A file that is longer than the window, requests that are longer than    *)
(* it, and throughput below, at and above the budget.                      *)
(***************************************************************************)
EXTENDS VideoReader

MCSamples == {0, 2, 9}
=============================================================================
