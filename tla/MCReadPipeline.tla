--------------------------- MODULE MCReadPipeline ---------------------------
(***************************************************************************)
(* A file of three credit units read through a window of a few credits.    *)
(***************************************************************************)
EXTENDS ReadPipeline

MCRanges == {<<0, 5>>, <<1, 2>>, <<5, 1>>}
MCGrants == {0, 1, 2}
=============================================================================
