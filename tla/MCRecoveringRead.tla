-------------------------- MODULE MCRecoveringRead --------------------------
(***************************************************************************)
(* Two files the path may name.  Samples are two bytes, at 1-2 and 2-3 of  *)
(* a file of three bytes.  `mixed` has the beginning of `older` and, where *)
(* a sample of three bytes ends, the end of `newer`; a file opened as      *)
(* `newer` no longer has its last sample when it becomes one of the others.*)
(***************************************************************************)
EXTENDS RecoveringRead

CONSTANTS f1, f2
MCInodes == {f1, f2}

older == [data |-> <<1, 1, 1>>, time |-> 0]
newer == [data |-> <<2, 1, 2, 2>>, time |-> 2]
mixed == [data |-> <<1, 1, 2>>, time |-> 1]
MCVersions == {older, newer, mixed}
MCStill == {mixed}
=============================================================================
