------------------------------ MODULE MCWriteAt ------------------------------
(***************************************************************************)
(* Credit units of two bytes: a write of three bytes takes one chunk or    *)
(* several, and the credits, the ids and the offsets all run out.          *)
(***************************************************************************)
EXTENDS WriteAt
=============================================================================
