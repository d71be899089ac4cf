---------------------------- MODULE MCFileHandles ---------------------------
(***************************************************************************)
(* Three threads: one closes while a second holds the lock and a third has *)
(* looked the handle up and waits.                                         *)
(***************************************************************************)
EXTENDS FileHandles, TLC

CONSTANTS t1, t2, t3

ThreeThreads == {t1, t2, t3}
ThreadSymmetry == Permutations(ThreeThreads)
=============================================================================
