-------------------------- MODULE MCCancelableRead --------------------------
(***************************************************************************)
(* One call: two READs per wave, two waves.                                *)
(***************************************************************************)
EXTENDS CancelableRead

MCGrants == {0, 1}
=============================================================================
