----------------------------- MODULE MCSession ------------------------------
(***************************************************************************)
(* SMB 2.1 and 3.1.1 offered, two rounds, three requests on the session and *)
(* one changed message.                                                    *)
(***************************************************************************)
EXTENDS Session

MCOffered == {"smb210", "smb311"}
MCInitialCredits == {2}
MCGrants == {0, 1}
=============================================================================
