-------------------------- MODULE MCAndroidEngine ---------------------------
(***************************************************************************)
(* A share with a root, a file and a free name.  Java writes the free name *)
(* with a separator at its end, and asks for the root and for "." too.     *)
(***************************************************************************)
EXTENDS AndroidEngine

MCTag == 4
MCMaxJniBytes == 1
MCMaxRead == 1
MCSpellings == {<<"">>, <<".">>, <<"a">>, <<"b", "">>}
MCNames == {<<>>, <<"a">>, <<"b">>}
MCShares == {[p \in MCNames |-> IF p = <<>> THEN "dir" ELSE IF p = <<"a">> THEN "file" ELSE "none"]}
MCNodes == 1 .. 3
MCMaxCalls == 3
MCMaxThreads == 2
=============================================================================
