------------------------------ MODULE MCCache ------------------------------
(***************************************************************************)
(* Small caches, all policies.                                              *)
(***************************************************************************)
EXTENDS Cache

MCAddresses == {0, 9, 16, 31}
\* One set or several, one block per set or several; the last two are refused.
MCArguments == {<<1, 2, 8>>, <<2, 2, 4>>, <<2, 1, 8>>, <<8, 1, 4>>, <<3, 2, 4>>, <<1, 2, 2>>}

=============================================================================
