---------------------------- MODULE MCSystemCall ----------------------------
(* Every implemented call, one object each.                                *)
EXTENDS SystemCall

MCCallNames == AllCalls

=============================================================================
