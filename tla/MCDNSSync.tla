----------------------------- MODULE MCDNSSync -----------------------------
(***************************************************************************)
(* Small instances of DNSSync: two names are enough for one to be written  *)
(* when the other fails, two targets for the apex to move.                 *)
(***************************************************************************)
EXTENDS DNSSync, TLC

CONSTANTS n1, n2

Names == {n1, n2}
OneName == {n1}
Symmetric == Permutations(Names)

=============================================================================
