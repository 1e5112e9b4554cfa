--------------------------- MODULE MCAcmeManager ---------------------------
(***************************************************************************)
(* Small instances of AcmeManager.  Two authorizations let one fail after  *)
(* the other is put up, two certificates let one order of a pass fail after*)
(* another was issued.                                                     *)
(***************************************************************************)
EXTENDS AcmeManager, TLC

CONSTANTS c1, c2, a1, a2, r1

OneCert == {c1}
TwoCerts == {c1, c2}
TwoAuthz == {a1, a2}
OneReq == {r1}
NoCert == {}

=============================================================================
