--------------------------- MODULE MCConfigStore ---------------------------
(***************************************************************************)
(* Small instances of ConfigStore.  A content is named by what matters     *)
(* about it; two or three contents per path are enough for every gate to   *)
(* accept and to refuse.                                                   *)
(***************************************************************************)
EXTENDS ConfigStore, TLC

Plain == [refs |-> {}, claims |-> {}, login |-> {}, digest |-> "-",
          managed |-> FALSE, off |-> FALSE, newer |-> FALSE, tainted |-> FALSE]

\* A host that needs the certificate, a host of its own, the same one derived by
\* discovery, their dependency and a content the literal-secret gate refuses.
HostOnCert == [Plain EXCEPT !.refs = {"cert"}, !.claims = {"a.example"}]
HostAlone  == [Plain EXCEPT !.claims = {"b.example"}]
HostDerived == [HostAlone EXCEPT !.managed = TRUE]
Cert       == Plain
Literal    == [Plain EXCEPT !.tainted = TRUE]
\* Settings without an admin front door, and with one on a domain of HostAlone.
NoEdge     == Plain
Edge       == [Plain EXCEPT !.refs = {"cert"}, !.claims = {"b.example"}]
\* A ledger, told apart from none by a domain it records.
LedgerA    == [Plain EXCEPT !.claims = {"a.example"}]
\* Tokens: a digest and whether an edit disabled it.
Tok(d, o)  == [Plain EXCEPT !.digest = d, !.off = o]

MkTree(names, f) == [p \in names \cup {"settings", "ledger"} |->
                        IF p \in DOMAIN f THEN f[p] ELSE None]

----------------------------------------------------------------------------
(* Integrity: hosts, a certificate, a token, settings and the ledger.      *)
IntName == {"host", "cert", "tok"}
IntBlob == {HostOnCert, HostDerived, Cert, Literal, NoEdge, Edge, LedgerA}
           \cup {Tok(d, FALSE) : d \in {"d1", "d2"}}
IntVals == [p \in IntName \cup {"settings", "ledger"} |->
    CASE p = "host"  -> {HostOnCert}
      [] p = "cert"  -> {Cert, Literal}
      [] p = "tok"   -> {Tok("d1", FALSE), Tok("d2", FALSE)}
      [] p = "settings" -> {NoEdge, Edge}
      [] p = "ledger" -> {LedgerA}]
IntBatches == {("host" :> HostOnCert) @@ ("cert" :> Cert), "host" :> HostDerived}
IntOld == ("settings" :> NoEdge) @@ ("tok" :> Tok("d1", FALSE))
IntFirst == << MkTree(IntName, IntOld @@ ("cert" :> Literal)),
               MkTree(IntName, IntOld),
               MkTree(IntName, IntOld @@ ("cert" :> Cert) @@ ("host" :> HostOnCert)
                               @@ ("ledger" :> LedgerA)) >>

(* Faults: a token, a host that discovery owned and the operator may take  *)
(* over, another it may derive, and the ledger.                            *)
Derived(d) == [Plain EXCEPT !.managed = TRUE, !.claims = {d}]
TakenOver == [Plain EXCEPT !.claims = {"a.example"}]

FaultName == {"tok", "app", "web"}
FaultBlob == {NoEdge, TakenOver, LedgerA, Tok("d1", FALSE), Tok("d2", FALSE)}
             \cup {Derived(d) : d \in {"a.example", "b.example"}}
FaultVals == [tok |-> {Tok("d1", FALSE), Tok("d2", FALSE)}, app |-> {TakenOver},
              web |-> {Derived("b.example")}, settings |-> {}, ledger |-> {LedgerA}]
FaultBatches == {n :> Derived("b.example") : n \in {"app", "web"}}
FaultTree(digest, app) ==
    MkTree(FaultName, ("settings" :> NoEdge) @@ ("tok" :> Tok(digest, FALSE)) @@ ("app" :> app))
FaultFirst == <<FaultTree("d2", TakenOver), FaultTree("d1", Derived("a.example"))>>

(* Edits: a token that an edit may disable.                                *)
TokName == {"tok", "host"}
TokBlob == {Tok(d, o) : d \in {"d1", "d2"}, o \in BOOLEAN} \cup {HostAlone, NoEdge, LedgerA}
EditVals == [tok |-> {Tok(d, o) : d \in {"d1", "d2"}, o \in BOOLEAN}, host |-> {HostAlone},
             settings |-> {NoEdge}, ledger |-> {LedgerA}]
TokFirst == << MkTree(TokName, ("settings" :> NoEdge) @@ ("tok" :> Tok("d1", FALSE))) >>

TokToken == {"tok"}
NoBatches == {}

=============================================================================
