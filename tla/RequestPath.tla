---------------------------- MODULE RequestPath ----------------------------
(***************************************************************************)
(* The way of one request through the data plane (internal/dataplane):     *)
(* the TLS handshake under the router of the moment, dispatch by the Host  *)
(* header, the middleware chain of the host or of the location that        *)
(* matches, and the proxied request.  A connection outlives reloads, a     *)
(* request keeps the chain it was dispatched to, and the GeoIP database,   *)
(* the revocation lists and the maintenance switch are read live.          *)
(*                                                                         *)
(* Configurations are data: which of them may be installed is decided by   *)
(* Validates (internal/model), what each compiles to by Chain, and what an *)
(* operator declared by the reference definitions Best and Declared.  A    *)
(* path is a sequence of segments; addresses and networks are elements and *)
(* sets; the headers that carry an identity are two classes, the fixed     *)
(* baseline names and the names a provider configures.                     *)
(***************************************************************************)
EXTENDS Integers, Sequences, FiniteSets, SequencesExt

CONSTANTS
    Confs,      \* the configurations, a sequence; requests remember an index
    Shapes,     \* the requests a client may send
    Peer,       \* the connection peers
    HostName,   \* host names for SNI and the Host header
    Cert,       \* client certificates: records [ca, id]
    Country,    \* the country the GeoIP database places an address in
    Fleet,      \* settings.trustedProxies
    Sourced,    \* what the ledger of access list sources holds
    Exempt,     \* the names the fleet-wide maintenance switch leaves up
    None,
    MaxReloads  \* bound: configurations installed after the first

Base == "base"      \* the baseline identity headers, one class
Header == {Base, "own"}

VARIABLES
    rt,        \* the index of the installed configuration
    reloads,   \* how often it was replaced
    geodb,     \* a GeoIP database is loaded
    crl,       \* the certificates on the revocation lists
    maint,     \* the fleet-wide maintenance switch
    conn,      \* the client's connection, or None
    rq         \* the request

pathVars == <<rt, reloads, geodb, crl, maint, conn, rq>>

\* The shape of a decoded configuration: sequences are sequences, nothing that may
\* be absent is called None, and a provider's headers are of the two classes.
IsSeq(s) == s \in Seq(ToSet(s))
ConfShape(c) ==
    /\ None \notin c.hosts /\ None \notin DOMAIN c.idps
    /\ \A p \in DOMAIN c.idps : c.idps[p].hdr \subseteq Header
    /\ \A h \in c.hosts :
         /\ h.kind \in {"proxy", "redirect", "parked"}
         /\ IsSeq(h.locs) /\ None \notin ToSet(h.locs)
         /\ \A o \in {h} \cup ToSet(h.locs) : IsSeq(o.mws) /\ IsSeq(o.lists)
         /\ \A l \in ToSet(h.locs) : IsSeq(l.path) /\ l.slashes \in Nat

ASSUME PathAssumption ==
    /\ \A i \in DOMAIN Confs : ConfShape(Confs[i])
    /\ None \notin {"peer", "gpm"}

----------------------------------------------------------------------------
(* What Config.Validate accepts (internal/model).                          *)

Live(c) == {h \in c.hosts : ~h.off}

\* The mode of an auth block: the one it names, or the type of its provider.
Mode(c, a) == IF a.mode = "" /\ a.idp \in DOMAIN c.idps THEN c.idps[a.idp].type ELSE a.mode

\* AuthMiddleware.validate and checkAuthAllowFromMode: a provider where the mode
\* needs one, and an exemption only where the gate honours it.
AuthValid(c, a) ==
    /\ a.mode \in {"", "oidc", "forward-auth", "auth-request", "client-cert", "basic"}
    /\ a.mode \in {"client-cert", "basic"} <=> a.idp = None
    /\ a.idp # None => a.idp \in DOMAIN c.idps
    /\ a.from # {} => Mode(c, a) \in {"auth-request", "client-cert", "basic"}

\* Middleware.Validate, and the references of its spec.
MiddlewareValid(c, m) ==
    /\ m.type \in {"auth", "rate-limit", "guard", "bouncer"}
    /\ m.type = "auth" => AuthValid(c, m.spec)
    /\ m.type = "rate-limit" => m.spec.exempt \subseteq DOMAIN c.lists

\* The references of a host or of one of its locations.
RefsValid(c, o, off) ==
    /\ \A i \in DOMAIN o.mws : o.mws[i] \in DOMAIN c.mws
    /\ \A i \in DOMAIN o.lists : o.lists[i] \in DOMAIN c.lists
    /\ o.auth # None => AuthValid(c, o.auth)
    /\ o.rate # None => o.rate.exempt \subseteq DOMAIN c.lists
    /\ o.group # None => /\ o.group \in DOMAIN c.groups
                         /\ ~off => c.groups[o.group]

\* TLSSettings.validate is asked for proxy hosts only; checkClientAuthRef for all.
TLSValid(c, h) ==
    h.mtls # None => /\ h.kind = "proxy" => h.ssl
                     /\ h.mtls.ca \in c.cas

\* Mutant: locations are not looked into.
HostValidShallow(c, h) ==
    h.domains # {} /\ TLSValid(c, h) /\ (h.kind = "proxy" => RefsValid(c, h, h.off))

\* ProxyHost.Validate, RedirectHost.Validate and ParkedHost.Validate.
HostValid(c, h) ==
    /\ h.domains # {}
    /\ TLSValid(c, h)
    /\ h.kind = "proxy" => /\ RefsValid(c, h, h.off)
                           /\ \A i \in DOMAIN h.locs : RefsValid(c, h.locs[i], h.off)

\* Config.Validate: each object by itself, references, one enabled host per
\* domain, one name per host.
Validates(c) ==
    /\ \A m \in DOMAIN c.mws : MiddlewareValid(c, c.mws[m])
    /\ \A h \in c.hosts : HostValid(c, h)
    /\ \A g, h \in c.hosts : g # h => g.name # h.name
    /\ \A g, h \in Live(c) : g # h => g.domains \cap h.domains = {}

\* buildRouter returns no error: every anchor and every group is there.
Builds(c) ==
    \A h \in Live(c) :
        /\ h.mtls # None => h.mtls.ca \in c.cas
        /\ h.kind = "proxy" => \A o \in {h} \cup ToSet(h.locs) :
              o.group # None => o.group \in DOMAIN c.groups /\ c.groups[o.group]

----------------------------------------------------------------------------
(* What a configuration compiles to.                                       *)

\* buildRouter's maps: the host a name is dispatched to.
Claimants(c, n) == {h \in Live(c) : n \in h.domains}
Owner(c, n) == IF Claimants(c, n) = {} THEN None
               ELSE CHOOSE h \in Claimants(c, n) : TRUE

\* cleanPath: no segment is "..", and none climbs above the root.
CleanPath(p) ==
    FoldLeft(LAMBDA acc, s : CASE s = "." -> acc
                               [] s = ".." -> IF acc = <<>> THEN acc ELSE Front(acc)
                               [] OTHER -> Append(acc, s),
             <<>>, p)

\* The length of a location's path as it was written: one character a segment.
RawLen(l) == IF l.path = <<>> THEN 1 ELSE 2 * Len(l.path) + l.slashes

\* buildLocations and route: sorted by the written length, first match wins.
\* Mutant: in the order of the configuration.
RouteFirst(h, p) ==
    LET hit == SelectSeq(h.locs, LAMBDA l : IsPrefix(CleanPath(l.path), p))
    IN  IF hit = <<>> THEN None ELSE Head(hit)

Route(h, p) ==
    LET hits == {i \in DOMAIN h.locs : IsPrefix(CleanPath(h.locs[i].path), p)}
        first == CHOOSE i \in hits : \A j \in hits :
                    \/ RawLen(h.locs[i]) > RawLen(h.locs[j])
                    \/ RawLen(h.locs[i]) = RawLen(h.locs[j]) /\ i <= j
    IN  IF hits = {} THEN None ELSE h.locs[first]

\* A host's names and blocks with a location's appended (buildLocations,
\* hostInline, locationInline).
Stack(h, l, field) == IF l = None THEN h[field] ELSE h[field] \o l[field]
Block(b) == IF b = None THEN <<>> ELSE <<b>>
Inline(h, l, field) ==
    IF l = None THEN Block(h[field]) ELSE Block(h[field]) \o Block(l[field])

\* unresolvedRefs.
Unresolved(c, h, l) ==
    \/ \E i \in DOMAIN Stack(h, l, "lists") : Stack(h, l, "lists")[i] \notin DOMAIN c.lists
    \/ \E i \in DOMAIN Stack(h, l, "mws") : Stack(h, l, "mws")[i] \notin DOMAIN c.mws

Gate(kind, spec) == [kind |-> kind, spec |-> spec]
Gates(kind, specs) == [i \in DOMAIN specs |-> Gate(kind, specs[i])]

\* The positions in I, in ascending order.
InOrder(I) ==
    CHOOSE q \in [1..Cardinality(I) -> I] : \A i, j \in DOMAIN q : i < j => q[i] < q[j]

\* The specs of the referenced middlewares of one type, in the order of the names.
Specs(c, names, type) ==
    LET at == InOrder({i \in DOMAIN names : c.mws[names[i]].type = type})
    IN  [i \in DOMAIN at |-> c.mws[names[at[i]]].spec]

\* Mutant: a location's own blocks replace its host's.
ChainReplaced(c, h, l) ==
    LET o == IF l = None THEN h ELSE l
        tier(kind) == Gates(kind, Specs(c, o.mws, kind))
    IN  tier("rate-limit")
        \o [i \in DOMAIN o.lists |-> Gate("access-list", c.lists[o.lists[i]])]
        \o tier("bouncer") \o Gates("auth", Inline(h, l, "auth"))
        \o tier("auth") \o tier("guard")

\* buildChainInline, the gates from the outside in: each wrap runs before the
\* ones wrapped earlier, so within a tier the last one named runs first.
Chain(c, h, l) ==
    LET mws == Stack(h, l, "mws")
        tier(kind) == Reverse(Gates(kind, Specs(c, mws, kind)))
        lists == [i \in DOMAIN Stack(h, l, "lists") |-> c.lists[Stack(h, l, "lists")[i]]]
    IN  Reverse(Gates("rate-limit", Inline(h, l, "rate"))) \o tier("rate-limit")
        \o Reverse(Gates("access-list", lists)) \o tier("bouncer")
        \o Reverse(Gates("auth", Inline(h, l, "auth"))) \o tier("auth")
        \o tier("guard")

\* The auth specs among the middlewares named, and every one anywhere on a host
\* (hostAuthSpecs).
AuthSpecsOf(c, names) ==
    {c.mws[n].spec : n \in {m \in names \cap DOMAIN c.mws : c.mws[m].type = "auth"}}
AuthSpecs(c, h) ==
    UNION {AuthSpecsOf(c, ToSet(o.mws)) \cup ({o.auth} \ {None}) :
           o \in {h} \cup ToSet(h.locs)}

\* identityTrust: the headers the specs' providers assert, and who may set them.
IdentityHeaders(c, specs) ==
    UNION {c.idps[a.idp].hdr : a \in {x \in specs : x.idp \in DOMAIN c.idps}}
TrustedNets(c, specs) ==
    UNION {c.idps[a.idp].trusted : a \in {x \in specs : x.idp \in DOMAIN c.idps}}

\* Mutant: only the baseline names are put back.
AssertedBase(c, h, l) == {Base}

\* assertedIdentityHeaders of the host copy a route is compiled from: the copy
\* of a location carries the host's inline block and no locations.
Asserted(c, h, l) ==
    {Base} \cup IdentityHeaders(c, AuthSpecsOf(c, ToSet(Stack(h, l, "mws")))
                                   \cup ({h.auth} \ {None}))

\* hostTrustedProxies.
Proxies(h) == IF h.proxies = None THEN Fleet ELSE h.proxies

----------------------------------------------------------------------------
(* Dispatch.                                                               *)

\* clientip.Derive: the rightmost entry of X-Forwarded-For that is no trusted
\* proxy; an unreadable entry, or none, leaves the peer.
Derive(peer, xff, trusted) ==
    LET seen == {i \in DOMAIN xff : xff[i] \notin trusted}
        last == CHOOSE i \in seen : \A j \in seen : j <= i
    IN  IF peer \notin trusted \/ seen = {} \/ xff[last] = None
        THEN peer ELSE xff[last]

\* Mutant: trust is decided by the forwarded address.
CarriedByXFF(c, h, s, k) ==
    LET specs == AuthSpecs(c, h)
        strip == IF Derive(k.peer, s.xff, Proxies(h)) \in TrustedNets(c, specs) THEN {}
                 ELSE {Base} \cup IdentityHeaders(c, specs)
    IN  [n \in Header |-> IF n \in s.hdr \ strip THEN "peer" ELSE None]

\* stripUntrustedIdentity and certIdentity.apply: what of the identity headers
\* a request still carries, and who set them.
Carried(c, h, s, k) ==
    LET specs == AuthSpecs(c, h)
        strip == IF k.peer \in TrustedNets(c, specs) THEN {}
                 ELSE {Base} \cup IdentityHeaders(c, specs)
        cert == h.mtls # None /\ h.mtls.ident /\ k.chain # None
    IN  [n \in Header |-> IF n = Base /\ cert THEN "gpm"
                          ELSE IF n \in s.hdr \ strip THEN "peer" ELSE None]

\* chainRevoked on the list of the host's own anchor.
ChainRevoked(ca, chain) == chain # None /\ chain.ca = ca /\ chain \in crl

\* clientAuthSatisfied: the SNI belongs to the host, and the certificate its
\* handshake verified is there and not revoked.
ClientAuthSatisfied(c, h, k) ==
    /\ k.tls
    /\ Owner(c, k.sni) = h
    /\ h.mtls.req => k.chain # None
    /\ ~ChainRevoked(h.mtls.ca, k.chain)

\* maintenanceActive: the host's own flag, or the switch for a name not exempt.
InMaintenance(h, n) == h.maint \/ (maint /\ ~h.edge /\ n \notin Exempt)

Answer(res) == [res |-> res]

\* The host handler takes the request: derive the client address, strip, route,
\* and enter the chain; a reference that does not resolve is answered 503.
Enter(c, h, s, k) ==
    LET p == CleanPath(s.path)
        l == Route(h, p)
    IN  IF Unresolved(c, h, l) THEN Answer("unresolved")
        ELSE [res |-> "chain", c |-> rt, h |-> h, l |-> l, s |-> s, k |-> k,
              ip |-> Derive(k.peer, s.xff, Proxies(h)), path |-> p,
              todo |-> Chain(c, h, l), passed |-> {}, hdr |-> Carried(c, h, s, k)]

\* serveHTTPS, in the order of its early returns.
ServeHTTPS(c, h, s, k) ==
    IF h # None /\ h.mtls # None /\ ~ClientAuthSatisfied(c, h, k) THEN Answer("421")
    ELSE IF h = None THEN Answer("404")
    ELSE IF h.kind # "proxy" THEN Answer(h.kind)
    ELSE IF InMaintenance(h, s.name) THEN Answer("maintenance")
    ELSE IF s.bad THEN Answer("400")
    ELSE Enter(c, h, s, k)

\* serveHTTP: an mTLS host is never served in the clear.
ServeHTTP(c, h, s, k) ==
    IF h = None THEN Answer("404")
    ELSE IF h.mtls # None THEN Answer("https")
    ELSE IF h.kind # "proxy" THEN Answer(IF h.ssl THEN "https" ELSE h.kind)
    ELSE IF s.bad THEN Answer("400")
    ELSE IF h.ssl THEN Answer("https")
    ELSE IF InMaintenance(h, s.name) THEN Answer("maintenance")
    ELSE Enter(c, h, s, k)

----------------------------------------------------------------------------
(* The gates.                                                              *)

\* compileAccessList: a rule of a source covers what the ledger holds for it, one
\* that does not parse is dropped, and an unset onUnknown lets an unplaced address
\* in unless countries are whitelisted.
Compiled(al) ==
    LET kept == SelectSeq(al.rules, LAMBDA r : r.source # None \/ r.nets # None)
    IN  [al EXCEPT
           !.rules = [i \in DOMAIN kept |->
               [kept[i] EXCEPT !.nets = CASE kept[i].source = None -> @
                                          [] kept[i].source \in DOMAIN Sourced -> Sourced[kept[i].source]
                                          [] OTHER -> {}]],
           !.geo = IF @ = None THEN None
                   ELSE [@ EXCEPT !.unknown = IF @ = None THEN al.geo.allow = {} ELSE @]]

\* netRule.matches: a path-scoped rule covers its exact paths only.
Matches(rule, ip, path) ==
    /\ rule.paths # None => path \in rule.paths
    /\ ip \in rule.nets

\* accessList.decide: a country rule without a database refuses, then the first
\* matching rule, the country, the default.
Decide(al, ip, path) ==
    LET hits == {i \in DOMAIN al.rules : Matches(al.rules[i], ip, path)}
        first == CHOOSE i \in hits : \A j \in hits : i <= j
        place == Country[ip]
    IN  IF al.geo # None /\ ~geodb THEN FALSE
        ELSE IF hits # {} THEN al.rules[first].allow
        ELSE IF al.geo = None THEN al.dflt = "allow"
        ELSE IF place = None THEN al.geo.unknown
        ELSE IF al.geo.allow # {} THEN place \in al.geo.allow
        ELSE place \notin al.geo.deny /\ al.dflt = "allow"

\* basicAuthUsers.verify behind the lockout of the gate: a client locked out by
\* earlier failures is answered like a wrong password.
Credentials(r) == {r.s.cred = "good", FALSE}

\* accessListHandler: the verdicts it can reach.
ListVerdicts(list, r) ==
    LET al == Compiled(list)
        hasIP == al.rules # <<>> \/ al.geo # None
        ipOK == hasIP => Decide(al, r.ip, r.path)
    IN  IF ~hasIP /\ ~al.users THEN {al.dflt # "deny"}
        ELSE {IF al.any /\ hasIP /\ al.users THEN ipOK \/ a ELSE ipOK /\ a :
                a \in IF al.users THEN Credentials(r) ELSE {TRUE}}

\* revokedNow: on the list of the anchor that issued the certificate.
RevokedNow(c, chain) == chain.ca \in c.cas /\ chain \in crl

\* clientCertGate, and authHandlerFor: on a host without mTLS nobody has one.
\* Roles are decided by the subject and go both ways.
ClientCertGate(c, a, r) ==
    LET verified == /\ r.h.mtls # None
                    /\ r.k.tls /\ r.k.chain # None
                    /\ r.k.sni \in r.h.domains
                    /\ ~RevokedNow(c, r.k.chain)
    IN  IF r.ip \in a.from THEN {TRUE} ELSE {verified, FALSE}

\* basicAuthGate.
BasicAuthGate(a, r) == IF r.ip \in a.from THEN {TRUE} ELSE Credentials(r)

\* forwardAuthGate and ForwardAuth.Identity: a peer the provider trusts that
\* names somebody; the role mapping goes both ways.
ForwardAuthGate(idp, r) ==
    {r.k.peer \in idp.trusted /\ \E n \in idp.hdr : r.hdr[n] # None, FALSE}

\* authRequestProxy.handler: the auth server's own endpoints are proxied to it
\* and end there, an exempt network passes, else the server's answer decides.
AuthRequestGate(idp, a, r) ==
    IF IsPrefix(idp.outpost, r.path) THEN {FALSE}
    ELSE IF r.ip \in a.from THEN {TRUE} ELSE BOOLEAN

\* dataOIDC.handler: a valid session passes, anybody else is sent to log in (the
\* sessions are the business of EdgeGates).
OIDCGate(r) == IF r.s.name \in r.h.domains THEN BOOLEAN ELSE {FALSE}

\* authHandler: the gate of the mode, which the provider's type fills in; one
\* the provider cannot serve refuses everything (failClosed).
AuthVerdicts(c, a, r) ==
    LET mode == Mode(c, a)
    IN  CASE mode = "client-cert" -> ClientCertGate(c, a, r)
          [] mode = "basic" -> BasicAuthGate(a, r)
          [] a.idp \notin DOMAIN c.idps -> {FALSE}
          [] mode # c.idps[a.idp].type -> {FALSE}
          [] mode = "forward-auth" -> ForwardAuthGate(c.idps[a.idp], r)
          [] mode = "auth-request" -> AuthRequestGate(c.idps[a.idp], a, r)
          [] mode = "oidc" -> OIDCGate(r)
          [] OTHER -> {FALSE}

\* guardHandler: a triggering path is refused unless the client is exempt.
GuardVerdict(g, r) == r.path \in g.paths => r.ip \in g.from

\* The verdicts of a gate; rate limits and bouncers keep their own state.
Verdicts(c, g, r) ==
    CASE g.kind = "access-list" -> ListVerdicts(g.spec, r)
      [] g.kind = "auth" -> AuthVerdicts(c, g.spec, r)
      [] g.kind = "guard" -> {GuardVerdict(g.spec, r)}
      [] OTHER -> BOOLEAN

\* The identity headers after a gate let the request through: auth-request drops
\* what came in and copies the auth server's, oidc sets its session's.
Identified(c, g, r) ==
    IF g.kind # "auth" \/ g.spec.idp = None THEN r.hdr
    ELSE LET idp == c.idps[g.spec.idp]
             mode == Mode(c, g.spec)
         IN  [n \in Header |->
                CASE mode = "auth-request" /\ n \in idp.hdr ->
                        IF r.ip \in g.spec.from THEN None ELSE "gpm"
                  [] mode = "oidc" /\ n = Base -> "gpm"
                  [] OTHER -> r.hdr[n]]

----------------------------------------------------------------------------
(* The steps.                                                              *)

Idle == [res |-> "idle"]

PathInit ==
    /\ rt \in {i \in DOMAIN Confs : Validates(Confs[i]) /\ Builds(Confs[i])}
    /\ reloads = 0
    /\ geodb \in BOOLEAN
    /\ crl = {} /\ maint = FALSE
    /\ conn = None
    /\ rq = Idle

\* A client connects, in the clear or with a handshake under the configuration
\* its SNI selects (hostSNIConfig, tlsConfigForSNI): a certificate is asked for
\* by an mTLS host, and one that is given must verify and not be revoked.
Connect ==
    /\ conn = None
    /\ \E p \in Peer, sni \in HostName, x \in Cert \cup {None} :
         LET h == Owner(Confs[rt], sni)
             asks == h # None /\ h.mtls # None
         IN  /\ asks /\ h.mtls.req => x # None
             /\ asks /\ x # None => x.ca = h.mtls.ca /\ x \notin crl
             /\ ~asks => x = None
             /\ \/ conn' = [tls |-> TRUE, peer |-> p, sni |-> sni, chain |-> x]
                \/ conn' = [tls |-> FALSE, peer |-> p, sni |-> None, chain |-> None]
    /\ UNCHANGED <<rt, reloads, geodb, crl, maint, rq>>

\* A request arrives on the connection and is dispatched by the router of now.
Dispatch ==
    /\ conn # None /\ rq.res = "idle"
    /\ \E s \in Shapes :
         LET c == Confs[rt]
             h == Owner(c, s.name)
         IN  rq' = IF conn.tls THEN ServeHTTPS(c, h, s, conn)
                   ELSE ServeHTTP(c, h, s, conn)
    /\ UNCHANGED <<rt, reloads, geodb, crl, maint, conn>>

\* The next gate of the chain decides.
GateStep ==
    /\ rq.res = "chain" /\ rq.todo # <<>>
    /\ LET g == Head(rq.todo) IN
         \E v \in Verdicts(Confs[rq.c], g, rq) :
            rq' = IF v THEN [rq EXCEPT !.todo = Tail(@), !.passed = @ \cup {g},
                                       !.hdr = Identified(Confs[rq.c], g, rq)]
                  ELSE Answer("denied")
    /\ UNCHANGED <<rt, reloads, geodb, crl, maint, conn>>

\* The reverse proxy sends the request on: the headers its Connection header
\* names are dropped, the ones gpm asserts put back (reassertIdentity).
Forward ==
    /\ rq.res = "chain" /\ rq.todo = <<>>
    /\ rq' = [rq EXCEPT !.res = "forwarded",
                !.hdr = [n \in Header |->
                    IF n \in rq.s.purge \ Asserted(Confs[rq.c], rq.h, rq.l)
                    THEN None ELSE rq.hdr[n]]]
    /\ UNCHANGED <<rt, reloads, geodb, crl, maint, conn>>

\* A reload installs another configuration; one that does not build leaves the
\* router as it is and is no step.
Install ==
    /\ reloads < MaxReloads
    /\ \E i \in DOMAIN Confs \ {rt} :
         /\ Validates(Confs[i]) /\ Builds(Confs[i])
         /\ rt' = i
    /\ reloads' = reloads + 1
    /\ UNCHANGED <<geodb, crl, maint, conn, rq>>

\* What is read live: the database, the lists, the switch.
Flip ==
    /\ \/ geodb' = ~geodb /\ UNCHANGED <<crl, maint>>
       \/ \E x \in Cert \ crl : crl' = crl \cup {x} /\ UNCHANGED <<geodb, maint>>
       \/ maint' = ~maint /\ UNCHANGED <<geodb, crl>>
    /\ UNCHANGED <<rt, reloads, conn, rq>>

PathNext == Connect \/ Dispatch \/ GateStep \/ Forward \/ Install \/ Flip

PathSpec == PathInit /\ [][PathNext]_pathVars

----------------------------------------------------------------------------
(* The properties.                                                         *)

\* What an operator declared for a path: the location with the longest path
\* that contains it, and every gate of the host and of that location.
Best(h, p) ==
    LET in == {l \in ToSet(h.locs) : IsPrefix(l.path, p)}
    IN  IF in = {} THEN None
        ELSE CHOOSE l \in in : \A m \in in : Len(m.path) <= Len(l.path)
DeclaredBy(c, o) ==
    {Gate(c.mws[n].type, c.mws[n].spec) : n \in ToSet(o.mws)}
    \cup {Gate("access-list", c.lists[n]) : n \in ToSet(o.lists)}
    \cup (IF o.auth = None THEN {} ELSE {Gate("auth", o.auth)})
    \cup (IF o.rate = None THEN {} ELSE {Gate("rate-limit", o.rate)})
Declared(c, h, p) ==
    DeclaredBy(c, h) \cup (IF Best(h, p) = None THEN {} ELSE DeclaredBy(c, Best(h, p)))

\* A request that reaches an upstream was let through by every gate that its
\* host and the most specific location of its path declare (buildLocations,
\* buildChainInline: "a location is always at least as restrictive as its
\* host"), whatever was reloaded, loaded or unloaded while it was under way.
EveryGatePassed ==
    rq.res = "forwarded" =>
        Declared(Confs[rq.c], rq.h, rq.path) \subseteq rq.passed

\* An identity header that reaches an upstream was set by gpm for a gate the
\* request passed or a certificate its handshake verified, or by a peer that a
\* provider of this very host trusts (stripUntrustedIdentity,
\* injectSSOIdentity, certIdentity.apply).
IdentityHonest ==
    rq.res = "forwarded" =>
        LET c == Confs[rq.c]
            specs == {g.spec : g \in {x \in UNION {DeclaredBy(c, o) :
                            o \in {rq.h} \cup ToSet(rq.h.locs)} : x.kind = "auth"}}
        IN  \A n \in {Base} \cup IdentityHeaders(c, specs) :
              /\ rq.hdr[n] = "peer" => \E a \in specs :
                    a.idp # None /\ rq.k.peer \in c.idps[a.idp].trusted
              /\ rq.hdr[n] = "gpm" =>
                    \/ rq.k.chain # None /\ n = Base
                    \/ \E g \in rq.passed : g.kind = "auth" /\ g.spec.idp # None

ValidBuilds == \A i \in DOMAIN Confs : Validates(Confs[i]) => Builds(Confs[i])

\* A configuration Config.Validate accepts is one the data plane can run: its
\* router builds, and no request ends at a reference that does not resolve.
ValidatedServes ==
    /\ rq.res # "unresolved"
    /\ ValidBuilds

\* What a gate or a certificate asserted reaches the upstream, also when the
\* request names the header in Connection (reassertIdentity).  The inline auth
\* block of a location is left out: buildLocations does not hand it to hostProxy.
AssertedArrives ==
    [][ (rq.res = "chain" /\ rq'.res = "forwarded" /\ (rq.l # None => rq.l.auth = None))
            => \A n \in Header : rq.hdr[n] = "gpm" => rq'.hdr[n] = "gpm" ]_pathVars

=============================================================================
