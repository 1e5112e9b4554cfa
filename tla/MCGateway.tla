------------------------------ MODULE MCGateway ------------------------------
(***************************************************************************)
(* Parts of the gateway that share no state, in one run: admin             *)
(* authentication, the request path, the data plane's gates, deliveries,   *)
(* discovery, access list sources and client certificates.                 *)
(* The initial state picks, with focus, the part that moves; the others    *)
(* rest.                                                                   *)
(***************************************************************************)
EXTENDS AdminAuth, RequestPath, EdgeGates, Delivery, Discovery, AccessSync, ClientCerts

CONSTANTS none

VARIABLE focus

----------------------------------------------------------------------------
(* Admin authentication: local login without a provider, and SSO-only.     *)

AdminRoles == [admins |-> {"ops"}, users |-> {"staff"}, default |-> NoOne]
MCConf == {[local |-> TRUE, sso |-> FALSE, idp |-> NoOne],
           [local |-> TRUE, sso |-> TRUE, idp |-> [issuer |-> "i1", roles |-> AdminRoles]]}
MCMixes == {{"local", "configure"}, {"local", "api"}, {"oidc", "callback", "api", "configure"}}
MCGroups == [c \in Client |-> {"ops"}]

----------------------------------------------------------------------------
(* Request path: gates on a host and on nested locations, certificates     *)
(* required and optional, one host per provider type, hosts that redirect, *)
(* are disabled or under maintenance, and a location naming a list that is *)
(* gone, which Config.Validate must refuse.                                *)

Spot(path) == [path |-> path, slashes |-> 0, mws |-> <<>>, lists |-> <<>>,
               auth |-> none, rate |-> none, group |-> none]
Host(name, dom) ==
    [name |-> name, kind |-> "proxy", domains |-> dom, off |-> FALSE, ssl |-> TRUE,
     mtls |-> none, maint |-> FALSE, edge |-> FALSE, mws |-> <<>>, lists |-> <<>>,
     auth |-> none, rate |-> none, locs |-> <<>>, proxies |-> none, group |-> none]

Auth(mode, idp, from) == [mode |-> mode, idp |-> idp, from |-> from]
Rule(allow, nets, paths) == [allow |-> allow, nets |-> nets, source |-> none, paths |-> paths]
List(rules, geo, users, any, dflt) ==
    [rules |-> rules, geo |-> geo, users |-> users, any |-> any, dflt |-> dflt]

MCLists ==
    [office |-> List(<<Rule(FALSE, {"lan"}, {<<"x", "y">>}), Rule(TRUE, {"lan", "wan"}, none)>>,
                     none, FALSE, FALSE, "deny"),
     geo    |-> List(<<>>, [allow |-> {}, deny |-> {"far"}, unknown |-> none],
                     FALSE, FALSE, "allow"),
     users  |-> List(<<[Rule(TRUE, {}, none) EXCEPT !.source = "feed"], Rule(TRUE, none, none)>>,
                     none, TRUE, TRUE, "deny")]
MCMws ==
    [guard |-> [type |-> "guard", spec |-> [paths |-> {<<"x">>}, from |-> {"lan"}]],
     fwd   |-> [type |-> "auth", spec |-> Auth("", "fa", {})],
     ask   |-> [type |-> "auth", spec |-> Auth("auth-request", "ar", {"lan"})],
     limit |-> [type |-> "rate-limit", spec |-> [exempt |-> {"office"}]]]
MCIdps ==
    [fa |-> [type |-> "forward-auth", trusted |-> {"proxy"}, hdr |-> {"base", "own"}, outpost |-> <<>>],
     ar |-> [type |-> "auth-request", trusted |-> {}, hdr |-> {"own"}, outpost |-> <<"out">>],
     sso |-> [type |-> "oidc", trusted |-> {}, hdr |-> {"base"}, outpost |-> <<>>]]
PathConf(hs) == [hosts |-> hs, mws |-> MCMws, lists |-> MCLists, idps |-> MCIdps,
                cas |-> {"ca1", "ca2"}, groups |-> [g1 |-> TRUE, g2 |-> FALSE]]
Mtls(ca, must) == [ca |-> ca, req |-> must, ident |-> TRUE]

Nested == <<[Spot(<<"x">>) EXCEPT !.lists = <<"office">>, !.slashes = 1],
            [Spot(<<"x", "y">>) EXCEPT !.mws = <<"guard">>, !.group = "g1"]>>
MCConfs ==
  << PathConf({[Host("web", {"a"}) EXCEPT !.lists = <<"geo">>, !.mws = <<"fwd">>, !.locs = Nested],
           [Host("adm", {"b"}) EXCEPT !.mtls = Mtls("ca1", TRUE),
                                      !.auth = Auth("client-cert", none, {})]}),
     PathConf({[Host("web", {"a"}) EXCEPT !.ssl = FALSE, !.mws = <<"ask", "limit">>,
                                      !.proxies = {"lan"},
                  !.locs = Append(Nested, [Spot(<<"z">>) EXCEPT !.mws = <<"fwd">>])],
           [Host("adm", {"b"}) EXCEPT !.mtls = Mtls("ca2", FALSE),
                                      !.auth = Auth("", "sso", {}), !.group = "g1"]}),
     PathConf({[Host("web", {"a"}) EXCEPT !.locs = <<[Spot(<<"x">>) EXCEPT !.lists = <<"gone">>]>>]}),
     PathConf({[Host("web", {"a"}) EXCEPT !.kind = "redirect"],
           [Host("adm", {"b"}) EXCEPT !.edge = TRUE, !.lists = <<"users">>, !.ssl = FALSE,
                                      !.rate = [exempt |-> {}]],
           [Host("old", {"b"}) EXCEPT !.off = TRUE, !.group = "g2"]}),
     PathConf({[Host("web", {"a"}) EXCEPT !.mws = <<"fwd">>, !.group = "g2"]}) >>

Shape(name, path) == [name |-> name, path |-> path, bad |-> FALSE, xff |-> <<>>,
                      hdr |-> {}, purge |-> {}, cred |-> none]
MCShapes ==
    {Shape("a", <<>>),
     [Shape("a", <<"x">>) EXCEPT !.hdr = {"own"}],
     [Shape("a", <<"x", ".", "y">>) EXCEPT !.hdr = {"base", "own"}, !.purge = {"own"}],
     [Shape("a", <<"z", "..", "x", "y">>) EXCEPT !.xff = <<"wan", "lan">>],
     [Shape("a", <<"..">>) EXCEPT !.xff = <<"proxy">>, !.hdr = {"base", "own"}],
     [Shape("b", <<>>) EXCEPT !.hdr = {"base"}, !.purge = {"base"}, !.cred = "good"],
     [Shape("b", <<"x">>) EXCEPT !.bad = TRUE],
     Shape("a", <<"out">>),
     Shape("c", <<>>)}

MCSourced == [feed |-> {"lan"}]
MCCountry == [lan |-> none, wan |-> "far", proxy |-> "near"]
MCCert == {[ca |-> "ca1", id |-> 1], [ca |-> "ca2", id |-> 2]}

----------------------------------------------------------------------------
(* Deliveries: a target for everything, one for recoveries, one disabled.  *)

Ev(k, st) == [kind |-> k, subject |-> "up", state |-> st]
MCEvent == {Ev("unhealthy", "down"), Ev("recovered", "up"), Ev("expiring", "")}
MCTargets == {[name |-> "ntfy", kinds |-> {"unhealthy", "recovered", "expiring"}, disabled |-> FALSE],
              [name |-> "discord", kinds |-> {"recovered"}, disabled |-> FALSE],
              [name |-> "off", kinds |-> {"expiring"}, disabled |-> TRUE]}

----------------------------------------------------------------------------
(* Discovery: two ingresses that compete for a domain and change profile,  *)
(* a container whose port is ambiguous until it is published, and settings *)
(* that drop a profile or rename the label prefix.                         *)

Src(r, n, p, a) == [ref |-> r, name |-> n, ns |-> "web", profile |-> p, asks |-> a,
                    exposed |-> {}, port |-> 0, public |-> {}]
Ct(r, n, p, a, e, pub) == [Src(r, n, p, a) EXCEPT !.exposed = e, !.public = pub]
MCSource == [ingress |-> {{}, {Src(1, 1, "template", {1})}, {Src(1, 1, "sso", {1, 2})},
                          {Src(1, 1, "sso", {2}), Src(2, 2, "template", {1})},
                          {Src(1, 1, "template", {1}), Src(2, 2, "template", {1, 3})},
                          {Src(1, 1, "sso", {1}), Src(2, 1, "template", {2})},
                          {Src(1, 1, "template", {1}), Src(2, 2, "sso", {}), Src(3, 3, "sso", {})}},
             docker |-> {{}, {Ct(1, 3, "template", {2}, {80}, {80})}, {Ct(1, 3, "template", {2}, {80, 81}, {})}}]
Set(px, mig, ps) == [prefix |-> px, migrate |-> mig, on |-> {"ingress", "docker"}, allowed |-> {1, 2},
                     rules |-> {}, rulesOnly |-> FALSE, published |-> TRUE,
                     profiles |-> [ingress |-> ps, docker |-> {}]]
MCSettings == {Set("gpm", FALSE, {"sso"}), Set("gpm", FALSE, {}), Set("corp", TRUE, {"sso"}),
               [Set("gpm", FALSE, {"sso"}) EXCEPT !.on = {"ingress"},
                   !.rules = {[ns |-> "web", profile |-> "sso"]}]}
MCOperatorHost == {<<1, {1}>>, <<4, {2}>>}
MCPageSize == [ingress |-> 1, docker |-> 5]

(* Access list sources: answers that grow, shrink, do not parse or are too *)
(* long.                                                                   *)
MCBodies == {{"n1"}, {"n1", "n2"}, {"n2", "bad"}, {"n1", "n2", "n3"}}

----------------------------------------------------------------------------
FirstFeed == [u \in URL |-> {"n1"}]

\* Where a part has several initial states, only its own focus explores them; the
\* second factor goes with the logins that race a change of the settings.
MCInit ==
    /\ focus \in {"auth", "path", "limit", "stream", "login", "mark", "queue", "story", "tests",
                  "hooks", "discovery", "sources", "make", "sign", "lists"}
    /\ AuthInit /\ PathInit /\ EdgeInit /\ DeliveryInit /\ DiscoveryInit /\ AccessInit /\ CertsInit
    /\ totp <=> kinds # {"local", "api"}
    /\ focus # "auth" => /\ kinds = {"local", "api"}
                         /\ conf = CHOOSE c \in Conf : c.sso
    /\ focus # "path" => rt = 1 /\ geodb
    /\ focus # "discovery" => settings = Set("gpm", FALSE, {})
    /\ published = FirstFeed

\* Deliveries: overlapping calls are few, a longer history has one caller.
NoneFails == \A t \in DOMAIN last : last'[t] # "failed"
OneAtATime ==
    /\ Cardinality({p \in Producer : producer'[p].pc # "idle"}) <= 1
    /\ Cardinality({w \in Sender : worker'[w].pc = "send"}) <= 1

MCNext ==
    \/ /\ focus = "auth" /\ AuthNext
       /\ UNCHANGED <<focus, pathVars, edgeVars, deliveryVars, discoveryVars, accessVars, certVars>>
    \/ /\ focus = "path" /\ PathNext
       /\ UNCHANGED <<focus, authVars, edgeVars, deliveryVars, discoveryVars, accessVars, certVars>>
    \/ /\ \/ focus = "limit" /\ (LimitNext \/ Tick)
          \/ focus = "stream" /\ StreamNext
          \/ focus = "login" /\ LoginNext
          \/ focus = "mark" /\ (MarkNext \/ Tick)
       /\ UNCHANGED <<focus, authVars, pathVars, deliveryVars, discoveryVars, accessVars, certVars>>
    \/ /\ \/ focus = "queue" /\ Notify /\ emits' <= 2 /\ NoneFails
          \/ focus = "story" /\ Notify /\ OneAtATime /\ NoneFails
          \/ focus = "tests" /\ (Notify \/ TestTargets) /\ emits' <= 1
          \/ focus = "hooks" /\ Hooks
       /\ UNCHANGED <<focus, authVars, pathVars, edgeVars, discoveryVars, accessVars, certVars>>
    \/ /\ focus = "discovery" /\ DiscoveryNext
       /\ UNCHANGED <<focus, authVars, pathVars, edgeVars, deliveryVars, accessVars, certVars>>
    \/ /\ focus = "sources" /\ AccessNext
       /\ UNCHANGED <<focus, authVars, pathVars, edgeVars, deliveryVars, discoveryVars, certVars>>
    \/ /\ \/ focus = "make" /\ Make
          \/ focus = "sign" /\ SignCerts
          \/ focus = "lists" /\ Revocation
       /\ UNCHANGED <<focus, authVars, pathVars, edgeVars, deliveryVars, discoveryVars, accessVars>>

MCSpec ==
    MCInit /\ [][MCNext]_<<focus, authVars, pathVars, edgeVars, deliveryVars, discoveryVars,
                           accessVars, certVars>>

=============================================================================
