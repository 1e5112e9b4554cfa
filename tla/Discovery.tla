------------------------------ MODULE Discovery ------------------------------
(***************************************************************************)
(* Discovery: proxy hosts derived from Kubernetes Ingresses and Docker     *)
(* containers (internal/k8s, internal/docker, the shared planner           *)
(* internal/discovery/plan.go, the settings in internal/model/ingressdisc  *)
(* and dockerdisc, and the batch writer wired in cmd/gpm/main.go).         *)
(*                                                                         *)
(* A reconcile loads a snapshot of the hosts and settings, lists the       *)
(* sources (page by page for Kubernetes), plans against the snapshot and   *)
(* hands the plan to the store, which checks ownership again and validates *)
(* the merged configuration as one batch.  The operator, the cluster and   *)
(* the other reconciler act between any two of those steps.                *)
(*                                                                         *)
(* Host names, domains and references to source objects are numbers: their *)
(* order is the sorted order the planner relies on.  A label is a triple   *)
(* <<prefix, kind, value>>.                                                *)
(***************************************************************************)
EXTENDS Integers, Sequences, FiniteSets, FiniteSetsExt, SequencesExt

CONSTANTS
    Sub,          \* the reconcilers: "ingress", "docker"
    Name,         \* proxy host names, in sorted order
    Domain,       \* domains, in sorted order
    Source,       \* possible source objects, per reconciler
    Settings,     \* settings the operator may save
    OperatorHost, \* what an operator may write: pairs <<name, domains>>
    PageSize,     \* page size of a list, per reconciler
    MaxItems,     \* maxListItems, maxContainers
    MaxEdits,     \* bound: changes of the cluster and by the operator
    NoHost        \* no host of that name

\* A proxy host: its labels, its domains and the profile it was derived with.
HostRecord ==
    [labels   : SUBSET ({set.prefix : set \in Settings} \X {"managed", "disabled"} \X Sub),
     domains  : SUBSET Domain,
     profile  : {"template", "operator"}
                \cup {src.profile : src \in UNION UNION {Source[s] : s \in Sub}}
                \cup {r.profile : r \in UNION {set.rules : set \in Settings}},
     disabled : BOOLEAN, maintenance : BOOLEAN]

ASSUME DiscoveryAssumption ==
    /\ Name \subseteq Nat \ {0} /\ Domain \subseteq Nat \ {0}
    /\ MaxItems \in Nat /\ MaxEdits \in Nat
    /\ PageSize \in [Sub -> Nat \ {0}]
    /\ NoHost \notin HostRecord
    /\ OperatorHost \subseteq Name \X SUBSET Domain
    /\ \A s \in Sub : \A listed \in Source[s] :
          \A x, y \in listed :
              x.ref \in Nat /\ (x.ref = y.ref => x = y) /\ x.asks \subseteq Domain

VARIABLES
    hosts,     \* the stored proxy hosts, by name
    settings,  \* the stored discovery settings
    cluster,   \* per reconciler: the source objects that exist
    run,       \* per reconciler: progress of its reconcile
    frozen,    \* per reconciler: the last reconcile failed (Status.Error)
    edits      \* changes made so far

discoveryVars == <<hosts, settings, cluster, run, frozen, edits>>

Default == "gpm"            \* DefaultAnnotationPrefix
Waiting == [pc |-> "wait"]

DiscoveryInit ==
    /\ hosts = [n \in Name |-> NoHost]
    /\ settings \in Settings
    /\ cluster = [s \in Sub |-> {}]
    /\ run = [s \in Sub |-> Waiting]
    /\ frozen = [s \in Sub |-> FALSE]
    /\ edits = 0

----------------------------------------------------------------------------
(* Settings: the docker block takes prefix, migration flag and, when it has *)
(* none of its own, the profiles from the ingress block.                    *)

Resolved(set, s) ==
    [prefix   |-> set.prefix,
     migrate  |-> set.migrate,
     on       |-> s \in set.on,
     allowed  |-> set.allowed,
     rules    |-> IF s = "ingress" THEN set.rules ELSE {},
     rulesOnly |-> s = "ingress" /\ set.rulesOnly,
     published |-> s = "docker" /\ set.published,
     profiles |-> IF s = "docker" /\ set.profiles["docker"] # {}
                  THEN set.profiles["docker"] ELSE set.profiles["ingress"]]

HasStale(conf, s, kind, labels) ==
    \E l \in labels : l[1] # conf.prefix /\ l[2] = kind /\ l[3] = s

StripStale(conf, s, labels) ==
    {l \in labels : l[3] # s \/ l[1] = conf.prefix}

Managed(conf, s, h) ==
    /\ h # NoHost
    /\ \/ <<conf.prefix, "managed", s>> \in h.labels
       \/ conf.migrate /\ HasStale(conf, s, "managed", h.labels)

OperatorDisabled(conf, s, h) ==
    /\ h.disabled
    /\ <<conf.prefix, "disabled", s>> \notin h.labels
    /\ ~(conf.migrate /\ HasStale(conf, s, "disabled", h.labels))

\* Validate: a rule names a defined profile.
RulesDefined(conf) == \A r \in conf.rules : r.profile \in conf.profiles \cup {"template"}

\* A new prefix may not orphan the hosts labelled under another.
PrefixKept(conf, s) ==
    conf.migrate \/ \A n \in Name :
        hosts[n] # NoHost => ~HasStale(conf, s, "managed", hosts[n].labels)

\* Validate and ValidateRefs of the enabled blocks.
SettingsValid(set) ==
    \A s \in Sub : Resolved(set, s).on =>
        RulesDefined(Resolved(set, s)) /\ PrefixKept(Resolved(set, s), s)

----------------------------------------------------------------------------
(* Deriving a host from one source object.                                 *)

\* A rule of the operator decides before the source's own annotation does;
\* a name that does not resolve is an error, never the default.
ResolveProfile(conf, src) ==
    LET matching == {r \in conf.rules : r.ns = src.ns} IN
    CASE matching # {} -> (CHOOSE r \in matching : TRUE).profile
      [] matching = {} /\ conf.rulesOnly -> "template"
      [] OTHER -> src.profile

Resolves(conf, src) ==
    ResolveProfile(conf, src) \in conf.profiles \cup {"template"}

\* The port label, or the only exposed port; with published ports, the port
\* must be published as well.  An Ingress takes its upstream from the profile.
UpstreamKnown(conf, src) ==
    src.exposed # {} =>
        /\ src.port # 0 \/ Cardinality(src.exposed) = 1
        /\ conf.published => (IF src.port # 0 THEN {src.port} ELSE src.exposed) \subseteq src.public

\* The domains a source asks for, as far as a suffix of the operator allows.
DeriveDomains(conf, src) == src.asks \cap conf.allowed

\* The host a container or an Ingress renders to.
DerivedHost(conf, s, src) ==
    [labels |-> {<<conf.prefix, "managed", s>>}, domains |-> DeriveDomains(conf, src),
     profile |-> ResolveProfile(conf, src), disabled |-> FALSE, maintenance |-> FALSE]

DeriveSource(conf, s, src) ==
    [name |-> src.name,
     unknown |-> ~Resolves(conf, src),
     failed |-> ~Resolves(conf, src) \/ DeriveDomains(conf, src) = {} \/ ~UpstreamKnown(conf, src),
     host |-> DerivedHost(conf, s, src)]

----------------------------------------------------------------------------
(* The plan.                                                               *)

\* Whoever claims a domain first keeps it; 0 is nobody.
Claim(claimed, owner, doms) ==
    [d \in Domain |-> IF d \in doms /\ claimed[d] = 0 THEN owner ELSE claimed[d]]

\* The owner of the first domain, in sorted order, that is claimed at all.
FirstClaimed(doms, claimed) ==
    LET taken == {d \in doms : claimed[d] # 0}
    IN  IF taken = {} THEN 0 ELSE claimed[Min(taken)]

Sorted(S) == SetToSortSeq(S, <)

\* The derived set of a complete list: an unknown profile or an unusable
\* object protects the host it names, and of two objects that derive one name
\* the first listed wins.
Derived(conf, s, listed) ==
    LET items == [r \in {src.ref : src \in listed} |->
                     DeriveSource(conf, s, CHOOSE src \in listed : src.ref = r)]
        good(n) == {r \in DOMAIN items : items[r].name = n /\ ~items[r].failed}
    IN  [desired   |-> {items[Min(good(n))] : n \in {m \in Name : good(m) # {}}},
         protected |-> {items[r].name : r \in {q \in DOMAIN items : items[q].failed}},
         unknown   |-> {items[r].name : r \in {q \in DOMAIN items : items[q].unknown}}]

\* A host the plan switches off because its profile no longer resolves.
FailClosed(conf, s, cur) ==
    [cur EXCEPT !.disabled = TRUE,
                !.labels = (IF conf.migrate THEN StripStale(conf, s, @) ELSE @)
                           \cup {<<conf.prefix, "managed", s>>, <<conf.prefix, "disabled", s>>}]

\* A derived host keeps the operator's maintenance flag, and the disabled
\* flag unless discovery itself set it.
CarriedOver(conf, s, cur, want) ==
    [want EXCEPT !.maintenance = cur.maintenance, !.disabled = OperatorDisabled(conf, s, cur)]

\* Domains claimed before any derived host is placed: every host this run
\* does not rewrite or remove, then what the rewritten ones serve today, then
\* what they want.
Reserved(cfg, mine, want, doomed) ==
    LET kept == {n \in Name : cfg[n] # NoHost /\ ~(n \in mine /\ (n \in DOMAIN want \/ n \in doomed))}
        old  == Sorted(mine \cap DOMAIN want)
        free == [d \in Domain |-> 0]
        c0   == FoldLeft(LAMBDA c, n : Claim(c, n, cfg[n].domains), free, Sorted(kept))
        c1   == FoldLeft(LAMBDA c, n : Claim(c, n, cfg[n].domains), c0, old)
    IN  FoldLeft(LAMBDA c, n : Claim(c, n, want[n].domains), c1, old)

\* Place the derived hosts in name order: one that wants a claimed domain or
\* a name it does not own is skipped and what is stored keeps its domains.
PlacedNames(cfg, mine, want, reserved) ==
    LET place(acc, n) ==
          IF \/ FirstClaimed(want[n].domains, acc.claimed) \notin {0, n}
             \/ cfg[n] # NoHost /\ n \notin mine
          THEN [acc EXCEPT !.claimed = IF cfg[n] = NoHost THEN @ ELSE Claim(@, n, cfg[n].domains)]
          ELSE [claimed |-> Claim(acc.claimed, n, want[n].domains), names |-> acc.names \cup {n}]
    IN  FoldLeft(place, [claimed |-> reserved, names |-> {}], Sorted(DOMAIN want)).names

\* What a placed host is written as, if that is a change.
PlacedHosts(conf, s, cfg, want, names) ==
    LET put(n) == IF cfg[n] = NoHost THEN want[n] ELSE CarriedOver(conf, s, cfg[n], want[n])
    IN  {<<n, put(n)>> : n \in {m \in names : cfg[m] # put(m)}}

\* The whole plan, made against the snapshot cfg: hosts to write and to delete.
\* A fail-closed write comes last and so wins over a derived one of that name.
Plan(conf, s, cfg, listed) ==
    LET mine   == {n \in Name : Managed(conf, s, cfg[n])}
        der    == Derived(conf, s, listed)
        want   == [n \in {it.name : it \in der.desired} |->
                      (CHOOSE it \in der.desired : it.name = n).host]
        doomed == {n \in mine : n \notin DOMAIN want /\ n \notin der.protected}
        closed == {n \in mine \cap der.unknown : ~cfg[n].disabled}
        placed == DOMAIN want \cap PlacedNames(cfg, mine, want, Reserved(cfg, mine, want, doomed))
    IN  [puts    |-> PlacedHosts(conf, s, cfg, want, placed \ closed)
                     \cup {<<n, FailClosed(conf, s, cfg[n])>> : n \in closed},
         deletes |-> doomed]

----------------------------------------------------------------------------
(* The batch writer: the guard asks for the label under the default prefix, *)
(* a put or a delete that fails it is left out, and the merged hosts must   *)
(* be valid: no domain belongs to two of them.                              *)

Guard(s, n) ==
    hosts[n] = NoHost \/ <<Default, "managed", s>> \in hosts[n].labels

Merged(s, plan) ==
    [n \in Name |->
        IF ~Guard(s, n) THEN hosts[n]
        ELSE IF n \in plan.deletes THEN NoHost
        ELSE IF \E p \in plan.puts : p[1] = n
             THEN (CHOOSE p \in plan.puts : p[1] = n)[2]
             ELSE hosts[n]]

DomainsExclusive(cfg) ==
    \A n, m \in Name :
        n # m /\ cfg[n] # NoHost /\ cfg[m] # NoHost => cfg[n].domains \cap cfg[m].domains = {}

----------------------------------------------------------------------------
(* A reconcile, one at a time for each reconciler.                         *)

\* The poll interval is over.
Poll(s) ==
    /\ run[s] = Waiting
    /\ run' = [run EXCEPT ![s] = [pc |-> "load"]]
    /\ UNCHANGED <<hosts, settings, cluster, frozen, edits>>

\* load: the hosts and settings the whole run will work with.
Load(s) ==
    LET conf == Resolved(settings, s) IN
    /\ run[s].pc = "load"
    /\ IF conf.on
       THEN /\ run' = [run EXCEPT ![s] = [pc |-> "list", conf |-> conf, cfg |-> hosts,
                                          rest |-> cluster[s], got |-> {}, seen |-> cluster[s]]]
            /\ UNCHANGED frozen
       ELSE /\ run' = [run EXCEPT ![s] = Waiting]
            /\ frozen' = [frozen EXCEPT ![s] = FALSE]
    /\ UNCHANGED <<hosts, settings, cluster, edits>>

\* fail(): nothing is written and the status keeps the last good run.
Freeze(s) ==
    /\ run' = [run EXCEPT ![s] = Waiting]
    /\ frozen' = [frozen EXCEPT ![s] = TRUE]

\* The next page of what is left to list, in the order of the list.
Pages(s, rest) ==
    LET n == IF PageSize[s] < Cardinality(rest) THEN PageSize[s] ELSE Cardinality(rest)
    IN  {p \in kSubset(n, rest) : \A x \in p, y \in rest \ p : x.ref < y.ref}

WithPage(r, page) ==
    [r EXCEPT !.rest = r.rest \ page, !.got = r.got \cup page,
              !.pc = IF r.rest = page THEN "apply" ELSE "list"]

\* One page of the list, a consistent snapshot of the sources.
ListPage(s) ==
    LET r == run[s] IN
    /\ r.pc = "list"
    /\ \E page \in Pages(s, r.rest) :
          IF Cardinality(r.got \cup page) > MaxItems
          THEN Freeze(s)
          ELSE run' = [run EXCEPT ![s] = WithPage(r, page)] /\ UNCHANGED frozen
    /\ UNCHANGED <<hosts, settings, cluster, edits>>

\* A listing that goes on with the pages it has when one fails.
ListFailsPartial(s) ==
    /\ run[s].pc = "list"
    /\ run' = [run EXCEPT ![s].pc = "apply"]
    /\ UNCHANGED <<hosts, settings, cluster, frozen, edits>>

\* A page fails (transport, status, a body that is not a list): what was
\* listed so far is thrown away.
ListFails(s) ==
    /\ run[s].pc = "list"
    /\ Freeze(s)
    /\ UNCHANGED <<hosts, settings, cluster, edits>>

\* Plan against the snapshot, write against what is stored now.
Apply(s) ==
    LET r      == run[s]
        plan   == Plan(r.conf, s, r.cfg, r.got)
        merged == Merged(s, plan)
    IN  /\ r.pc = "apply"
        /\ IF merged = hosts \/ DomainsExclusive(merged)
           THEN /\ hosts' = merged
                /\ run' = [run EXCEPT ![s] = Waiting]
                /\ frozen' = [frozen EXCEPT ![s] = FALSE]
           ELSE Freeze(s) /\ UNCHANGED hosts
        /\ UNCHANGED <<settings, cluster, edits>>

----------------------------------------------------------------------------
(* The world: sources come, go and change; the operator edits hosts and    *)
(* saves settings.                                                         *)

ClusterChanges(s, srcs) ==
    /\ edits < MaxEdits /\ edits' = edits + 1
    /\ cluster' = [cluster EXCEPT ![s] = srcs]
    /\ cluster' # cluster
    /\ UNCHANGED <<hosts, settings, run, frozen>>

SaveSettings(set) ==
    /\ edits < MaxEdits /\ edits' = edits + 1
    /\ set # settings /\ SettingsValid(set)
    /\ settings' = set
    /\ UNCHANGED <<hosts, cluster, run, frozen>>

\* The operator writes a host of their own, over a derived one perhaps.
OperatorWrites(n, doms) ==
    /\ edits < MaxEdits /\ edits' = edits + 1
    /\ hosts' = [hosts EXCEPT ![n] = [labels |-> {}, domains |-> doms, profile |-> "operator",
                                      disabled |-> FALSE, maintenance |-> FALSE]]
    /\ DomainsExclusive(hosts')
    /\ UNCHANGED <<settings, cluster, run, frozen>>

\* The operator takes a host offline by hand; its labels stay.
OperatorDisables(n) ==
    /\ edits < MaxEdits /\ edits' = edits + 1
    /\ hosts[n] # NoHost /\ ~hosts[n].disabled
    /\ hosts' = [hosts EXCEPT ![n].disabled = TRUE]
    /\ UNCHANGED <<settings, cluster, run, frozen>>

OperatorDeletes(n) ==
    /\ edits < MaxEdits /\ edits' = edits + 1
    /\ hosts[n] # NoHost
    /\ hosts' = [hosts EXCEPT ![n] = NoHost]
    /\ UNCHANGED <<settings, cluster, run, frozen>>

DiscoveryNext ==
    \/ \E s \in Sub : Poll(s) \/ Load(s) \/ ListPage(s) \/ ListFails(s) \/ Apply(s)
    \/ \E s \in Sub : \E srcs \in Source[s] : ClusterChanges(s, srcs)
    \/ \E set \in Settings : SaveSettings(set)
    \/ \E w \in OperatorHost : OperatorWrites(w[1], w[2])
    \/ \E n \in Name : OperatorDisables(n) \/ OperatorDeletes(n)

DiscoverySpec == DiscoveryInit /\ [][DiscoveryNext]_discoveryVars

----------------------------------------------------------------------------
(* What a reconcile may do to one host, given the complete list it started
   from.  It writes only where it owns the host at the moment of the write;
   it deletes only a host that no listed source names; what it writes carries
   the profile some source resolves to, or is the stored host switched off
   because its profile is gone; and a host the operator had disabled before
   the run stays off. *)
HonestAbout(s, n) ==
    LET r == run[s]  old == hosts[n]  new == hosts'[n]
        named == {src \in r.seen : src.name = n}
    IN  new # old =>
        /\ old # NoHost => \E p \in {l[1] : l \in old.labels} : <<p, "managed", s>> \in old.labels
        /\ new = NoHost => named = {}
        /\ new # NoHost =>
              \/ /\ \E src \in named : Resolves(r.conf, src) /\ new.profile = ResolveProfile(r.conf, src)
                 /\ r.cfg[n] # NoHost /\ OperatorDisabled(r.conf, s, r.cfg[n]) => new.disabled
              \/ /\ \E src \in named : ~Resolves(r.conf, src)
                 /\ new.disabled /\ new.profile = r.cfg[n].profile

(* A reconcile touches only what it owns, deletes only on a complete list and
   never re-enables what the operator had switched off (plan.go's ownership,
   freeze and carry-forward rules together with ListIngresses and the guard in
   main.go). *)
ReconcileHonest ==
    [][\A s \in Sub : run[s].pc = "apply" /\ run'[s].pc = "wait" =>
           \A n \in Name : HonestAbout(s, n)]_discoveryVars
=============================================================================
