---------------------------- MODULE ClientCerts ----------------------------
(***************************************************************************)
(* Client certificates: generating a CA, issuing and renewing certificates *)
(* (internal/api/clientcert.go, internal/clientcert, internal/model's      *)
(* clientca.go and clientcakey.go), and the revocation lists the data      *)
(* plane checks them against (internal/dataplane/crl.go).                  *)
(*                                                                         *)
(* Three machines that meet only in the certificate store: generate writes *)
(* a key file and then a configuration object, issuance appends to a       *)
(* ledger file under a mutex, and every router build loads the revocation  *)
(* lists anew while a watch refreshes those it was last told about.  Keys, *)
(* serials and versions of the list file are numbers in order of creation. *)
(***************************************************************************)
EXTENDS Integers, FiniteSets, FiniteSetsExt

CONSTANTS
    CA,          \* names of client CAs
    Maker,       \* generate requests that may run at the same time
    Signer,      \* issue and renew requests that may run at the same time
    Retention,   \* retention, in years
    FailOpen,    \* crlPolicy of the CA
    MaxMade,     \* bound: keys generated
    MaxSerials,  \* bound: certificates signed
    MaxYears,    \* bound: the calendar
    MaxVersions, \* bound: versions of the list file
    MaxBuilds,   \* bound: router builds
    Nil          \* nothing

\* A loaded revocation list (clientCAAnchor): the version in it, the time of the
\* file it was read from, and who is between its read and its stat.
Anchor == [list : Nat \cup {Nil}, mtime : Nat, reading : {"build", "bad", "watch", Nil}]

ASSUME ClientCertsAssumption ==
    /\ Nil \notin Nat \cup Anchor
    /\ Retention \in Nat /\ FailOpen \in BOOLEAN
    /\ MaxMade \in Nat /\ MaxSerials \in Nat /\ MaxYears \in Nat
    /\ MaxVersions \in Nat \ {0} /\ MaxBuilds \in Nat \ {0}

VARIABLES
    cas,      \* stored ClientCA objects: [cert, file] or Nil
    keyFile,  \* client-cas/<name>.key: the key in it, or Nil
    maker,    \* per generate request: its progress
    keys,     \* keys generated so far
    raced,    \* history: key files touched by overlapping writers
    records,  \* the issuance ledger: [serial, till, by]
    signer,   \* per issue or renew request: its progress
    serials,  \* certificates signed so far
    year,     \* time.Now(), in years
    handed,   \* history: bundles streamed to a client: [serial, till, renews]
    list,     \* the list file: [ver, good]
    anchor,   \* per router build: an Anchor, Nil before it
    live,     \* the build the current router came from
    watched,  \* the build whose anchors the watch polls (crlAnchors)
    building, \* the build in progress, or Nil
    expired,  \* lists up to this version are past their nextUpdate
    conns,    \* client certificates with an open, verified connection
    refused,  \* history: certificates the current router found revoked
    slipped   \* history: it served one of them later

makeVars == <<cas, keyFile, maker, keys, raced>>
signVars == <<records, signer, serials, year, handed>>
listVars == <<list, anchor, live, watched, building, expired, conns, refused, slipped>>
certVars == <<makeVars, signVars, listVars>>

Rest == [pc |-> "rest"]

CertsInit ==
    /\ cas = [n \in CA |-> Nil] /\ keyFile = [n \in CA |-> Nil]
    /\ maker = [g \in Maker |-> Rest] /\ keys = 0 /\ raced = {}
    /\ records = {} /\ signer = [q \in Signer |-> Rest]
    /\ serials = 0 /\ year = 0 /\ handed = {}
    /\ list = [ver |-> 1, good |-> TRUE]
    /\ anchor = [b \in 1..MaxBuilds |->
                    IF b = 1 THEN [list |-> 1, mtime |-> 1, reading |-> Nil] ELSE Nil]
    /\ live = 1 /\ watched = 1 /\ building = Nil
    /\ expired = 0 /\ conns = {} /\ refused = {} /\ slipped = FALSE

----------------------------------------------------------------------------
(* Generating a CA.                                                        *)

\* Mutant: only the CA of that name counts as a user of its key file.
ReferencedByName(cfg, f) == IF cfg[f] # Nil THEN {f} ELSE {}

\* clientCAReferencing, in the configuration the request loaded.
Referencing(cfg, f) == {n \in CA : cfg[n] # Nil /\ cfg[n].file = f}

\* The configuration is loaded; a CA of that name refuses the request.
MakeLoad(g, n) ==
    /\ maker[g] = Rest /\ keys < MaxMade
    /\ maker' = [maker EXCEPT ![g] = IF cas[n] # Nil THEN Rest
                                     ELSE [pc |-> "stat", name |-> n, cfg |-> cas]]
    /\ raced' = IF \E h \in Maker \ {g} : maker[h] # Rest /\ maker[h].name = n
                THEN raced \cup {n} ELSE raced
    /\ UNCHANGED <<cas, keyFile, keys, signVars, listVars>>

\* KeyFileExists: a key some CA signs with refuses the request, an orphan is
\* to be reclaimed.
MakeStat(g) ==
    LET n == maker[g].name IN
    /\ maker[g].pc = "stat"
    /\ maker' = [maker EXCEPT ![g] =
          IF keyFile[n] = Nil THEN [@ EXCEPT !.pc = "key"]
          ELSE IF Referencing(@.cfg, n) # {} THEN Rest
          ELSE [@ EXCEPT !.pc = "reclaim"]]
    /\ UNCHANGED <<cas, keyFile, keys, raced, signVars, listVars>>

\* RemoveGeneratedKey of the orphan; a removal that fails ends the request.
MakeReclaim(g, ok) ==
    /\ maker[g].pc = "reclaim"
    /\ keyFile' = IF ok THEN [keyFile EXCEPT ![maker[g].name] = Nil] ELSE keyFile
    /\ maker' = [maker EXCEPT ![g] = IF ok THEN [@ EXCEPT !.pc = "key"] ELSE Rest]
    /\ UNCHANGED <<cas, keys, raced, signVars, listVars>>

\* GenerateCA: the key is linked into place unless a file is there already.
MakeKey(g) ==
    LET n == maker[g].name IN
    /\ maker[g].pc = "key" /\ keys < MaxMade
    /\ keys' = keys + 1
    /\ IF keyFile[n] = Nil
       THEN /\ keyFile' = [keyFile EXCEPT ![n] = keys']
            /\ maker' = [maker EXCEPT ![g] = [pc |-> "save", name |-> n, key |-> keys']]
       ELSE /\ maker' = [maker EXCEPT ![g] = Rest]
            /\ UNCHANGED keyFile
    /\ UNCHANGED <<cas, raced, signVars, listVars>>

\* The object is saved, or the key file removed again.
MakeSave(g, ok) ==
    LET n == maker[g].name IN
    /\ maker[g].pc = "save"
    /\ cas' = IF ok THEN [cas EXCEPT ![n] = [cert |-> maker[g].key, file |-> n]] ELSE cas
    /\ keyFile' = IF ok THEN keyFile ELSE [keyFile EXCEPT ![n] = Nil]
    /\ maker' = [maker EXCEPT ![g] = Rest]
    /\ UNCHANGED <<keys, raced, signVars, listVars>>

\* An operator stores a CA whose caKeyFile is an existing key file (the
\* certificate is the one of that key), or deletes one; the file stays.
PutCA(n, f) ==
    /\ keyFile[f] # Nil
    /\ cas' = [cas EXCEPT ![n] = [cert |-> keyFile[f], file |-> f]]
    /\ cas' # cas
    /\ raced' = IF \E g \in Maker : maker[g] # Rest /\ maker[g].name = f
                THEN raced \cup {f} ELSE raced
    /\ UNCHANGED <<keyFile, maker, keys, signVars, listVars>>

DeleteCA(n) ==
    /\ cas[n] # Nil /\ cas' = [cas EXCEPT ![n] = Nil]
    /\ UNCHANGED <<keyFile, maker, keys, raced, signVars, listVars>>

\* The process dies; what requests had written stays.
MakeCrash ==
    /\ maker' = [g \in Maker |-> Rest]
    /\ maker' # maker
    /\ UNCHANGED <<cas, keyFile, keys, raced, signVars, listVars>>

Make ==
    \/ \E g \in Maker :
        \/ \E n \in CA : MakeLoad(g, n)
        \/ MakeStat(g) \/ MakeKey(g)
        \/ \E ok \in BOOLEAN : MakeReclaim(g, ok) \/ MakeSave(g, ok)
    \/ \E n, f \in CA : PutCA(n, f)
    \/ \E n \in CA : DeleteCA(n)
    \/ MakeCrash

----------------------------------------------------------------------------
(* Issuing and renewing.                                                   *)

\* handleIssueClientCert: the request is valid and the certificate signed.
Issue(q, years) ==
    /\ signer[q] = Rest /\ serials < MaxSerials
    /\ serials' = serials + 1
    /\ signer' = [signer EXCEPT ![q] = [pc |-> "record", serial |-> serials',
                                        till |-> year + years, renews |-> 0]]
    /\ UNCHANGED <<records, year, handed, makeVars, listVars>>

\* handleRenewClientCert: the record is read, and refused if it has been
\* renewed already; signing follows, outside the ledger's mutex.
Renew(q, r, years) ==
    /\ signer[q] = Rest /\ serials < MaxSerials
    /\ r \in records /\ r.by = 0
    /\ serials' = serials + 1
    /\ signer' = [signer EXCEPT ![q] = [pc |-> "record", serial |-> serials',
                                        till |-> year + years, renews |-> r.serial]]
    /\ UNCHANGED <<records, year, handed, makeVars, listVars>>

\* Mutant: a renewed record counts as history and is dropped.
PrunedSuperseded(old) == {r \in records : r.serial # old /\ r.by = 0 /\ r.till >= year - Retention}

\* Records expired longer ago than the retention are dropped, except the one
\* being superseded.
Pruned(old) == {r \in records : r.serial # old /\ r.till >= year - Retention}

\* Append and AppendSuperseding, one read and one atomic write under the
\* mutex.  Without the record to supersede, or when the write fails, nothing
\* is recorded and the bundle is not handed out; else it is streamed.
Record(q, ok) ==
    LET s   == signer[q]
        new == [serial |-> s.serial, till |-> s.till, by |-> 0]
        old == {r \in records : r.serial = s.renews}
    IN  /\ s.pc = "record"
        /\ IF ok /\ (s.renews = 0 \/ old # {})
           THEN /\ records' = Pruned(s.renews) \cup {new}
                                 \cup {[r EXCEPT !.by = s.serial] : r \in old}
                /\ handed' = handed \cup {[serial |-> s.serial, till |-> s.till, renews |-> s.renews]}
           ELSE UNCHANGED <<records, handed>>
        /\ signer' = [signer EXCEPT ![q] = Rest]
        /\ UNCHANGED <<serials, year, makeVars, listVars>>

NewYear ==
    /\ year < MaxYears /\ year' = year + 1
    /\ UNCHANGED <<records, signer, serials, handed, makeVars, listVars>>

SignCerts ==
    \/ \E q \in Signer, years \in {1, 2} :
        Issue(q, years) \/ \E r \in records : Renew(q, r, years)
    \/ \E q \in Signer, ok \in BOOLEAN : Record(q, ok)
    \/ NewYear

----------------------------------------------------------------------------
(* Revocation lists.  Version v of the file revokes the certificates below *)
(* v; a version that is not good is truncated, unsigned or foreign.        *)

Revoked(v) == IF v = Nil THEN {} ELSE 1..(v - 1)

\* Mutant: a list that does not parse replaces the one loaded.
LoadDrops(old) == IF list.good THEN list.ver ELSE Nil

\* load: a list that does not parse leaves the one loaded in place.
LoadList(old) == IF list.good THEN list.ver ELSE old

\* Reload, first half: a new anchor reads the file (buildClientCAAnchors) ...
Build ==
    LET b == 1 + Cardinality({c \in 1..MaxBuilds : anchor[c] # Nil}) IN
    /\ building = Nil /\ b <= MaxBuilds
    /\ building' = b
    /\ anchor' = [anchor EXCEPT ![b] = [list |-> LoadList(Nil), mtime |-> 0,
                                        reading |-> IF list.good THEN "build" ELSE "bad"]]
    /\ UNCHANGED <<list, live, watched, expired, conns, refused, slipped, makeVars, signVars>>

\* ... then stats it, and registerCRLAnchors tells the watch about this build.
Register ==
    LET a == anchor[building] IN
    /\ building # Nil /\ a.reading \in {"build", "bad"}
    /\ anchor' = [anchor EXCEPT ![building] =
          [a EXCEPT !.mtime = IF a.mtime = 0 /\ a.reading = "build" THEN list.ver ELSE a.mtime,
                    !.reading = Nil]]
    /\ watched' = building
    /\ UNCHANGED <<list, live, building, expired, conns, refused, slipped, makeVars, signVars>>

\* The rest of the build fails, or the router is swapped in.
BuildEnds(ok) ==
    /\ building # Nil /\ anchor[building].reading = Nil
    /\ live' = IF ok THEN building ELSE live
    /\ refused' = IF ok THEN {} ELSE refused
    /\ building' = Nil
    /\ UNCHANGED <<list, anchor, watched, expired, conns, slipped, makeVars, signVars>>

\* reloadIfChanged: the watch reads a file whose mtime moved ...
WatchRead ==
    LET a == anchor[watched] IN
    /\ \A b \in 1..MaxBuilds : anchor[b] # Nil => anchor[b].reading # "watch"
    /\ a.reading = Nil /\ list.ver > a.mtime
    /\ anchor' = [anchor EXCEPT ![watched] =
          [a EXCEPT !.list = LoadList(a.list), !.reading = IF list.good THEN "watch" ELSE Nil]]
    /\ anchor' # anchor
    /\ UNCHANGED <<list, live, watched, building, expired, conns, refused, slipped, makeVars, signVars>>

\* ... and stats it again once it is loaded.
WatchStat(b) ==
    /\ anchor[b] # Nil /\ anchor[b].reading = "watch"
    /\ anchor' = [anchor EXCEPT ![b] = [@ EXCEPT !.mtime = list.ver, !.reading = Nil]]
    /\ UNCHANGED <<list, live, watched, building, expired, conns, refused, slipped, makeVars, signVars>>

\* The CA's export replaces the file.
NewList(good) ==
    /\ list.ver < MaxVersions
    /\ list' = [ver |-> list.ver + 1, good |-> good]
    /\ UNCHANGED <<anchor, live, watched, building, expired, conns, refused, slipped, makeVars, signVars>>

\* The oldest list not yet past its nextUpdate expires.
Expire ==
    /\ expired < list.ver /\ expired' = expired + 1
    /\ UNCHANGED <<list, anchor, live, watched, building, conns, refused, slipped,
                   makeVars, signVars>>

\* verifyPeer on a full handshake, verifyResumed on a resumed one: without a
\* usable list the policy decides, a listed certificate is refused.
Admits(a, c) ==
    IF a.list = Nil \/ a.list <= expired THEN FailOpen ELSE c \notin Revoked(a.list)

Handshake(c) ==
    /\ c \notin conns
    /\ Admits(anchor[live], c)
    /\ conns' = conns \cup {c}
    /\ UNCHANGED <<list, anchor, live, watched, building, expired, refused, slipped,
                   makeVars, signVars>>

\* Mutant: a request follows the policy of the handshake.
ListedByPolicy(c, a) == ~Admits(a, c)

\* chainRevoked: only a listing counts, whatever the age of the list.
Listed(c, a) == c \in Revoked(a.list)

\* A request on an open connection: clientAuthSatisfied asks the anchor of the
\* current router, a client-cert gate (revokedNow) the registered one as well.
Request(c, gated) ==
    LET listed == Listed(c, anchor[live])
        stopped == gated /\ Listed(c, anchor[watched])
    IN  /\ c \in conns
        /\ refused' = IF listed THEN refused \cup {c} ELSE refused
        /\ slipped' = (slipped \/ (c \in refused /\ ~listed /\ ~stopped))
        /\ UNCHANGED <<list, anchor, live, watched, building, expired, conns,
                       makeVars, signVars>>

Revocation ==
    \/ Build \/ Register \/ WatchRead
    \/ \E b \in 1..MaxBuilds : WatchStat(b)
    \/ \E ok \in BOOLEAN : BuildEnds(ok) \/ NewList(ok)
    \/ Expire
    \/ \E c \in 1..(MaxVersions - 1) :
        Handshake(c) \/ \E gated \in BOOLEAN : Request(c, gated)

CertsNext == Make \/ SignCerts \/ Revocation

CertsSpec == CertsInit /\ [][CertsNext]_certVars

----------------------------------------------------------------------------
(* A stored CA can sign: the key file it names holds the key of its
   certificate, whatever crashed or failed in between; not promised where two
   requests wrote one key file at once. *)
KeysKept ==
    \A n \in CA : cas[n] # Nil /\ cas[n].file \notin raced =>
        keyFile[cas[n].file] = cas[n].cert

(* A bundle that left is on record for as long as it works and a retention
   longer, and the certificate it renewed is marked, if it is listed still. *)
BundlesRemembered ==
    \A b \in handed :
        /\ b.till >= year - Retention => \E r \in records : r.serial = b.serial
        /\ \A r \in records : r.serial = b.renews => r.by # 0

(* Client certificates are accounted for, whatever crashes, fails or runs at
   the same time: keys and records as above, and a certificate a router once
   refused as revoked it refuses as long as it serves, although the list file is
   truncated, expires or is replaced meanwhile. *)
CertsAccounted == KeysKept /\ BundlesRemembered /\ ~slipped
=============================================================================
