----------------------------- MODULE AccessSync -----------------------------
(***************************************************************************)
(* Access-list sources (internal/accesssync/accesssync.go, the ledger in   *)
(* internal/model/accesslistledger.go and internal/store/configstore.go,   *)
(* internal/dataplane/accesslistsources.go).                               *)
(*                                                                         *)
(* A pass loads the configuration, then the committed ledger and the HEAD  *)
(* it was read at, fetches every source that is due, and saves the new     *)
(* ledger only if HEAD is still the same.  Operators edit sources and      *)
(* revert history, and feeds change, between any two of those steps.       *)
(*                                                                         *)
(* A source is a number (the order the configuration declares them in), a  *)
(* body is a set of lines, and the clock counts passes: a pass starts at   *)
(* a time of its own.                                                      *)
(***************************************************************************)
EXTENDS Integers, Sequences, FiniteSets, FiniteSetsExt

CONSTANTS
    Feed,        \* source keys "<list>/<source>"
    URL,         \* where a source may be fetched from
    Bodies,      \* bodies a feed may publish: sets of lines
    BadLine,     \* a line that is no network, or one no feed may contain
    MaxEntries,  \* maxEntries of a source
    FetchEvery,  \* interval of a source, in passes
    MaxPasses,   \* bound: passes started
    MaxChanges,  \* bound: commits, feed changes and restarts
    Absent       \* no source, no entry

ASSUME AccessAssumption ==
    /\ Feed \subseteq Nat /\ MaxEntries \in Nat /\ FetchEvery \in Nat
    /\ \A b \in Bodies : IsFiniteSet(b)
    /\ MaxPasses \in Nat /\ MaxChanges \in Nat

VARIABLES
    commits,   \* history of the config repo: [src, led]; the last is HEAD
    published, \* body each URL answers with now
    attempts,  \* s.attempts: pass of the last successful fetch, 0 for none
    pass,      \* the pass under the mutex single, or none
    running,   \* a drain goroutine exists
    queued,    \* a trigger came while it runs
    clock,     \* passes started
    serving,   \* sets the compiled access lists use, per source
    changes,   \* commits, feed changes and restarts so far
    everPublished, \* history: every pair <<url, body>> published
    withdrawn,     \* history: ledger entries a revert took back
    settled        \* history: no commit since the last pass that ended well

accessVars == <<commits, published, attempts, pass, running, queued, clock, serving,
                changes, everPublished, withdrawn, settled>>

NoPass == [pc |-> "none"]
Tip == commits[Len(commits)]

AccessInit ==
    /\ commits = << [src |-> [k \in Feed |-> Absent], led |-> [k \in Feed |-> Absent]] >>
    /\ published \in [URL -> Bodies]
    /\ attempts = [k \in Feed |-> 0]
    /\ pass = NoPass
    /\ running = FALSE /\ queued = FALSE
    /\ clock = 0 /\ changes = 0
    /\ serving = [k \in Feed |-> {}]
    /\ everPublished = {<<u, published[u]>> : u \in URL}
    /\ withdrawn = {}
    /\ settled = FALSE

----------------------------------------------------------------------------
(* The data plane: SetAccessListSources and the compile that follows it.   *)
(* A rule finds its set by list and source name alone.                     *)

CompiledSources(c) ==
    [k \in Feed |-> IF c.src[k] # Absent /\ c.led[k] # Absent THEN c.led[k].set ELSE {}]

----------------------------------------------------------------------------
(* Fetching one source.                                                    *)

\* refuseEntry: a line that is no network, or one no public feed may name.
RefusedEntry(body) == BadLine \in body

\* Mutant: lines that are not networks are skipped.
ParseLeniently(body) ==
    LET nets == body \ {BadLine} IN
    IF nets = {} \/ Cardinality(nets) > MaxEntries THEN {} ELSE nets

\* parseEntries: one line that may not be there refuses the body, as do no
\* line at all and too many; {} stands for a refusal.
ParseEntries(body) ==
    IF RefusedEntry(body) \/ Cardinality(body) > MaxEntries THEN {} ELSE body

\* due: never fetched, or the later of fetchedAt and the attempt is an
\* interval old.
Due(k, entry, now) ==
    LET at   == IF entry = Absent THEN 0 ELSE entry.at
        last == IF attempts[k] > at THEN attempts[k] ELSE at
    IN  last = 0 \/ now - last >= FetchEvery

----------------------------------------------------------------------------
(* A pass.                                                                 *)

StartPass(by) ==
    /\ pass = NoPass
    /\ clock < MaxPasses /\ clock' = clock + 1
    /\ pass' = [pc |-> "config", by |-> by]

\* Run: the poll interval is over.
PollSources ==
    /\ StartPass("poll")
    /\ UNCHANGED <<commits, published, attempts, running, queued, serving, changes,
                   everPublished, withdrawn, settled>>

\* ReconcileNow: refused while a pass runs.
ReconcileNow ==
    /\ StartPass("now")
    /\ UNCHANGED <<commits, published, attempts, running, queued, serving, changes,
                   everPublished, withdrawn, settled>>

\* The drain goroutine gets the mutex.
Drain ==
    /\ running /\ StartPass("drain")
    /\ UNCHANGED <<commits, published, attempts, running, queued, serving, changes,
                   everPublished, withdrawn, settled>>

\* What the end of a pass means for its caller: the drain goroutine takes up
\* a queued trigger or ends.
EndPass ==
    /\ pass' = NoPass
    /\ running' = IF pass.by = "drain" THEN queued ELSE running
    /\ queued' = (pass.by # "drain" /\ queued)

\* load: the configuration this pass works with; a disabled fetcher or a load
\* that fails ends it.
LoadSources(ok) ==
    /\ pass.pc = "config"
    /\ IF ok
       THEN /\ pass' = [pc |-> "ledger", by |-> pass.by, src |-> Tip.src]
            /\ UNCHANGED <<running, queued>>
       ELSE EndPass
    /\ UNCHANGED <<commits, published, attempts, clock, serving, changes,
                   everPublished, withdrawn, settled>>

\* LoadAccessListSourceLedger: the ledger and the HEAD it was read at.
LoadLedger ==
    /\ pass.pc = "ledger"
    /\ pass' = [pc |-> "fetch", by |-> pass.by, src |-> pass.src, led |-> Tip.led,
                rev |-> Len(commits), next |-> [k \in Feed |-> Absent],
                todo |-> {k \in Feed : pass.src[k] # Absent}]
    /\ UNCHANGED <<commits, published, attempts, running, queued, clock, serving, changes,
                   everPublished, withdrawn, settled>>

\* Mutant: an entry is kept whatever URL it was fetched from.
KeptByName(k) == pass.led[k]

\* The entry a pass starts from: one fetched from the URL the source has now.
Kept(k) ==
    IF pass.led[k] # Absent /\ pass.led[k].url = pass.src[k] THEN pass.led[k] ELSE Absent

\* One source, in the order of the configuration: kept, or dropped because its
\* URL moved, and then fetched if it is due.  answer is what the endpoint gave:
\* its body, or {} for no answer, a bad status or an oversized body.
Visit(answer) ==
    LET k     == Min(pass.todo)
        moved == pass.led[k] # Absent /\ Kept(k) = Absent
        tried == [attempts EXCEPT ![k] = IF moved THEN 0 ELSE @]
        due   == IF moved THEN TRUE ELSE Due(k, Kept(k), clock)
        set   == ParseEntries(answer)
        same  == Kept(k) # Absent /\ Kept(k).set = set
    IN  /\ pass.pc = "fetch" /\ pass.todo # {}
        /\ answer \in {{}, published[pass.src[k]]}
        /\ ~due => answer = {}
        /\ attempts' = IF due /\ set # {} THEN [tried EXCEPT ![k] = clock] ELSE tried
        /\ pass' = [pass EXCEPT
              !.todo = @ \ {k},
              !.next[k] = IF due /\ set # {} /\ ~same
                          THEN [url |-> pass.src[k], at |-> clock, set |-> set]
                          ELSE Kept(k)]
        /\ UNCHANGED <<commits, published, running, queued, clock, serving, changes,
                       everPublished, withdrawn, settled>>

\* Mutant: the save does not ask whether HEAD moved.
SaveStale ==
    /\ pass.pc = "fetch" /\ pass.todo = {} /\ pass.next # pass.led
    /\ commits' = Append(commits, [Tip EXCEPT !.led = pass.next])
    /\ pass' = [pass EXCEPT !.pc = "reload"]
    /\ UNCHANGED <<published, attempts, running, queued, clock, serving, changes,
                   everPublished, withdrawn, settled>>

\* SaveAccessListSourceLedger: refused when HEAD moved since the ledger was
\* read; the pass then ends with an error.
SaveLedger ==
    /\ pass.pc = "fetch" /\ pass.todo = {} /\ pass.next # pass.led
    /\ IF pass.rev = Len(commits)
       THEN /\ commits' = Append(commits, [Tip EXCEPT !.led = pass.next])
            /\ pass' = [pass EXCEPT !.pc = "reload"]
            /\ UNCHANGED <<running, queued>>
       ELSE EndPass /\ UNCHANGED commits
    /\ UNCHANGED <<published, attempts, clock, serving, changes, everPublished, withdrawn, settled>>

\* onChange: reload, then the pass is over.
ReloadSources ==
    /\ pass.pc = "reload"
    /\ serving' = CompiledSources(Tip)
    /\ settled' = (Tip = [src |-> pass.src, led |-> pass.next])
    /\ EndPass
    /\ UNCHANGED <<commits, published, attempts, clock, changes, everPublished, withdrawn>>

\* Nothing changed: no commit and no reload.
NothingNew ==
    /\ pass.pc = "fetch" /\ pass.todo = {} /\ pass.next = pass.led
    /\ settled' = (pass.rev = Len(commits) /\ Tip.src = pass.src)
    /\ EndPass
    /\ UNCHANGED <<commits, published, attempts, clock, serving, changes, everPublished, withdrawn>>

----------------------------------------------------------------------------
(* Everyone else.                                                          *)

Trigger == IF running THEN queued' = TRUE /\ UNCHANGED running
                      ELSE running' = TRUE /\ UNCHANGED queued

\* A list is saved: one commit, the reload and the trigger of a pass.
SaveList(k, u) ==
    /\ changes < MaxChanges /\ changes' = changes + 1
    /\ Tip.src[k] # u
    /\ commits' = Append(commits, [Tip EXCEPT !.src[k] = u])
    /\ serving' = CompiledSources(commits'[Len(commits')])
    /\ settled' = FALSE
    /\ Trigger
    /\ UNCHANGED <<published, attempts, pass, clock, everPublished, withdrawn>>

\* Revert: configuration and ledger go back together, as a new commit.
RevertTo(i) ==
    /\ changes < MaxChanges /\ changes' = changes + 1
    /\ i \in 1..Len(commits) - 1 /\ commits[i] # Tip
    /\ commits' = Append(commits, commits[i])
    /\ serving' = CompiledSources(commits[i])
    /\ withdrawn' = (withdrawn \cup {<<k, Tip.led[k]>> : k \in Feed})
                        \ {<<k, commits[i].led[k]>> : k \in Feed}
    /\ settled' = FALSE
    /\ Trigger
    /\ UNCHANGED <<published, attempts, pass, clock, everPublished>>

\* The feed behind a URL changes.
Publish(u, body) ==
    /\ changes < MaxChanges /\ changes' = changes + 1
    /\ published[u] # body
    /\ published' = [published EXCEPT ![u] = body]
    /\ everPublished' = everPublished \cup {<<u, body>>}
    /\ UNCHANGED <<commits, attempts, pass, running, queued, clock, serving, withdrawn, settled>>

\* The process restarts: attempts and the pass are gone, the ledger is served.
Restart ==
    /\ changes < MaxChanges /\ changes' = changes + 1
    /\ attempts' = [k \in Feed |-> 0]
    /\ pass' = NoPass /\ running' = FALSE /\ queued' = FALSE
    /\ serving' = CompiledSources(Tip)
    /\ UNCHANGED <<commits, published, clock, everPublished, withdrawn, settled>>

AccessNext ==
    \/ PollSources \/ ReconcileNow \/ Drain
    \/ \E ok \in BOOLEAN : LoadSources(ok)
    \/ LoadLedger
    \/ \E answer \in Bodies \cup {{}} : Visit(answer)
    \/ SaveLedger \/ ReloadSources \/ NothingNew
    \/ \E k \in Feed, u \in URL \cup {Absent} : SaveList(k, u)
    \/ \E i \in DOMAIN commits : RevertTo(i)
    \/ \E u \in URL, b \in Bodies : Publish(u, b)
    \/ Restart

AccessSpec == AccessInit /\ [][AccessNext]_accessVars

----------------------------------------------------------------------------
(* A stored set was published, whole and in these words, by the URL it is
   recorded with. *)
SetsWhole ==
    \A k \in Feed : Tip.led[k] # Absent =>
        /\ <<Tip.led[k].url, Tip.led[k].set>> \in everPublished
        /\ Cardinality(Tip.led[k].set) <= MaxEntries

(* What a revert took back does not come back with a pass that was under way
   (nor does any other entry nobody fetched again). *)
NotReestablished == \A k \in Feed : <<k, Tip.led[k]>> \in withdrawn => Tip.led[k] = Absent

(* After a pass that ended well, and until the next commit, every set stored
   is of the URL its source names now, a source nobody declares has none, and
   the data plane serves exactly what is stored. *)
SettledExact ==
    settled /\ pass = NoPass =>
        /\ \A k \in Feed : Tip.led[k] # Absent => Tip.led[k].url = Tip.src[k]
        /\ serving = CompiledSources(Tip)

(* The sets that decide who reaches a host are whole, never one a revert
   withdrew, and follow the configured sources (accesssync.go's strict parse,
   its handling of moved and removed sources, and the ledger's compare and
   swap). *)
SourcesExact == SetsWhole /\ NotReestablished /\ SettledExact
=============================================================================
