----------------------------- MODULE Enrichment -----------------------------
(***************************************************************************)
(* The reference data of geoip.go, tenant.go and threat.go: workers look   *)
(* flows up (enrich of main.go) while a goroutine per store loads it again *)
(* at each tick of its ticker.                                             *)
(*                                                                         *)
(* What can be looked up is a file or feed: its content is a release, or   *)
(* Broken (missing, unreachable, cut short: loading it fails), or Odd (it  *)
(* loads without an error and is no release: an error page in place of the *)
(* feed, a tenant file caught half-written).                               *)
(*                                                                         *)
(* The tenant and threat tables are values in memory.  A geo database is a *)
(* mapped file that must be closed, so its two critical sections are       *)
(* modelled with the RWMutex they hold: a writer waits for the readers,    *)
(* and keeps later ones out.  A reader object that nothing refers to any   *)
(* more is as good as a new one: slots number the pairs in use.            *)
(* Definitions marked "faulty" are wrong variants of the one that follows. *)
(***************************************************************************)
EXTENDS Integers, FiniteSets

CONSTANTS
    Workers,
    Releases, Broken, Odd,    \* what a source may hold
    First,                    \* First: the release at the start
    NoSlot, NoTable,
    MaxChanges                \* bound: changes of the sources

Tables == {"tenant", "threat"}
Stores == Tables \cup {"geo"}
Parts == {"city", "asn"}
Sources == Parts \cup Tables
Slots == 0..Cardinality(Workers) + 1

ASSUME ReleaseAssumption ==
    /\ First \in Releases
    /\ {Broken, Odd, NoTable} \cap Releases = {}
    /\ Broken \notin {Odd, NoTable} /\ Odd # NoTable
    /\ IsFiniteSet(Workers) /\ NoSlot \notin Slots /\ MaxChanges \in Nat

VARIABLES
    content, changes,   \* what each source holds; how often one has changed
    present,            \* the stores that are not nil
    cancelled,          \* the context
    table,              \* table[s]: s.ranger, s.ips
    installed,          \* g.cityDB and g.asnDB: the slot of the pair
    release,            \* release[p][n]: what the database of slot n was read from
    open,               \* the databases that are open, <<part, slot>>
    mine,               \* the slot Refresh has opened, then the one it closes
    pc,                 \* pc[s]: where the goroutine of StartRefresh is
    readers,            \* the workers that hold g.mu.RLock
    at, using           \* at[w], using[w]: where w is in Lookup, and the
                        \* database it is reading
vars == <<content, changes, present, cancelled, table, installed, release, open,
          mine, pc, readers, at, using>>

geoVars == <<installed, release, open, mine>>
workerVars == <<readers, at, using>>
worldVars == <<content, changes, present, cancelled>>

StoreOf(s) == IF s \in Parts THEN "geo" ELSE s
Loads(s) == content[s] # Broken

(* A store whose configuration is not set, or whose first load fails, stays *)
(* nil, and no goroutine reloads it.                                        *)
Init ==
    /\ present \in SUBSET Stores
    /\ content = [s \in Sources |-> IF StoreOf(s) \in present THEN First ELSE Broken]
    /\ changes = 0 /\ cancelled = FALSE
    /\ table = [s \in Tables |-> IF s \in present THEN content[s] ELSE NoTable]
    /\ installed = IF "geo" \in present THEN 0 ELSE NoSlot
    /\ release = [p \in Parts |-> [n \in Slots |->
          IF "geo" \in present /\ n = 0 THEN content[p] ELSE NoTable]]
    /\ open = IF "geo" \in present THEN Parts \X {0} ELSE {}
    /\ mine = NoSlot
    /\ pc = [s \in Stores |-> "idle"]
    /\ readers = {}
    /\ at = [w \in Workers |-> "idle"]
    /\ using = [w \in Workers |-> NoSlot]

-----------------------------------------------------------------------------
(* Somebody replaces a file, or the feed changes. *)
Change(s) ==
    /\ StoreOf(s) \in present /\ changes < MaxChanges
    /\ changes' = changes + 1
    /\ \E c \in Releases \cup {Broken} \cup (IF s \in Tables THEN {Odd} ELSE {}) :
          c # content[s] /\ content' = [content EXCEPT ![s] = c]
    /\ UNCHANGED <<present, cancelled, table, geoVars, pc, workerVars>>

-----------------------------------------------------------------------------
(* StartRefresh: the select between the ticker and ctx.Done().  With both  *)
(* ready it takes either; a tick taken after the signal counts as one that *)
(* came before it, as nothing else tells the two apart.  A tick starts with *)
(* the first read or open.                                                 *)

Goto(s, l) == pc' = [pc EXCEPT ![s] = l]
Ticks(s) == s \in present /\ pc[s] = "idle" /\ ~cancelled

Cancel ==
    /\ ~cancelled
    /\ cancelled' = TRUE
    /\ UNCHANGED <<content, changes, present, table, geoVars, pc, workerVars>>

(* A failed load is logged, and the loop goes on. *)
GivesUp == "gone"                                         \* faulty
AfterFailure == "idle"

(* load and refresh of a store in memory.  The new table is built aside,   *)
(* and only this goroutine installs one, so that the load and the swap are *)
(* one step.                                                               *)
LoadTable(s) ==
    /\ Ticks(s)
    /\ IF Loads(s)
       THEN table' = [table EXCEPT ![s] = content[s]] /\ pc' = pc
       ELSE table' = table /\ Goto(s, AfterFailure)
    /\ UNCHANGED <<worldVars, geoVars, workerVars>>

(* A tenant file that cannot be read or parsed is an error. *)
LoadTenants == LoadTable("tenant")

(* So is a feed that does not answer or breaks off; the status of the      *)
(* answer is not looked at.                                                *)
RefreshThreats == LoadTable("threat")

-----------------------------------------------------------------------------
(* GeoStore.Refresh. *)

(* A slot no database is open in, and none is referred to. *)
FreeSlot ==
    CHOOSE n \in Slots :
        /\ n \notin {installed, mine} \cup {using[w][2] : w \in
                        {w \in Workers : using[w] # NoSlot}}
        /\ \A p \in Parts : <<p, n>> \notin open

OpenDB(p, n) ==
    /\ open' = open \cup {<<p, n>>}
    /\ release' = [release EXCEPT ![p][n] = content[p]]

OpenCity ==
    /\ Ticks("geo")
    /\ IF Loads("city")
       THEN mine' = FreeSlot /\ OpenDB("city", FreeSlot) /\ Goto("geo", "asn")
       ELSE Goto("geo", AfterFailure) /\ UNCHANGED <<mine, open, release>>
    /\ UNCHANGED <<worldVars, table, installed, workerVars>>

(* The databases that stay open when the second of the two does not open.  *)
AllStay == open                                           \* faulty
WithoutMine == open \ {<<"city", mine>>}

OpenASN ==
    /\ pc["geo"] = "asn"
    /\ IF Loads("asn")
       THEN OpenDB("asn", mine) /\ Goto("geo", "lock") /\ mine' = mine
       ELSE /\ open' = WithoutMine
            /\ mine' = NoSlot /\ release' = release
            /\ Goto("geo", AfterFailure)
    /\ UNCHANGED <<worldVars, table, installed, workerVars>>

(* g.mu.Lock() returns; the swap; g.mu.Unlock(). *)
AnyTime == TRUE                                           \* faulty
NoReaders == readers = {}

Swap ==
    /\ pc["geo"] = "lock" /\ NoReaders
    /\ installed' = mine /\ mine' = installed
    /\ Goto("geo", "close")
    /\ UNCHANGED <<worldVars, table, release, open, workerVars>>

CloseOld ==
    /\ pc["geo"] = "close"
    /\ open' = open \ (Parts \X {mine})
    /\ release' = [p \in Parts |-> [release[p] EXCEPT ![mine] = NoTable]]
    /\ mine' = NoSlot
    /\ Goto("geo", "idle")
    /\ UNCHANGED <<worldVars, table, installed, workerVars>>

-----------------------------------------------------------------------------
(* enrich calls GeoStore.Lookup for the source, then for the destination,  *)
(* unless the store is nil; a private address takes no lock.  The look-ups *)
(* in memory that follow read one value each and change nothing.           *)
StartLookup(w) ==
    /\ at[w] = "idle"
    /\ at' = [at EXCEPT ![w] = IF "geo" \in present THEN "rlock" ELSE "idle"]
    /\ UNCHANGED <<worldVars, table, geoVars, pc, readers, using>>

(* g.mu.RLock() lets nobody in while a writer waits. *)
RLock(w) ==
    /\ at[w] = "rlock" /\ pc["geo"] # "lock"
    /\ readers' = readers \cup {w}
    /\ using' = [using EXCEPT ![w] = <<"city", installed>>]
    /\ at' = [at EXCEPT ![w] = "city"]
    /\ UNCHANGED <<worldVars, table, geoVars, pc>>

ReadASN(w) ==
    /\ at[w] = "city"
    /\ using' = [using EXCEPT ![w] = <<"asn", installed>>]
    /\ at' = [at EXCEPT ![w] = "asn"]
    /\ UNCHANGED <<worldVars, table, geoVars, pc, readers>>

(* The deferred g.mu.RUnlock(). *)
StillHeld(w) == readers                                   \* faulty
Released(w) == readers \ {w}

RUnlock(w) ==
    /\ at[w] = "asn"
    /\ readers' = Released(w)
    /\ using' = [using EXCEPT ![w] = NoSlot]
    /\ at' = [at EXCEPT ![w] = "idle"]
    /\ UNCHANGED <<worldVars, table, geoVars, pc>>

-----------------------------------------------------------------------------
(* After the signal the process ends, with nobody waiting for a refresher. *)
Stopped == cancelled /\ UNCHANGED vars

Refresh == OpenCity \/ OpenASN \/ Swap \/ CloseOld
Work(w) == ReadASN(w) \/ RUnlock(w)

Next ==
    \/ \E s \in Sources : Change(s)
    \/ Cancel
    \/ Refresh \/ LoadTenants \/ RefreshThreats
    \/ \E w \in Workers : StartLookup(w) \/ RLock(w) \/ Work(w)
    \/ Stopped

(* Tickers tick and goroutines run.  A reader that waits is let in by the  *)
(* unlock of the writer it waits for, ahead of the next one.               *)
Fairness ==
    /\ WF_vars(Refresh) /\ WF_vars(LoadTenants) /\ WF_vars(RefreshThreats)
    /\ \A w \in Workers : SF_vars(RLock(w)) /\ WF_vars(Work(w))

Spec == Init /\ [][Next]_vars /\ Fairness

-----------------------------------------------------------------------------
Content == Releases \cup {Broken, Odd}

TypeOK ==
    /\ content \in [Sources -> Content] /\ changes \in 0..MaxChanges
    /\ present \subseteq Stores /\ cancelled \in BOOLEAN
    /\ table \in [Tables -> Content \cup {NoTable}]
    /\ installed \in Slots \cup {NoSlot} /\ mine \in Slots \cup {NoSlot}
    /\ release \in [Parts -> [Slots -> Content \cup {NoTable}]]
    /\ open \subseteq Parts \X Slots
    /\ pc \in [Stores -> {"idle", "asn", "lock", "close"}]
    /\ readers \subseteq Workers
    /\ at \in [Workers -> {"idle", "rlock", "city", "asn"}]
    /\ using \in [Workers -> (Parts \X Slots) \cup {NoSlot}]

-----------------------------------------------------------------------------
(* Correctness. *)

(* No worker reads a database that has been closed (geoip.go:113-120).     *)
NoUseAfterClose == \A w \in Workers : using[w] # NoSlot => using[w] \in open

(* Whatever fails and however often it is repeated, the only databases open *)
(* are the pair installed and those Refresh has in its hands, and the pair  *)
(* is open for good (geoip.go:101-121).                                     *)
InHand ==
    {d \in Parts \X {mine} :
        \/ pc["geo"] \in {"lock", "close"}
        \/ pc["geo"] = "asn" /\ d[1] = "city"}

NothingLeaks ==
    /\ open = InHand \cup
          (IF "geo" \in present THEN Parts \X {installed} ELSE {})
    /\ installed # NoSlot => installed # mine

(* Every look-up returns, and with it every flow gets through, however the *)
(* reloads fall and fail.                                                  *)
LookupsReturn == \A w \in Workers : at[w] # "idle" ~> at[w] = "idle"

(* Once what a store reads holds releases for good, the store comes to     *)
(* hold those and keeps them: a failed load is tried again, and an error   *)
(* page taken for a feed lasts until the next load (geoip.go:124-142,      *)
(* tenant.go:99-117, threat.go:75-91).                                     *)
SourcesOf(s) == IF s = "geo" THEN Parts ELSE {s}

UpToDate(s) ==
    IF s = "geo" THEN \A p \in Parts : release[p][installed] = content[p]
    ELSE table[s] = content[s]

TablesCatchUp ==
    \A s \in Stores :
        <>[](/\ s \in present /\ ~cancelled
             /\ \A p \in SourcesOf(s) : content[p] \in Releases)
          => <>[](s \in present => UpToDate(s))
=============================================================================
