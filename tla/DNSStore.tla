------------------------------ MODULE DNSStore ------------------------------
(***************************************************************************)
(* The live DNS view of dnsstore.go: which name a client last resolved to  *)
(* an address.  Only the poller's goroutine changes the map; applyDNS does *)
(* so in several critical sections, between which lookups run and the      *)
(* clock moves: a check for room under the read lock, the selection of     *)
(* victims under the read lock, their deletion under the write lock, and   *)
(* the insertion under the write lock.                                     *)
(*                                                                         *)
(* Events come in any order and repeatedly, as for the identity store.     *)
(* applyDNS returns at once for an event with an empty name or address;    *)
(* the events here have both.  Host names are numbers, in their order.     *)
(* Definitions marked "faulty" are wrong variants of the one that follows. *)
(***************************************************************************)
EXTENDS Integers, FiniteSets, Functions

CONSTANTS
    Keys,          \* dnsKey: pairs of a client and an answered address
    Hosts,         \* host names, as numbers in the order of the strings
    TTLs,          \* record TTLs of the logs
    UnknownTTL,    \* dnsDefaultUnknownTTL, for an event that has no TTL
    MinTTL,        \* dnsMinTTL
    MaxTTL,        \* dnsMaxTTL
    MaxSize,       \* s.maxSize
    Fraction,      \* 16: a selection sheds MaxSize \div Fraction entries
    Absent,        \* no entry in the map, no event being applied
    NoHost,        \* what Lookup returns when it knows no name
    MaxTime,       \* bound: time stamps of events
    MaxClock       \* bound: the clock

Time == 1..MaxTime

ASSUME SizeAssumption ==
    /\ IsFiniteSet(Keys)
    /\ MaxSize \in Nat \ {0} /\ Fraction \in Nat \ {0}

ASSUME TimeAssumption ==
    /\ MaxTime \in Nat /\ MaxClock \in Nat
    /\ MinTTL \in Nat /\ MaxTTL \in Nat /\ MinTTL <= MaxTTL
    /\ UnknownTTL \in Nat /\ TTLs \subseteq Nat

ASSUME HostAssumption == Hosts \subseteq Int /\ NoHost \notin Hosts

VARIABLES
    entries,       \* s.entries
    now,           \* s.now()
    step,          \* where the poller is in applyDNS
    event,         \* the event it applies
    victims,       \* what selectEvictions returned
    cut,           \* the clock selectEvictions read
    greatest       \* greatest[k]: latest time, and greatest name of that
                   \* time, of the events applied since k was last absent

vars == <<entries, now, step, event, victims, cut, greatest>>

Binding == [host : Hosts, time : Time, deadline : Nat]
Event == [key : Keys, host : Hosts, time : Time, deadline : Nat]

ASSUME AbsentAssumption == Absent \notin Binding \cup Event \cup (Time \X Hosts)

Init ==
    /\ entries = [k \in Keys |-> Absent]
    /\ now = 0
    /\ step = "idle" /\ event = Absent /\ victims = {} /\ cut = 0
    /\ greatest = [k \in Keys |-> Absent]

-----------------------------------------------------------------------------
Present == {k \in Keys : entries[k] # Absent}
Expired == {k \in Present : now > entries[k].deadline}
Fresh == Present \ Expired

(* Lookup. *)
Lookup(k) == IF k \in Fresh THEN entries[k].host ELSE NoHost

Clamped(ttl) ==
    IF ttl > MaxTTL THEN MaxTTL ELSE IF ttl < MinTTL THEN MinTTL ELSE ttl

(* The insertion of k needs room first. *)
OneTooMany(k) == k \notin Present /\ Cardinality(Present) > MaxSize  \* faulty
AtCap(k) == k \notin Present /\ Cardinality(Present) >= MaxSize

-----------------------------------------------------------------------------
(* selectEvictions. *)

Shed == IF MaxSize \div Fraction < 1 THEN 1 ELSE MaxSize \div Fraction

(* What the bounded max-heap may hold after the pass over the map, in any  *)
(* order of it: as many of the fresh entries of earliest deadline.         *)
LatestOf(n) ==                                       \* faulty
    {K \in SUBSET Fresh :
        /\ Cardinality(K) = n
        /\ \A k \in K, f \in Fresh \ K :
              entries[k].deadline >= entries[f].deadline}
EarliestOf(n) ==
    {K \in SUBSET Fresh :
        /\ Cardinality(K) = n
        /\ \A k \in K, f \in Fresh \ K :
              entries[k].deadline <= entries[f].deadline}

HeapSize == IF Cardinality(Fresh) < Shed THEN Cardinality(Fresh) ELSE Shed

(* Its array: the latest deadline at the root. *)
IsHeap(a) ==
    \A i \in DOMAIN a : i > 1 => entries[a[i]].deadline <= entries[a[i \div 2]].deadline

(* The victims, with the first entries of the array to make up the number. *)
ChosenWith(a) ==
    Expired \cup {a[i] : i \in {j \in DOMAIN a : j <= Shed - Cardinality(Expired)}}

Selection ==
    {ChosenWith(a) : a \in
        {b \in UNION {Bijection(1..HeapSize, K) : K \in EarliestOf(HeapSize)} : IsHeap(b)}}

-----------------------------------------------------------------------------
(* applyDNS, one critical section after the other. *)

Ingest(k, host, t, ttl) ==
    /\ step = "idle"
    /\ event' = [key |-> k, host |-> host, time |-> t, deadline |-> t + Clamped(ttl)]
    /\ step' = IF AtCap(k) THEN "select" ELSE "put"
    /\ UNCHANGED <<entries, now, victims, cut, greatest>>

Select ==
    /\ step = "select"
    /\ victims' \in Selection
    /\ cut' = now
    /\ step' = IF victims' = {} THEN "put" ELSE "delete"
    /\ UNCHANGED <<entries, now, event, greatest>>

Delete ==
    /\ step = "delete"
    /\ entries' = [k \in Keys |-> IF k \in victims THEN Absent ELSE entries[k]]
    /\ greatest' = [k \in Keys |-> IF k \in victims THEN Absent ELSE greatest[k]]
    /\ victims' = {}
    /\ step' = "put"
    /\ UNCHANGED <<now, event, cut>>

Precedes(p, q) == p[1] < q[1] \/ (p[1] = q[1] /\ p[2] < q[2])

(* A newer event replaces the binding; the name breaks a tie. *)
NotOlder(b, e) == e.time >= b.time                  \* faulty
Replaces(b, e) == e.time > b.time \/ (e.time = b.time /\ e.host > b.host)

Put ==
    /\ step = "put"
    /\ LET k == event.key
           b == [host |-> event.host, time |-> event.time, deadline |-> event.deadline]
       IN /\ entries' = [entries EXCEPT ![k] =
                            IF @ = Absent \/ Replaces(@, event) THEN b ELSE @]
          /\ greatest' = [greatest EXCEPT ![k] =
                             IF @ = Absent \/ Precedes(@, <<event.time, event.host>>)
                             THEN <<event.time, event.host>> ELSE @]
    /\ step' = "idle" /\ event' = Absent
    /\ UNCHANGED <<now, victims, cut>>

(* evictExpired, after the last line of a scan: on the same goroutine.     *)
Anytime == TRUE                                      \* faulty
ScanIsOver == step = "idle"

EvictExpired ==
    /\ ScanIsOver /\ Expired # {}
    /\ entries' = [k \in Keys |-> IF k \in Expired THEN Absent ELSE entries[k]]
    /\ greatest' = [k \in Keys |-> IF k \in Expired THEN Absent ELSE greatest[k]]
    /\ UNCHANGED <<now, step, event, victims, cut>>

Tick ==
    /\ now < MaxClock
    /\ now' = now + 1
    /\ UNCHANGED <<entries, step, event, victims, cut, greatest>>

(* A new process starts with an empty map. *)
Restart ==
    /\ entries' = [k \in Keys |-> Absent]
    /\ step' = "idle" /\ event' = Absent /\ victims' = {} /\ cut' = 0
    /\ greatest' = [k \in Keys |-> Absent]
    /\ UNCHANGED now

Next ==
    \/ \E k \in Keys, host \in Hosts, t \in Time, ttl \in TTLs \cup {UnknownTTL} :
          Ingest(k, host, t, ttl)
    \/ Select \/ Delete \/ Put
    \/ EvictExpired \/ Tick \/ Restart

Spec == Init /\ [][Next]_vars

-----------------------------------------------------------------------------
(* A binding is trusted for a time within the floor and the cap. *)
Trusted(b) == b.deadline - b.time \in MinTTL..MaxTTL

TypeOK ==
    /\ entries \in [Keys -> Binding \cup {Absent}]
    /\ \A k \in Present : Trusted(entries[k])
    /\ now \in 0..MaxClock
    /\ step \in {"idle", "select", "delete", "put"}
    /\ event \in Event \cup {Absent}
    /\ event = Absent <=> step = "idle"
    /\ event # Absent => Trusted(event)
    /\ victims \subseteq Keys
    /\ cut \in 0..MaxClock
    /\ greatest \in [Keys -> (Time \X Hosts) \cup {Absent}]

-----------------------------------------------------------------------------
(* Correctness. *)

(* maxSize is a hard cap, the backstop against running out of memory       *)
(* (dnsstore.go:85-87): between the check for room and the insertion the   *)
(* selection always frees a slot, and nothing takes it.                    *)
CapHolds == Cardinality(Present) <= MaxSize

(* The name Lookup reports is the newest applied to the key, and of those  *)
(* of one second the greatest, in whatever order they came                 *)
(* (dnsstore.go:171-174).                                                  *)
LookupIsGreatest ==
    \A k \in Keys : Lookup(k) # NoHost =>
        greatest[k] = <<entries[k].time, Lookup(k)>>

(* The victims are still in the map when they are deleted, so the count of *)
(* evictions is right without a second look (dnsstore.go:207-210).         *)
VictimsStay == victims \subseteq Present

(* A live entry is shed only if fewer than Shed live ones are older, and   *)
(* no more than Shed of them at once: the write lock is held for a bounded *)
(* deletion (dnsstore.go:167-169).                                         *)
ShedsAmongOldest ==
    step = "delete" =>
        LET live == {k \in Present : entries[k].deadline >= cut}
        IN /\ Cardinality(live \cap victims) <= Shed
           /\ \A v \in live \cap victims :
                 Cardinality({k \in live : entries[k].deadline < entries[v].deadline}) < Shed

-----------------------------------------------------------------------------
(* A statement of the code's comments that the code does not keep.         *)

(* "then, if that frees fewer than shed slots, the oldest                  *)
(* (earliest-deadline) non-expired entries to make up the difference"      *)
(* (dnsstore.go:233-236).                                                  *)
OldestGoFirst ==
    step = "delete" =>
        LET live == {k \in Present : entries[k].deadline >= cut}
        IN \A v \in live \cap victims, k \in live \ victims :
              entries[v].deadline <= entries[k].deadline
=============================================================================
