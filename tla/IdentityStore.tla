--------------------------- MODULE IdentityStore ---------------------------
(***************************************************************************)
(* The live identity view of identity.go: which device holds an IP, which  *)
(* user is authenticated on a device.  ipState and macState obey the same  *)
(* rules (applyDHCP and applyRADIUS differ in names only: a lease of an IP *)
(* belongs to a MAC, a session of a MAC to a session ID), so they are one  *)
(* function here, from IPs and MACs to bindings.                           *)
(*                                                                         *)
(* The poller folds log events in the order the files happen to be read,   *)
(* repeats them after a truncation, and starts from nothing after a        *)
(* restart: any event of the logs may be applied at any time, any number   *)
(* of times.  A scan may end, and evictExpired run, after any of them.     *)
(*                                                                         *)
(* Lookup reads the clock before it takes the lock; a sweep between the    *)
(* two removes expired bindings only, so it is an operator on the state.   *)
(* Definitions marked "faulty" are wrong variants of the one that follows. *)
(***************************************************************************)
EXTENDS Integers, FiniteSets

CONSTANTS
    IPs, Macs, Sessions, Users,
    Leases,        \* Leases: the <<ip, mac>> the DHCP logs speak of
    Logins,        \* Logins: the <<mac, session, user>> of the NPS logs
    NoUser,        \* the user token of a lease, and of "no session"
    NoMac,         \* the MAC token of "no lease"
    Absent,        \* no entry in the map
    MaxLease,      \* maxLease
    MaxSession,    \* maxSession
    MaxTime,       \* bound: time stamps of events
    MaxClock       \* bound: the clock

Key == IPs \cup Macs
Time == 1..MaxTime

ASSUME DataAssumption ==
    /\ IPs \cap Macs = {}
    /\ Leases \subseteq IPs \X Macs
    /\ Logins \subseteq Macs \X Sessions \X Users
    /\ NoUser \notin Users /\ NoMac \notin Macs

ASSUME HorizonAssumption ==
    /\ MaxLease \in Nat /\ MaxSession \in Nat
    /\ MaxTime \in Nat /\ MaxClock \in Nat

VARIABLES
    state,         \* ipState and macState
    now,           \* s.now()
    newest,        \* newest[k]: latest opening event seen for k, or closing
                   \* event that took effect, since the process started
    shut           \* shut[k]: <<entity, time>> of the closings in effect

vars == <<state, now, newest, shut>>

Entity == Macs \cup Sessions
Owner(k) == IF k \in IPs THEN Macs ELSE Sessions
Horizon(k) == IF k \in IPs THEN MaxLease ELSE MaxSession

Binding ==
    [entity : Entity, user : Users \cup {NoUser}, time : Time, closed : BOOLEAN]

ASSUME AbsentAssumption == Absent \notin Binding

Init ==
    /\ state = [k \in Key |-> Absent]
    /\ now = 0
    /\ newest = [k \in Key |-> 0]
    /\ shut = [k \in Key |-> {}]

-----------------------------------------------------------------------------
(* The rules. *)

(* now.After(b.deadline): a deadline is always event time plus horizon. *)
Expired(k, b) == now > b.time + Horizon(k)

IsLive(k) == state[k] # Absent /\ ~state[k].closed /\ ~Expired(k, state[k])

(* Lookup. *)
Lookup(ip) ==
    IF ~IsLive(ip) THEN <<NoMac, NoUser>>
    ELSE LET mac == state[ip].entity
         IN <<mac, IF IsLive(mac) THEN state[mac].user ELSE NoUser>>

(* An opening event of entity e at time t comes too late for binding b.    *)
NeverLate(b, e, t) == FALSE                          \* faulty
LateIfOlder(b, e, t) == t < b.time                   \* faulty
LateUnlessNewer(b, e, t) == t <= b.time              \* faulty
TooLate(b, e, t) ==
    IF b.closed /\ b.entity = e THEN t <= b.time ELSE t < b.time

(* A closing event of entity e at time t ends binding b. *)
Ends(b, e, t) == b # Absent /\ b.entity = e /\ t >= b.time

Bound(e, u, t, c) == [entity |-> e, user |-> u, time |-> t, closed |-> c]

Opened(b, e, u, t) ==
    IF b # Absent /\ TooLate(b, e, t) THEN b ELSE Bound(e, u, t, FALSE)

Ended(b, e, u, t) == IF Ends(b, e, t) THEN Bound(e, u, t, TRUE) ELSE b

(* Whether a sweep removes the binding of k. *)
Swept(k) == state[k] # Absent /\ Expired(k, state[k])

-----------------------------------------------------------------------------
(* An opening event for key k is applied.  One of another entity in the    *)
(* same second erases the single tombstone (the known gap F1 of            *)
(* REVIEW.md), so closings of that second are no longer in effect.         *)
Open(k, e, u, t) ==
    /\ state' = [state EXCEPT ![k] = Opened(@, e, u, t)]
    /\ newest' = [newest EXCEPT ![k] = IF t > @ THEN t ELSE @]
    /\ shut' = [shut EXCEPT ![k] = {c \in @ : c[1] = e \/ c[2] # t}]
    /\ UNCHANGED now

Close(k, e, u, t) ==
    /\ state' = [state EXCEPT ![k] = Ended(@, e, u, t)]
    /\ IF Ends(state[k], e, t)
       THEN /\ newest' = [newest EXCEPT ![k] = IF t > @ THEN t ELSE @]
            /\ shut' = [shut EXCEPT ![k] = @ \cup {<<e, t>>}]
       ELSE UNCHANGED <<newest, shut>>
    /\ UNCHANGED now

(* applyDHCP: 10 assign, 11 renew; 12 release. *)
AssignOrRenew(ip, mac, t) == Open(ip, mac, NoUser, t)
Release(ip, mac, t) == Close(ip, mac, NoUser, t)

(* applyRADIUS: Start, Interim-Update; Stop. *)
StartOrInterim(mac, session, user, t) == Open(mac, session, user, t)
Stop(mac, session, user, t) == Close(mac, session, user, t)

(* evictExpired sweeps both maps. *)
EvictExpired ==
    /\ \E k \in Key : Swept(k)
    /\ state' = [k \in Key |-> IF Swept(k) THEN Absent ELSE state[k]]
    /\ UNCHANGED <<now, newest, shut>>

Tick ==
    /\ now < MaxClock
    /\ now' = now + 1
    /\ UNCHANGED <<state, newest, shut>>

(* A new process starts from empty maps and reads the logs again. *)
Restart ==
    /\ state' = [k \in Key |-> Absent]
    /\ newest' = [k \in Key |-> 0]
    /\ shut' = [k \in Key |-> {}]
    /\ UNCHANGED now

Next ==
    \/ \E lease \in Leases, t \in Time :
          AssignOrRenew(lease[1], lease[2], t) \/ Release(lease[1], lease[2], t)
    \/ \E login \in Logins, t \in Time :
          \/ StartOrInterim(login[1], login[2], login[3], t)
          \/ Stop(login[1], login[2], login[3], t)
    \/ EvictExpired \/ Tick \/ Restart

Spec == Init /\ [][Next]_vars

-----------------------------------------------------------------------------
TypeOK ==
    /\ state \in [Key -> Binding \cup {Absent}]
    /\ \A k \in Key : state[k] # Absent => state[k].entity \in Owner(k)
    /\ now \in 0..MaxClock
    /\ newest \in [Key -> 0..MaxTime]
    /\ shut \in [Key -> SUBSET (Entity \X Time)]

-----------------------------------------------------------------------------
(* Correctness. *)

(* Newest-event-wins: what Lookup trusts is never older than an opening    *)
(* already seen or a closing already obeyed, also when the binding that    *)
(* event made has been evicted since (the comments at identity.go:133-136  *)
(* and 167-173).                                                           *)
NewestWins ==
    \A k \in Key : IsLive(k) => state[k].time >= newest[k]

(* A lease or session once closed is not reported again: Lookup names the  *)
(* same entity only by a strictly newer event (identity.go:138-140, and    *)
(* 192-194), except in the gap F1.                                         *)
OpenedSince(k) ==
    \A c \in shut[k] : c[1] = state[k].entity => state[k].time > c[2]

ClosedStaysClosed ==
    \A ip \in IPs :
        LET mac == Lookup(ip)[1]
            user == Lookup(ip)[2]
        IN /\ mac # NoMac => OpenedSince(ip)
           /\ user # NoUser => OpenedSince(mac)

(* A handover of k within one second, e1 closed and e2 opened at t, ends   *)
(* with e2 in either order of arrival (identity.go:140-143, 194-198).      *)
HandoverConverges ==
    \A k \in Key : IsLive(k) =>
        \A e \in Owner(k) \ {state[k].entity}, t \in Time :
            state[k].time <= t =>
                LET b == state[k]
                    u == b.user
                    new == Bound(e, u, t, FALSE)
                IN /\ Opened(Ended(b, b.entity, u, t), e, u, t) = new
                   /\ Ended(Opened(b, e, u, t), b.entity, u, t) = new
=============================================================================
