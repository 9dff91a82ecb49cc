--------------------------- MODULE IdentityProofs ---------------------------
(***************************************************************************)
(* Theorems about identity.go: the live view (IdentityStore), for any      *)
(* addresses, devices and sessions, any horizons, and any order and        *)
(* repetition of the events; and the log files that feed it (FilePoller,   *)
(* LogFeed), for any number of files, any lines, pieces and rotations, any *)
(* sizes of the reads and the buffers, and any outages and failures.       *)
(***************************************************************************)
EXTENDS IdentityStore, LogFeed, SequenceTheorems, WellFoundedInduction, TLAPS


-----------------------------------------------------------------------------
(* Types. *)

LEMMA HorizonType == \A k : Horizon(k) \in Nat
BY HorizonAssumption DEF Horizon

LEMMA TimeType == Time \subseteq Nat \ {0}
BY HorizonAssumption DEF Time

LEMMA ClosingType ==
    ASSUME TypeOK, NEW k \in Key
    PROVE  \A c \in shut[k] : c[2] \in Nat
<1>1. shut[k] \subseteq Entity \X Time
  BY DEF TypeOK
<1>2. \A c \in Entity \X Time : c[2] \in Nat
  BY TimeType
<1> QED  BY <1>1, <1>2

LEMMA BindingType ==
    ASSUME TypeOK, NEW k \in Key
    PROVE  /\ newest[k] \in Nat /\ now \in Nat
           /\ state[k] # Absent => /\ state[k].time \in Nat
                                  /\ state[k].closed \in BOOLEAN
<1>1. state[k] # Absent => state[k] \in Binding
  BY DEF TypeOK
<1>2. state[k] # Absent => state[k].time \in Time /\ state[k].closed \in BOOLEAN
  BY <1>1 DEF Binding
<1>3. /\ newest[k] \in 0..MaxTime /\ now \in 0..MaxClock
  BY DEF TypeOK
<1>4. newest[k] \in Nat /\ now \in Nat
  BY <1>3
<1>5. state[k] # Absent => state[k].time \in Nat
  BY <1>2, TimeType
<1> QED  BY <1>2, <1>4, <1>5

LEMMA BoundType ==
    ASSUME NEW e \in Entity, NEW u \in Users \cup {NoUser}, NEW t \in Time
    PROVE  LET open == Bound(e, u, t, FALSE)
               tomb == Bound(e, u, t, TRUE)
           IN /\ open \in Binding /\ open # Absent
              /\ open.entity = e /\ open.time = t /\ ~open.closed
              /\ tomb \in Binding /\ tomb # Absent
              /\ tomb.entity = e /\ tomb.time = t /\ tomb.closed
<1>1. Bound(e, u, t, FALSE) \in Binding /\ Bound(e, u, t, TRUE) \in Binding
  BY DEF Bound, Binding
<1> QED  BY <1>1, AbsentAssumption DEF Bound

(* Whatever the rules make of a binding is a binding of the same key. *)
LEMMA RulesType ==
    ASSUME NEW k \in Key, NEW b \in Binding \cup {Absent},
           b # Absent => b.entity \in Owner(k),
           NEW e \in Owner(k), NEW u \in Users \cup {NoUser}, NEW t \in Time
    PROVE  /\ Opened(b, e, u, t) \in Binding \cup {Absent}
           /\ Opened(b, e, u, t) # Absent =>
                 Opened(b, e, u, t).entity \in Owner(k)
           /\ Ended(b, e, u, t) \in Binding \cup {Absent}
           /\ Ended(b, e, u, t) # Absent =>
                 Ended(b, e, u, t).entity \in Owner(k)
<1>1. e \in Entity
  BY DEF Owner, Entity
<1> QED  BY ZenonT(30), <1>1, BoundType DEF Opened, Ended

(* An event of the logs is one of a key and an owner of that key. *)
LEMMA EventTypes ==
    /\ \A lease \in Leases : /\ lease[1] \in Key /\ lease[1] \in IPs
                             /\ lease[2] \in Owner(lease[1])
    /\ \A login \in Logins : /\ login[1] \in Key
                             /\ login[2] \in Owner(login[1])
                             /\ login[3] \in Users
BY DataAssumption DEF Key, Owner

(* Every step but eviction, the clock and a restart is one event applied.  *)
LEMMA NextCases ==
    ASSUME Next
    PROVE  \/ \E k \in Key : \E e \in Owner(k), u \in Users \cup {NoUser}, t \in Time :
                 Open(k, e, u, t) \/ Close(k, e, u, t)
           \/ EvictExpired
           \/ Tick
           \/ Restart
<1>1. CASE \E lease \in Leases, t \in Time :
              AssignOrRenew(lease[1], lease[2], t) \/ Release(lease[1], lease[2], t)
  BY <1>1, EventTypes DEF AssignOrRenew, Release
<1>2. CASE \E login \in Logins, t \in Time :
              \/ StartOrInterim(login[1], login[2], login[3], t)
              \/ Stop(login[1], login[2], login[3], t)
  BY <1>2, EventTypes DEF StartOrInterim, Stop
<1> QED  BY <1>1, <1>2 DEF Next

LEMMA InitType == Init => TypeOK
BY HorizonAssumption, AbsentAssumption DEF Init, TypeOK

LEMMA NextType == TypeOK /\ [Next]_vars => TypeOK'
<1> SUFFICES ASSUME TypeOK, [Next]_vars  PROVE TypeOK'
  OBVIOUS
<1> USE DEF TypeOK
<1>1. ASSUME NEW k \in Key, NEW e \in Owner(k), NEW u \in Users \cup {NoUser},
             NEW t \in Time, Open(k, e, u, t)
      PROVE  TypeOK'
  <2>1. state' = [state EXCEPT ![k] = Opened(state[k], e, u, t)]
    BY <1>1 DEF Open
  <2>2. state[k] \in Binding \cup {Absent} /\ (state[k] # Absent => state[k].entity \in Owner(k))
    OBVIOUS
  <2>3. /\ state' \in [Key -> Binding \cup {Absent}]
        /\ \A i \in Key : state'[i] # Absent => state'[i].entity \in Owner(i)
    BY <2>1, <2>2, RulesType
  <2>4. newest' \in [Key -> 0..MaxTime]
    BY <1>1, HorizonAssumption DEF Open, Time
  <2>5. shut' \in [Key -> SUBSET (Entity \X Time)]
    BY <1>1 DEF Open
  <2> QED  BY <1>1, <2>3, <2>4, <2>5 DEF Open
<1>2. ASSUME NEW k \in Key, NEW e \in Owner(k), NEW u \in Users \cup {NoUser},
             NEW t \in Time, Close(k, e, u, t)
      PROVE  TypeOK'
  <2>1. state' = [state EXCEPT ![k] = Ended(state[k], e, u, t)]
    BY <1>2 DEF Close
  <2>2. state[k] \in Binding \cup {Absent} /\ (state[k] # Absent => state[k].entity \in Owner(k))
    OBVIOUS
  <2>3. /\ state' \in [Key -> Binding \cup {Absent}]
        /\ \A i \in Key : state'[i] # Absent => state'[i].entity \in Owner(i)
    BY <2>1, <2>2, RulesType
  <2>4. newest' \in [Key -> 0..MaxTime]
    BY <1>2, HorizonAssumption DEF Close, Time
  <2>5. <<e, t>> \in Entity \X Time
    BY DEF Owner, Entity
  <2>6. shut' \in [Key -> SUBSET (Entity \X Time)]
    BY <1>2, <2>5 DEF Close
  <2> QED  BY <1>2, <2>3, <2>4, <2>6 DEF Close
<1>3. CASE EvictExpired
  BY <1>3 DEF EvictExpired
<1>4. CASE Tick
  BY <1>4, HorizonAssumption DEF Tick
<1>5. CASE Restart
  BY <1>5, HorizonAssumption DEF Restart
<1>6. CASE UNCHANGED vars
  BY <1>6 DEF vars
<1> QED  BY <1>1, <1>2, <1>3, <1>4, <1>5, <1>6, NextCases

(* Type correctness of the store: a lease binds a device, a session a      *)
(* session ID, whatever the order of the events (applyDHCP, applyRADIUS).  *)
THEOREM TypeCorrect == Spec => []TypeOK
<1> QED  BY InitType, NextType, PTL DEF Spec

-----------------------------------------------------------------------------
(* What makes the single binding of a key a sufficient guard.              *)

(* The deadline of an event of time t has passed. *)
Past(k, t) == now > t + Horizon(k)

(* The binding is no older than anything obeyed, or all of that has passed *)
(* its deadline: this is why a swept tombstone is not missed.              *)
Backed(k) ==
    \/ newest[k] = 0
    \/ state[k] # Absent /\ state[k].time >= newest[k]
    \/ Past(k, newest[k])

(* A closing in effect at the very time of the binding is that binding's. *)
TombstoneKept(k) ==
    \A c \in shut[k] :
        /\ c[2] <= newest[k]
        /\ state[k] # Absent /\ state[k].time = c[2] =>
              \/ Past(k, state[k].time)
              \/ state[k].entity = c[1] /\ state[k].closed

Guarded == TypeOK /\ \A k \in Key : Backed(k) /\ TombstoneKept(k)

LEMMA InitGuarded == Init => Guarded
BY InitType DEF Init, Guarded, Backed, TombstoneKept

(* One opening event, on the key it is for. *)
LEMMA OpenKeepsGuard ==
    ASSUME Guarded, TypeOK', NEW k \in Key, NEW e \in Owner(k),
           NEW u \in Users \cup {NoUser}, NEW t \in Time, Open(k, e, u, t)
    PROVE  Backed(k)' /\ TombstoneKept(k)'
<1>1. /\ state'[k] = Opened(state[k], e, u, t)
      /\ newest'[k] = IF t > newest[k] THEN t ELSE newest[k]
      /\ shut'[k] = {c \in shut[k] : c[1] = e \/ c[2] # t}
      /\ now' = now
  BY DEF Guarded, TypeOK, Open
<1>2. /\ t \in Nat /\ t > 0 /\ newest[k] \in Nat /\ now \in Nat
      /\ Horizon(k) \in Nat
  BY TimeType, HorizonType, BindingType DEF Guarded
<1>3. state[k] # Absent => /\ state[k].time \in Nat
                           /\ state[k].closed \in BOOLEAN
  BY BindingType DEF Guarded
<1>4. \A c \in shut[k] : c[2] \in Nat
  BY ClosingType DEF Guarded
<1>5. Backed(k) /\ TombstoneKept(k)
  BY DEF Guarded
<1>6. CASE state[k] # Absent /\ TooLate(state[k], e, t)
  <2>1. state'[k] = state[k]
    BY <1>1, <1>6 DEF Opened
  <2>2. t <= state[k].time
    BY <1>2, <1>3, <1>6 DEF TooLate
  <2> QED  BY <1>1, <1>2, <1>3, <1>4, <1>5, <1>6, <2>1, <2>2 DEF Backed, TombstoneKept, Past
<1>7. CASE state[k] = Absent \/ ~TooLate(state[k], e, t)
  <2>1. /\ state'[k] # Absent /\ state'[k].time = t /\ state'[k].entity = e
    <3> DEFINE b == Bound(e, u, t, FALSE)
    <3>1. state'[k] = b
      BY <1>1, <1>7 DEF Opened
    <3>2. e \in Entity
      BY DEF Owner, Entity
    <3>3. b # Absent /\ b.time = t /\ b.entity = e
      BY <3>2, BoundType
    <3> QED  BY <3>1, <3>3
  <2>2. state[k] # Absent => state[k].time <= t
    BY <1>2, <1>3, <1>7 DEF TooLate
  <2>3. Backed(k)'
    BY <1>1, <1>2, <1>3, <1>5, <2>1, <2>2 DEF Backed, Past
  <2>4. ASSUME NEW c \in shut'[k], c[2] = t
        PROVE  Past(k, t)
    <3>1. c \in shut[k] /\ c[1] = e /\ c[2] <= newest[k]
      BY <1>1, <1>5, <2>4 DEF TombstoneKept
    <3>2. CASE Past(k, newest[k])
      BY <1>2, <2>4, <3>1, <3>2 DEF Past
    <3>3. CASE state[k] # Absent /\ state[k].time >= newest[k]
      <4>1. state[k].time = t
        BY <1>2, <1>3, <2>2, <2>4, <3>1, <3>3
      <4>2. ~(state[k].entity = e /\ state[k].closed)
        BY <1>7, <3>3, <4>1, <1>2 DEF TooLate
      <4> QED  BY <1>5, <2>4, <3>1, <3>3, <4>1, <4>2 DEF TombstoneKept
    <3> QED  BY <1>2, <1>5, <2>4, <3>1, <3>2, <3>3 DEF Backed
  <2>5. \A c \in shut'[k] : c[2] <= newest'[k]
    BY <1>1, <1>2, <1>4, <1>5 DEF TombstoneKept
  <2> QED  BY <1>1, <2>1, <2>3, <2>4, <2>5 DEF TombstoneKept, Past
<1> QED  BY <1>6, <1>7

(* One closing event, on the key it is for. *)
LEMMA CloseKeepsGuard ==
    ASSUME Guarded, NEW k \in Key, NEW e \in Owner(k),
           NEW u \in Users \cup {NoUser}, NEW t \in Time, Close(k, e, u, t)
    PROVE  Backed(k)' /\ TombstoneKept(k)'
<1>1. state'[k] = Ended(state[k], e, u, t) /\ now' = now
  BY DEF Guarded, TypeOK, Close
<1>2. /\ t \in Nat /\ t > 0 /\ newest[k] \in Nat /\ now \in Nat
      /\ Horizon(k) \in Nat
  BY TimeType, HorizonType, BindingType DEF Guarded
<1>3. state[k] # Absent => /\ state[k].time \in Nat
                           /\ state[k].closed \in BOOLEAN
  BY BindingType DEF Guarded
<1>4. \A c \in shut[k] : c[2] \in Nat
  BY ClosingType DEF Guarded
<1>5. Backed(k) /\ TombstoneKept(k)
  BY DEF Guarded
<1>6. CASE Ends(state[k], e, t)
  <2>1. /\ newest'[k] = IF t > newest[k] THEN t ELSE newest[k]
        /\ shut'[k] = shut[k] \cup {<<e, t>>}
    BY <1>6 DEF Close, Guarded, TypeOK
  <2>2. /\ state'[k] # Absent /\ state'[k].time = t /\ state'[k].entity = e
        /\ state'[k].closed
    <3> DEFINE b == Bound(e, u, t, TRUE)
    <3>1. state'[k] = b
      BY <1>1, <1>6 DEF Ended
    <3>2. e \in Entity
      BY DEF Owner, Entity
    <3>3. b # Absent /\ b.time = t /\ b.entity = e /\ b.closed
      BY <3>2, BoundType
    <3> QED  BY <3>1, <3>3
  <2>3. state[k] # Absent /\ state[k].entity = e /\ state[k].time <= t
    BY <1>2, <1>3, <1>6 DEF Ends
  <2>4. Backed(k)'
    BY <1>1, <1>2, <1>3, <1>5, <2>1, <2>2, <2>3 DEF Backed, Past
  <2>5. ASSUME NEW c \in shut'[k]
        PROVE  c[2] <= newest'[k] /\ (c[2] = t => Past(k, t) \/ c[1] = e)
    <3>1. CASE c = <<e, t>>
      BY <1>2, <2>1, <3>1
    <3>2. CASE c \in shut[k]
      BY <1>2, <1>3, <1>4, <1>5, <2>1, <2>3, <3>2 DEF TombstoneKept, Backed, Past
    <3> QED  BY <2>1, <2>5, <3>1, <3>2
  <2> QED  BY <1>1, <2>2, <2>4, <2>5 DEF TombstoneKept, Past
<1>7. CASE ~Ends(state[k], e, t)
  BY <1>1, <1>5, <1>7 DEF Close, Ended, Backed, TombstoneKept, Past
<1> QED  BY <1>6, <1>7

LEMMA NextGuarded == Guarded /\ [Next]_vars => Guarded'
<1> SUFFICES ASSUME Guarded, [Next]_vars  PROVE Guarded'
  OBVIOUS
<1>t. TypeOK /\ TypeOK'
  BY NextType DEF Guarded
<1>n. \A k \in Key : /\ now \in Nat /\ newest[k] \in Nat /\ Horizon(k) \in Nat
                     /\ state[k] # Absent => state[k].time \in Nat
  <2>1. ASSUME NEW k \in Key
        PROVE  /\ now \in Nat /\ newest[k] \in Nat
               /\ state[k] # Absent => state[k].time \in Nat
    BY <1>t, BindingType
  <2> QED  BY <2>1, HorizonType
<1>g. \A k \in Key : Backed(k) /\ TombstoneKept(k)
  BY DEF Guarded
<1>1. ASSUME NEW k \in Key, NEW e \in Owner(k), NEW u \in Users \cup {NoUser},
             NEW t \in Time, Open(k, e, u, t) \/ Close(k, e, u, t)
      PROVE  Guarded'
  <2>1. Backed(k)' /\ TombstoneKept(k)'
    BY <1>1, <1>t, OpenKeepsGuard, CloseKeepsGuard
  <2>2. ASSUME NEW i \in Key, i # k
        PROVE  /\ state'[i] = state[i] /\ newest'[i] = newest[i]
               /\ shut'[i] = shut[i] /\ now' = now
    BY <1>1, <1>t, <2>2 DEF TypeOK, Open, Close
  <2>3. \A i \in Key : i # k => Backed(i)' /\ TombstoneKept(i)'
    BY <1>g, <2>2 DEF Backed, TombstoneKept, Past
  <2> QED  BY <1>t, <2>1, <2>3 DEF Guarded
<1>2. CASE EvictExpired
  <2>1. ASSUME NEW k \in Key
        PROVE  Backed(k)' /\ TombstoneKept(k)'
    <3>1. /\ state'[k] = IF Swept(k) THEN Absent ELSE state[k]
          /\ newest' = newest /\ shut' = shut /\ now' = now
      BY <1>2, <1>t DEF EvictExpired, TypeOK
    <3>2. Swept(k) => newest[k] = 0 \/ Past(k, newest[k])
      BY <1>n, <1>g DEF Swept, Expired, Backed, Past
    <3> QED  BY <1>g, <3>1, <3>2 DEF Backed, TombstoneKept, Past
  <2> QED  BY <1>t, <2>1 DEF Guarded
<1>3. CASE Tick
  <2>1. \A k \in Key : Backed(k)' /\ TombstoneKept(k)'
    BY <1>3, <1>n, <1>g DEF Tick, Backed, TombstoneKept, Past
  <2> QED  BY <1>t, <2>1 DEF Guarded
<1>4. CASE Restart
  BY <1>4, <1>t DEF Restart, Guarded, Backed, TombstoneKept
<1>5. CASE UNCHANGED vars
  BY <1>5, <1>t, <1>g DEF vars, Guarded, Backed, TombstoneKept, Past
<1> QED  BY <1>1, <1>2, <1>3, <1>4, <1>5, NextCases

LEMMA GuardedInvariant == Spec => []Guarded
<1> QED  BY InitGuarded, NextGuarded, PTL DEF Spec

-----------------------------------------------------------------------------
(* A live binding is backed by its own time: nothing obeyed is newer. *)
LEMMA LiveIsNewest ==
    ASSUME Guarded, NEW k \in Key, IsLive(k)
    PROVE  /\ state[k].time >= newest[k] /\ ~Past(k, state[k].time)
           /\ ~state[k].closed
<1>1. /\ newest[k] \in Nat /\ now \in Nat /\ state[k].time \in Nat
      /\ Horizon(k) \in Nat
  BY HorizonType, BindingType DEF Guarded, IsLive
<1> QED  BY <1>1 DEF Guarded, IsLive, Expired, Backed, Past

(* Newest-event-wins (identity.go:133-136): whatever the order of the      *)
(* events, the repetitions and the sweeps, Lookup reports nothing older    *)
(* than an opening seen or a closing obeyed.                               *)
THEOREM NewestEventWins == Spec => []NewestWins
<1>1. Guarded => NewestWins
  BY LiveIsNewest DEF NewestWins
<1> QED  BY <1>1, GuardedInvariant, PTL

(* A closed lease or session is not reported again, unless it was opened   *)
(* again later (identity.go:136-140, 190-194).                             *)
THEOREM NoResurrection == Spec => []ClosedStaysClosed
<1>1. ASSUME Guarded, NEW k \in Key, IsLive(k)
      PROVE  OpenedSince(k)
  <2>1. \A c \in shut[k] : c[2] \in Nat /\ c[2] <= newest[k]
    BY <1>1, ClosingType DEF Guarded, TombstoneKept
  <2>2. newest[k] \in Nat /\ state[k].time \in Nat
    BY <1>1, BindingType DEF Guarded, IsLive
  <2>3. \A c \in shut[k] : state[k].time = c[2] => state[k].entity # c[1] \/ state[k].closed
    BY <1>1, LiveIsNewest DEF Guarded, TombstoneKept, IsLive
  <2>4. state[k].time >= newest[k] /\ ~state[k].closed
    BY <1>1, LiveIsNewest
  <2> QED  BY <2>1, <2>2, <2>3, <2>4 DEF OpenedSince
<1>2. ASSUME Guarded, NEW ip \in IPs, Lookup(ip)[1] # NoMac
      PROVE  /\ IsLive(ip)
             /\ Lookup(ip)[1] \in Macs
             /\ Lookup(ip)[2] # NoUser => IsLive(Lookup(ip)[1])
  BY <1>2 DEF Lookup, Guarded, TypeOK, IsLive, Owner, Key
<1>3. ASSUME Guarded, NEW ip \in IPs, Lookup(ip)[2] # NoUser
      PROVE  Lookup(ip)[1] \in Macs /\ IsLive(Lookup(ip)[1])
  BY <1>3 DEF Lookup, Guarded, TypeOK, IsLive, Owner, Key
<1>4. Guarded => ClosedStaysClosed
  BY <1>1, <1>2, <1>3 DEF ClosedStaysClosed, Key
<1> QED  BY <1>4, GuardedInvariant, PTL

(* A handover within one second ends with the new holder, in either order  *)
(* of arrival (identity.go:140-143, 194-198).                              *)
THEOREM HandoverEitherOrder == Spec => []HandoverConverges
<1>1. ASSUME TypeOK, NEW k \in Key, IsLive(k),
             NEW e \in Owner(k) \ {state[k].entity}, NEW t \in Time,
             state[k].time <= t
      PROVE  LET b == state[k]
                 u == b.user
                 new == Bound(e, u, t, FALSE)
             IN /\ Opened(Ended(b, b.entity, u, t), e, u, t) = new
                /\ Ended(Opened(b, e, u, t), b.entity, u, t) = new
  <2> DEFINE b == state[k]
             u == b.user
             tomb == Bound(b.entity, u, t, TRUE)
             new == Bound(e, u, t, FALSE)
  <2>1. b \in Binding /\ b # Absent /\ ~b.closed /\ b.entity \in Owner(k)
    BY <1>1 DEF TypeOK, IsLive
  <2>2. b.time \in Nat /\ t \in Nat /\ u \in Users \cup {NoUser}
    BY <2>1, TimeType DEF Binding
  <2>3. tomb # Absent /\ new # Absent
    <3>1. b.entity \in Entity /\ e \in Entity
      BY <2>1 DEF Owner, Entity
    <3> HIDE DEF b, u
    <3> QED  BY <2>2, <3>1, BoundType
  <2>4. Ended(b, b.entity, u, t) = tomb
    BY <1>1, <2>1, <2>2 DEF Ended, Ends
  <2>5. ~TooLate(tomb, e, t) /\ ~TooLate(b, e, t)
    BY <1>1, <2>1, <2>2 DEF TooLate, Bound
  <2>6. ~Ends(new, b.entity, t)
    BY <1>1 DEF Ends, Bound
  <2>7. Opened(tomb, e, u, t) = new /\ Opened(b, e, u, t) = new
    BY <2>5 DEF Opened
  <2>8. Ended(new, b.entity, u, t) = new
    BY <2>6 DEF Ended
  <2> QED  BY <2>4, <2>7, <2>8
<1>2. TypeOK => HandoverConverges
  BY <1>1 DEF HandoverConverges
<1> QED  BY <1>2, TypeCorrect, PTL

-----------------------------------------------------------------------------
(* The least and the greatest element of a set of places. *)

(* The order of the naturals, as a relation. *)
Below == {r \in Nat \X Nat : r[1] < r[2]}

LEMMA BelowIsWellFounded == IsWellFoundedOn(Below, Nat)
<1>1. Below = OpToRel(<, Nat)
  BY DEF Below, OpToRel
<1> QED  BY <1>1, NatLessThanWellFounded

LEMMA LeastExists ==
    ASSUME NEW S \in SUBSET Nat, S # {}
    PROVE  \E i \in S : \A j \in S : i <= j
<1>1. PICK i \in S : \A j \in S : <<j, i>> \notin Below
  BY BelowIsWellFounded, WFMin
<1>2. ASSUME NEW j \in S  PROVE i <= j
  <2>1. i \in Nat /\ j \in Nat /\ <<j, i>> \notin Below
    BY <1>1
  <2>2. ~(j < i)
    BY <2>1 DEF Below
  <2> QED  BY <2>1, <2>2
<1> QED  BY <1>2

LEMMA GreatestExists ==
    ASSUME NEW N \in Nat, NEW S \in SUBSET 0..N, S # {}
    PROVE  \E i \in S : \A j \in S : j <= i
<1> DEFINE D == {n \in Nat : N - n \in S}
<1>1. PICK s \in S : TRUE
  OBVIOUS
<1>2. /\ N - s \in Nat /\ N - (N - s) = s
  OBVIOUS
<1>3. D \in SUBSET Nat /\ N - s \in D
  BY <1>1, <1>2
<1>4. PICK n \in D : \A m \in D : n <= m
  BY <1>3, LeastExists
<1>5. N - n \in S /\ n \in Nat
  BY <1>4
<1>6. ASSUME NEW j \in S PROVE j <= N - n
  <2>1. N - j \in D
    OBVIOUS
  <2>2. n <= N - j
    BY <2>1, <1>4
  <2> QED  BY <2>2, <1>5
<1> QED  BY <1>5, <1>6
-----------------------------------------------------------------------------
(* The pieces of a log file and the ends of its lines. *)

(* p is an earlier piece of the log than q. *)
Before(p, q) == p[1] < q[1] \/ (p[1] = q[1] /\ p[2] < q[2])

Increasing(s) == \A i, j \in DOMAIN s : i < j => Before(s[i], s[j])

LEMMA FileType ==
    /\ 1 \in File
    /\ \A f \in File : NumLines(f) \in Nat
    /\ \A f \in File : \A l \in 1..NumLines(f) : Lengths[f][l] \in Nat \ {0}
<1>1. NumFiles \in Nat \ {0} /\ \A f \in File : Lengths[f] \in Seq(Nat \ {0})
  BY FileAssumption
<1> QED  BY <1>1 DEF File, NumLines

LEMMA PieceType ==
    ASSUME NEW f \in File, NEW p \in Piece(f)
    PROVE  /\ p = <<p[1], p[2]>> /\ p \in Nat \X Nat
           /\ p[1] \in 1..NumLines(f) /\ p[1] \in Nat
           /\ p[2] \in Nat \ {0} /\ p[2] <= Lengths[f][p[1]]
           /\ Lengths[f][p[1]] \in Nat \ {0}
<1>1. p \in (1..NumLines(f)) \X (Nat \ {0}) /\ p[2] <= Lengths[f][p[1]]
  BY DEF Piece
<1>2. p = <<p[1], p[2]>> /\ p[1] \in 1..NumLines(f) /\ p[2] \in Nat \ {0}
  BY <1>1
<1>3. NumLines(f) \in Nat /\ Lengths[f][p[1]] \in Nat \ {0}
  BY <1>2, FileType
<1>4. p[1] \in Nat
  BY <1>2, <1>3
<1>5. p \in Nat \X Nat
  BY <1>2, <1>4
<1> QED  BY <1>1, <1>2, <1>3, <1>4, <1>5

LEMMA BeforeTransitive ==
    ASSUME NEW p \in Nat \X Nat, NEW q \in Nat \X Nat, NEW r \in Nat \X Nat,
           Before(p, q), Before(q, r)
    PROVE  Before(p, r)
<1>1. /\ p[1] \in Nat /\ p[2] \in Nat /\ q[1] \in Nat /\ q[2] \in Nat
      /\ r[1] \in Nat /\ r[2] \in Nat
  OBVIOUS
<1> QED  BY <1>1 DEF Before

(* No piece follows the end of a line within the same line. *)
LEMMA EndIsLast ==
    ASSUME NEW f \in File, NEW p \in Piece(f), NEW q \in Piece(f),
           EndsLine(f, p), Before(p, q)
    PROVE  p[1] < q[1]
<1>1. ~(p[1] = q[1] /\ p[2] < q[2])
  BY PieceType DEF EndsLine
<1> QED  BY <1>1 DEF Before

LEMMA EndIsWhole ==
    ASSUME NEW f \in File, NEW p \in Piece(f), EndsLine(f, p)
    PROVE  p = <<p[1], Lengths[f][p[1]]>>
BY PieceType DEF EndsLine

LEMMA LineEndsType ==
    ASSUME NEW f \in File, NEW s \in Seq(Piece(f))
    PROVE  /\ Len(s) \in Nat /\ DOMAIN s = 1..Len(s)
           /\ LineEnds(f, s) \in SUBSET (1..Len(s))
           /\ \A i \in LineEnds(f, s) : /\ i \in Nat /\ i \in DOMAIN s
                                        /\ s[i] \in Piece(f)
                                        /\ EndsLine(f, s[i])
           /\ \A i \in 1..Len(s) : EndsLine(f, s[i]) => i \in LineEnds(f, s)
BY DEF LineEnds

(* The numbers of the lines that end in s increase with their places. *)
LEMMA EndsIncrease ==
    ASSUME NEW f \in File, NEW s \in Seq(Piece(f)), Increasing(s),
           NEW i \in LineEnds(f, s), NEW j \in 1..Len(s), i < j
    PROVE  s[i][1] < s[j][1]
<1>1. i \in DOMAIN s /\ j \in DOMAIN s /\ s[i] \in Piece(f) /\ s[j] \in Piece(f)
  BY LineEndsType
<1>2. Before(s[i], s[j]) /\ EndsLine(f, s[i])
  BY <1>1, LineEndsType DEF Increasing
<1> QED  BY <1>1, <1>2, EndIsLast

(* What bytes.LastIndexByte gives. *)
LEMMA CompleteIsLast ==
    ASSUME NEW f \in File, NEW s \in Seq(Piece(f))
    PROVE  /\ Complete(f, s) \in 0..Len(s)
           /\ Complete(f, s) # 0 => Complete(f, s) \in LineEnds(f, s)
           /\ \A j \in LineEnds(f, s) : j <= Complete(f, s)
<1>1. CASE LineEnds(f, s) = {}
  BY <1>1, LineEndsType DEF Complete
<1>2. CASE LineEnds(f, s) # {}
  <2>1. Len(s) \in Nat /\ LineEnds(f, s) \in SUBSET (0..Len(s))
    BY LineEndsType
  <2>2. \E i \in LineEnds(f, s) : \A j \in LineEnds(f, s) : j <= i
    BY <1>2, <2>1, GreatestExists
  <2>3. /\ LastEnd(f, s) \in LineEnds(f, s)
        /\ \A j \in LineEnds(f, s) : j <= LastEnd(f, s)
    BY <2>2 DEF LastEnd
  <2> QED  BY <1>2, <2>1, <2>3 DEF Complete
<1> QED  BY <1>1, <1>2

(* Where bytes.Split cuts first. *)
LEMMA FirstCutIsFirst ==
    ASSUME NEW f \in File, NEW s \in Seq(Piece(f)), s # << >>
    PROVE  /\ FirstCut(f, s) \in 1..Len(s)
           /\ FirstCut(f, s) \in LineEnds(f, s) \cup {Len(s)}
           /\ \A j \in LineEnds(f, s) : FirstCut(f, s) <= j
<1>1. Len(s) \in Nat \ {0} /\ LineEnds(f, s) \in SUBSET (1..Len(s))
  BY LineEndsType
<1>2. \E i \in LineEnds(f, s) \cup {Len(s)} : \A j \in LineEnds(f, s) : i <= j
  <2>1. CASE LineEnds(f, s) = {}
    BY <2>1
  <2>2. CASE LineEnds(f, s) # {}
    <3>1. LineEnds(f, s) \in SUBSET Nat
      BY <1>1
    <3>2. \E i \in LineEnds(f, s) : \A j \in LineEnds(f, s) : i <= j
      BY <2>2, <3>1, LeastExists
    <3> QED  BY <3>2
  <2> QED  BY <2>1, <2>2
<1>3. /\ FirstCut(f, s) \in LineEnds(f, s) \cup {Len(s)}
      /\ \A j \in LineEnds(f, s) : FirstCut(f, s) <= j
  BY <1>2 DEF FirstCut
<1> QED  BY <1>1, <1>3

-----------------------------------------------------------------------------
(* Types of the poller. *)

(* What the updates with EXCEPT need, and PollerTypeOK leaves out. *)
Keyed ==
    /\ DOMAIN content = File /\ DOMAIN last = File
    /\ DOMAIN handled = File /\ DOMAIN torn = File

PollType == PollerTypeOK /\ Keyed

(* A part of a sequence of pieces. *)
LEMMA PartType ==
    ASSUME NEW S, NEW s \in Seq(S), NEW m \in Nat \ {0}, NEW n \in Nat,
           n <= Len(s)
    PROVE  /\ SubSeq(s, m, n) \in Seq(S)
           /\ Len(SubSeq(s, m, n)) = IF m <= n THEN n - m + 1 ELSE 0
           /\ \A i \in 1..Len(SubSeq(s, m, n)) : /\ m + i - 1 \in m..n
                                                 /\ m + i - 1 \in 1..Len(s)
                                                 /\ SubSeq(s, m, n)[i] = s[m + i - 1]
<1>1. m \in Int /\ n \in Int /\ \A i \in m..n : s[i] \in S
  OBVIOUS
<1>2. /\ SubSeq(s, m, n) \in Seq(S)
      /\ Len(SubSeq(s, m, n)) = IF m <= n THEN n - m + 1 ELSE 0
      /\ \A i \in 1..n - m + 1 : SubSeq(s, m, n)[i] = s[m + i - 1]
  BY <1>1, SubSeqProperties
<1> QED  BY <1>2

LEMMA AppendType ==
    ASSUME NEW S, NEW s \in Seq(S), NEW e \in S
    PROVE  /\ Append(s, e) \in Seq(S)
           /\ Len(Append(s, e)) = Len(s) + 1
           /\ DOMAIN Append(s, e) = 1..Len(s) + 1
           /\ DOMAIN s = 1..Len(s)
           /\ Append(s, e)[Len(s) + 1] = e
           /\ \A i \in 1..Len(s) : Append(s, e)[i] = s[i]
BY AppendProperties

(* What a read takes from a file. *)
LEMMA ReadType ==
    ASSUME NEW f \in File, NEW s \in Seq(Piece(f)), NEW o \in Nat,
           NEW n, n = Complete(f, Unread(s, o)), n # 0
    PROVE  LET data == Unread(s, o)
               take == SubSeq(data, 1, n)
           IN /\ n \in Nat /\ o + n <= Len(s)
              /\ take \in Seq(Piece(f)) /\ Len(take) = n
              /\ \A i \in 1..n : o + i \in 1..Len(s) /\ take[i] = s[o + i]
              /\ take # << >> /\ EndsLine(f, take[Len(take)])
              /\ LineEnds(f, take) = {i \in 1..n : o + i \in LineEnds(f, s)}
<1> DEFINE data == Unread(s, o)
<1> DEFINE take == SubSeq(data, 1, n)
<1>1. UpTo(s, o) \in Nat /\ UpTo(s, o) <= Len(s) /\ o + 1 \in Nat \ {0}
  BY FileAssumption DEF UpTo
<1>2. /\ data \in Seq(Piece(f))
      /\ Len(data) = IF o + 1 <= UpTo(s, o) THEN UpTo(s, o) - (o + 1) + 1 ELSE 0
      /\ \A i \in 1..Len(data) : /\ (o + 1) + i - 1 \in 1..Len(s)
                                 /\ data[i] = s[(o + 1) + i - 1]
  BY <1>1, PartType DEF Unread
<1> HIDE DEF data
<1>3. /\ n \in 0..Len(data) /\ n \in LineEnds(f, data) /\ n \in Nat \ {0}
  BY <1>2, CompleteIsLast DEF data
<1>4. /\ take \in Seq(Piece(f)) /\ Len(take) = n
      /\ \A i \in 1..n : take[i] = data[i]
  <2>1. n <= Len(data) /\ Len(data) \in Nat
    BY <1>2, <1>3
  <2>2. /\ take \in Seq(Piece(f)) /\ Len(take) = IF 1 <= n THEN n - 1 + 1 ELSE 0
        /\ \A i \in 1..Len(take) : take[i] = data[1 + i - 1]
    BY SMTT(30), <1>2, <1>3, <2>1, PartType
  <2> QED  BY <1>3, <2>2
<1> HIDE DEF take
<1>5. \A i \in 1..n : o + i \in 1..Len(s) /\ take[i] = s[o + i]
  <2>1. SUFFICES ASSUME NEW i \in 1..n
                 PROVE  o + i \in 1..Len(s) /\ take[i] = s[o + i]
    OBVIOUS
  <2>2. i \in 1..Len(data) /\ (o + 1) + i - 1 = o + i
    BY <1>2, <1>3
  <2>3. take[i] = data[i]
    BY <1>4
  <2> QED  BY <1>2, <2>2, <2>3
<1>6. take # << >> /\ EndsLine(f, take[Len(take)])
  BY <1>2, <1>3, <1>4, LineEndsType
<1>7. o + n <= Len(s)
  BY <1>3, <1>5
<1>8. LineEnds(f, take) = {i \in 1..n : o + i \in LineEnds(f, s)}
  BY <1>4, <1>5 DEF LineEnds
<1> QED  BY <1>3, <1>4, <1>5, <1>6, <1>7, <1>8 DEF data, take

(* The first line of what is in hand, and the rest. *)
Cut == FirstCut(file, todo)
Rest == SubSeq(todo, Len(Line) + 1, Len(todo))

LEMMA LineType ==
    ASSUME PollType, at = "handle"
    PROVE  /\ Cut \in LineEnds(file, todo) /\ Cut \in 1..Len(todo)
           /\ \A j \in LineEnds(file, todo) : Cut <= j
           /\ Len(todo) \in Nat
           /\ Len(Line) = Cut /\ LineNo = todo[Cut][1]
           /\ LineNo \in 1..NumLines(file)
           /\ EndsLine(file, todo[Cut])
           /\ Rest \in Seq(Piece(file)) /\ Len(Rest) = Len(todo) - Cut
           /\ \A i \in 1..Len(Rest) : /\ Cut + i \in 1..Len(todo)
                                      /\ Rest[i] = todo[Cut + i]
           /\ Rest # << >> => EndsLine(file, Rest[Len(Rest)])
<1>1. /\ file \in File /\ todo \in Seq(Piece(file)) /\ todo # << >>
      /\ EndsLine(file, todo[Len(todo)])
  BY DEF PollType, PollerTypeOK
<1>2. Len(todo) \in Nat \ {0} /\ Len(todo) \in LineEnds(file, todo)
  BY <1>1, LineEndsType
<1>3. /\ Cut \in 1..Len(todo) /\ Cut \in LineEnds(file, todo)
      /\ \A j \in LineEnds(file, todo) : Cut <= j
  BY <1>1, <1>2, FirstCutIsFirst DEF Cut
<1>4. /\ Line \in Seq(Piece(file)) /\ Len(Line) = Cut
      /\ \A i \in 1..Cut : Line[i] = todo[i]
  <2>1. Cut \in Nat /\ Cut <= Len(todo) /\ 1 \in Nat \ {0} /\ 1 <= Cut
    BY <1>2, <1>3
  <2>2. /\ Line \in Seq(Piece(file)) /\ Len(Line) = IF 1 <= Cut THEN Cut - 1 + 1 ELSE 0
        /\ \A i \in 1..Len(Line) : Line[i] = todo[1 + i - 1]
    BY <1>1, <2>1, PartType DEF Line, Cut
  <2> QED  BY <2>1, <2>2
<1>5. LineNo = todo[Cut][1] /\ todo[Cut] \in Piece(file) /\ EndsLine(file, todo[Cut])
  <2>1. Cut \in 1..Cut
    BY <1>2, <1>3
  <2> QED  BY <1>1, <1>3, <1>4, <2>1, LineEndsType DEF LineNo
<1>6. LineNo \in 1..NumLines(file)
  BY <1>1, <1>5, PieceType
<1>7. /\ Rest \in Seq(Piece(file)) /\ Len(Rest) = Len(todo) - Cut
      /\ \A i \in 1..Len(Rest) : Cut + i \in 1..Len(todo) /\ Rest[i] = todo[Cut + i]
  <2>1. Cut + 1 \in Nat \ {0} /\ Len(todo) \in Nat /\ Len(todo) <= Len(todo)
        /\ Rest = SubSeq(todo, Cut + 1, Len(todo))
    BY <1>2, <1>3, <1>4 DEF Rest
  <2>2. /\ Rest \in Seq(Piece(file))
        /\ Len(Rest) = IF Cut + 1 <= Len(todo) THEN Len(todo) - (Cut + 1) + 1 ELSE 0
        /\ \A i \in 1..Len(Rest) : /\ (Cut + 1) + i - 1 \in 1..Len(todo)
                                   /\ Rest[i] = todo[(Cut + 1) + i - 1]
    BY <1>1, <2>1, PartType
  <2>3. \A i \in 1..Len(Rest) : (Cut + 1) + i - 1 = Cut + i
    BY <1>2, <1>3
  <2> QED  BY <1>2, <1>3, <2>2, <2>3
<1>8. ASSUME Rest # << >>  PROVE EndsLine(file, Rest[Len(Rest)])
  <2>1. Len(Rest) \in 1..Len(Rest) /\ Cut + Len(Rest) = Len(todo)
    BY <1>2, <1>3, <1>7, <1>8
  <2> QED  BY <1>1, <1>7, <2>1
<1> QED  BY <1>2, <1>3, <1>4, <1>5, <1>6, <1>7, <1>8

LEMMA LeaveType ==
    ASSUME file \in File, Leave
    PROVE  file' \in File /\ at' \in {"stat", "scanned"}
BY FileAssumption DEF Leave, File

LEMMA EmptyType == \A S : << >> \in Seq(S)
OBVIOUS

(* What the visits of files, the log programs and the panics may do. *)
PollerAction ==
    \/ \E f \in File : WritePiece(f) \/ Rotate(f)
    \/ StartScan \/ Stat \/ Read \/ SkipFile \/ HandleLine \/ PanicInLine
    \/ EndScan \/ StopPolling

LEMMA PollInitType == PollerInit => PollType
<1> SUFFICES ASSUME PollerInit  PROVE PollType
  OBVIOUS
<1>1. \A f \in File : content[f] = << >> /\ handled[f] = << >> /\ torn[f] = {}
  BY DEF PollerInit
<1>2. \A f \in File : content[f] \in Seq(Piece(f)) /\ handled[f] \in Seq(1..NumLines(f))
  <2>1. SUFFICES ASSUME NEW f \in File
                 PROVE  content[f] \in Seq(Piece(f)) /\ handled[f] \in Seq(1..NumLines(f))
    OBVIOUS
  <2>2. content[f] = << >> /\ handled[f] = << >>
    BY <1>1
  <2> QED  BY <2>2, EmptyType
<1>3. todo \in Seq(Piece(file))
  BY EmptyType DEF PollerInit
<1>4. \A f \in File : MaxRotations[f] \in Nat
  BY FileAssumption
<1> QED  BY <1>1, <1>2, <1>3, <1>4, FileType DEF PollerInit, PollType, PollerTypeOK, Keyed

LEMMA PollNextType == PollType /\ (PollerAction \/ UNCHANGED pollerVars) => PollType'
<1> SUFFICES ASSUME PollType, PollerAction \/ UNCHANGED pollerVars  PROVE PollType'
  OBVIOUS
<1> USE DEF PollType, PollerTypeOK, Keyed
<1>1. ASSUME NEW f \in File, WritePiece(f)  PROVE PollType'
  <2>1. /\ content[f] \in Seq(Piece(f)) /\ NextPiece(f) \in Piece(f)
        /\ content' = [content EXCEPT ![f] = Append(@, NextPiece(f))]
        /\ last' = [last EXCEPT ![f] = NextPiece(f)]
    BY <1>1 DEF WritePiece
  <2>2. Append(content[f], NextPiece(f)) \in Seq(Piece(f))
    BY <2>1
  <2>3. \A g \in File : content'[g] \in Seq(Piece(g))
    BY <2>1, <2>2
  <2>4. \A g \in File : last'[g] \in Piece(g) \cup {<<0, 0>>}
    BY <2>1
  <2>5. UNCHANGED <<rotations, pollVars, historyVars>>
    BY <1>1 DEF WritePiece
  <2> QED  BY <2>1, <2>3, <2>4, <2>5 DEF pollVars, historyVars
<1>2. ASSUME NEW f \in File, Rotate(f)  PROVE PollType'
  <2>1. /\ content' = [content EXCEPT ![f] = << >>]
        /\ rotations' = [rotations EXCEPT ![f] = @ + 1]
        /\ rotations[f] < MaxRotations[f]
        /\ UNCHANGED <<last, pollVars, historyVars>>
    BY <1>2 DEF Rotate
  <2>2. \A g \in File : content'[g] \in Seq(Piece(g))
    BY <2>1
  <2>3. rotations' \in [File -> Nat]
    BY <2>1
  <2>4. ASSUME NEW g \in File
        PROVE  since[g] <= rotations'[g] /\ rotations'[g] <= MaxRotations[g]
    <3>1. /\ since[g] \in Nat /\ rotations[g] \in Nat /\ MaxRotations[g] \in Nat
          /\ since[g] <= rotations[g] /\ rotations[g] <= MaxRotations[g]
      BY FileAssumption
    <3>2. rotations'[g] = IF g = f THEN rotations[g] + 1 ELSE rotations[g]
      BY <2>1
    <3> QED  BY SMTT(30), <2>1, <3>1, <3>2
  <2> QED  BY <2>1, <2>2, <2>3, <2>4 DEF pollVars, historyVars
<1>3. CASE StartScan
  <2>1. todo = << >> /\ todo' = << >> /\ file' = 1 /\ at' = "stat"
    BY <1>3 DEF StartScan
  <2>2. file' \in File /\ todo' \in Seq(Piece(file'))
    BY <2>1, FileType, EmptyType
  <2> QED  BY <1>3, <2>1, <2>2 DEF StartScan, fileVars, historyVars
<1>4. CASE Stat
  <2>1. todo = << >> /\ todo' = << >> /\ UNCHANGED <<fileVars, offsets, since, historyVars>>
    BY <1>4 DEF Stat
  <2>2. file' \in File /\ at' \in {"stat", "scanned", "read"}
    BY <1>4, LeaveType DEF Stat
  <2>3. off' \in Nat
    BY <1>4 DEF Stat, Start
  <2>4. todo' \in Seq(Piece(file'))
    BY <2>1, EmptyType
  <2> QED  BY <2>1, <2>2, <2>3, <2>4 DEF fileVars, historyVars
<1>5. CASE Read
  <2> DEFINE data == Unread(content[file], off)
  <2> DEFINE n == Complete(file, data)
  <2>1. at = "read" /\ todo = << >> /\ UNCHANGED <<fileVars, off, handled, torn, abandoned>>
    BY <1>5 DEF Read
  <2>2. CASE n = 0
    <3>1. file' \in File /\ at' \in {"stat", "scanned"} /\ UNCHANGED <<offsets, since, todo, missed>>
      BY <1>5, <2>2, LeaveType DEF Read
    <3>2. todo' \in Seq(Piece(file'))
      BY <3>1, <2>1, EmptyType
    <3> QED  BY <2>1, <3>1, <3>2 DEF fileVars
  <2>3. CASE n # 0
    <3>1. /\ offsets' = [offsets EXCEPT ![file] = off + n]
          /\ since' = [since EXCEPT ![file] = rotations[file]]
          /\ todo' = SubSeq(data, 1, n)
          /\ missed' = [missed EXCEPT ![file] =
                           @ \/ (off > 0 /\ since[file] # rotations[file])]
          /\ at' = "handle" /\ UNCHANGED file
      BY <1>5, <2>3 DEF Read, Advanced
    <3>2. /\ n \in Nat /\ todo' \in Seq(Piece(file)) /\ todo' # << >>
          /\ EndsLine(file, todo'[Len(todo')])
      <4>1. file \in File /\ content[file] \in Seq(Piece(file)) /\ off \in Nat
        OBVIOUS
      <4> HIDE DEF n, data
      <4>2. n = Complete(file, Unread(content[file], off)) /\ n # 0
        BY <2>3 DEF n, data
      <4>3. todo' = SubSeq(Unread(content[file], off), 1, n)
        BY <3>1 DEF data
      <4>4. Len(todo') = n
        BY <4>1, <4>2, <4>3, ReadType
      <4> QED  BY <4>1, <4>2, <4>3, <4>4, ReadType
    <3>3. offsets' \in [File -> Nat] /\ since' \in [File -> Nat]
      BY <3>1, <3>2
    <3>4. \A f \in File : since'[f] <= rotations[f]
      BY <3>1
    <3>5. missed' \in [File -> BOOLEAN]
      BY <3>1
    <3> HIDE DEF n, data
    <3> QED  BY <2>1, <3>1, <3>2, <3>3, <3>4, <3>5 DEF fileVars
  <2> QED  BY <2>2, <2>3
<1>6. CASE SkipFile
  <2>1. todo = << >> /\ todo' = << >>
    BY <1>6 DEF SkipFile
  <2>2. file' \in File /\ at' \in {"stat", "scanned"} /\ todo' \in Seq(Piece(file'))
    BY <1>6, <2>1, LeaveType, EmptyType DEF SkipFile
  <2> QED  BY <1>6, <2>1, <2>2 DEF SkipFile, fileVars, historyVars
<1>7. CASE HandleLine
  <2>1. at = "handle" /\ LineNo \in 1..NumLines(file)
    BY <1>7, LineType DEF HandleLine
  <2>2. /\ handled' = [handled EXCEPT ![file] = Append(@, LineNo)]
        /\ torn' = [torn EXCEPT ![file] = IF IsWhole THEN @ ELSE @ \cup {LineNo}]
        /\ todo' = Rest
        /\ UNCHANGED <<fileVars, offsets, since, off, abandoned, missed>>
    BY <1>7 DEF HandleLine, Rest
  <2>3. Rest \in Seq(Piece(file)) /\ (Rest # << >> => EndsLine(file, Rest[Len(Rest)]))
    BY <2>1, LineType
  <2>4. \A f \in File : handled'[f] \in Seq(1..NumLines(f))
    <3>1. Append(handled[file], LineNo) \in Seq(1..NumLines(file))
      BY <2>1
    <3> QED  BY <2>2, <3>1
  <2>5. \A f \in File : torn'[f] \subseteq 1..NumLines(f)
    BY <2>1, <2>2
  <2>6. \/ todo' # << >> /\ at' = "handle" /\ file' = file
        \/ todo' = << >> /\ at' \in {"stat", "scanned"} /\ file' \in File
    BY <1>7, <2>1, LeaveType DEF HandleLine
  <2>7. /\ todo' \in Seq(Piece(file')) /\ file' \in File
        /\ at' = "handle" <=> todo' # << >>
        /\ at' \in {"idle", "stat", "read", "handle", "scanned", "stopped"}
        /\ todo' # << >> => EndsLine(file', todo'[Len(todo')])
    BY SMTT(30), <2>2, <2>3, <2>6
  <2> QED  BY <2>2, <2>4, <2>5, <2>7 DEF fileVars
<1>8. CASE PanicInLine
  <2>1. /\ todo' = << >> /\ at' = "idle"
        /\ abandoned' = abandoned \cup {<<file, todo[i][1]>> : i \in LineEnds(file, todo)}
        /\ UNCHANGED <<fileVars, offsets, since, file, off, handled, torn, missed>>
    BY <1>8 DEF PanicInLine
  <2>2. ASSUME NEW i \in LineEnds(file, todo)
        PROVE  <<file, todo[i][1]>> \in {file} \X (1..NumLines(file))
    BY <2>2, LineEndsType, PieceType
  <2>3. {<<file, todo[i][1]>> : i \in LineEnds(file, todo)} \subseteq {file} \X (1..NumLines(file))
    BY <2>2
  <2>4. {file} \X (1..NumLines(file)) \subseteq UNION {{f} \X (1..NumLines(f)) : f \in File}
    OBVIOUS
  <2>5. abandoned' \subseteq UNION {{f} \X (1..NumLines(f)) : f \in File}
    BY <2>1, <2>3, <2>4
  <2> QED  BY <2>1, <2>5, EmptyType DEF fileVars
<1>9. CASE EndScan
  BY <1>9 DEF EndScan, fileVars, historyVars
<1>10. CASE StopPolling
  BY <1>10 DEF StopPolling, fileVars, historyVars
<1>11. CASE UNCHANGED pollerVars
  BY <1>11 DEF pollerVars, fileVars, pollVars, historyVars
<1> QED  BY <1>1, <1>2, <1>3, <1>4, <1>5, <1>6, <1>7, <1>8, <1>9, <1>10, <1>11 DEF PollerAction

-----------------------------------------------------------------------------
(* The inductive invariant of the poller.                                  *)

(* p is the last piece written to f, or was written before it. *)
Written(f, p) == p = last[f] \/ Before(p, last[f])

(* The pieces of f below Checked(f) were looked at since its rotation. *)
Checked(f) == IF since[f] = rotations[f] THEN offsets[f] ELSE 0

(* The lines of f that reached the poller. *)
Known(f) == Range(handled[f]) \cup InHand(f)

(* A file holds an increasing part of what was written, and each line end  *)
(* that was not looked at is of a later line than all that are known.      *)
FileInOrder(f) ==
    /\ Increasing(content[f])
    /\ \A i \in DOMAIN content[f] : Written(f, content[f][i])
    /\ Checked(f) <= Len(content[f])
    /\ \A d \in Known(f) :
          /\ Written(f, <<d, Lengths[f][d]>>)
          /\ \A i \in LineEnds(f, content[f]) :
                i > Checked(f) => d < content[f][i][1]

FilesInOrder == \A f \in File : FileInOrder(f)

HandInOrder ==
    /\ Increasing(todo)
    /\ \A d \in Range(handled[file]), l \in InHand(file) : d < l

TornHandled == \A f \in File : torn[f] \subseteq Range(handled[f])

(* Between Stat and Read only a rotation makes the offset read from wrong. *)
ReadsFromOffset ==
    at = "read" => off = offsets[file] \/ since[file] # rotations[file]

PollInv ==
    /\ PollType
    /\ FilesInOrder /\ HandInOrder /\ HandledInOrder /\ TornHandled
    /\ ReadsFromOffset /\ NoLineSkipped

LEMMA NothingInHand ==
    ASSUME PollType, at # "handle"
    PROVE  todo = << >> /\ \A f \in File : InHand(f) = {} /\ Known(f) = Range(handled[f])
<1>1. todo = << >>
  BY DEF PollType, PollerTypeOK
<1>2. \A f \in File : LineEnds(file, todo) = {}
  BY <1>1 DEF LineEnds
<1>3. \A f \in File : InHand(f) = {}
  BY <1>2 DEF InHand
<1> QED  BY <1>1, <1>3 DEF Known

LEMMA KnownType ==
    ASSUME PollType, NEW f \in File
    PROVE  /\ Range(handled[f]) \subseteq 1..NumLines(f)
           /\ InHand(f) \subseteq 1..NumLines(f)
           /\ Known(f) \subseteq 1..NumLines(f) /\ Known(f) \subseteq Nat
<1>1. Range(handled[f]) \subseteq 1..NumLines(f)
  <2>1. handled[f] \in Seq(1..NumLines(f))
    BY DEF PollType, PollerTypeOK
  <2> QED  BY <2>1, RangeOfSeq
<1>2. ASSUME NEW d \in InHand(f)  PROVE d \in 1..NumLines(f)
  <2>1. f = file /\ \E i \in LineEnds(file, todo) : d = todo[i][1]
    BY <1>2 DEF InHand
  <2>2. todo \in Seq(Piece(file))
    BY DEF PollType, PollerTypeOK
  <2> QED  BY <2>1, <2>2, LineEndsType, PieceType
<1>3. 1..NumLines(f) \subseteq Nat
  BY FileType
<1> QED  BY <1>1, <1>2, <1>3 DEF Known

LEMMA PollInitInv == PollerInit => PollInv
<1> SUFFICES ASSUME PollerInit  PROVE PollInv
  OBVIOUS
<1>1. PollType
  BY PollInitType
<1>2. /\ at = "idle" /\ todo = << >>
      /\ \A f \in File : /\ content[f] = << >> /\ handled[f] = << >> /\ torn[f] = {}
                         /\ offsets[f] = 0 /\ since[f] = 0 /\ rotations[f] = 0
  BY DEF PollerInit
<1>3. Range(<< >>) = {}
  BY DEF Range
<1>4. \A f \in File : Known(f) = {} /\ Range(handled[f]) = {}
  <2>1. at # "handle"
    BY <1>2
  <2> QED  BY <1>1, <1>2, <1>3, <2>1, NothingInHand
<1>5. FilesInOrder
  BY <1>2, <1>4 DEF FilesInOrder, FileInOrder, Increasing, Checked
<1>6. HandInOrder
  <2>1. file \in File
    BY <1>1 DEF PollType, PollerTypeOK
  <2> QED  BY <1>2, <1>4, <2>1 DEF HandInOrder, Increasing
<1>7. HandledInOrder
  BY <1>2 DEF HandledInOrder
<1>8. TornHandled /\ ReadsFromOffset
  BY <1>2 DEF TornHandled, ReadsFromOffset
<1>9. NoLineSkipped
  <2>1. \A f \in File : LineEnds(f, content[f]) = {}
    BY <1>2 DEF LineEnds
  <2> QED  BY <2>1 DEF NoLineSkipped, CompleteLines
<1> QED  BY <1>1, <1>5, <1>6, <1>7, <1>8, <1>9 DEF PollInv

(* A step that only moves the poller, with nothing in hand. *)
LEMMA MoveKeeps ==
    ASSUME PollInv, PollType', at # "handle",
           UNCHANGED <<fileVars, offsets, since, todo, historyVars>>,
           at' = "read" => off' = offsets[file'] \/ since[file'] # rotations[file']
    PROVE  PollInv'
<1>1. UNCHANGED <<content, last, rotations, offsets, since, todo,
                  handled, torn, abandoned, missed>>
  BY DEF fileVars, historyVars
<1>2. todo = << >> /\ todo' = << >>
  BY <1>1, NothingInHand DEF PollInv
<1>3. /\ \A f \in File : InHand(f) = {} /\ InHand(f)' = {}
      /\ InHand(file)' = {}
  BY <1>2 DEF InHand, LineEnds
<1>4. \A f \in File : Known(f)' = Known(f)
  BY <1>1, <1>3 DEF Known
<1>5. \A f \in File : /\ LineEnds(f, content[f])' = LineEnds(f, content[f])
                      /\ Checked(f)' = Checked(f)
  BY <1>1 DEF LineEnds, Checked
<1>6. FilesInOrder'
  BY <1>1, <1>4, <1>5 DEF PollInv, FilesInOrder, FileInOrder, Written
<1>7. HandInOrder'
  BY <1>1, <1>3 DEF PollInv, HandInOrder
<1>8. HandledInOrder' /\ TornHandled'
  BY <1>1 DEF PollInv, HandledInOrder, TornHandled
<1>9. ReadsFromOffset'
  BY <1>1 DEF ReadsFromOffset
<1>10. NoLineSkipped'
  BY <1>1, <1>3, <1>5 DEF PollInv, NoLineSkipped, CompleteLines
<1> QED  BY <1>6, <1>7, <1>8, <1>9, <1>10 DEF PollInv

(* A piece that is written comes after all the others of its file, and     *)
(* after the ends of the lines the poller knows.                           *)
LEMMA WriteKeeps ==
    ASSUME PollInv, PollType', NEW f \in File, WritePiece(f)
    PROVE  PollInv'
<1> DEFINE p == NextPiece(f)
<1> DEFINE c == content[f]
<1>1. /\ p \in Piece(f)
      /\ content' = [content EXCEPT ![f] = Append(@, p)]
      /\ last' = [last EXCEPT ![f] = p]
      /\ UNCHANGED <<rotations, offsets, since, at, file, off, todo,
                     handled, torn, abandoned, missed>>
  BY DEF WritePiece, pollVars, historyVars
<1>2. /\ DOMAIN content = File /\ DOMAIN last = File
      /\ c \in Seq(Piece(f)) /\ last[f] \in Piece(f) \cup {<<0, 0>>}
      /\ file \in File /\ todo \in Seq(Piece(file))
  BY DEF PollInv, PollType, Keyed, PollerTypeOK
<1>3. /\ content'[f] = Append(c, p) /\ last'[f] = p
      /\ \A g \in File : g # f => content'[g] = content[g] /\ last'[g] = last[g]
  BY <1>1, <1>2
<1>4. last[f] \in Nat \X Nat /\ p \in Nat \X Nat
  BY <1>1, <1>2, PieceType
<1>5. Before(last[f], p)
  BY <1>4 DEF NextPiece, Before
<1>6. \A q \in Nat \X Nat : Written(f, q) => Before(q, p)
  BY <1>4, <1>5, BeforeTransitive DEF Written
<1> HIDE DEF p, c
<1>7. /\ Append(c, p) \in Seq(Piece(f)) /\ Len(Append(c, p)) = Len(c) + 1
      /\ DOMAIN Append(c, p) = 1..Len(c) + 1 /\ DOMAIN c = 1..Len(c)
      /\ Append(c, p)[Len(c) + 1] = p
      /\ \A i \in 1..Len(c) : Append(c, p)[i] = c[i]
      /\ Len(c) \in Nat
  BY <1>1, <1>2, AppendType
<1>8. \A g \in File : InHand(g)' = InHand(g) /\ Known(g)' = Known(g)
  BY <1>1 DEF InHand, Known, LineEnds
<1>9. \A g \in File : Checked(g)' = Checked(g)
  BY <1>1 DEF Checked
<1>10. \A g \in File : Known(g) \subseteq 1..NumLines(g)
  BY KnownType DEF PollInv
<1>11. /\ Increasing(c) /\ \A i \in 1..Len(c) : Written(f, c[i])
       /\ Checked(f) <= Len(c)
       /\ \A d \in Known(f) :
             /\ Written(f, <<d, Lengths[f][d]>>)
             /\ \A i \in LineEnds(f, c) : i > Checked(f) => d < c[i][1]
  BY <1>7 DEF PollInv, FilesInOrder, FileInOrder, c
<1>12. \A i \in 1..Len(c) : c[i] \in Piece(f) /\ c[i] \in Nat \X Nat /\ Before(c[i], p)
  <2>1. SUFFICES ASSUME NEW i \in 1..Len(c)
                 PROVE  c[i] \in Piece(f) /\ c[i] \in Nat \X Nat /\ Before(c[i], p)
    OBVIOUS
  <2>2. c[i] \in Piece(f)
    BY <1>2
  <2>3. c[i] \in Nat \X Nat
    BY <2>2, PieceType
  <2> QED  BY <2>2, <2>3, <1>6, <1>11
<1>13. Increasing(Append(c, p))
  <2>1. SUFFICES ASSUME NEW i \in 1..Len(c) + 1, NEW j \in 1..Len(c) + 1, i < j
                 PROVE  Before(Append(c, p)[i], Append(c, p)[j])
    BY <1>7 DEF Increasing
  <2>2. i \in 1..Len(c)
    BY <1>7, <2>1
  <2>3. CASE j \in 1..Len(c)
    BY <1>7, <1>11, <2>1, <2>2, <2>3 DEF Increasing
  <2>4. CASE j = Len(c) + 1
    BY <1>7, <1>12, <2>2, <2>4
  <2> QED  BY <1>7, <2>3, <2>4
<1>14. \A d \in Known(f) : /\ Before(<<d, Lengths[f][d]>>, p)
                           /\ EndsLine(f, p) => d < p[1]
  <2>1. SUFFICES ASSUME NEW d \in Known(f)
                 PROVE  /\ Before(<<d, Lengths[f][d]>>, p)
                        /\ EndsLine(f, p) => d < p[1]
    OBVIOUS
  <2>2. d \in 1..NumLines(f) /\ d \in Nat /\ Lengths[f][d] \in Nat \ {0}
    BY <1>10, FileType
  <2>3. <<d, Lengths[f][d]>> \in Piece(f) /\ <<d, Lengths[f][d]>> \in Nat \X Nat
    BY <2>2 DEF Piece
  <2>4. Before(<<d, Lengths[f][d]>>, p)
    BY <1>6, <1>11, <2>3
  <2>5. EndsLine(f, <<d, Lengths[f][d]>>)
    BY DEF EndsLine
  <2>6. <<d, Lengths[f][d]>>[1] < p[1]
    BY <1>1, <2>3, <2>4, <2>5, EndIsLast DEF p
  <2> QED  BY <2>4, <2>6
<1>15. LineEnds(f, Append(c, p)) \subseteq LineEnds(f, c) \cup {Len(c) + 1}
  BY <1>7 DEF LineEnds
<1>16. \A i \in LineEnds(f, c) : Append(c, p)[i] = c[i] /\ i <= Len(c)
  BY <1>7 DEF LineEnds
<1>17. ASSUME NEW g \in File, g # f  PROVE FileInOrder(g)'
  <2>1. /\ content'[g] = content[g] /\ last'[g] = last[g]
        /\ Known(g)' = Known(g) /\ Checked(g)' = Checked(g) /\ FileInOrder(g)
    BY <1>3, <1>8, <1>9, <1>17 DEF PollInv, FilesInOrder
  <2> QED  BY <2>1 DEF FileInOrder, Written, LineEnds
<1>18. FileInOrder(f)'
  <2> DEFINE d2 == Append(c, p)
  <2>1. /\ content'[f] = d2 /\ last'[f] = p
        /\ Known(f)' = Known(f) /\ Checked(f)' = Checked(f)
    BY <1>3, <1>8, <1>9
  <2>2. \A i \in DOMAIN d2 : d2[i] = p \/ Before(d2[i], p)
    <3>1. SUFFICES ASSUME NEW i \in 1..Len(c) + 1  PROVE d2[i] = p \/ Before(d2[i], p)
      BY <1>7
    <3>2. CASE i \in 1..Len(c)
      BY <1>7, <1>12, <3>2
    <3>3. CASE i = Len(c) + 1
      BY <1>7, <3>3
    <3> QED  BY <1>7, <3>2, <3>3
  <2>3. Checked(f) <= Len(d2)
    <3>1. Checked(f) \in Nat
      BY DEF PollInv, PollType, PollerTypeOK, Checked
    <3> QED  BY <1>7, <1>11, <3>1
  <2>4. ASSUME NEW d \in Known(f), NEW i \in LineEnds(f, d2), i > Checked(f)
        PROVE  d < d2[i][1]
    <3>1. CASE i \in LineEnds(f, c)
      BY <1>11, <1>16, <2>4, <3>1
    <3>2. CASE i = Len(c) + 1
      <4>1. EndsLine(f, p)
        BY <1>7, <2>4, <3>2 DEF LineEnds
      <4> QED  BY <1>7, <1>14, <3>2, <4>1
    <3> QED  BY <1>15, <2>4, <3>1, <3>2
  <2> HIDE DEF d2
  <2>5. \A d \in Known(f) : Before(<<d, Lengths[f][d]>>, p)
    BY <1>14
  <2>6. Increasing(d2)
    BY <1>13 DEF d2
  <2> QED  BY <2>1, <2>2, <2>3, <2>4, <2>5, <2>6 DEF FileInOrder, Written
<1>19. FilesInOrder'
  BY <1>17, <1>18 DEF FilesInOrder
<1>20. HandInOrder' /\ HandledInOrder' /\ TornHandled' /\ ReadsFromOffset'
  BY <1>1, <1>2, <1>8 DEF PollInv, HandInOrder, HandledInOrder, TornHandled, ReadsFromOffset
<1>21. NoLineSkipped'
  <2>1. SUFFICES ASSUME NEW g \in File, since[g] = rotations[g], ~missed[g],
                        NEW l \in CompleteLines(g, offsets[g])'
                 PROVE  l \in CompleteLines(g, offsets[g])
    BY <1>1, <1>8 DEF PollInv, NoLineSkipped
  <2>2. CASE g # f
    BY <1>1, <1>3, <2>1, <2>2 DEF CompleteLines
  <2>3. CASE g = f
    <3>1. PICK i \in LineEnds(f, Append(c, p)) : i <= offsets[f] /\ l = Append(c, p)[i][1]
      <4>1. l \in {content'[f][i][1] : i \in {j \in LineEnds(f, content'[f]) : j <= offsets[f]}}
        BY <1>1, <2>1, <2>3 DEF CompleteLines
      <4> QED  BY <1>3, <4>1
    <3>2. offsets[f] <= Len(c) /\ offsets[f] \in Nat
      BY <1>11, <2>1, <2>3 DEF Checked, PollInv, PollType, PollerTypeOK
    <3>3. i \in LineEnds(f, c)
      BY <1>7, <1>15, <3>1, <3>2
    <3> QED  BY <1>16, <2>3, <3>1, <3>3 DEF CompleteLines, c
  <2> QED  BY <2>2, <2>3
<1> QED  BY <1>19, <1>20, <1>21 DEF PollInv

(* After a rotation nothing of the file is looked at or known to be in it. *)
LEMMA RotateKeeps ==
    ASSUME PollInv, PollType', NEW f \in File, Rotate(f)
    PROVE  PollInv'
<1>1. /\ content' = [content EXCEPT ![f] = << >>]
      /\ rotations' = [rotations EXCEPT ![f] = @ + 1]
      /\ UNCHANGED <<last, offsets, since, at, file, off, todo,
                     handled, torn, abandoned, missed>>
  BY DEF Rotate, pollVars, historyVars
<1>2. /\ DOMAIN content = File /\ rotations \in [File -> Nat]
      /\ since[f] \in Nat /\ rotations[f] \in Nat /\ since[f] <= rotations[f]
      /\ file \in File
  BY DEF PollInv, PollType, Keyed, PollerTypeOK
<1>3. /\ content'[f] = << >> /\ since[f] # rotations'[f]
      /\ \A g \in File : g # f => content'[g] = content[g] /\ rotations'[g] = rotations[g]
  BY <1>1, <1>2
<1>4. \A g \in File : InHand(g)' = InHand(g) /\ Known(g)' = Known(g)
  BY <1>1 DEF InHand, Known, LineEnds
<1>5. \A g \in File : FileInOrder(g)'
  <2>1. SUFFICES ASSUME NEW g \in File  PROVE FileInOrder(g)'
    OBVIOUS
  <2>2. FileInOrder(g)
    BY DEF PollInv, FilesInOrder
  <2>3. CASE g # f
    <3>1. /\ content'[g] = content[g] /\ last'[g] = last[g]
          /\ Known(g)' = Known(g) /\ Checked(g)' = Checked(g)
      BY <1>1, <1>3, <1>4, <2>3 DEF Checked
    <3> QED  BY <2>2, <3>1 DEF FileInOrder, Written, LineEnds
  <2>4. CASE g = f
    <3>1. /\ content'[g] = << >> /\ Checked(g)' = 0 /\ Known(g)' = Known(g)
          /\ last'[g] = last[g]
      BY <1>1, <1>3, <1>4, <2>4 DEF Checked
    <3> QED  BY <2>2, <3>1 DEF FileInOrder, Increasing, Written, LineEnds
  <2> QED  BY <2>3, <2>4
<1>6. HandInOrder' /\ HandledInOrder' /\ TornHandled'
  BY <1>1, <1>2, <1>4 DEF PollInv, HandInOrder, HandledInOrder, TornHandled
<1>7. ReadsFromOffset'
  BY <1>1, <1>2, <1>3 DEF PollInv, ReadsFromOffset
<1>8. NoLineSkipped'
  <2>1. SUFFICES ASSUME NEW g \in File, since[g] = rotations'[g], ~missed[g],
                        NEW l \in CompleteLines(g, offsets[g])'
                 PROVE  l \in Known(g) \/ <<g, l>> \in abandoned
    BY <1>1, <1>4 DEF Known, NoLineSkipped
  <2>2. g # f /\ content'[g] = content[g] /\ rotations'[g] = rotations[g]
    BY <1>3, <2>1
  <2>3. l \in CompleteLines(g, offsets[g])
    BY <1>1, <2>2 DEF CompleteLines
  <2> QED  BY <2>1, <2>2, <2>3 DEF PollInv, NoLineSkipped, Known
<1> QED  BY <1>5, <1>6, <1>7, <1>8 DEF PollInv, FilesInOrder

(* A panic gives up what is in hand. *)
LEMMA PanicKeeps ==
    ASSUME PollInv, PollType', PanicInLine
    PROVE  PollInv'
<1>1. /\ todo' = << >> /\ at' = "idle"
      /\ abandoned' = abandoned \cup {<<file, todo[i][1]>> : i \in LineEnds(file, todo)}
      /\ UNCHANGED <<content, last, rotations, offsets, since, file, off,
                     handled, torn, missed>>
  BY DEF PanicInLine, fileVars
<1>2. \A f \in File : /\ InHand(f)' = {} /\ Known(f)' = Range(handled[f])
                      /\ Known(f)' \subseteq Known(f) /\ Checked(f)' = Checked(f)
  BY <1>1 DEF InHand, Known, LineEnds, Checked
<1>3. \A f \in File : FileInOrder(f)'
  <2>1. SUFFICES ASSUME NEW f \in File  PROVE FileInOrder(f)'
    OBVIOUS
  <2>2. /\ FileInOrder(f) /\ content'[f] = content[f] /\ last'[f] = last[f]
        /\ Known(f)' \subseteq Known(f) /\ Checked(f)' = Checked(f)
    BY <1>1, <1>2 DEF PollInv, FilesInOrder
  <2> QED  BY <2>2 DEF FileInOrder, Written, LineEnds
<1>4. file \in File
  BY DEF PollInv, PollType, PollerTypeOK
<1>5. HandInOrder' /\ HandledInOrder' /\ TornHandled' /\ ReadsFromOffset'
  BY <1>1, <1>2, <1>4
  DEF PollInv, HandInOrder, HandledInOrder, TornHandled, ReadsFromOffset, Increasing
<1>6. \A f \in File : \A l \in InHand(f) : <<f, l>> \in abandoned'
  BY <1>1 DEF InHand
<1>7. NoLineSkipped'
  <2>1. SUFFICES ASSUME NEW f \in File, since[f] = rotations[f], ~missed[f],
                        NEW l \in CompleteLines(f, offsets[f])'
                 PROVE  l \in Range(handled[f]) \/ <<f, l>> \in abandoned'
    BY <1>1 DEF NoLineSkipped
  <2>2. l \in CompleteLines(f, offsets[f])
    BY <1>1, <2>1 DEF CompleteLines
  <2>3. l \in Range(handled[f]) \cup InHand(f) \/ <<f, l>> \in abandoned
    BY <2>1, <2>2 DEF PollInv, NoLineSkipped
  <2> QED  BY <1>1, <1>6, <2>3
<1> QED  BY <1>3, <1>5, <1>7 DEF PollInv, FilesInOrder

(* What is read follows all lines that are known, and everything before    *)
(* the new offset is known then.                                           *)
LEMMA ReadKeeps ==
    ASSUME PollInv, PollType', Read,
           Complete(file, Unread(content[file], off)) # 0
    PROVE  PollInv'
<1> PICK here \in File : here = file
  BY DEF PollInv, PollType, PollerTypeOK
<1> DEFINE c == content[here]
<1> DEFINE n == Complete(here, Unread(c, off))
<1>1. /\ at = "read" /\ at' = "handle"
      /\ offsets' = [offsets EXCEPT ![here] = off + n]
      /\ since' = [since EXCEPT ![here] = rotations[here]]
      /\ todo' = SubSeq(Unread(c, off), 1, n)
      /\ missed' = [missed EXCEPT ![here] =
                       @ \/ (off > 0 /\ since[here] # rotations[here])]
      /\ file' = file /\ UNCHANGED <<content, last, rotations, off, handled, torn, abandoned>>
  BY DEF Read, Advanced, fileVars
<1>2. /\ here = file /\ file' = here /\ c \in Seq(Piece(here)) /\ off \in Nat
      /\ offsets \in [File -> Nat] /\ since \in [File -> Nat] /\ rotations \in [File -> Nat]
      /\ missed \in [File -> BOOLEAN]
  BY <1>1 DEF PollInv, PollType, PollerTypeOK
<1>3. n # 0 /\ n = Complete(here, Unread(c, off))
  OBVIOUS
<1> HIDE DEF n, c
<1>4. /\ n \in Nat /\ off + n <= Len(c) /\ Len(todo') = n
      /\ todo' \in Seq(Piece(here))
      /\ \A i \in 1..n : off + i \in 1..Len(c) /\ todo'[i] = c[off + i]
      /\ LineEnds(here, todo') = {i \in 1..n : off + i \in LineEnds(here, c)}
  BY SMTT(30), <1>1, <1>2, <1>3, ReadType
<1>5. /\ offsets'[here] = off + n /\ since'[here] = rotations[here]
      /\ \A f \in File : f # here => /\ offsets'[f] = offsets[f]
                                     /\ since'[f] = since[f] /\ missed'[f] = missed[f]
      /\ missed'[here] = (missed[here] \/ (off > 0 /\ since[here] # rotations[here]))
  BY <1>1, <1>2
<1>6. \A f \in File : Known(f) = Range(handled[f]) /\ InHand(f) = {}
  BY <1>1, NothingInHand DEF PollInv
<1>7. \A f \in File : f # here => InHand(f)' = {} /\ Known(f)' = Known(f)
                                  /\ Checked(f)' = Checked(f)
  BY <1>1, <1>5, <1>6 DEF InHand, Known, Checked
<1>8. /\ InHand(here)' = {c[off + i][1] : i \in LineEnds(here, todo')}
      /\ Known(here)' = Range(handled[here]) \cup InHand(here)'
      /\ Checked(here)' = off + n
  <2>1. InHand(here)' = {todo'[i][1] : i \in LineEnds(here, todo')}
    BY <1>1 DEF InHand, LineEnds
  <2>2. \A i \in LineEnds(here, todo') : todo'[i] = c[off + i]
    BY <1>4
  <2>3. InHand(here)' = {c[off + i][1] : i \in LineEnds(here, todo')}
    BY <2>1, <2>2
  <2>4. Known(here)' = Range(handled[here]) \cup InHand(here)'
    BY <1>1 DEF Known
  <2>5. Checked(here)' = off + n
    BY <1>1, <1>5 DEF Checked
  <2> QED  BY <2>3, <2>4, <2>5
<1>9. FileInOrder(here) /\ Checked(here) <= off /\ Checked(here) \in Nat
  <2>1. FileInOrder(here)
    BY <1>2 DEF PollInv, FilesInOrder
  <2>2. off = offsets[here] \/ since[here] # rotations[here]
    BY <1>1 DEF PollInv, ReadsFromOffset
  <2> QED  BY <1>2, <2>1, <2>2 DEF Checked
<1>10. /\ Increasing(c) /\ \A i \in DOMAIN c : Written(here, c[i])
       /\ \A d \in Range(handled[here]) :
             /\ Written(here, <<d, Lengths[here][d]>>)
             /\ \A i \in LineEnds(here, c) : i > off => d < c[i][1]
  <2>1. \A i \in LineEnds(here, c) : i > off => i > Checked(here)
    BY <1>2, <1>9, LineEndsType
  <2> QED  BY <1>2, <1>6, <1>9, <2>1 DEF FileInOrder, c
<1>11. \A i \in LineEnds(here, todo') : /\ off + i \in LineEnds(here, c)
                                        /\ i \in 1..n /\ off + i > off /\ off + i <= off + n
  BY <1>2, <1>4
<1>12. FileInOrder(here)'
  <2>1. \A d \in InHand(here)' : Written(here, <<d, Lengths[here][d]>>)
    <3>1. SUFFICES ASSUME NEW i \in LineEnds(here, todo')
                   PROVE  Written(here, <<c[off + i][1], Lengths[here][c[off + i][1]]>>)
      BY <1>8
    <3>2. off + i \in LineEnds(here, c)
      BY <1>11
    <3>3. c[off + i] \in Piece(here) /\ EndsLine(here, c[off + i]) /\ off + i \in DOMAIN c
      BY <1>2, <3>2, LineEndsType
    <3> QED  BY <1>2, <1>10, <3>3, EndIsWhole
  <2>2. ASSUME NEW d \in InHand(here)', NEW j \in LineEnds(here, c), j > off + n
        PROVE  d < c[j][1]
    <3>1. PICK i \in LineEnds(here, todo') : d = c[off + i][1]
      BY <1>8, <2>2
    <3>2. off + i \in LineEnds(here, c) /\ off + i < j /\ j \in 1..Len(c)
      BY <1>2, <1>4, <1>11, <2>2, LineEndsType
    <3> QED  BY <1>2, <1>10, <3>1, <3>2, EndsIncrease
  <2>3. ASSUME NEW d \in Range(handled[here]), NEW j \in LineEnds(here, c), j > off + n
        PROVE  d < c[j][1]
    <3>1. j > off
      BY <1>2, <1>4, <2>3, LineEndsType
    <3> QED  BY <1>10, <3>1
  <2>4. content'[here] = c /\ last'[here] = last[here]
    BY <1>1 DEF c
  <2> QED  BY ZenonT(30), <1>4, <1>8, <1>10, <2>1, <2>2, <2>3, <2>4 DEF FileInOrder, Written, LineEnds
<1>13. FilesInOrder'
  <2>1. ASSUME NEW f \in File, f # here  PROVE FileInOrder(f)'
    <3>1. /\ FileInOrder(f) /\ content'[f] = content[f] /\ last'[f] = last[f]
          /\ Known(f)' = Known(f) /\ Checked(f)' = Checked(f)
      BY <1>1, <1>7, <2>1 DEF PollInv, FilesInOrder
    <3> QED  BY <3>1 DEF FileInOrder, Written, LineEnds
  <2> QED  BY <1>12, <2>1 DEF FilesInOrder
<1>14. HandInOrder'
  <2>1. Increasing(todo')
    <3>1. SUFFICES ASSUME NEW i \in 1..n, NEW j \in 1..n, i < j
                   PROVE  Before(todo'[i], todo'[j])
      BY <1>4 DEF Increasing
    <3>2. off + i \in DOMAIN c /\ off + j \in DOMAIN c /\ off + i < off + j
      <4>1. off + i \in 1..Len(c) /\ off + j \in 1..Len(c)
        BY <1>4
      <4>2. off + i < off + j
        BY <1>2, <1>4, <3>1
      <4> QED  BY <1>2, <4>1, <4>2, LineEndsType
    <3> QED  BY <1>4, <1>10, <3>2 DEF Increasing
  <2>2. \A d \in Range(handled[here]), l \in InHand(here)' : d < l
    BY <1>8, <1>10, <1>11
  <2> QED  BY <1>1, <2>1, <2>2 DEF HandInOrder
<1>15. HandledInOrder' /\ TornHandled' /\ ReadsFromOffset'
  BY <1>1 DEF PollInv, HandledInOrder, TornHandled, ReadsFromOffset
<1>16. NoLineSkipped'
  <2>1. SUFFICES ASSUME NEW f \in File, since'[f] = rotations[f], ~missed'[f],
                        NEW l \in CompleteLines(f, offsets[f])'
                 PROVE  l \in Known(f)' \/ <<f, l>> \in abandoned
    BY <1>1 DEF NoLineSkipped, Known
  <2>2. CASE f # here
    <3>1. l \in CompleteLines(f, offsets[f])
      BY <1>1, <1>5, <2>1, <2>2 DEF CompleteLines
    <3>2. since[f] = rotations[f] /\ ~missed[f] /\ Known(f)' = Known(f)
      BY <1>5, <1>7, <2>1, <2>2
    <3> QED  BY <3>1, <3>2 DEF PollInv, NoLineSkipped, Known
  <2>3. CASE f = here
    <3>1. l \in {c[i][1] : i \in {j \in LineEnds(here, c) : j <= off + n}}
      BY <1>1, <1>5, <2>1, <2>3 DEF CompleteLines, c
    <3>2. PICK i \in LineEnds(here, c) : i <= off + n /\ l = c[i][1]
      BY <3>1
    <3>3. i \in Nat
      BY <1>2, LineEndsType
    <3>4. CASE i > off
      <4>1. i - off \in 1..n /\ off + (i - off) = i
        BY <1>2, <1>4, <3>2, <3>3, <3>4
      <4>2. i - off \in LineEnds(here, todo')
        BY <1>4, <4>1
      <4> QED  BY <1>8, <2>3, <3>2, <4>1, <4>2
    <3>5. CASE i <= off
      <4>1. off > 0
        BY <1>2, <3>2, <3>3, <3>5, LineEndsType
      <4>2. since[here] = rotations[here] /\ ~missed[here]
        BY <1>5, <2>1, <2>3, <4>1
      <4>3. off = offsets[here]
        BY <1>1, <4>2 DEF PollInv, ReadsFromOffset
      <4>4. l \in CompleteLines(here, offsets[here])
        BY <3>2, <3>5, <4>3 DEF CompleteLines, c
      <4>5. l \in Range(handled[here]) \/ <<here, l>> \in abandoned
        BY <1>2, <1>6, <4>2, <4>4 DEF PollInv, NoLineSkipped
      <4> QED  BY <1>8, <2>3, <4>5
    <3> QED  BY <1>2, <3>3, <3>4, <3>5
  <2> QED  BY <2>2, <2>3
<1> QED  BY <1>13, <1>14, <1>15, <1>16 DEF PollInv

LEMMA RangeOfAppend ==
    ASSUME NEW S, NEW s \in Seq(S), NEW e \in S
    PROVE  Range(Append(s, e)) = Range(s) \cup {e}
BY AppendType DEF Range

(* What is in hand is the line that is cut off and the lines of the rest,  *)
(* which are later than it; those handled before are earlier.              *)
LEMMA HandIsCut ==
    ASSUME PollInv, at = "handle"
    PROVE  LET later == {Rest[i][1] : i \in LineEnds(file, Rest)}
           IN /\ InHand(file) = {LineNo} \cup later
              /\ \A l \in later : LineNo < l
              /\ \A d \in Range(handled[file]) : d < LineNo
              /\ Increasing(Rest)
<1>1. /\ file \in File /\ todo \in Seq(Piece(file)) /\ Increasing(todo) /\ PollType
      /\ \A d \in Range(handled[file]), l \in InHand(file) : d < l
  BY DEF PollInv, PollType, PollerTypeOK, HandInOrder
<1>2. /\ Cut \in LineEnds(file, todo) /\ Cut \in 1..Len(todo) /\ Len(todo) \in Nat
      /\ \A j \in LineEnds(file, todo) : Cut <= j
      /\ LineNo = todo[Cut][1]
      /\ Rest \in Seq(Piece(file)) /\ Len(Rest) = Len(todo) - Cut
      /\ \A i \in 1..Len(Rest) : Cut + i \in 1..Len(todo) /\ Rest[i] = todo[Cut + i]
  BY <1>1, LineType
<1>3. ASSUME NEW i \in LineEnds(file, Rest)
      PROVE  /\ Cut + i \in LineEnds(file, todo) /\ Rest[i] = todo[Cut + i]
             /\ LineNo < Rest[i][1]
  <2>1. i \in 1..Len(Rest) /\ i \in Nat /\ EndsLine(file, Rest[i]) /\ i > 0
    <3>1. file \in File /\ Rest \in Seq(Piece(file)) /\ i \in LineEnds(file, Rest)
      BY <1>1, <1>2, <1>3
    <3> QED  BY <3>1, LineEndsType
  <2>2. Cut + i \in 1..Len(todo) /\ Rest[i] = todo[Cut + i] /\ Cut < Cut + i
    <3>1. /\ Cut \in Nat
          /\ \A k \in 1..Len(Rest) :
                Cut + k \in 1..Len(todo) /\ Rest[k] = todo[Cut + k]
      <4>1. Cut \in 1..Len(todo) /\ Len(todo) \in Nat
        BY Zenon, <1>2
      <4>2. \A k \in 1..Len(Rest) :
               Cut + k \in 1..Len(todo) /\ Rest[k] = todo[Cut + k]
        BY Zenon, <1>2
      <4> QED  BY <4>1, <4>2
    <3>2. Cut + i \in 1..Len(todo) /\ Rest[i] = todo[Cut + i]
      BY <2>1, <3>1
    <3>3. Cut < Cut + i
      <4>1. \A a, b \in Nat : b > 0 => a < a + b
        OBVIOUS
      <4> QED  BY <2>1, <3>1, <4>1
    <3> QED  BY <3>2, <3>3
  <2>3. Cut + i \in LineEnds(file, todo)
    BY <1>1, <2>1, <2>2, LineEndsType
  <2>4. todo[Cut][1] < todo[Cut + i][1]
    BY <1>1, <1>2, <2>2, EndsIncrease
  <2> QED  BY <1>2, <2>2, <2>3, <2>4
<1>4. ASSUME NEW j \in LineEnds(file, todo), j # Cut
      PROVE  j - Cut \in LineEnds(file, Rest) /\ Rest[j - Cut] = todo[j]
  <2>1. j \in 1..Len(todo) /\ Cut < j /\ EndsLine(file, todo[j])
    BY <1>1, <1>2, <1>4, LineEndsType
  <2>2. j - Cut \in 1..Len(Rest) /\ Cut + (j - Cut) = j
    BY <1>2, <2>1
  <2>3. Rest[j - Cut] = todo[j]
    BY <1>2, <2>2
  <2> QED  BY <1>1, <1>2, <2>1, <2>2, <2>3, LineEndsType
<1>5. InHand(file) = {todo[j][1] : j \in LineEnds(file, todo)}
  BY DEF InHand
<1>6. InHand(file) = {LineNo} \cup {Rest[i][1] : i \in LineEnds(file, Rest)}
  <2> DEFINE later == {Rest[i][1] : i \in LineEnds(file, Rest)}
  <2>1. ASSUME NEW l \in InHand(file)  PROVE l \in {LineNo} \cup later
    <3>1. PICK j \in LineEnds(file, todo) : l = todo[j][1]
      BY <1>5, <2>1
    <3>2. CASE j = Cut
      BY <1>2, <3>1, <3>2
    <3>3. CASE j # Cut
      BY <1>4, <3>1, <3>3
    <3> QED  BY <3>2, <3>3
  <2>2. LineNo \in InHand(file)
    BY <1>2, <1>5
  <2>3. ASSUME NEW l \in later  PROVE l \in InHand(file)
    BY <1>3, <1>5, <2>3
  <2> QED  BY <2>1, <2>2, <2>3
<1>7. \A d \in Range(handled[file]) : d < LineNo
  BY <1>1, <1>6
<1>8. Increasing(Rest)
  <2>1. SUFFICES ASSUME NEW i \in 1..Len(Rest), NEW j \in 1..Len(Rest), i < j
                 PROVE  Before(Rest[i], Rest[j])
    BY <1>1, <1>2, LineEndsType DEF Increasing
  <2>2. /\ Cut + i \in 1..Len(todo) /\ Rest[i] = todo[Cut + i]
        /\ Cut + j \in 1..Len(todo) /\ Rest[j] = todo[Cut + j]
    BY <1>2
  <2>3. Cut + i < Cut + j
    BY <1>2, <2>1
  <2>4. DOMAIN todo = 1..Len(todo)
    BY <1>1, LineEndsType
  <2> QED  BY <1>1, <2>2, <2>3, <2>4 DEF Increasing
<1> QED  BY <1>3, <1>6, <1>7, <1>8

(* A line that is handled was in hand, after all that were handled before. *)
LEMMA HandleKeeps ==
    ASSUME PollInv, PollType', HandleLine
    PROVE  PollInv'
<1> PICK here \in File : here = file
  BY DEF PollInv, PollType, PollerTypeOK
<1> DEFINE later == {Rest[i][1] : i \in LineEnds(here, Rest)}
<1>1. /\ at = "handle" /\ at' # "read"
      /\ handled' = [handled EXCEPT ![here] = Append(@, LineNo)]
      /\ torn' = [torn EXCEPT ![here] = IF IsWhole THEN @ ELSE @ \cup {LineNo}]
      /\ todo' = Rest
      /\ todo' # << >> => file' = here
      /\ UNCHANGED <<content, last, rotations, offsets, since, off, abandoned, missed>>
  BY DEF HandleLine, Rest, Leave, fileVars
<1>2. /\ DOMAIN handled = File /\ DOMAIN torn = File
      /\ handled[here] \in Seq(1..NumLines(here)) /\ LineNo \in 1..NumLines(here)
      /\ NumLines(here) \in Nat
  <2>1. PollType
    BY DEF PollInv
  <2>2. LineNo \in 1..NumLines(here)
    BY <1>1, <2>1, LineType
  <2> QED  BY <2>1, <2>2, FileType DEF PollType, Keyed, PollerTypeOK
<1>3. /\ InHand(here) = {LineNo} \cup later
      /\ \A l \in later : LineNo < l
      /\ \A d \in Range(handled[here]) : d < LineNo
      /\ Increasing(Rest)
  BY <1>1, HandIsCut
<1>4. /\ handled'[here] = Append(handled[here], LineNo)
      /\ torn'[here] \subseteq torn[here] \cup {LineNo}
      /\ \A f \in File : f # here => handled'[f] = handled[f] /\ torn'[f] = torn[f]
  BY <1>1, <1>2
<1>5. Range(handled'[here]) = Range(handled[here]) \cup {LineNo}
  BY <1>2, <1>4, RangeOfAppend
<1>6. InHand(here)' = later /\ \A f \in File : f # here => InHand(f)' = {}
  <2>1. CASE todo' # << >>
    <3>1. file' = here /\ todo' = Rest
      BY <1>1, <2>1
    <3> QED  BY <3>1 DEF InHand, LineEnds
  <2>2. CASE todo' = << >>
    <3>1. \A f \in File : LineEnds(f, Rest) = {} /\ LineEnds(file, todo)' = {}
      BY <1>1, <2>2 DEF LineEnds
    <3> QED  BY <3>1 DEF InHand
  <2> QED  BY <2>1, <2>2
<1>7. \A f \in File : Known(f)' = Known(f) /\ Checked(f)' = Checked(f)
  <2>1. Known(here)' = Known(here)
    <3>1. Known(here)' = Range(handled'[here]) \cup InHand(here)'
      BY DEF Known
    <3> QED  BY <1>3, <1>5, <1>6, <3>1 DEF Known
  <2>2. ASSUME NEW f \in File, f # here  PROVE Known(f)' = Known(f)
    <3>1. InHand(f) = {}
      BY <2>2 DEF InHand
    <3>2. Known(f)' = Range(handled'[f]) \cup InHand(f)'
      BY DEF Known
    <3> QED  BY <1>4, <1>6, <2>2, <3>1, <3>2 DEF Known
  <2>3. \A f \in File : Checked(f)' = Checked(f)
    BY <1>1 DEF Checked
  <2> QED  BY <2>1, <2>2, <2>3
<1> HIDE DEF later
<1>8. FilesInOrder'
  <2>1. ASSUME NEW f \in File  PROVE FileInOrder(f)'
    <3>1. /\ FileInOrder(f) /\ content'[f] = content[f] /\ last'[f] = last[f]
          /\ Known(f)' = Known(f) /\ Checked(f)' = Checked(f)
      BY <1>1, <1>7 DEF PollInv, FilesInOrder
    <3> QED  BY <3>1 DEF FileInOrder, Written, LineEnds
  <2> QED  BY <2>1 DEF FilesInOrder
<1>9. HandInOrder'
  <2>1. CASE todo' # << >>
    <3>1. file' = here
      BY <1>1, <2>1
    <3>2. InHand(file)' = later /\ Range(handled[file])' = Range(handled[here]) \cup {LineNo}
      BY <1>5, <1>6, <3>1 DEF InHand
    <3>3. \A d \in Range(handled[here]) \cup {LineNo}, l \in later : d < l
      <4>1. SUFFICES ASSUME NEW d \in Range(handled[here]), NEW l \in later  PROVE d < l
        BY <1>3
      <4>2. d < LineNo /\ LineNo < l
        BY <1>3
      <4>3. d \in Nat /\ l \in Nat /\ LineNo \in Nat
        <5>1. PollType
          BY DEF PollInv
        <5>2. d \in Known(here) /\ l \in Known(here)
          BY <1>3 DEF Known
        <5> QED  BY <1>2, <5>1, <5>2, KnownType
      <4> QED  BY <4>2, <4>3
    <3> QED  BY <1>1, <1>3, <3>2, <3>3 DEF HandInOrder
  <2>2. CASE todo' = << >>
    <3>1. Increasing(todo') /\ InHand(file)' = {}
      BY <2>2 DEF Increasing, InHand, LineEnds
    <3> QED  BY <3>1 DEF HandInOrder
  <2> QED  BY <2>1, <2>2
<1>10. HandledInOrder'
  <2>1. ASSUME NEW i \in DOMAIN handled'[here], NEW j \in DOMAIN handled'[here], i < j
        PROVE  handled'[here][i] < handled'[here][j]
    <3> DEFINE h == handled[here]
    <3>1. /\ DOMAIN handled'[here] = 1..Len(h) + 1 /\ DOMAIN h = 1..Len(h)
          /\ handled'[here][Len(h) + 1] = LineNo /\ Len(h) \in Nat
          /\ \A m \in 1..Len(h) : handled'[here][m] = h[m]
      BY <1>2, <1>4, AppendType
    <3>2. \A m, n \in DOMAIN h : m < n => h[m] < h[n]
      BY DEF PollInv, HandledInOrder
    <3>3. \A m \in DOMAIN h : h[m] < LineNo
      BY <1>3 DEF Range
    <3> HIDE DEF h
    <3>4. i \in 1..Len(h)
      BY <2>1, <3>1
    <3>5. CASE j \in 1..Len(h)
      BY <2>1, <3>1, <3>2, <3>4, <3>5
    <3>6. CASE j = Len(h) + 1
      BY <3>1, <3>3, <3>4, <3>6
    <3> QED  BY <2>1, <3>1, <3>5, <3>6
  <2>2. ASSUME NEW f \in File, f # here
        PROVE  \A i, j \in DOMAIN handled'[f] : i < j => handled'[f][i] < handled'[f][j]
    BY <1>4, <2>2 DEF PollInv, HandledInOrder
  <2> QED  BY <2>1, <2>2 DEF HandledInOrder
<1>11. TornHandled'
  <2>1. ASSUME NEW f \in File  PROVE torn'[f] \subseteq Range(handled'[f])
    <3>1. torn[f] \subseteq Range(handled[f])
      BY DEF PollInv, TornHandled
    <3> QED  BY <1>4, <1>5, <3>1
  <2> QED  BY <2>1 DEF TornHandled
<1>12. ReadsFromOffset'
  BY <1>1 DEF ReadsFromOffset
<1>13. NoLineSkipped'
  <2>1. SUFFICES ASSUME NEW f \in File, since[f] = rotations[f], ~missed[f],
                        NEW l \in CompleteLines(f, offsets[f])'
                 PROVE  l \in Known(f)' \/ <<f, l>> \in abandoned
    BY <1>1 DEF NoLineSkipped, Known
  <2>2. l \in CompleteLines(f, offsets[f])
    BY <1>1, <2>1 DEF CompleteLines
  <2> QED  BY <1>7, <2>1, <2>2 DEF PollInv, NoLineSkipped, Known
<1> QED  BY <1>8, <1>9, <1>10, <1>11, <1>12, <1>13 DEF PollInv

LEMMA PollNextInv == PollInv /\ (PollerAction \/ UNCHANGED pollerVars) => PollInv'
<1> SUFFICES ASSUME PollInv, PollerAction \/ UNCHANGED pollerVars  PROVE PollInv'
  OBVIOUS
<1>1. PollType'
  BY PollNextType DEF PollInv
<1>2. CASE \E f \in File : WritePiece(f) \/ Rotate(f)
  BY <1>1, <1>2, WriteKeeps, RotateKeeps
<1>3. CASE StartScan \/ EndScan \/ StopPolling
  <2>1. /\ at # "handle" /\ at' # "read"
        /\ UNCHANGED <<fileVars, offsets, since, todo, historyVars>>
    BY <1>3 DEF StartScan, EndScan, StopPolling
  <2> QED  BY <1>1, <2>1, MoveKeeps
<1>4. CASE SkipFile
  <2>1. /\ at # "handle" /\ at' # "read"
        /\ UNCHANGED <<fileVars, offsets, since, todo, historyVars>>
    BY <1>4 DEF SkipFile, Leave
  <2> QED  BY <1>1, <2>1, MoveKeeps
<1>5. CASE Stat
  <2>1. at # "handle" /\ UNCHANGED <<fileVars, offsets, since, todo, historyVars>>
    BY <1>5 DEF Stat
  <2>2. /\ UNCHANGED <<offsets, since, rotations>>
        /\ at' = "read" => off' = Start(file) /\ file' = file
    BY <1>5 DEF Stat, Leave, fileVars
  <2>3. /\ file \in File /\ Len(content[file]) \in Nat /\ offsets[file] \in Nat
        /\ Checked(file) <= Len(content[file])
    <3>1. file \in File /\ content[file] \in Seq(Piece(file)) /\ offsets \in [File -> Nat]
      BY DEF PollInv, PollType, PollerTypeOK
    <3>2. FileInOrder(file)
      BY <3>1 DEF PollInv, FilesInOrder
    <3> QED  BY <3>1, <3>2 DEF FileInOrder
  <2>4. Start(file) = offsets[file] \/ since[file] # rotations[file]
    BY <2>3 DEF Start, Checked
  <2>5. at' = "read" => off' = offsets[file'] \/ since[file'] # rotations[file']
    BY <2>2, <2>4
  <2> QED  BY <1>1, <2>1, <2>5, MoveKeeps
<1>6. CASE Read
  <2>1. CASE Complete(file, Unread(content[file], off)) # 0
    BY <1>1, <1>6, <2>1, ReadKeeps
  <2>2. CASE Complete(file, Unread(content[file], off)) = 0
    <3>1. /\ at # "handle" /\ at' # "read"
          /\ UNCHANGED <<fileVars, offsets, since, todo, historyVars>>
      BY <1>6, <2>2 DEF Read, Leave, historyVars
    <3> QED  BY <1>1, <3>1, MoveKeeps
  <2> QED  BY <2>1, <2>2
<1>7. CASE HandleLine
  BY <1>1, <1>7, HandleKeeps
<1>8. CASE PanicInLine
  BY <1>1, <1>8, PanicKeeps
<1>9. CASE UNCHANGED pollerVars
  <2>1. UNCHANGED <<content, last, rotations, offsets, since, at, file, off, todo,
                    handled, torn, abandoned, missed>>
    BY <1>9 DEF pollerVars, fileVars, pollVars, historyVars
  <2>2. \A f \in File : /\ InHand(f)' = InHand(f) /\ Known(f)' = Known(f)
                        /\ Checked(f)' = Checked(f) /\ FileInOrder(f)' = FileInOrder(f)
    BY <2>1 DEF InHand, Known, LineEnds, Checked, FileInOrder, Written
  <2> QED
    BY <1>1, <2>1, <2>2 DEF PollInv, FilesInOrder, HandInOrder, HandledInOrder,
       TornHandled, ReadsFromOffset, NoLineSkipped, CompleteLines, InHand, LineEnds
<1> QED  BY <1>2, <1>3, <1>4, <1>5, <1>6, <1>7, <1>8, <1>9 DEF PollerAction

-----------------------------------------------------------------------------
(* The events on their way to ClickHouse. *)

(* The capped buffer keeps the last events, as they were. *)
LEMMA CapTailKeeps ==
    ASSUME NEW S, NEW s \in Seq(S)
    PROVE  LET cut == IF Len(s) <= MaxBuffer THEN 0 ELSE Len(s) - MaxBuffer
           IN /\ CapTail(s) \in Seq(S) /\ cut \in Nat
              /\ Len(CapTail(s)) = Len(s) - cut
              /\ cut # 0 => Len(CapTail(s)) = MaxBuffer
              /\ \A i \in 1..Len(CapTail(s)) : /\ cut + i \in 1..Len(s)
                                               /\ CapTail(s)[i] = s[cut + i]
              /\ Range(CapTail(s)) \subseteq Range(s)
              /\ \A i \in 1..Len(s) : i > cut => s[i] \in Range(CapTail(s))
<1> DEFINE t == CapTail(s)
<1> DEFINE cut == IF Len(s) <= MaxBuffer THEN 0 ELSE Len(s) - MaxBuffer
<1>1. MaxBuffer \in Nat /\ Len(s) \in Nat
  BY FeedAssumption
<1>2. /\ t \in Seq(S) /\ cut \in Nat /\ Len(t) = Len(s) - cut
      /\ cut # 0 => Len(t) = MaxBuffer
      /\ \A i \in 1..Len(t) : cut + i \in 1..Len(s) /\ t[i] = s[cut + i]
  <2>1. CASE Len(s) <= MaxBuffer
    BY <1>1, <2>1 DEF CapTail
  <2>2. CASE ~(Len(s) <= MaxBuffer)
    <3>1. /\ cut = Len(s) - MaxBuffer /\ cut \in Nat \ {0} /\ cut + 1 \in Nat \ {0}
          /\ t = SubSeq(s, cut + 1, Len(s))
      BY <1>1, <2>2 DEF CapTail
    <3> HIDE DEF t, cut
    <3>2. /\ t \in Seq(S)
          /\ Len(t) = IF cut + 1 <= Len(s) THEN Len(s) - (cut + 1) + 1 ELSE 0
          /\ \A i \in 1..Len(t) : /\ (cut + 1) + i - 1 \in 1..Len(s)
                                  /\ t[i] = s[(cut + 1) + i - 1]
      BY <1>1, <3>1, PartType
    <3>3. Len(t) = MaxBuffer /\ Len(t) = Len(s) - cut
      BY <1>1, <3>1, <3>2
    <3>4. \A i \in 1..Len(t) : (cut + 1) + i - 1 = cut + i
      BY <3>1
    <3> QED  BY <3>1, <3>2, <3>3, <3>4
  <2> QED  BY <2>1, <2>2
<1> HIDE DEF t, cut
<1>3. DOMAIN t = 1..Len(t) /\ DOMAIN s = 1..Len(s)
  BY <1>2
<1>4. Range(t) \subseteq Range(s)
  <2>1. SUFFICES ASSUME NEW i \in 1..Len(t)  PROVE t[i] \in Range(s)
    BY <1>3 DEF Range
  <2> QED  BY <1>2, <1>3 DEF Range
<1>5. ASSUME NEW i \in 1..Len(s), i > cut  PROVE s[i] \in Range(t)
  <2>1. i - cut \in 1..Len(t) /\ cut + (i - cut) = i
    BY <1>1, <1>2, <1>5
  <2>2. t[i - cut] = s[i]
    BY <1>2, <2>1
  <2> QED  BY <1>3, <2>1, <2>2 DEF Range
<1> QED  BY <1>2, <1>4, <1>5 DEF t, cut

LEMMA AddedType ==
    ASSUME PollType, at = "handle"
    PROVE  /\ Added \in Seq(Event) /\ <<file, LineNo>> \in Event
           /\ \/ IsWhole /\ <<file, LineNo>> \notin Ignored /\ Added = <<<<file, LineNo>>>>
              \/ (~IsWhole \/ <<file, LineNo>> \in Ignored) /\ Added = << >>
<1>1. file \in File /\ LineNo \in 1..NumLines(file)
  BY LineType DEF PollType, PollerTypeOK
<1>2. <<file, LineNo>> \in {file} \X (1..NumLines(file))
  BY <1>1
<1>3. <<file, LineNo>> \in Event
  BY <1>1, <1>2 DEF Event
<1> QED  BY <1>3, EmptyType DEF Added

(* Types. *)

FeedType == FeedTypeOK /\ Keyed

LEMMA FeedTypes == FeedType <=> /\ PollType
                                /\ buffers \in [Kinds -> Seq(Event)]
                                /\ stored \subseteq Event /\ shed \subseteq Event
                                /\ main \in {"serving", "flush", "check", "returned", "exited"}
                                /\ attempt \in 0..Attempts - 1
                                /\ cancelled \in BOOLEAN /\ reachable \in BOOLEAN
                                /\ outages \in 0..MaxOutages /\ failures \in 0..MaxFailures
BY DEF FeedType, FeedTypeOK, PollType

(* Each step of the composition does one of these to the poller and the    *)
(* writer.                                                                 *)
LEMMA FeedCases ==
    ASSUME [FeedNext]_feedVars
    PROVE  \/ Handle
           \/ Flush /\ (PollerAction \/ UNCHANGED pollerVars)
           \/ UNCHANGED writerVars /\ (PollerAction \/ UNCHANGED pollerVars)
<1> USE DEF PollerAction
<1>1. CASE BeginScan \/ StatFile \/ ReadFile \/ Panic \/ StopPoller \/ FileFails
  BY <1>1 DEF BeginScan, StatFile, ReadFile, Panic, StopPoller, FileFails, Poll
<1>2. CASE FlushAfterScan
  BY <1>2 DEF FlushAfterScan
<1>3. CASE FinalFlush
  BY <1>3 DEF FinalFlush
<1>4. CASE StartFinalFlush \/ FinalFlushReturns \/ FinalFlushRetries \/ Exit
  BY <1>4 DEF StartFinalFlush, FinalFlushReturns, FinalFlushRetries, Exit
<1>5. CASE Log \/ Cancel \/ Outage \/ Recover
  BY <1>5 DEF Log, Cancel, Outage, Recover
<1>6. CASE ProcessEnded \/ UNCHANGED feedVars
  BY <1>6 DEF ProcessEnded, feedVars
<1> QED  BY <1>1, <1>2, <1>3, <1>4, <1>5, <1>6 DEF FeedNext, PollerStep, MainStep

(* What the steps do to the rest of the state. *)
LEMMA WorldType ==
    ASSUME FeedType, [FeedNext]_feedVars
    PROVE  /\ main' \in {"serving", "flush", "check", "returned", "exited"}
           /\ attempt' \in 0..Attempts - 1
           /\ cancelled' \in BOOLEAN /\ reachable' \in BOOLEAN
           /\ outages' \in 0..MaxOutages /\ failures' \in 0..MaxFailures
<1> USE DEF FeedType, FeedTypeOK, mainVars, worldVars
<1>0. Attempts \in Nat \ {0} /\ MaxOutages \in Nat /\ MaxFailures \in Nat
  BY FeedAssumption
<1>1. CASE BeginScan \/ StatFile \/ ReadFile \/ Panic \/ StopPoller
  BY <1>1 DEF BeginScan, StatFile, ReadFile, Panic, StopPoller, Poll
<1>2. CASE FileFails
  BY <1>0, <1>2 DEF FileFails
<1>3. CASE Handle \/ FlushAfterScan
  BY <1>3 DEF Handle, FlushAfterScan
<1>4. CASE StartFinalFlush \/ FinalFlush \/ FinalFlushReturns \/ Exit
  BY <1>4 DEF StartFinalFlush, FinalFlush, FinalFlushReturns, Exit
<1>5. CASE FinalFlushRetries
  BY <1>0, <1>5 DEF FinalFlushRetries, LastAttempt
<1>6. CASE Log \/ Cancel \/ Recover
  BY <1>6 DEF Log, Cancel, Recover
<1>7. CASE Outage
  <2>1. /\ outages < MaxOutages /\ outages' = outages + 1 /\ reachable' = FALSE
        /\ UNCHANGED <<main, attempt, cancelled, failures>>
    BY <1>7 DEF Outage
  <2>2. outages' \in 0..MaxOutages
    BY <1>0, <2>1
  <2> QED  BY <2>1, <2>2
<1>8. CASE ProcessEnded \/ UNCHANGED feedVars
  BY <1>8 DEF ProcessEnded, feedVars
<1> QED
  BY <1>1, <1>2, <1>3, <1>4, <1>5, <1>6, <1>7, <1>8 DEF FeedNext, PollerStep, MainStep

(* A flush, with what it inserted: the buffers of those kinds are empty    *)
(* and their events stored, the others are capped and the excess dropped.  *)
Flushed(ok) ==
    /\ ok \subseteq Kinds
    /\ buffers' = [k \in Kinds |-> IF k \in ok THEN << >> ELSE CapTail(buffers[k])]
    /\ stored' = stored \cup UNION {Range(buffers[k]) : k \in ok}
    /\ shed' = shed \cup UNION {Range(buffers[k]) \ Range(CapTail(buffers[k])) :
                                  k \in Kinds \ ok}

LEMMA FlushIsFlushed == Flush => \E ok : Flushed(ok)
<1> SUFFICES ASSUME Flush  PROVE \E ok : Flushed(ok)
  OBVIOUS
<1>1. PICK answered \in SUBSET Kinds :
        LET ok == Inserted(answered)
        IN /\ buffers' = [k \in Kinds |-> LeftOver(k, ok)]
           /\ stored' = stored \cup UNION {Range(buffers[k]) : k \in ok}
           /\ shed' = shed \cup UNION {Range(buffers[k]) \ Range(CapTail(buffers[k])) :
                                         k \in Kinds \ ok}
  <2>1. (IF reachable THEN {Kinds} ELSE SUBSET Kinds) \subseteq SUBSET Kinds
    OBVIOUS
  <2> QED  BY <2>1 DEF Flush
<1>2. Inserted(answered) \subseteq Kinds
  BY DEF Inserted
<1>3. Flushed(Inserted(answered))
  BY <1>1, <1>2 DEF Flushed, LeftOver
<1> QED  BY <1>3

LEMMA FeedInitType == FeedInit => FeedType
<1> SUFFICES ASSUME FeedInit  PROVE FeedType
  OBVIOUS
<1>1. PollType
  BY PollInitType DEF FeedInit
<1>2. buffers \in [Kinds -> Seq(Event)]
  BY EmptyType DEF FeedInit
<1>3. /\ 0 \in 0..Attempts - 1 /\ 0 \in 0..MaxOutages /\ 0 \in 0..MaxFailures
  BY FeedAssumption
<1> QED  BY <1>1, <1>2, <1>3, FeedTypes DEF FeedInit

LEMMA FeedNextType == FeedType /\ [FeedNext]_feedVars => FeedType'
<1> SUFFICES ASSUME FeedType, [FeedNext]_feedVars  PROVE FeedType'
  OBVIOUS
<1>1. /\ PollType /\ buffers \in [Kinds -> Seq(Event)]
      /\ stored \subseteq Event /\ shed \subseteq Event
  BY FeedTypes
<1>2. PollType'
  BY <1>1, FeedCases, PollNextType DEF Handle, PollerAction
<1>3. /\ buffers' \in [Kinds -> Seq(Event)]
      /\ stored' \subseteq Event /\ shed' \subseteq Event
  <2>1. CASE Handle
    <3>1. /\ buffers' = [buffers EXCEPT ![KindOf[file]] = @ \o Added]
          /\ UNCHANGED <<stored, shed>> /\ at = "handle"
      BY <2>1 DEF Handle, HandleLine
    <3>2. Added \in Seq(Event) /\ file \in File
      BY <1>1, <3>1, AddedType DEF PollType, PollerTypeOK
    <3>3. KindOf[file] \in Kinds
      BY <3>2, FeedAssumption
    <3>4. buffers[KindOf[file]] \o Added \in Seq(Event)
      BY <1>1, <3>2, <3>3, ConcatProperties
    <3> QED  BY <1>1, <3>1, <3>4
  <2>2. CASE Flush
    <3>1. PICK ok : Flushed(ok)
      BY <2>2, FlushIsFlushed
    <3>2. ASSUME NEW k \in Kinds
          PROVE  /\ CapTail(buffers[k]) \in Seq(Event)
                 /\ Range(buffers[k]) \subseteq Event
      BY <1>1, CapTailKeeps, RangeOfSeq
    <3>3. buffers' \in [Kinds -> Seq(Event)]
      BY <3>1, <3>2, EmptyType DEF Flushed
    <3>4. stored' \subseteq Event
      BY <1>1, <3>1, <3>2 DEF Flushed
    <3>5. shed' \subseteq Event
      BY <1>1, <3>1, <3>2 DEF Flushed
    <3> QED  BY <3>3, <3>4, <3>5
  <2>3. CASE UNCHANGED writerVars
    BY <1>1, <2>3 DEF writerVars
  <2> QED  BY <2>1, <2>2, <2>3, FeedCases
<1>4. /\ main' \in {"serving", "flush", "check", "returned", "exited"}
      /\ attempt' \in 0..Attempts - 1
      /\ cancelled' \in BOOLEAN /\ reachable' \in BOOLEAN
      /\ outages' \in 0..MaxOutages /\ failures' \in 0..MaxFailures
  BY WorldType
<1> QED  BY <1>2, <1>3, <1>4 DEF FeedType, FeedTypeOK, PollType

(* Type correctness of the poller and the event writers, for any files,    *)
(* lines, rotations and read sizes: nothing is handed on that is not a     *)
(* line of its file, a read ends at the end of a line, and FinalFlush      *)
(* stays within its attempts (filepoller.go, identity.go:377-489).         *)
THEOREM FeedTypeCorrect == FeedSpec => []FeedTypeOK
<1>1. FeedType => FeedTypeOK
  BY DEF FeedType
<1> QED  BY <1>1, FeedInitType, FeedNextType, PTL DEF FeedSpec

LEMMA FeedPollInit == FeedInit => PollInv
BY PollInitInv DEF FeedInit

LEMMA FeedPollNext == PollInv /\ [FeedNext]_feedVars => PollInv'
BY FeedCases, PollNextInv DEF Handle, PollerAction

(* A line is handled at most once, and after the lines before it, in every *)
(* order of writes, rotations, bounded reads, failures and panics          *)
(* (readAppendedFile's comment, filepoller.go:47-53).                      *)
THEOREM LinesAreHandledInOrder == FeedSpec => []HandledInOrder
<1>1. PollInv => HandledInOrder
  BY DEF PollInv
<1> QED  BY <1>1, FeedPollInit, FeedPollNext, PTL DEF FeedSpec

(* The offset passes no line that was not read, unless a panic took it or  *)
(* a rotation went unnoticed (filepoller.go:61, 85-91).                    *)
THEOREM OffsetSkipsNoLine == FeedSpec => []NoLineSkipped
<1>1. PollInv => NoLineSkipped
  BY DEF PollInv
<1> QED  BY <1>1, FeedPollInit, FeedPollNext, PTL DEF FeedSpec

-----------------------------------------------------------------------------
(* The events: the inductive invariant of the composition. *)

(* The events of one file stand in a buffer in the order of its lines. *)
InLineOrder(s) ==
    \A i, j \in DOMAIN s : i < j /\ s[i][1] = s[j][1] => s[i][2] < s[j][2]

FeedInv ==
    /\ FeedType /\ PollInv
    /\ \A k \in Kinds : InLineOrder(buffers[k])
    /\ EventsInOnePlace

LEMMA EventType ==
    ASSUME NEW e \in Event
    PROVE  e = <<e[1], e[2]>> /\ e[1] \in File /\ e[2] \in Nat
<1>1. PICK f \in File : e \in {f} \X (1..NumLines(f))
  BY DEF Event
<1>2. NumLines(f) \in Nat
  BY FileType
<1> QED  BY <1>1, <1>2

LEMMA LineOrderInjective ==
    ASSUME NEW s \in Seq(Event), InLineOrder(s)
    PROVE  IsInjective(s)
<1>1. SUFFICES ASSUME NEW i \in 1..Len(s), NEW j \in 1..Len(s), s[i] = s[j]
               PROVE  i = j
  BY DEF IsInjective
<1>2. s[i] \in Event /\ s[j] \in Event /\ i \in DOMAIN s /\ j \in DOMAIN s
  OBVIOUS
<1>3. s[i][2] \in Nat
  BY <1>2, EventType
<1>4. ~(i < j) /\ ~(j < i)
  BY <1>1, <1>2, <1>3 DEF InLineOrder
<1> QED  BY <1>4

LEMMA CapTailOrder ==
    ASSUME NEW s \in Seq(Event), InLineOrder(s)
    PROVE  /\ InLineOrder(CapTail(s))
           /\ \A e \in Range(s) \ Range(CapTail(s)) :
                 /\ Len(CapTail(s)) = MaxBuffer
                 /\ \A d \in Range(CapTail(s)) : d[1] = e[1] => d[2] > e[2]
<1> DEFINE t == CapTail(s)
<1> DEFINE cut == IF Len(s) <= MaxBuffer THEN 0 ELSE Len(s) - MaxBuffer
<1>1. /\ t \in Seq(Event) /\ cut \in Nat /\ Len(t) = Len(s) - cut
      /\ cut # 0 => Len(t) = MaxBuffer
      /\ \A i \in 1..Len(t) : cut + i \in 1..Len(s) /\ t[i] = s[cut + i]
      /\ \A i \in 1..Len(s) : i > cut => s[i] \in Range(t)
  BY CapTailKeeps
<1> HIDE DEF t, cut
<1>2. DOMAIN t = 1..Len(t) /\ DOMAIN s = 1..Len(s) /\ Len(s) \in Nat /\ Len(t) \in Nat
  BY <1>1
<1>3. InLineOrder(t)
  <2>1. SUFFICES ASSUME NEW i \in 1..Len(t), NEW j \in 1..Len(t), i < j, t[i][1] = t[j][1]
                 PROVE  t[i][2] < t[j][2]
    BY <1>2 DEF InLineOrder
  <2>2. cut + i \in 1..Len(s) /\ cut + j \in 1..Len(s) /\ cut + i < cut + j
    BY <1>1, <2>1
  <2>3. t[i] = s[cut + i] /\ t[j] = s[cut + j]
    BY <1>1
  <2> QED  BY <1>2, <2>1, <2>2, <2>3 DEF InLineOrder
<1>4. ASSUME NEW e \in Range(s), e \notin Range(t)
      PROVE  Len(t) = MaxBuffer /\ \A d \in Range(t) : d[1] = e[1] => d[2] > e[2]
  <2>1. PICK i \in 1..Len(s) : s[i] = e
    BY <1>2, <1>4 DEF Range
  <2>2. i <= cut
    BY <1>1, <1>4, <2>1
  <2>3. cut # 0
    BY <1>1, <2>1, <2>2
  <2>4. ASSUME NEW d \in Range(t), d[1] = e[1]  PROVE d[2] > e[2]
    <3>1. PICK j \in 1..Len(t) : t[j] = d
      BY <1>2, <2>4 DEF Range
    <3>2. cut + j \in 1..Len(s) /\ d = s[cut + j] /\ i < cut + j
      BY <1>1, <2>1, <2>2, <3>1
    <3>3. s[i][2] < s[cut + j][2]
      BY <1>2, <2>1, <2>4, <3>2 DEF InLineOrder
    <3>4. s[i][2] \in Nat /\ s[cut + j][2] \in Nat
      BY <2>1, <3>2, EventType
    <3> QED  BY <2>1, <3>2, <3>3, <3>4
  <2> QED  BY <1>1, <2>3, <2>4
<1> QED  BY <1>3, <1>4 DEF t

LEMMA FeedInitInv == FeedInit => FeedInv
<1> SUFFICES ASSUME FeedInit  PROVE FeedInv
  OBVIOUS
<1>1. FeedType /\ PollInv
  BY FeedInitType, FeedPollInit
<1>2. /\ \A k \in Kinds : buffers[k] = << >> /\ Range(buffers[k]) = {}
      /\ stored = {} /\ shed = {}
  BY DEF FeedInit, Range
<1>3. \A f \in File : Range(handled[f]) = {}
  BY DEF FeedInit, PollerInit, Range
<1>4. Accepted = {}
  BY <1>3 DEF Accepted
<1>5. \A k \in Kinds : InLineOrder(buffers[k]) /\ IsInjective(buffers[k])
  BY <1>2 DEF InLineOrder, IsInjective
<1>6. EventsInOnePlace
  BY <1>2, <1>4, <1>5 DEF EventsInOnePlace, Buffered
<1> QED  BY <1>1, <1>5, <1>6 DEF FeedInv

(* A flush moves events from the buffers to what is stored or dropped. *)
LEMMA FlushKeeps ==
    ASSUME FeedInv, FeedType', PollInv', Accepted' = Accepted, NEW ok, Flushed(ok)
    PROVE  FeedInv'
<1>1. /\ buffers \in [Kinds -> Seq(Event)]
      /\ \A k \in Kinds : buffers[k] \in Seq(Event) /\ InLineOrder(buffers[k])
      /\ \A k \in Kinds : /\ \A e \in Range(buffers[k]) : KindOf[e[1]] = k
                          /\ Range(buffers[k]) \cap (stored \cup shed) = {}
      /\ stored \cap shed = {}
      /\ Accepted = (UNION {Range(buffers[k]) : k \in Kinds}) \cup stored \cup shed
  BY DEF FeedInv, FeedType, FeedTypeOK, EventsInOnePlace, Buffered
<1> DEFINE out(k) == Range(buffers[k]) \ Range(CapTail(buffers[k]))
<1>2. ASSUME NEW k \in Kinds
      PROVE  /\ InLineOrder(CapTail(buffers[k]))
             /\ Range(CapTail(buffers[k])) \subseteq Range(buffers[k])
  BY <1>1, CapTailKeeps, CapTailOrder
<1>3. /\ ok \subseteq Kinds
      /\ \A k \in Kinds : /\ k \in ok => buffers'[k] = << >>
                          /\ k \notin ok => buffers'[k] = CapTail(buffers[k])
      /\ stored' = stored \cup UNION {Range(buffers[k]) : k \in ok}
      /\ shed' = shed \cup UNION {out(k) : k \in Kinds \ ok}
  BY DEF Flushed
<1>4. Range(<< >>) = {}
  BY DEF Range
<1>5. ASSUME NEW k \in Kinds
      PROVE  /\ InLineOrder(buffers'[k])
             /\ buffers'[k] \in Seq(Event)
             /\ k \in ok => Range(buffers'[k]) = {}
             /\ k \notin ok => Range(buffers'[k]) = Range(CapTail(buffers[k]))
             /\ Range(buffers'[k]) \subseteq Range(buffers[k])
  <2>1. InLineOrder(<< >>)
    BY DEF InLineOrder
  <2>2. buffers'[k] \in Seq(Event)
    BY DEF FeedType, FeedTypeOK
  <2> QED  BY <1>2, <1>3, <1>4, <2>1, <2>2
<1> HIDE DEF out
<1>6. \A k \in Kinds : out(k) \subseteq Range(buffers[k])
  BY DEF out
<1>7. \A k \in Kinds : Range(buffers'[k]) \cap (stored' \cup shed') = {}
  <2>1. SUFFICES ASSUME NEW k \in Kinds, NEW e \in Range(buffers'[k])
                 PROVE  e \notin stored' /\ e \notin shed'
    OBVIOUS
  <2>2. e \in Range(buffers[k]) /\ KindOf[e[1]] = k /\ e \notin stored /\ e \notin shed
    BY <1>1, <1>5
  <2>3. k \notin ok /\ e \in Range(CapTail(buffers[k])) /\ e \notin out(k)
    BY <1>5, <2>1 DEF out
  <2>4. ASSUME NEW j \in Kinds, e \in Range(buffers[j])  PROVE j = k
    BY <1>1, <2>2, <2>4
  <2>5. e \notin UNION {Range(buffers[j]) : j \in ok}
    BY <1>3, <2>3, <2>4
  <2>6. e \notin UNION {out(j) : j \in Kinds \ ok}
    BY <1>6, <2>3, <2>4
  <2> QED  BY <1>3, <2>2, <2>5, <2>6
<1>8. stored' \cap shed' = {}
  <2>1. SUFFICES ASSUME NEW e \in stored', e \in shed'  PROVE FALSE
    OBVIOUS
  <2>2. CASE e \in stored
    <3>1. PICK j \in Kinds \ ok : e \in out(j)
      BY <1>1, <1>3, <2>1, <2>2
    <3> QED  BY <1>1, <1>6, <2>2, <3>1
  <2>3. CASE \E k \in ok : e \in Range(buffers[k])
    <3>1. PICK k \in ok : e \in Range(buffers[k])
      BY <2>3
    <3>2. k \in Kinds /\ e \notin shed
      BY <1>1, <1>3, <3>1
    <3>3. PICK j \in Kinds \ ok : e \in out(j)
      BY <1>3, <2>1, <3>2
    <3>4. j = k
      BY <1>1, <1>6, <3>1, <3>2, <3>3
    <3> QED  BY <3>1, <3>3, <3>4
  <2> QED  BY <1>3, <2>2, <2>3
<1>9. Accepted = (UNION {Range(buffers'[k]) : k \in Kinds}) \cup stored' \cup shed'
  <2>1. ASSUME NEW e \in Accepted
        PROVE  e \in (UNION {Range(buffers'[k]) : k \in Kinds}) \cup stored' \cup shed'
    <3>1. CASE e \in stored \cup shed
      BY <1>3, <3>1
    <3>2. CASE \E k \in Kinds : e \in Range(buffers[k])
      <4>1. PICK k \in Kinds : e \in Range(buffers[k])
        BY <3>2
      <4>2. CASE k \in ok
        BY <1>3, <4>1, <4>2
      <4>3. CASE k \notin ok /\ e \in Range(CapTail(buffers[k]))
        BY <1>5, <4>1, <4>3
      <4>4. CASE k \notin ok /\ e \notin Range(CapTail(buffers[k]))
        BY <1>3, <4>1, <4>4 DEF out
      <4> QED  BY <4>2, <4>3, <4>4
    <3> QED  BY <1>1, <2>1, <3>1, <3>2
  <2>2. UNION {Range(buffers'[k]) : k \in Kinds} \subseteq Accepted
    BY <1>1, <1>5
  <2>3. stored' \subseteq Accepted
    BY <1>1, <1>3
  <2>4. shed' \subseteq Accepted
    BY <1>1, <1>3, <1>6
  <2> QED  BY <2>1, <2>2, <2>3, <2>4
<1>10. EventsInOnePlace'
  <2>1. ASSUME NEW k \in Kinds
        PROVE  /\ IsInjective(buffers'[k])
               /\ \A e \in Range(buffers'[k]) : KindOf[e[1]] = k
    BY <1>1, <1>5, LineOrderInjective
  <2> QED  BY <1>7, <1>8, <1>9, <2>1 DEF EventsInOnePlace, Buffered
<1> QED  BY <1>5, <1>10 DEF FeedInv

LEMMA AcceptedWasHandled ==
    ASSUME NEW e \in Accepted
    PROVE  e[1] \in File /\ e[2] \in Range(handled[e[1]])
<1>1. PICK f \in File : e \in {<<f, l>> : l \in Range(handled[f]) \ torn[f]}
  BY DEF Accepted
<1> QED  BY <1>1

(* Handling a line accepts its event, if it gives one. *)
LEMMA HandleAccepts ==
    ASSUME FeedInv, HandleLine
    PROVE  /\ Accepted' = Accepted \cup Range(Added)
           /\ \A e \in Range(Added) : e \notin Accepted
<1> PICK here \in File : here = file
  BY DEF FeedInv, PollInv, PollType, PollerTypeOK
<1>1. /\ at = "handle" /\ PollInv /\ PollType
      /\ handled' = [handled EXCEPT ![here] = Append(@, LineNo)]
      /\ torn' = [torn EXCEPT ![here] = IF IsWhole THEN @ ELSE @ \cup {LineNo}]
  BY DEF HandleLine, FeedInv, PollInv
<1>2. /\ DOMAIN handled = File /\ DOMAIN torn = File
      /\ handled[here] \in Seq(1..NumLines(here)) /\ LineNo \in 1..NumLines(here)
  <2>1. LineNo \in 1..NumLines(here)
    BY <1>1, LineType
  <2> QED  BY <1>1, <2>1 DEF PollType, Keyed, PollerTypeOK
<1>3. LineNo \notin Range(handled[here]) /\ LineNo \notin torn[here]
  <2>1. \A d \in Range(handled[here]) : d < LineNo /\ d \in Nat
    BY <1>1, HandIsCut, KnownType DEF Known
  <2>2. torn[here] \subseteq Range(handled[here])
    BY <1>1 DEF PollInv, TornHandled
  <2>3. ~(LineNo < LineNo)
    BY <1>2, FileType
  <2> QED  BY <2>1, <2>2, <2>3
<1>4. /\ Range(handled'[here]) = Range(handled[here]) \cup {LineNo}
      /\ torn'[here] = IF IsWhole THEN torn[here] ELSE torn[here] \cup {LineNo}
      /\ \A f \in File : f # here => handled'[f] = handled[f] /\ torn'[f] = torn[f]
  <2>1. handled'[here] = Append(handled[here], LineNo)
    BY <1>1, <1>2
  <2>2. Range(handled'[here]) = Range(handled[here]) \cup {LineNo}
    <3>1. Range(Append(handled[here], LineNo)) = Range(handled[here]) \cup {LineNo}
      <4> DEFINE S == 1..NumLines(here)
      <4>1. handled[here] \in Seq(S) /\ LineNo \in S
        BY <1>2
      <4> HIDE DEF S
      <4> QED  BY <4>1, RangeOfAppend
    <3> QED  BY <2>1, <3>1
  <2> QED  BY <1>1, <1>2, <2>2
<1> DEFINE good(f) == Range(handled[f]) \ torn[f]
<1> DEFINE more == IF IsWhole THEN {LineNo} ELSE {}
<1>5. /\ Range(handled'[here]) \ torn'[here] = good(here) \cup more
      /\ \A f \in File : f # here => Range(handled'[f]) \ torn'[f] = good(f)
  BY <1>3, <1>4
<1>6. Range(Added) = {<<here, l>> : l \in more} \ Ignored
  <2>1. CASE IsWhole /\ <<here, LineNo>> \notin Ignored
    <3>1. Added = <<<<here, LineNo>>>>
      BY <2>1 DEF Added
    <3>2. Range(Added) = {<<here, LineNo>>}
      BY <3>1 DEF Range
    <3> QED  BY <2>1, <3>2
  <2>2. CASE ~(IsWhole /\ <<here, LineNo>> \notin Ignored)
    <3>1. Range(Added) = {}
      BY <2>2 DEF Added, Range
    <3> QED  BY <2>2, <3>1
  <2> QED  BY <2>1, <2>2
<1>7. Accepted = (UNION {{<<f, l>> : l \in good(f)} : f \in File}) \ Ignored
  BY DEF Accepted
<1>8. Accepted' = (UNION {{<<f, l>> : l \in Range(handled'[f]) \ torn'[f]} : f \in File}) \ Ignored
  BY DEF Accepted
<1> HIDE DEF good, more
<1>9. ASSUME NEW e
      PROVE  e \in Accepted' <=> e \in Accepted \cup Range(Added)
  <2>1. e \in Accepted' <=> /\ e \notin Ignored
                            /\ \E f \in File : \E l \in Range(handled'[f]) \ torn'[f] : e = <<f, l>>
    BY <1>8
  <2>2. e \in Accepted <=> /\ e \notin Ignored
                           /\ \E f \in File : \E l \in good(f) : e = <<f, l>>
    BY <1>7
  <2>3. e \in Range(Added) <=> e \notin Ignored /\ \E l \in more : e = <<here, l>>
    BY <1>6
  <2>4. (\E f \in File : \E l \in Range(handled'[f]) \ torn'[f] : e = <<f, l>>)
          <=> (\E f \in File : \E l \in good(f) : e = <<f, l>>) \/ (\E l \in more : e = <<here, l>>)
    BY <1>5
  <2> QED  BY <2>1, <2>2, <2>3, <2>4
<1>10. ASSUME NEW e \in Range(Added)  PROVE e \notin Accepted
  <2>1. e = <<here, LineNo>>
    BY <1>6 DEF more
  <2>2. e[1] = here /\ e[2] = LineNo
    BY <2>1
  <2> QED  BY <1>3, <2>2, AcceptedWasHandled
<1> QED  BY <1>9, <1>10

LEMMA HandleEventKeeps ==
    ASSUME FeedInv, FeedType', PollInv', Handle
    PROVE  FeedInv'
<1> PICK here \in File : here = file
  BY DEF FeedInv, PollInv, PollType, PollerTypeOK
<1> DEFINE kind == KindOf[here]
<1>1. /\ HandleLine /\ at = "handle"
      /\ buffers' = [buffers EXCEPT ![kind] = @ \o Added]
      /\ UNCHANGED <<stored, shed>>
  BY DEF Handle, HandleLine
<1>2. /\ buffers \in [Kinds -> Seq(Event)] /\ kind \in Kinds /\ PollInv /\ PollType
      /\ \A k \in Kinds : InLineOrder(buffers[k])
      /\ \A k \in Kinds : /\ \A e \in Range(buffers[k]) : KindOf[e[1]] = k
                          /\ Range(buffers[k]) \cap (stored \cup shed) = {}
      /\ stored \cap shed = {}
      /\ Accepted = (UNION {Range(buffers[k]) : k \in Kinds}) \cup stored \cup shed
  BY FeedAssumption DEF FeedInv, PollInv, FeedType, FeedTypeOK, EventsInOnePlace, Buffered
<1> HIDE DEF kind
<1>3. Added \in Seq(Event) /\ Accepted' = Accepted \cup Range(Added)
      /\ \A e \in Range(Added) : e \notin Accepted
  BY <1>1, <1>2, AddedType, HandleAccepts
<1>4. /\ buffers'[kind] = buffers[kind] \o Added
      /\ \A k \in Kinds : k # kind => buffers'[k] = buffers[k]
  BY <1>1, <1>2
<1>5. Range(buffers'[kind]) = Range(buffers[kind]) \cup Range(Added)
  BY <1>2, <1>3, <1>4, RangeConcatenation
<1>6. CASE Added = << >>
  <2>1. buffers' = buffers
    <3>1. buffers[kind] \o Added = buffers[kind]
      BY <1>2, <1>6, ConcatEmptySeq
    <3> QED  BY <1>1, <1>2, <3>1
  <2>2. Range(Added) = {}
    BY <1>6 DEF Range
  <2>3. Accepted' = Accepted /\ UNCHANGED <<buffers, stored, shed>>
    BY <1>1, <1>3, <2>1, <2>2
  <2>4. EventsInOnePlace'
    BY <2>3 DEF FeedInv, EventsInOnePlace, Buffered
  <2> QED  BY <2>3, <2>4 DEF FeedInv
<1>7. CASE Added = <<<<here, LineNo>>>>
  <2> DEFINE e == <<here, LineNo>>
  <2> DEFINE s == buffers[kind]
  <2>1. e \in Event /\ Range(Added) = {e} /\ KindOf[e[1]] = kind /\ e[1] = here /\ e[2] = LineNo
    <3>1. e \in Event
      BY <1>1, <1>2, AddedType
    <3>2. Range(<<e>>) = {e}
      BY DEF Range
    <3> QED  BY <1>7, <3>1, <3>2 DEF kind
  <2>2. /\ s \in Seq(Event) /\ InLineOrder(s) /\ Len(s) \in Nat /\ DOMAIN s = 1..Len(s)
        /\ Len(s \o Added) = Len(s) + 1 /\ DOMAIN (s \o Added) = 1..Len(s) + 1
        /\ (s \o Added)[Len(s) + 1] = e
        /\ \A i \in 1..Len(s) : (s \o Added)[i] = s[i]
    <3>1. s \in Seq(Event) /\ InLineOrder(s) /\ Len(s) \in Nat /\ DOMAIN s = 1..Len(s)
      BY <1>2
    <3>2. s \o Added = Append(s, e)
      BY <1>7, <2>1, <3>1, AppendIsConcat
    <3> QED  BY <2>1, <3>1, <3>2, AppendType
  <2>3. \A d \in Range(s) : d[1] = here => d[2] < LineNo
    <3>1. SUFFICES ASSUME NEW d \in Range(s), d[1] = here  PROVE d[2] < LineNo
      OBVIOUS
    <3>2. d \in Accepted
      BY <1>2
    <3>3. d[2] \in Range(handled[here])
      BY <3>1, <3>2, AcceptedWasHandled
    <3> QED  BY <1>1, <1>2, <3>3, HandIsCut
  <2> HIDE DEF e, s
  <2>4. InLineOrder(s \o Added)
    <3>1. SUFFICES ASSUME NEW i \in 1..Len(s) + 1, NEW j \in 1..Len(s) + 1, i < j,
                          (s \o Added)[i][1] = (s \o Added)[j][1]
                   PROVE  (s \o Added)[i][2] < (s \o Added)[j][2]
      BY <2>2 DEF InLineOrder
    <3>2. i \in 1..Len(s)
      BY <2>2, <3>1
    <3>3. CASE j \in 1..Len(s)
      BY <2>2, <3>1, <3>2, <3>3 DEF InLineOrder
    <3>4. CASE j = Len(s) + 1
      <4>1. s[i] \in Range(s) /\ (s \o Added)[i] = s[i] /\ (s \o Added)[j] = e
        BY <2>2, <3>2, <3>4 DEF Range
      <4>2. s[i][1] = here
        BY <2>1, <3>1, <4>1
      <4> QED  BY <2>1, <2>3, <4>1, <4>2
    <3> QED  BY <2>2, <3>3, <3>4
  <2>5. \A k \in Kinds : InLineOrder(buffers'[k])
    BY <1>2, <1>4, <2>4 DEF s
  <2>6. /\ Range(buffers'[kind]) = Range(s) \cup {e}
        /\ \A k \in Kinds : k # kind => Range(buffers'[k]) = Range(buffers[k])
    BY <1>4, <1>5, <2>1 DEF s
  <2>7. e \notin Accepted /\ Accepted' = Accepted \cup {e}
    BY <1>3, <2>1
  <2>8. ASSUME NEW k \in Kinds
        PROVE  /\ IsInjective(buffers'[k])
               /\ \A d \in Range(buffers'[k]) : KindOf[d[1]] = k
               /\ Range(buffers'[k]) \cap (stored \cup shed) = {}
    <3>1. IsInjective(buffers'[k])
      <4>1. buffers'[k] \in Seq(Event)
        BY DEF FeedType, FeedTypeOK
      <4> QED  BY <2>5, <4>1, LineOrderInjective
    <3>2. e \notin stored \cup shed
      BY <1>2, <2>7
    <3> QED  BY <1>2, <2>1, <2>6, <3>1, <3>2 DEF s
  <2>9. Accepted' = (UNION {Range(buffers'[k]) : k \in Kinds}) \cup stored \cup shed
    <3>1. UNION {Range(buffers'[k]) : k \in Kinds} = (UNION {Range(buffers[k]) : k \in Kinds}) \cup {e}
      <4>1. ASSUME NEW d
            PROVE  (\E k \in Kinds : d \in Range(buffers'[k]))
                     <=> (\E k \in Kinds : d \in Range(buffers[k])) \/ d = e
        BY <1>2, <2>6 DEF s
      <4> QED  BY <4>1
    <3> QED  BY <1>2, <2>7, <3>1
  <2> QED  BY <1>1, <1>2, <2>5, <2>8, <2>9 DEF FeedInv, EventsInOnePlace, Buffered
<1> QED  BY <1>1, <1>2, <1>6, <1>7, AddedType

(* Of the steps of the composition only Handle handles a line. *)
LEMMA FeedSteps ==
    ASSUME [FeedNext]_feedVars
    PROVE  \/ Handle
           \/ Flush /\ Accepted' = Accepted
           \/ UNCHANGED writerVars /\ Accepted' = Accepted
<1> DEFINE Quiet == \/ \E f \in File : WritePiece(f) \/ Rotate(f)
                    \/ StartScan \/ Stat \/ Read \/ SkipFile \/ PanicInLine
                    \/ EndScan \/ StopPolling
                    \/ UNCHANGED pollerVars
<1>1. ASSUME Quiet  PROVE Accepted' = Accepted
  <2>1. UNCHANGED <<handled, torn>>
    <3>1. CASE UNCHANGED pollerVars
      BY <3>1 DEF pollerVars, historyVars
    <3>2. CASE \E f \in File : WritePiece(f) \/ Rotate(f)
      BY <3>2 DEF WritePiece, Rotate, historyVars
    <3>3. CASE StartScan \/ Stat \/ Read \/ SkipFile \/ PanicInLine \/ EndScan \/ StopPolling
      BY <3>3 DEF StartScan, Stat, Read, SkipFile, PanicInLine, EndScan, StopPolling, historyVars
    <3> QED  BY <1>1, <3>1, <3>2, <3>3
  <2> QED  BY <2>1 DEF Accepted
<1>2. CASE BeginScan \/ StatFile \/ ReadFile \/ Panic \/ StopPoller \/ FileFails
  <2>1. Quiet /\ UNCHANGED writerVars
    BY <1>2 DEF BeginScan, StatFile, ReadFile, Panic, StopPoller, FileFails, Poll
  <2> QED  BY <1>1, <2>1
<1>3. CASE FlushAfterScan
  <2>1. Quiet /\ Flush
    BY <1>3 DEF FlushAfterScan
  <2> QED  BY <1>1, <2>1
<1>4. CASE FinalFlush
  <2>1. Quiet /\ Flush
    BY <1>4 DEF FinalFlush
  <2> QED  BY <1>1, <2>1
<1>5. CASE StartFinalFlush \/ FinalFlushReturns \/ FinalFlushRetries \/ Exit
  <2>1. Quiet /\ UNCHANGED writerVars
    BY <1>5 DEF StartFinalFlush, FinalFlushReturns, FinalFlushRetries, Exit
  <2> QED  BY <1>1, <2>1
<1>6. CASE Log \/ Cancel \/ Outage \/ Recover
  <2>1. Quiet /\ UNCHANGED writerVars
    BY <1>6 DEF Log, Cancel, Outage, Recover
  <2> QED  BY <1>1, <2>1
<1>7. CASE ProcessEnded \/ UNCHANGED feedVars
  <2>1. Quiet /\ UNCHANGED writerVars
    BY <1>7 DEF ProcessEnded, feedVars
  <2> QED  BY <1>1, <2>1
<1> QED
  BY <1>2, <1>3, <1>4, <1>5, <1>6, <1>7 DEF FeedNext, PollerStep, MainStep

LEMMA FeedNextInv == FeedInv /\ [FeedNext]_feedVars => FeedInv'
<1> SUFFICES ASSUME FeedInv, [FeedNext]_feedVars  PROVE FeedInv'
  OBVIOUS
<1>1. FeedType' /\ PollInv'
  BY FeedNextType, FeedPollNext DEF FeedInv
<1>2. CASE Handle
  BY <1>1, <1>2, HandleEventKeeps
<1>3. CASE Flush /\ Accepted' = Accepted
  <2>1. PICK ok : Flushed(ok)
    BY <1>3, FlushIsFlushed
  <2> QED  BY <1>1, <1>3, <2>1, FlushKeeps
<1>4. CASE UNCHANGED writerVars /\ Accepted' = Accepted
  BY <1>1, <1>4 DEF FeedInv, EventsInOnePlace, Buffered, writerVars
<1> QED  BY <1>2, <1>3, <1>4, FeedSteps

(* Each event of a line that was handled whole is in the buffer of its     *)
(* kind, once, or stored, or dropped, and in one of the three only,        *)
(* whichever flushes overlap and fail (identity.go:409-489).               *)
THEOREM EventsStayInOnePlace == FeedSpec => []EventsInOnePlace
<1>1. FeedInv => EventsInOnePlace
  BY DEF FeedInv
<1> QED  BY <1>1, FeedInitInv, FeedNextInv, PTL DEF FeedSpec

(* What a step drops, it drops from a full buffer that keeps the later     *)
(* events of the same file (capTail, identity.go:483-489).                 *)
Backstop ==
    \A e \in shed' \ shed :
        LET k == KindOf[e[1]]
        IN /\ Len(buffers'[k]) = MaxBuffer
           /\ \A d \in Range(buffers'[k]) : d[1] = e[1] => d[2] > e[2]

LEMMA NextBackstop == FeedInv /\ [FeedNext]_feedVars => [Backstop]_feedVars
<1> SUFFICES ASSUME FeedInv, [FeedNext]_feedVars, NEW e \in shed' \ shed
             PROVE  LET k == KindOf[e[1]]
                    IN /\ Len(buffers'[k]) = MaxBuffer
                       /\ \A d \in Range(buffers'[k]) : d[1] = e[1] => d[2] > e[2]
  BY DEF Backstop
<1>1. Flush
  BY FeedSteps DEF Handle, writerVars
<1>2. PICK ok : Flushed(ok)
  BY <1>1, FlushIsFlushed
<1>3. PICK k \in Kinds \ ok : e \in Range(buffers[k]) \ Range(CapTail(buffers[k]))
  BY <1>2 DEF Flushed
<1>4. buffers'[k] = CapTail(buffers[k])
  BY <1>2, <1>3 DEF Flushed
<1>5. KindOf[e[1]] = k /\ buffers[k] \in Seq(Event) /\ InLineOrder(buffers[k])
  BY <1>3 DEF FeedInv, FeedType, FeedTypeOK, EventsInOnePlace, Buffered
<1> QED  BY <1>3, <1>4, <1>5, CapTailOrder

(* An event is dropped only by a failed insert that leaves the buffer of   *)
(* its kind full, and every event kept there of its file is a later one    *)
(* (capTail's "bounded-buffer backstop", identity.go:483-489).             *)
THEOREM DroppingIsBackstop == FeedSpec => ShedIsBackstop
<1>1. FeedInv /\ [FeedNext]_feedVars => [Backstop]_feedVars
  BY NextBackstop
<1>2. FeedSpec => [][Backstop]_feedVars
  BY <1>1, FeedInitInv, FeedNextInv, PTL DEF FeedSpec
<1> QED  BY <1>2 DEF ShedIsBackstop, Backstop
=============================================================================
