--------------------------- MODULE DNSStoreProofs ---------------------------
(***************************************************************************)
(* Theorems about DNSStore, for any keys, sizes, TTLs and order of events. *)
(***************************************************************************)
EXTENDS DNSStore, FiniteSetTheorems, TLAPS

-----------------------------------------------------------------------------
(* Types. *)

LEMMA ClampedType ==
    ASSUME NEW ttl \in TTLs \cup {UnknownTTL}
    PROVE  Clamped(ttl) \in Nat /\ Clamped(ttl) \in MinTTL..MaxTTL
<1>1. ttl \in Nat
  BY TimeAssumption
<1> QED  BY <1>1, TimeAssumption DEF Clamped

LEMMA TimeType == Time \subseteq Nat
BY TimeAssumption DEF Time

(* The selection finds victims among the entries, all that are expired     *)
(* and, when the map has any entry, at least one.                          *)
LEMMA SelectionFrees ==
    ASSUME TypeOK, NEW V \in Selection
    PROVE  /\ V \subseteq Present
           /\ Expired \subseteq V
           /\ Present # {} => V # {}
<1>1. PICK K \in EarliestOf(HeapSize) :
         \E a \in Bijection(1..HeapSize, K) : V = ChosenWith(a)
  BY DEF Selection
<1>2. PICK a \in Bijection(1..HeapSize, K) : V = ChosenWith(a)
  BY <1>1
<1>3. K \subseteq Fresh
  BY DEF EarliestOf
<1>4. a \in [1..HeapSize -> K] /\ DOMAIN a = 1..HeapSize
  BY <1>2 DEF Bijection, Injection
<1>5. Fresh \subseteq Present /\ Expired \subseteq Present
  BY DEF Fresh, Expired
<1>6. V \subseteq Present /\ Expired \subseteq V
  BY <1>2, <1>3, <1>4, <1>5 DEF ChosenWith
<1>7. ASSUME Present # {}, Expired = {}
      PROVE  V # {}
  <2>1. Fresh = Present
    BY <1>7 DEF Fresh
  <2>2. IsFiniteSet(Fresh)
    BY SizeAssumption, FS_Subset DEF Fresh, Present
  <2>3. Cardinality(Fresh) \in Nat /\ Cardinality(Fresh) # 0
    BY <1>7, <2>1, <2>2, FS_CardinalityType, FS_EmptySet
  <2>4. Shed \in Nat /\ Shed >= 1
    <3>1. MaxSize \div Fraction \in Int
      BY SizeAssumption
    <3> QED  BY <3>1 DEF Shed
  <2>5. HeapSize \in Nat /\ HeapSize >= 1
    BY <2>3, <2>4 DEF HeapSize
  <2>6. Cardinality(Expired) = 0
    BY <1>7, FS_EmptySet
  <2>7. 1 \in {j \in DOMAIN a : j <= Shed - Cardinality(Expired)}
    BY <1>4, <2>4, <2>5, <2>6
  <2> QED  BY <1>2, <2>7 DEF ChosenWith
<1> QED  BY <1>6, <1>7

LEMMA InitType == Init => TypeOK
BY TimeAssumption DEF Init, TypeOK, Present

LEMMA PutType ==
    ASSUME TypeOK, Put
    PROVE  TypeOK'
<1>1. event \in Event /\ Trusted(event)
  BY DEF TypeOK, Put
<1> DEFINE k == event.key
           b == [host |-> event.host, time |-> event.time,
                 deadline |-> event.deadline]
<1>2. k \in Keys /\ b \in Binding /\ Trusted(b)
  BY <1>1 DEF Event, Binding, Trusted
<1>3. \/ entries' = [entries EXCEPT ![k] = b]
      \/ entries' = entries
  BY DEF Put, TypeOK
<1>4. entries' \in [Keys -> Binding \cup {Absent}]
  BY <1>2, <1>3 DEF TypeOK
<1>5. \A i \in Present' : Trusted(entries'[i])
  <2>1. CASE entries' = entries
    BY <2>1 DEF TypeOK, Present
  <2>2. CASE entries' = [entries EXCEPT ![k] = b]
    <3>1. \A i \in Keys : i # k => entries'[i] = entries[i]
      BY <2>2 DEF TypeOK
    <3>2. entries'[k] = b
      BY <1>2, <2>2 DEF TypeOK
    <3> HIDE DEF b, k
    <3> QED  BY <1>2, <3>1, <3>2 DEF TypeOK, Present
  <2> QED  BY <1>3, <2>1, <2>2
<1>6. <<event.time, event.host>> \in Time \X Hosts
  BY <1>1 DEF Event
<1>7. greatest' \in [Keys -> (Time \X Hosts) \cup {Absent}]
  BY <1>6 DEF Put, TypeOK
<1> QED  BY <1>4, <1>5, <1>7 DEF Put, TypeOK

LEMMA NextType == TypeOK /\ [Next]_vars => TypeOK'
<1> SUFFICES ASSUME TypeOK, [Next]_vars  PROVE TypeOK'
  OBVIOUS
<1>1. ASSUME NEW k \in Keys, NEW host \in Hosts, NEW t \in Time,
             NEW ttl \in TTLs \cup {UnknownTTL}, Ingest(k, host, t, ttl)
      PROVE  TypeOK'
  <2> DEFINE e == [key |-> k, host |-> host, time |-> t, deadline |-> t + Clamped(ttl)]
  <2>1. t \in Nat /\ Clamped(ttl) \in Nat /\ Clamped(ttl) \in MinTTL..MaxTTL
    BY ClampedType, TimeType
  <2>2. e \in Event
    BY <2>1 DEF Event
  <2>3. e.deadline - e.time = Clamped(ttl)
    BY <2>1
  <2>4. Trusted(e)
    BY <2>1, <2>3 DEF Trusted
  <2>5. event' = e /\ event' # Absent
    BY <1>1, <2>2, AbsentAssumption DEF Ingest
  <2> HIDE DEF e
  <2>6. /\ event' \in Event /\ Trusted(event') /\ step' \in {"select", "put"}
    BY <1>1, <2>2, <2>4, <2>5 DEF Ingest
  <2> QED  BY <1>1, <2>5, <2>6 DEF Ingest, TypeOK, Present
<1>2. CASE Select
  <2>1. victims' \subseteq Keys
    BY <1>2, SelectionFrees DEF Select, Present
  <2> QED  BY <1>2, <2>1 DEF Select, TypeOK, Present
<1>3. CASE Delete
  <2>1. \A k \in Present' : k \in Present /\ entries'[k] = entries[k]
    BY <1>3 DEF Delete, Present
  <2> QED  BY <1>3, <2>1 DEF Delete, TypeOK
<1>4. CASE Put
  BY <1>4, PutType
<1>5. CASE EvictExpired
  <2>1. \A k \in Present' : k \in Present /\ entries'[k] = entries[k]
    BY <1>5 DEF EvictExpired, Present
  <2> QED  BY <1>5, <2>1 DEF EvictExpired, TypeOK
<1>6. CASE Tick
  BY <1>6, TimeAssumption DEF Tick, TypeOK, Present
<1>7. CASE Restart
  BY <1>7, TimeAssumption DEF Restart, TypeOK, Present
<1>8. CASE UNCHANGED vars
  BY <1>8 DEF vars, TypeOK, Present
<1> QED  BY <1>1, <1>2, <1>3, <1>4, <1>5, <1>6, <1>7, <1>8 DEF Next

(* Type correctness of the store; a binding is trusted for at least the    *)
(* floor and at most the cap of its TTL (dnsstore.go:190-195).             *)
THEOREM TypeCorrect == Spec => []TypeOK
<1> QED  BY InitType, NextType, PTL DEF Spec

-----------------------------------------------------------------------------
(* The cap. *)

LEMMA PresentFinite ==
    /\ IsFiniteSet(Present) /\ Cardinality(Present) \in Nat
    /\ IsFiniteSet(Present') /\ Cardinality(Present') \in Nat
<1>1. Present \subseteq Keys /\ Present' \subseteq Keys
  BY DEF Present
<1>2. IsFiniteSet(Present) /\ IsFiniteSet(Present')
  BY <1>1, SizeAssumption, FS_Subset
<1> QED  BY <1>2, FS_CardinalityType

(* Room for the event is there when it is put, and until then the victims  *)
(* that make it are in the map.                                            *)
Room ==
    /\ TypeOK
    /\ CapHolds
    /\ step = "put" /\ event.key \notin Present => Cardinality(Present) < MaxSize
    /\ step = "select" => Present # {}
    /\ step = "delete" => victims # {} /\ victims \subseteq Present
    /\ step # "delete" => victims = {}

LEMMA InitRoom == Init => Room
<1> SUFFICES ASSUME Init  PROVE Room
  OBVIOUS
<1>1. Present = {}
  BY DEF Init, Present
<1>2. CapHolds
  BY <1>1, FS_EmptySet, SizeAssumption DEF CapHolds
<1> QED  BY <1>2, InitType DEF Init, Room

LEMMA NextRoom == Room /\ [Next]_vars => Room'
<1> SUFFICES ASSUME Room, [Next]_vars  PROVE Room'
  OBVIOUS
<1>t. TypeOK /\ TypeOK'
  BY NextType DEF Room
<1>f. MaxSize \in Nat /\ MaxSize # 0
  BY SizeAssumption
<1>1. ASSUME NEW k \in Keys, NEW host \in Hosts, NEW t \in Time,
             NEW ttl \in TTLs \cup {UnknownTTL}, Ingest(k, host, t, ttl)
      PROVE  Room'
  <2>1. /\ Present' = Present /\ victims' = victims /\ event'.key = k
        /\ step' = IF AtCap(k) THEN "select" ELSE "put"
        /\ step = "idle"
    BY <1>1 DEF Ingest, Present
  <2>2. AtCap(k) => Present # {}
    BY <1>f, FS_EmptySet DEF AtCap
  <2>3. ~AtCap(k) => k \in Present \/ Cardinality(Present) < MaxSize
    BY <1>f, PresentFinite DEF AtCap
  <2> QED  BY <1>t, <2>1, <2>2, <2>3 DEF Room, CapHolds
<1>2. CASE Select
  <2>1. Present' = Present
    BY <1>2 DEF Select, Present
  <2>2. victims' # {} /\ victims' \subseteq Present
    BY <1>2, <1>t, SelectionFrees DEF Select, Room
  <2> QED  BY <1>2, <1>t, <2>1, <2>2 DEF Select, Room, CapHolds
<1>3. CASE Delete
  <2>1. Present' = Present \ victims
    BY <1>3, <1>t DEF Delete, Present
  <2>2. Present' \subseteq Present /\ Present' # Present
    BY <1>3, <2>1 DEF Delete, Room
  <2>3. Cardinality(Present') < Cardinality(Present)
    BY <2>2, PresentFinite, FS_Subset
  <2>4. Cardinality(Present') < MaxSize
    BY <1>f, <2>3, PresentFinite DEF Room, CapHolds
  <2> QED  BY <1>3, <1>t, <1>f, <2>4, PresentFinite DEF Delete, Room, CapHolds
<1>4. CASE Put
  <2>1. Present' \subseteq Present \cup {event.key}
    BY <1>4, <1>t DEF Put, Present, TypeOK
  <2>2. CASE event.key \in Present
    <3>1. Cardinality(Present') <= Cardinality(Present)
      BY <2>1, <2>2, PresentFinite, FS_Subset
    <3> QED  BY <1>4, <1>t, <1>f, <3>1, PresentFinite DEF Put, Room, CapHolds
  <2>3. CASE event.key \notin Present
    <3>1. /\ IsFiniteSet(Present \cup {event.key})
          /\ Cardinality(Present \cup {event.key}) = Cardinality(Present) + 1
      BY <2>3, PresentFinite, FS_AddElement
    <3>2. Cardinality(Present') <= Cardinality(Present) + 1
      BY <2>1, <3>1, FS_Subset
    <3> QED  BY <1>4, <1>t, <1>f, <2>3, <3>2, PresentFinite DEF Put, Room, CapHolds
  <2> QED  BY <2>2, <2>3
<1>5. CASE EvictExpired
  <2>1. Present' \subseteq Present
    BY <1>5, <1>t DEF EvictExpired, Present
  <2>2. Cardinality(Present') <= Cardinality(Present)
    BY <2>1, PresentFinite, FS_Subset
  <2> QED  BY <1>5, <1>t, <1>f, <2>2, PresentFinite DEF EvictExpired, ScanIsOver, Room, CapHolds
<1>6. CASE Tick
  BY <1>6, <1>t DEF Tick, Room, CapHolds, Present
<1>7. CASE Restart
  <2>1. Present' = {}
    BY <1>7 DEF Restart, Present
  <2> QED  BY <1>7, <1>t, <1>f, <2>1, FS_EmptySet DEF Restart, Room, CapHolds
<1>8. CASE UNCHANGED vars
  BY <1>8, <1>t DEF vars, Room, CapHolds, Present
<1> QED  BY <1>1, <1>2, <1>3, <1>4, <1>5, <1>6, <1>7, <1>8 DEF Next

LEMMA RoomInvariant == Spec => []Room
<1> QED  BY InitRoom, NextRoom, PTL DEF Spec

(* The map never holds more than maxSize entries (dnsstore.go:85-87).      *)
THEOREM CapIsHard == Spec => []CapHolds
<1>1. Room => CapHolds
  BY DEF Room
<1> QED  BY <1>1, RoomInvariant, PTL

(* Each victim is in the map when it is deleted (dnsstore.go:207-210).     *)
THEOREM SoleMutator == Spec => []VictimsStay
<1>1. Room => VictimsStay
  BY DEF Room, VictimsStay
<1> QED  BY <1>1, RoomInvariant, PTL

-----------------------------------------------------------------------------
(* An entry is the greatest of what was applied to its key. *)
Newest ==
    /\ TypeOK
    /\ \A k \in Keys :
          /\ entries[k] = Absent => greatest[k] = Absent
          /\ entries[k] # Absent =>
                greatest[k] = <<entries[k].time, entries[k].host>>

LEMMA PutNewest ==
    ASSUME Newest, TypeOK', Put
    PROVE  Newest'
<1> DEFINE k == event.key
           p == <<event.time, event.host>>
           b == [host |-> event.host, time |-> event.time,
                 deadline |-> event.deadline]
<1>1. event \in Event
  BY DEF Newest, TypeOK, Put
<1>2. k \in Keys /\ b \in Binding /\ p \in Time \X Hosts
  BY <1>1 DEF Event, Binding
<1>3. b # Absent /\ p # Absent
  BY <1>2, AbsentAssumption
<1>4. /\ entries'[k] = IF entries[k] = Absent \/ Replaces(entries[k], event)
                       THEN b ELSE entries[k]
      /\ greatest'[k] = IF greatest[k] = Absent \/ Precedes(greatest[k], p)
                        THEN p ELSE greatest[k]
  BY <1>2 DEF Put, Newest, TypeOK
<1>5. entries[k] # Absent =>
         /\ greatest[k] = <<entries[k].time, entries[k].host>>
         /\ greatest[k] # Absent
         /\ Precedes(greatest[k], p) <=> Replaces(entries[k], event)
  <2> SUFFICES ASSUME entries[k] # Absent
               PROVE  /\ greatest[k] = <<entries[k].time, entries[k].host>>
                      /\ greatest[k] # Absent
                      /\ Precedes(greatest[k], p) <=> Replaces(entries[k], event)
    OBVIOUS
  <2>1. greatest[k] = <<entries[k].time, entries[k].host>>
    BY <1>2 DEF Newest
  <2>2. entries[k] \in Binding
    BY <1>2 DEF Newest, TypeOK
  <2>3. <<entries[k].time, entries[k].host>> \in Time \X Hosts
    BY <2>2 DEF Binding
  <2>4. greatest[k] # Absent
    BY <2>1, <2>3, AbsentAssumption
  <2>5. /\ entries[k].time \in Int /\ entries[k].host \in Int
        /\ event.time \in Int /\ event.host \in Int
    <3>1. /\ entries[k].time \in Time /\ entries[k].host \in Hosts
          /\ event.time \in Time /\ event.host \in Hosts
      BY <1>1, <2>2 DEF Binding, Event
    <3>2. entries[k].time \in Nat /\ event.time \in Nat
      BY <3>1, TimeType
    <3>3. entries[k].host \in Int /\ event.host \in Int
      BY <3>1, HostAssumption
    <3>4. Nat \subseteq Int
      OBVIOUS
    <3> QED  BY <3>2, <3>3, <3>4
  <2>6. Precedes(greatest[k], p) <=> Replaces(entries[k], event)
    BY <2>1, <2>5 DEF Precedes, Replaces
  <2> QED  BY <2>1, <2>4, <2>6
<1>6. entries[k] = Absent => greatest[k] = Absent
  BY <1>2 DEF Newest
<1>7. /\ entries'[k] # Absent
      /\ greatest'[k] = <<entries'[k].time, entries'[k].host>>
  <2>1. CASE entries[k] = Absent \/ Replaces(entries[k], event)
    BY <1>3, <1>4, <1>5, <1>6, <2>1
  <2>2. CASE ~(entries[k] = Absent \/ Replaces(entries[k], event))
    BY <1>4, <1>5, <2>2
  <2> QED  BY <2>1, <2>2
<1>8. \A i \in Keys : i # k => entries'[i] = entries[i] /\ greatest'[i] = greatest[i]
  BY DEF Put, Newest, TypeOK
<1> HIDE DEF k
<1> QED  BY <1>7, <1>8 DEF Newest

LEMMA NextNewest == Newest /\ [Next]_vars => Newest'
<1> SUFFICES ASSUME Newest, [Next]_vars  PROVE Newest'
  OBVIOUS
<1>t. TypeOK /\ TypeOK'
  BY NextType DEF Newest
<1>1. CASE UNCHANGED <<entries, greatest>>
  BY <1>1, <1>t DEF Newest
<1>2. CASE Put
  BY <1>2, <1>t, PutNewest
<1>3. CASE Delete
  BY <1>3, <1>t DEF Delete, Newest
<1>4. CASE EvictExpired
  BY <1>4, <1>t DEF EvictExpired, Newest
<1>5. CASE Restart
  BY <1>5, <1>t DEF Restart, Newest
<1>6. \/ UNCHANGED <<entries, greatest>> \/ Put \/ Delete \/ EvictExpired
      \/ Restart
  BY DEF Next, Ingest, Select, Tick, vars
<1> QED  BY <1>1, <1>2, <1>3, <1>4, <1>5, <1>6

(* Newest-event-wins, with the greater name of one second, in whatever     *)
(* order the events came (dnsstore.go:171-174).                            *)
THEOREM NameIsOrderIndependent == Spec => []LookupIsGreatest
<1>1. Init => Newest
  BY InitType DEF Init, Newest
<1>2. Newest => LookupIsGreatest
  BY DEF Newest, LookupIsGreatest, Lookup, Fresh, Present
<1> QED  BY <1>1, <1>2, NextNewest, PTL DEF Spec

-----------------------------------------------------------------------------
(* The live entries that are shed. *)

LEMMA ShedType == Shed \in Nat /\ Shed >= 1
<1>1. MaxSize \div Fraction \in Int
  BY SizeAssumption
<1> QED  BY <1>1 DEF Shed

(* The live victims are in a set of Shed entries at most that no other     *)
(* live entry should have gone before.                                     *)
LEMMA SelectionIsOldest ==
    ASSUME NEW V \in Selection
    PROVE  \E K \in SUBSET Fresh :
              /\ V \cap Fresh \subseteq K
              /\ IsFiniteSet(K) /\ Cardinality(K) <= Shed
              /\ \A k \in K, g \in Fresh \ K : entries[k].deadline <= entries[g].deadline
<1>1. PICK K \in EarliestOf(HeapSize) :
         \E a \in Bijection(1..HeapSize, K) : V = ChosenWith(a)
  BY DEF Selection
<1>2. PICK a \in Bijection(1..HeapSize, K) : V = ChosenWith(a)
  BY <1>1
<1>3. /\ K \subseteq Fresh /\ Cardinality(K) = HeapSize
      /\ \A k \in K, g \in Fresh \ K : entries[k].deadline <= entries[g].deadline
  BY DEF EarliestOf
<1>4. a \in [1..HeapSize -> K] /\ DOMAIN a = 1..HeapSize
  BY <1>2 DEF Bijection, Injection
<1>5. V \cap Fresh \subseteq K
  BY <1>2, <1>4 DEF ChosenWith, Fresh
<1>6. IsFiniteSet(Fresh)
  BY SizeAssumption, FS_Subset DEF Fresh, Present
<1>7. IsFiniteSet(K) /\ Cardinality(Fresh) \in Nat
  BY <1>3, <1>6, FS_Subset, FS_CardinalityType
<1>8. HeapSize <= Shed
  BY <1>7, ShedType DEF HeapSize
<1> QED  BY <1>3, <1>5, <1>7, <1>8

Sheds == TypeOK /\ ShedsAmongOldest

(* The entries that were live when the victims were chosen. *)
LiveAtCut == {k \in Present : entries[k].deadline >= cut}

LEMMA SelectSheds ==
    ASSUME TypeOK, Select
    PROVE  ShedsAmongOldest'
<1>1. /\ entries' = entries /\ cut' = now /\ victims' \in Selection
  BY DEF Select
<1>2. LiveAtCut' = Fresh
  <2>1. \A k \in Present : entries[k].deadline \in Nat
    BY DEF TypeOK, Present, Binding
  <2>2. now \in Nat
    BY TimeAssumption DEF TypeOK
  <2> QED  BY <1>1, <2>1, <2>2 DEF LiveAtCut, Fresh, Expired, Present
<1>3. PICK K \in SUBSET Fresh :
         /\ victims' \cap Fresh \subseteq K
         /\ IsFiniteSet(K) /\ Cardinality(K) <= Shed
         /\ \A k \in K, g \in Fresh \ K : entries[k].deadline <= entries[g].deadline
  BY <1>1, SelectionIsOldest
<1>4. Cardinality(K) \in Nat /\ Shed \in Nat
  BY <1>3, FS_CardinalityType, ShedType
<1>5. Cardinality(Fresh \cap victims') <= Shed
  <2>1. /\ Cardinality(Fresh \cap victims') <= Cardinality(K)
        /\ Cardinality(Fresh \cap victims') \in Nat
    <3>1. Fresh \cap victims' \subseteq K
      BY <1>3
    <3> QED  BY <1>3, <3>1, FS_Subset, FS_CardinalityType
  <2> QED  BY <1>3, <1>4, <2>1
<1>6. ASSUME NEW v \in Fresh \cap victims'
      PROVE  Cardinality({k \in Fresh : entries[k].deadline < entries[v].deadline}) < Shed
  <2> DEFINE older == {k \in Fresh : entries[k].deadline < entries[v].deadline}
  <2>1. v \in K
    BY <1>3
  <2>2. \A k \in Fresh : entries[k].deadline \in Nat
    BY DEF TypeOK, Fresh, Present, Binding
  <2>3. older \subseteq K \ {v}
    BY <1>3, <2>1, <2>2
  <2> HIDE DEF older
  <2>4. /\ IsFiniteSet(K \ {v})
        /\ Cardinality(K \ {v}) = Cardinality(K) - 1
    BY <1>3, <2>1, FS_RemoveElement
  <2>5. Cardinality(older) <= Cardinality(K \ {v}) /\ Cardinality(older) \in Nat
    BY <2>3, <2>4, FS_Subset, FS_CardinalityType
  <2> QED  BY <1>3, <1>4, <2>4, <2>5 DEF older
<1> QED  BY <1>1, <1>2, <1>5, <1>6 DEF ShedsAmongOldest, LiveAtCut, Present

LEMMA NextSheds == Sheds /\ [Next]_vars => Sheds'
<1> SUFFICES ASSUME Sheds, [Next]_vars  PROVE Sheds'
  OBVIOUS
<1>t. TypeOK /\ TypeOK'
  BY NextType DEF Sheds
<1>1. CASE Select
  BY <1>1, <1>t, SelectSheds DEF Sheds
<1>2. CASE step' # "delete"
  BY <1>2, <1>t DEF Sheds, ShedsAmongOldest
<1>3. CASE step = "delete" /\ UNCHANGED <<entries, victims, cut>>
  BY <1>3, <1>t DEF Sheds, ShedsAmongOldest, Present
<1>4. \/ Select \/ step' # "delete"
      \/ step = "delete" /\ UNCHANGED <<entries, victims, cut>>
  <2>1. CASE EvictExpired \/ Tick \/ UNCHANGED vars
    BY <2>1 DEF EvictExpired, ScanIsOver, Tick, vars
  <2>2. CASE Delete \/ Put \/ Restart
    BY <2>2 DEF Delete, Put, Restart
  <2>3. ASSUME NEW k \in Keys, NEW host \in Hosts, NEW t \in Time,
               NEW ttl \in TTLs \cup {UnknownTTL}, Ingest(k, host, t, ttl)
        PROVE  step' # "delete"
    BY <2>3 DEF Ingest
  <2> QED  BY <2>1, <2>2, <2>3 DEF Next
<1> QED  BY <1>1, <1>2, <1>3, <1>4

(* A selection sheds at most its share of the live entries, and none that  *)
(* has as many older ones, though the clock moves on before the deletion   *)
(* (dnsstore.go:167-169).                                                  *)
THEOREM FewAndOldAreShed == Spec => []ShedsAmongOldest
<1>1. Init => Sheds
  BY InitType DEF Init, Sheds, ShedsAmongOldest
<1>2. Sheds => ShedsAmongOldest
  BY DEF Sheds
<1> QED  BY <1>1, <1>2, NextSheds, PTL DEF Spec
=============================================================================
