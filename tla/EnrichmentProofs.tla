-------------------------- MODULE EnrichmentProofs --------------------------
(***************************************************************************)
(* Theorems about Enrichment, for any workers, releases and changes.       *)
(* Workers read the installed pair only and hold the lock while they do;   *)
(* Refresh never holds the installed pair, except between the swap, which  *)
(* waits for the readers, and the close, which is of the pair swapped out. *)
(***************************************************************************)
EXTENDS Enrichment, FiniteSetTheorems, TLAPS

-----------------------------------------------------------------------------
(* The inductive invariant. *)

GeoInv ==
    /\ "geo" \in present <=> installed # NoSlot
    /\ IF pc["geo"] \in {"asn", "lock", "close"}
       THEN "geo" \in present /\ mine \in Slots /\ mine # installed
       ELSE mine = NoSlot

ReaderInv ==
    \A w \in Workers :
        /\ at[w] # "idle" => "geo" \in present
        /\ at[w] \in {"city", "asn"} => w \in readers
        /\ using[w] # NoSlot =>
              at[w] \in {"city", "asn"} /\ using[w] \in Parts \X {installed}

Inv == TypeOK /\ GeoInv /\ ReaderInv /\ NothingLeaks

LEMMA SlotsAreThere == 0 \in Slots /\ 1 \in Slots
<1>1. Cardinality(Workers) \in Nat
  BY ReleaseAssumption, FS_CardinalityType
<1> QED  BY <1>1 DEF Slots

(* Readers are on the installed pair, so a slot is free when a load starts. *)
LEMMA FreeSlotIsFree ==
    ASSUME Inv, pc["geo"] = "idle"
    PROVE  /\ FreeSlot \in Slots /\ FreeSlot # installed
           /\ \A p \in Parts : <<p, FreeSlot>> \notin open
<1> DEFINE IsFree(n) ==
      /\ n \notin {installed, mine} \cup {using[w][2] : w \in
                      {w \in Workers : using[w] # NoSlot}}
      /\ \A p \in Parts : <<p, n>> \notin open
<1>1. \E n \in Slots : IsFree(n)
  <2>1. PICK n \in Slots : n # installed
    BY SlotsAreThere
  <2>2. n # mine
    BY ReleaseAssumption DEF Inv, GeoInv
  <2>3. \A w \in Workers : using[w] # NoSlot => using[w][2] = installed
    BY DEF Inv, ReaderInv
  <2>4. open \subseteq Parts \X {installed}
    BY DEF Inv, NothingLeaks, InHand
  <2> QED  BY <2>1, <2>2, <2>3, <2>4
<1>2. FreeSlot \in Slots /\ IsFree(FreeSlot)
  BY <1>1 DEF FreeSlot
<1> QED  BY <1>2

-----------------------------------------------------------------------------
(* Initially. *)

LEMMA InitInv == Init => Inv
<1> SUFFICES ASSUME Init PROVE Inv
  OBVIOUS
<1>1. content \in [Sources -> Content] /\ (\A p \in Parts : content[p] \in Content)
  BY ReleaseAssumption DEF Init, Content, Sources
<1>2. release \in [Parts -> [Slots -> Content \cup {NoTable}]]
  BY <1>1 DEF Init
<1>3. table \in [Tables -> Content \cup {NoTable}]
  BY <1>1 DEF Init, Sources, Tables
<1>4. TypeOK
  <2>1. present \subseteq Stores /\ cancelled \in BOOLEAN
    BY DEF Init
  <2>2. changes \in 0..MaxChanges
    BY ReleaseAssumption DEF Init
  <2>3. installed \in Slots \cup {NoSlot} /\ mine \in Slots \cup {NoSlot}
    BY SlotsAreThere DEF Init
  <2>4. open \subseteq Parts \X Slots
    BY SlotsAreThere DEF Init
  <2>5. /\ pc \in [Stores -> {"idle", "asn", "lock", "close"}]
        /\ readers \subseteq Workers
        /\ at \in [Workers -> {"idle", "rlock", "city", "asn"}]
        /\ using \in [Workers -> (Parts \X Slots) \cup {NoSlot}]
    BY DEF Init
  <2> QED  BY <1>1, <1>2, <1>3, <2>1, <2>2, <2>3, <2>4, <2>5 DEF TypeOK
<1>5. GeoInv /\ ReaderInv
  BY SlotsAreThere, ReleaseAssumption DEF Init, GeoInv, ReaderInv, Stores
<1>6. NothingLeaks
  <2>1. InHand = {}
    BY DEF Init, InHand, Stores
  <2>2. /\ "geo" \in present => open = Parts \X {installed} /\ installed = 0
        /\ "geo" \notin present => open = {} /\ installed = NoSlot
        /\ mine = NoSlot /\ NoSlot # 0
    BY SlotsAreThere, ReleaseAssumption DEF Init
  <2> QED  BY <2>1, <2>2 DEF NothingLeaks
<1> QED  BY <1>4, <1>5, <1>6 DEF Inv

-----------------------------------------------------------------------------
(* What is no business of the geo databases. *)

LEMMA OutsideInv ==
    ASSUME Inv,
           \/ \E s \in Sources : Change(s)
           \/ Cancel \/ LoadTenants \/ RefreshThreats \/ Stopped
    PROVE  Inv'
<1> USE DEF Inv
<1>1. UNCHANGED <<present, geoVars, workerVars, pc["geo"]>>
  BY DEF Change, Cancel, LoadTenants, RefreshThreats, LoadTable, Stopped,
         Goto, worldVars, geoVars, workerVars, vars, TypeOK, Stores, Tables
<1>2. GeoInv' /\ ReaderInv' /\ NothingLeaks'
  BY <1>1 DEF GeoInv, ReaderInv, NothingLeaks, InHand, geoVars, workerVars
<1>3. TypeOK'
  <2>1. CASE \E s \in Sources : Change(s)
    <3>1. content' \in [Sources -> Content] /\ changes' \in 0..MaxChanges
      BY <2>1, ReleaseAssumption DEF Change, TypeOK, Content
    <3>2. UNCHANGED <<present, cancelled, table, geoVars, pc, workerVars>>
      BY <2>1 DEF Change
    <3> QED  BY <3>1, <3>2 DEF TypeOK, geoVars, workerVars
  <2>2. CASE Cancel \/ Stopped
    BY <2>2 DEF Cancel, Stopped, TypeOK, geoVars, workerVars, vars
  <2>3. ASSUME NEW s \in Tables, LoadTable(s) PROVE TypeOK'
    <3>1. content[s] \in Content
      BY DEF TypeOK, Sources
    <3>2. table' \in [Tables -> Content \cup {NoTable}]
      BY <2>3, <3>1 DEF LoadTable, TypeOK
    <3>3. pc' \in [Stores -> {"idle", "asn", "lock", "close"}]
      BY <2>3 DEF LoadTable, TypeOK, Goto, AfterFailure
    <3> QED  BY <2>3, <3>2, <3>3 DEF LoadTable, TypeOK, worldVars, geoVars, workerVars
  <2> QED  BY <2>1, <2>2, <2>3 DEF LoadTenants, RefreshThreats, Tables
<1> QED  BY <1>2, <1>3

-----------------------------------------------------------------------------
(* The workers. *)

LEMMA WorkerInv ==
    ASSUME Inv, NEW w \in Workers, StartLookup(w) \/ RLock(w) \/ Work(w)
    PROVE  Inv'
<1> USE DEF Inv
<1>1. UNCHANGED <<worldVars, table, geoVars, pc>>
  BY DEF StartLookup, RLock, Work, ReadASN, RUnlock
<1>2. GeoInv' /\ NothingLeaks'
  BY <1>1 DEF GeoInv, NothingLeaks, InHand, worldVars, geoVars
<1>3. "geo" \in present => installed \in Slots
  BY DEF GeoInv, TypeOK
<1>4. CASE StartLookup(w)
  <2>1. ReaderInv'
    BY <1>1, <1>4 DEF StartLookup, ReaderInv, TypeOK, worldVars, geoVars
  <2>2. TypeOK'
    BY <1>1, <1>4 DEF StartLookup, TypeOK, worldVars, geoVars
  <2> QED  BY <1>2, <2>1, <2>2
<1>5. CASE RLock(w)
  <2>1. <<"city", installed>> \in Parts \X {installed} /\ "geo" \in present
    BY <1>5 DEF RLock, ReaderInv, Parts
  <2>2. ReaderInv'
    BY <1>1, <1>5, <2>1 DEF RLock, ReaderInv, TypeOK, worldVars, geoVars
  <2>3. TypeOK'
    BY <1>1, <1>3, <1>5, <2>1 DEF RLock, TypeOK, worldVars, geoVars
  <2> QED  BY <1>2, <2>2, <2>3
<1>6. CASE ReadASN(w)
  <2>1. /\ <<"asn", installed>> \in Parts \X {installed}
        /\ "geo" \in present /\ w \in readers
    BY <1>6 DEF ReadASN, ReaderInv, Parts
  <2>2. ReaderInv'
    BY <1>1, <1>6, <2>1 DEF ReadASN, ReaderInv, TypeOK, worldVars, geoVars
  <2>3. TypeOK'
    BY <1>1, <1>3, <1>6, <2>1 DEF ReadASN, TypeOK, worldVars, geoVars
  <2> QED  BY <1>2, <2>2, <2>3
<1>7. CASE RUnlock(w)
  <2>1. ReaderInv'
    BY <1>1, <1>7 DEF RUnlock, Released, ReaderInv, TypeOK, worldVars, geoVars
  <2>2. TypeOK'
    BY <1>1, <1>7 DEF RUnlock, Released, TypeOK, worldVars, geoVars
  <2> QED  BY <1>2, <2>1, <2>2
<1> QED  BY <1>4, <1>5, <1>6, <1>7 DEF Work

-----------------------------------------------------------------------------
(* The refresher. *)

LEMMA RefreshInv == ASSUME Inv, Refresh PROVE Inv'
<1> USE DEF Inv
<1>1. /\ UNCHANGED <<content, changes, present, cancelled, table, workerVars>>
      /\ pc["geo"] \in {"idle", "asn", "lock", "close"} /\ "geo" \in Stores
      /\ \A p \in Parts : content[p] \in Content
  BY DEF Refresh, OpenCity, OpenASN, Swap, CloseOld, worldVars, TypeOK,
         Stores, Sources
<1>2. ASSUME installed' = installed PROVE ReaderInv'
  BY <1>1, <1>2 DEF ReaderInv, workerVars
<1>3. CASE OpenCity
  <2>1. "geo" \in present /\ pc["geo"] = "idle" /\ installed' = installed
    BY <1>3 DEF OpenCity, Ticks
  <2>2. CASE ~Loads("city")
    <3>1. pc' = pc /\ UNCHANGED <<mine, open, release>>
      BY <1>3, <2>1, <2>2 DEF OpenCity, Goto, AfterFailure, TypeOK
    <3>2. GeoInv' /\ NothingLeaks' /\ TypeOK'
      BY <1>1, <2>1, <3>1 DEF GeoInv, NothingLeaks, InHand, TypeOK, workerVars
    <3> QED  BY <1>2, <2>1, <3>2
  <2>3. CASE Loads("city")
    <3> DEFINE n == FreeSlot
    <3>1. n \in Slots /\ n # installed /\ "city" \in Parts
      BY <2>1, FreeSlotIsFree DEF Parts
    <3>2. /\ mine' = n /\ open' = open \cup {<<"city", n>>}
          /\ release' = [release EXCEPT !["city"][n] = content["city"]]
          /\ pc' = [pc EXCEPT !["geo"] = "asn"]
      BY <1>3, <2>3 DEF OpenCity, OpenDB, Goto
    <3> HIDE DEF n
    <3>3. pc'["geo"] = "asn"
      BY <1>1, <3>2 DEF TypeOK
    <3>4. GeoInv'
      BY <1>1, <2>1, <3>1, <3>2, <3>3 DEF GeoInv
    <3>5. open = Parts \X {installed}
      BY <2>1 DEF NothingLeaks, InHand
    <3>6. InHand' = {<<"city", n>>}
      BY <3>2, <3>3 DEF InHand, Parts
    <3>7. NothingLeaks'
      BY <1>1, <2>1, <3>1, <3>2, <3>5, <3>6 DEF NothingLeaks
    <3>8. release' \in [Parts -> [Slots -> Content \cup {NoTable}]]
      BY <1>1, <3>1, <3>2 DEF TypeOK
    <3>9. open' \subseteq Parts \X Slots
      BY <3>1, <3>2 DEF TypeOK
    <3>10. TypeOK'
      BY <1>1, <2>1, <3>1, <3>2, <3>8, <3>9 DEF TypeOK, workerVars
    <3> QED  BY <1>2, <2>1, <3>4, <3>7, <3>10
  <2> QED  BY <2>2, <2>3
<1>4. CASE OpenASN
  <2>1. /\ pc["geo"] = "asn" /\ installed' = installed
        /\ "geo" \in present /\ mine \in Slots /\ mine # installed
    BY <1>4 DEF OpenASN, GeoInv
  <2>2. open = {<<"city", mine>>} \cup Parts \X {installed}
    BY <2>1 DEF NothingLeaks, InHand, GeoInv, Parts
  <2>3. CASE Loads("asn")
    <3>1. /\ mine' = mine /\ open' = open \cup {<<"asn", mine>>}
          /\ release' = [release EXCEPT !["asn"][mine] = content["asn"]]
          /\ pc' = [pc EXCEPT !["geo"] = "lock"]
      BY <1>4, <2>3 DEF OpenASN, OpenDB, Goto
    <3>2. pc'["geo"] = "lock"
      BY <1>1, <3>1 DEF TypeOK
    <3>3. GeoInv'
      BY <1>1, <2>1, <3>1, <3>2 DEF GeoInv
    <3>4. InHand' = {<<"city", mine>>, <<"asn", mine>>}
      BY <3>1, <3>2 DEF InHand, Parts
    <3>5. NothingLeaks'
      BY <1>1, <2>1, <2>2, <3>1, <3>4 DEF NothingLeaks
    <3>6. release' \in [Parts -> [Slots -> Content \cup {NoTable}]]
      BY <1>1, <2>1, <3>1 DEF TypeOK, Parts
    <3>7. open' \subseteq Parts \X Slots
      BY <2>1, <3>1 DEF TypeOK, Parts
    <3>8. TypeOK'
      BY <1>1, <2>1, <3>1, <3>6, <3>7 DEF TypeOK, workerVars
    <3> QED  BY <1>2, <2>1, <3>3, <3>5, <3>8
  <2>4. CASE ~Loads("asn")
    <3>1. /\ mine' = NoSlot /\ open' = open \ {<<"city", mine>>}
          /\ release' = release /\ pc' = [pc EXCEPT !["geo"] = "idle"]
      BY <1>4, <2>4 DEF OpenASN, Goto, AfterFailure, WithoutMine
    <3>2. pc'["geo"] = "idle"
      BY <1>1, <3>1 DEF TypeOK
    <3>3. GeoInv'
      BY <1>1, <2>1, <3>1, <3>2 DEF GeoInv
    <3>4. open' = Parts \X {installed} /\ InHand' = {}
      BY <2>1, <2>2, <3>1, <3>2 DEF InHand
    <3>5. NothingLeaks'
      BY <1>1, <2>1, <3>1, <3>4, ReleaseAssumption DEF NothingLeaks, GeoInv
    <3>6. TypeOK'
      BY <1>1, <2>1, <3>1, <3>4 DEF TypeOK, workerVars
    <3> QED  BY <1>2, <2>1, <3>3, <3>5, <3>6
  <2> QED  BY <2>3, <2>4
<1>5. CASE Swap
  <2>1. /\ pc["geo"] = "lock" /\ "geo" \in present
        /\ mine \in Slots /\ mine # installed /\ installed \in Slots
        /\ installed' = mine /\ mine' = installed
        /\ open' = open /\ release' = release
        /\ pc' = [pc EXCEPT !["geo"] = "close"]
    BY <1>5 DEF Swap, Goto, GeoInv, TypeOK
  <2>2. pc'["geo"] = "close"
    BY <1>1, <2>1 DEF TypeOK
  <2>3. GeoInv'
    BY <1>1, <2>1, <2>2, ReleaseAssumption DEF GeoInv
  <2>4. \A w \in Workers : using[w] = NoSlot
    BY <1>5 DEF Swap, NoReaders, ReaderInv
  <2>5. ReaderInv'
    BY <1>1, <2>4 DEF ReaderInv, workerVars
  <2>6. /\ InHand = Parts \X {mine} /\ InHand' = Parts \X {installed}
    BY <2>1, <2>2 DEF InHand
  <2>7. NothingLeaks'
    BY <1>1, <2>1, <2>6 DEF NothingLeaks, GeoInv
  <2>8. TypeOK'
    BY <1>1, <2>1 DEF TypeOK, workerVars
  <2> QED  BY <2>3, <2>5, <2>7, <2>8
<1>6. CASE CloseOld
  <2>1. /\ pc["geo"] = "close" /\ "geo" \in present /\ installed' = installed
        /\ mine \in Slots /\ mine # installed /\ mine' = NoSlot
        /\ open' = open \ (Parts \X {mine})
        /\ pc' = [pc EXCEPT !["geo"] = "idle"]
    BY <1>6 DEF CloseOld, Goto, GeoInv
  <2>2. pc'["geo"] = "idle"
    BY <1>1, <2>1 DEF TypeOK
  <2>3. GeoInv'
    BY <1>1, <2>1, <2>2 DEF GeoInv
  <2>4. InHand = Parts \X {mine} /\ InHand' = {}
    BY <2>1, <2>2 DEF InHand
  <2>5. open' = Parts \X {installed}
    BY <2>1, <2>4 DEF NothingLeaks
  <2>6. NothingLeaks'
    BY <1>1, <2>1, <2>4, <2>5 DEF NothingLeaks, GeoInv
  <2>7. release' \in [Parts -> [Slots -> Content \cup {NoTable}]]
    BY <1>6 DEF CloseOld, TypeOK
  <2>8. TypeOK'
    BY <1>1, <2>1, <2>7 DEF TypeOK, workerVars
  <2> QED  BY <1>2, <2>1, <2>3, <2>6, <2>8
<1> QED  BY <1>3, <1>4, <1>5, <1>6 DEF Refresh

-----------------------------------------------------------------------------
LEMMA NextInv == Inv /\ [Next]_vars => Inv'
<1> SUFFICES ASSUME Inv, [Next]_vars PROVE Inv'
  OBVIOUS
<1>1. CASE UNCHANGED vars
  BY <1>1 DEF vars, geoVars, workerVars, Inv, TypeOK, GeoInv, ReaderInv,
              NothingLeaks, InHand
<1> QED  BY <1>1, OutsideInv, WorkerInv, RefreshInv DEF Next, Stores

THEOREM InvHolds == Spec => []Inv
BY InitInv, NextInv, PTL DEF Spec

(* Type correctness of the stores and of all that uses them. *)
THEOREM TypeCorrect == Spec => []TypeOK
<1>1. Inv => TypeOK
  BY DEF Inv
<1> QED  BY <1>1, InvHolds, PTL

(* No worker reads a closed database, for any number of workers, reloads   *)
(* and failures (geoip.go:113-120).                                        *)
THEOREM ReadersAreSafe == Spec => []NoUseAfterClose
<1>1. Inv => NoUseAfterClose
  <2> SUFFICES ASSUME Inv, NEW w \in Workers, using[w] # NoSlot
               PROVE  using[w] \in open
    BY DEF NoUseAfterClose
  <2>1. "geo" \in present /\ using[w] \in Parts \X {installed}
    BY DEF Inv, ReaderInv
  <2> QED  BY <2>1 DEF Inv, NothingLeaks
<1> QED  BY <1>1, InvHolds, PTL

(* The databases open are the installed pair and those in the hands of     *)
(* Refresh, after any number of loads that fail (geoip.go:101-121).        *)
THEOREM EveryPairIsClosed == Spec => []NothingLeaks
<1>1. Inv => NothingLeaks
  BY DEF Inv
<1> QED  BY <1>1, InvHolds, PTL
=============================================================================
