---------------------------- MODULE TraceProofs ----------------------------
(***************************************************************************)
(* Theorems about Trace: for every set of rows, every window and every     *)
(* horizon, and whatever the order of rows within a second, the report is  *)
(* what the evidence says.                                                 *)
(*                                                                         *)
(* The fold is right because after each batch the candidates are the       *)
(* holders by the rows folded so far (FoldInv, from BatchStep); the query  *)
(* is wide enough because rows older than the window less the horizon      *)
(* cannot cover an instant of the window (WindowIsEnough).                 *)
(*                                                                         *)
(* The live store, told the same events in order, keeps the latest opening *)
(* and whether it was closed since (Leaves): what it answers is what the   *)
(* evidence says (AnswerIsReading), hence what the trace says.             *)
(***************************************************************************)
EXTENDS TraceAndLive, FiniteSetTheorems, WellFoundedInduction, TLAPS

Row == [key : IPs \cup Macs \cup {NoToken},
        entity : Macs \cup Sessions \cup {NoToken},
        token : Token \cup {NoToken}, time : Int, opens : BOOLEAN]

LEMMA RowTypes == LeaseRow \subseteq Row /\ SessionRow \subseteq Row
<1>1. ASSUME NEW r \in LeaseRow PROVE r \in Row
  <2>1. PICK l \in Leases, t \in Time, o \in BOOLEAN :
          r = [key |-> l[1], entity |-> l[2], token |-> l[2],
               time |-> t, opens |-> o]
    BY DEF LeaseRow
  <2>2. l[1] \in IPs /\ l[2] \in Macs \cup {NoToken} /\ t \in Int
    BY DataAssumption, TimeAssumption DEF Time
  <2> QED  BY <2>1, <2>2 DEF Row, Token
<1>2. ASSUME NEW r \in SessionRow PROVE r \in Row
  <2>1. PICK l \in Logins, t \in Time, o \in BOOLEAN :
          r = [key |-> l[1], entity |-> l[2], token |-> l[3],
               time |-> t, opens |-> o]
    BY DEF SessionRow
  <2>2. /\ l[1] \in Macs \cup {NoToken} /\ l[2] \in Sessions
        /\ l[3] \in Users \cup {NoToken} /\ t \in Int
    BY DataAssumption, TimeAssumption DEF Time
  <2> QED  BY <2>1, <2>2 DEF Row, Token
<1> QED  BY <1>1, <1>2

-----------------------------------------------------------------------------
(* The rules of the fold. *)

IsLastOpening(r, R) ==
    r \in R /\ r.opens /\ \A s \in R : s.opens => s.time <= r.time

(* A batch that is later than all rows before it. *)
LEMMA BatchStep ==
    ASSUME NEW P \in SUBSET Row, NEW B \in SUBSET Row, NEW t \in Int,
           \A r \in B : r.time = t,
           \A r \in P : r.time < t
    PROVE  /\ Opens(B) # {} =>
                /\ Holders(P \cup B) = {c \in Opens(B) : c[1] \notin Closes(B)}
                /\ \A r : IsLastOpening(r, P \cup B) => r.time = t
           /\ Opens(B) = {} =>
                /\ Holders(P \cup B) = {c \in Holders(P) : c[1] \notin Closes(B)}
                /\ \A r : IsLastOpening(r, P \cup B) => IsLastOpening(r, P)
<1> DEFINE Held(R, r) ==
             /\ r.opens
             /\ \A s \in R : s.opens => s.time <= r.time
             /\ \A s \in R : ~s.opens /\ s.entity = r.entity => s.time < r.time
<1>1. \A r \in P \cup B : r \in Row /\ r.time \in Int
  BY DEF Row
<1>2. \A R : Holders(R) = {<<r.entity, r.token>> : r \in {r \in R : Held(R, r)}}
  BY DEF Holders
<1>3. CASE Opens(B) # {}
  <2>1. PICK o \in B : o.opens
    BY <1>3 DEF Opens
  <2>2. \A r \in P \cup B :
          Held(P \cup B, r) <=> r \in B /\ r.opens /\ r.entity \notin Closes(B)
    <3>1. ASSUME NEW r \in P \cup B, Held(P \cup B, r)
          PROVE  r \in B /\ r.opens /\ r.entity \notin Closes(B)
      <4>1. o.time <= r.time /\ o.time = t
        BY <2>1, <3>1
      <4>2. r \in B
        BY <1>1, <4>1
      <4>3. ASSUME NEW s \in B, ~s.opens, s.entity = r.entity PROVE FALSE
        <5>1. s.time < r.time
          BY <3>1, <4>3
        <5> QED  BY <1>1, <4>2, <5>1
      <4> QED  BY <3>1, <4>2, <4>3 DEF Closes
    <3>2. ASSUME NEW r \in B, r.opens, r.entity \notin Closes(B)
          PROVE  Held(P \cup B, r)
      <4>1. \A s \in P \cup B : s.time <= r.time
        BY <1>1
      <4>2. ASSUME NEW s \in P \cup B, ~s.opens, s.entity = r.entity
            PROVE  s.time < r.time
        <5>1. s \notin B
          BY <3>2, <4>2 DEF Closes
        <5> QED  BY <5>1
      <4> QED  BY <3>2, <4>1, <4>2
    <3> QED  BY <3>1, <3>2
  <2>3. Holders(P \cup B) = {c \in Opens(B) : c[1] \notin Closes(B)}
    <3>1. ASSUME NEW c \in Holders(P \cup B)
          PROVE  c \in Opens(B) /\ c[1] \notin Closes(B)
      <4>1. PICK r \in P \cup B : Held(P \cup B, r) /\ c = <<r.entity, r.token>>
        BY <1>2
      <4> HIDE DEF Held
      <4>2. c[1] = r.entity
        BY <4>1
      <4> QED  BY <2>2, <4>1, <4>2 DEF Opens
    <3>2. ASSUME NEW c \in Opens(B), c[1] \notin Closes(B)
          PROVE  c \in Holders(P \cup B)
      <4>1. PICK r \in B : r.opens /\ c = <<r.entity, r.token>>
        BY DEF Opens
      <4> HIDE DEF Held
      <4>2. r \in P \cup B /\ Held(P \cup B, r)
        BY <2>2, <3>2, <4>1
      <4> QED  BY <1>2, <4>1, <4>2
    <3> QED  BY <3>1, <3>2
  <2>4. ASSUME NEW r, IsLastOpening(r, P \cup B) PROVE r.time = t
    BY <1>1, <2>1, <2>4 DEF IsLastOpening
  <2> QED  BY <1>3, <2>3, <2>4
<1>4. CASE Opens(B) = {}
  <2>1. \A r \in B : ~r.opens
    BY <1>4 DEF Opens
  <2>2. \A r \in P \cup B :
          Held(P \cup B, r) <=> r \in P /\ Held(P, r) /\ r.entity \notin Closes(B)
    <3>1. ASSUME NEW r \in P \cup B, Held(P \cup B, r)
          PROVE  r \in P /\ Held(P, r) /\ r.entity \notin Closes(B)
      <4>1. r \in P
        BY <2>1, <3>1
      <4>2. ASSUME NEW s \in B, ~s.opens, s.entity = r.entity PROVE FALSE
        <5>1. s.time < r.time /\ s.time = t /\ r.time < t
          BY <3>1, <4>1, <4>2
        <5> QED  BY <1>1, <5>1
      <4> QED  BY <3>1, <4>1, <4>2 DEF Closes
    <3>2. ASSUME NEW r \in P, Held(P, r), r.entity \notin Closes(B)
          PROVE  Held(P \cup B, r)
      BY <2>1, <3>2 DEF Closes
    <3> QED  BY <3>1, <3>2
  <2>3. Holders(P \cup B) = {c \in Holders(P) : c[1] \notin Closes(B)}
    <3>1. ASSUME NEW c \in Holders(P \cup B)
          PROVE  c \in Holders(P) /\ c[1] \notin Closes(B)
      <4>1. PICK r \in P \cup B : Held(P \cup B, r) /\ c = <<r.entity, r.token>>
        BY <1>2
      <4> HIDE DEF Held
      <4>2. c[1] = r.entity /\ r \in P /\ Held(P, r) /\ r.entity \notin Closes(B)
        BY <2>2, <4>1
      <4> QED  BY <1>2, <4>1, <4>2
    <3>2. ASSUME NEW c \in Holders(P), c[1] \notin Closes(B)
          PROVE  c \in Holders(P \cup B)
      <4>1. PICK r \in P : Held(P, r) /\ c = <<r.entity, r.token>>
        BY <1>2
      <4> HIDE DEF Held
      <4>2. r \in P \cup B /\ Held(P \cup B, r)
        BY <2>2, <3>2, <4>1
      <4> QED  BY <1>2, <4>1, <4>2
    <3> QED  BY <3>1, <3>2
  <2>4. ASSUME NEW r, IsLastOpening(r, P \cup B) PROVE IsLastOpening(r, P)
    BY <2>1, <2>4 DEF IsLastOpening
  <2> QED  BY <1>4, <2>3, <2>4
<1> QED  BY <1>3, <1>4

(* The deadline of the last opening decides whether any opening covers.    *)
LEMMA CoveredByLast ==
    ASSUME NEW R \in SUBSET Row, NEW t \in Int, NEW h \in Int, NEW d \in Int,
           \A r : IsLastOpening(r, R) => d = r.time + h
    PROVE  Verdict(Holders(R), t <= d) = Reading(R, t, h)
<1>1. \A r \in R : r.time \in Int
  BY DEF Row
<1>2. CASE Holders(R) = {}
  BY <1>2 DEF Verdict, Reading
<1>3. CASE Holders(R) # {}
  <2>1. PICK o : IsLastOpening(o, R)
    BY <1>3 DEF Holders, IsLastOpening
  <2>2. d = o.time + h
    BY <2>1
  <2>3. (t <= d) <=> Covered(R, t, h)
    BY <1>1, <2>1, <2>2 DEF Covered, IsLastOpening
  <2> QED  BY <1>3, <2>3 DEF Verdict, Reading
<1> QED  BY <1>2, <1>3

(* What the widened window leaves out makes no difference to an instant of *)
(* the window.                                                             *)
LEMMA WindowIsEnough ==
    ASSUME NEW T \in SUBSET Row, NEW keys, NEW k \in keys,
           NEW t \in From..To, NEW h \in Nat
    PROVE  Reading(Relevant(Window(T, keys, h), k, t), t, h)
             = Reading(Evidence(T, k, t), t, h)
<1> DEFINE W == Relevant(Window(T, keys, h), k, t)
           E == Evidence(T, k, t)
<1>1. From \in Int /\ To \in Int /\ t \in Int /\ From <= t /\ t <= To
  BY TimeAssumption DEF Time
<1>2. \A r \in T : r.time \in Int
  BY DEF Row
<1>3. W = {r \in E : r.time >= From - h}
  BY <1>1, <1>2 DEF Relevant, Window, Evidence
<1>4. E \subseteq T
  BY DEF Evidence
<1> HIDE DEF W, E
<1>5. Covered(W, t, h) <=> Covered(E, t, h)
  BY <1>1, <1>2, <1>3, <1>4 DEF Covered
<1>6. ASSUME Covered(E, t, h) PROVE Holders(W) = Holders(E)
  <2>1. PICK o \in E : o.opens /\ t <= o.time + h
    BY <1>6 DEF Covered
  <2>2. o \in W
    BY <1>1, <1>2, <1>3, <1>4, <2>1
  <2> DEFINE Held(R, r) ==
               /\ r.opens
               /\ \A s \in R : s.opens => s.time <= r.time
               /\ \A s \in R : ~s.opens /\ s.entity = r.entity
                                 => s.time < r.time
  <2>3. \A r \in E : r.time \in Int
    BY <1>2, <1>4
  <2>4. \A r : r \in W /\ Held(W, r) => r \in E /\ Held(E, r)
    <3>1. ASSUME NEW r \in W, Held(W, r), NEW s \in E, s \notin W
          PROVE  s.time < r.time
      <4>1. r.time >= From - h /\ r \in E /\ ~(s.time >= From - h)
        BY <1>3, <3>1
      <4> QED  BY <1>1, <2>3, <4>1
    <3> QED  BY <1>3, <2>3, <3>1
  <2>5. \A r : r \in E /\ Held(E, r) => r \in W /\ Held(W, r)
    <3>1. ASSUME NEW r \in E, Held(E, r) PROVE r \in W
      <4>1. o.time <= r.time
        BY <2>1, <3>1
      <4> QED  BY <1>1, <1>3, <2>2, <2>3, <4>1
    <3> QED  BY <1>3, <3>1
  <2>6. {r \in W : Held(W, r)} = {r \in E : Held(E, r)}
    BY <2>4, <2>5
  <2> QED  BY <2>6 DEF Holders
<1> QED  BY <1>5, <1>6 DEF Reading, W, E

-----------------------------------------------------------------------------
(* The inductive invariant. *)

TablesInv ==
    /\ leases \subseteq LeaseRow /\ sessions \subseteq SessionRow
    /\ resolutions \subseteq ResolutionRow
    /\ IsFiniteSet(leases) /\ IsFiniteSet(sessions)

ReportInv ==
    /\ DOMAIN report \subseteq Candidate
    /\ report \in [DOMAIN report -> Line]
    /\ fetched \subseteq leases \cup sessions
    /\ todo \subseteq DOMAIN report
    /\ subject \in todo \cup {None}

Fetched ==
    IF pc = "devices" THEN Window(leases, Clients, MaxLease)
    ELSE Window(sessions, Devices, MaxSession)

DevicesKnown(S) == \A c \in S : report[c].device = DeviceOf(c)

PhaseInv ==
    /\ pc \in {"resolutions", "leases", "devices", "sessions", "users",
               "done", "failed"}
    /\ pc = "resolutions" => todo = {}
    /\ pc \in {"leases", "devices", "sessions"} =>
          \A c \in DOMAIN report : report[c].user = NoToken
    /\ pc = "devices" => DevicesKnown(DOMAIN report \ todo)
    /\ pc \in {"sessions", "users", "done"} => DevicesKnown(DOMAIN report)
    /\ pc = "users" =>
          /\ \A c \in todo : HasDevice(c)
          /\ \A c \in DOMAIN report \ todo : report[c].user = UserOf(c)
    /\ pc = "done" => \A c \in DOMAIN report : report[c].user = UserOf(c)
    /\ pc \in {"devices", "users"} => fetched = Fetched

(* The rows folded so far. *)
Folded == {f[k] : k \in 1..i - 1}

FoldInv ==
    subject # None =>
        /\ pc \in {"devices", "users"}
        /\ f \in Sorted(Relevant(fetched, KeyOf(subject), report[subject].last))
        /\ i \in 1..Len(f) + 1
        /\ \A m \in 1..i - 1, n \in i..Len(f) : f[m].time < f[n].time
        /\ cands = Holders(Folded)
        /\ deadline \in Int
        /\ \A r : IsLastOpening(r, Folded) => deadline = r.time + Horizon

Inv == TablesInv /\ ReportInv /\ PhaseInv /\ FoldInv

LEMMA InitInv == Init => Inv
<1> SUFFICES ASSUME Init PROVE Inv
  OBVIOUS
<1>1. DOMAIN report = {} /\ report \in [DOMAIN report -> Line]
  BY DEF Init
<1>2. IsFiniteSet({})
  BY FS_EmptySet
<1>3. TablesInv /\ FoldInv
  BY <1>2 DEF Init, TablesInv, FoldInv
<1>4. ReportInv
  BY <1>1 DEF Init, ReportInv
<1>5. PhaseInv
  BY DEF Init, PhaseInv
<1> QED  BY <1>3, <1>4, <1>5 DEF Inv

(* What a set of rows is made of. *)
LEMMA RowsAreRows ==
    ASSUME TablesInv, ReportInv
    PROVE  /\ leases \in SUBSET Row /\ sessions \in SUBSET Row
           /\ fetched \in SUBSET Row /\ IsFiniteSet(fetched)
           /\ \A key, t : /\ Relevant(fetched, key, t) \in SUBSET Row
                          /\ IsFiniteSet(Relevant(fetched, key, t))
<1>1. IsFiniteSet(leases \cup sessions)
  BY FS_Union DEF TablesInv
<1>2. IsFiniteSet(fetched)
  BY <1>1, FS_Subset DEF ReportInv
<1>3. \A key, t : Relevant(fetched, key, t) \subseteq fetched
  BY DEF Relevant
<1>4. \A key, t : IsFiniteSet(Relevant(fetched, key, t))
  BY <1>2, <1>3, FS_Subset
<1> QED  BY <1>2, <1>3, <1>4, RowTypes DEF TablesInv, ReportInv

(* An arrangement is a sequence of the rows it arranges. *)
LEMMA SortedSeq ==
    ASSUME NEW R, IsFiniteSet(R), NEW g \in Sorted(R)
    PROVE  /\ Len(g) \in Nat /\ DOMAIN g = 1..Len(g) /\ Len(g) = Cardinality(R)
           /\ \A k \in 1..Len(g) : g[k] \in R
           /\ R = {g[k] : k \in 1..Len(g)}
           /\ \A m, n \in 1..Len(g) : m < n => g[m].time <= g[n].time
<1>1. Cardinality(R) \in Nat
  BY FS_CardinalityType
<1>2. g \in [1..Cardinality(R) -> R] /\ Range(g) = R
  BY DEF Sorted
<1>3. g \in Seq(R) /\ Len(g) = Cardinality(R)
  BY <1>1, <1>2
<1> QED  BY <1>1, <1>2, <1>3 DEF Sorted, Range

-----------------------------------------------------------------------------
(* Steps of the fold. *)

LEMMA BeginFoldInv ==
    ASSUME Inv, NEW c \in todo, BeginFold(c)
    PROVE  Inv'
<1>1. TablesInv /\ ReportInv /\ PhaseInv
  BY DEF Inv
<1>2. /\ pc \in {"devices", "users"} /\ subject' = c
      /\ f' \in Sorted(Relevant(fetched, KeyOf(c), report[c].last))
      /\ i' = 1 /\ cands' = {} /\ deadline' = 0
      /\ UNCHANGED <<resolutions, leases, sessions, pc, report, fetched, todo>>
  BY DEF BeginFold, tables
<1>3. TablesInv' /\ ReportInv' /\ PhaseInv'
  BY <1>1, <1>2 DEF TablesInv, ReportInv, PhaseInv, DevicesKnown, DeviceOf,
     UserOf, HasDevice, Fetched, Window, Clients, Devices
<1>4. FoldInv'
  <2>1. /\ f' \in Sorted(Relevant(fetched', KeyOf(subject)', report'[subject'].last))
        /\ f' \in Sorted(Relevant(fetched, KeyOf(c), report[c].last))
    BY <1>2 DEF KeyOf
  <2>2. Len(f') \in Nat
    BY <1>1, <1>2, RowsAreRows, SortedSeq
  <2>3. Folded' = {} /\ Holders(Folded') = {}
    BY <1>2 DEF Folded, Holders
  <2>4. \A r : ~IsLastOpening(r, Folded')
    BY <2>3 DEF IsLastOpening
  <2> QED  BY <1>2, <2>1, <2>2, <2>3, <2>4 DEF FoldInv, IsLastOpening
<1> QED  BY <1>3, <1>4 DEF Inv

LEMMA FoldBatchInv ==
    ASSUME Inv, FoldBatch
    PROVE  Inv'
<1>1. TablesInv /\ ReportInv /\ PhaseInv /\ FoldInv /\ subject # None
  BY DEF Inv, FoldBatch
<1>2. UNCHANGED <<resolutions, leases, sessions, pc, report, fetched, todo,
                  subject, f>>
  BY DEF FoldBatch, tables
<1>3. TablesInv' /\ ReportInv' /\ PhaseInv'
  BY <1>1, <1>2 DEF TablesInv, ReportInv, PhaseInv, DevicesKnown, DeviceOf,
     UserOf, HasDevice, Fetched, Window, Clients, Devices
<1> DEFINE R == Relevant(fetched, KeyOf(subject), report[subject].last)
<1>4. R \in SUBSET Row /\ IsFiniteSet(R) /\ f \in Sorted(R)
  BY <1>1, RowsAreRows DEF FoldInv
<1> HIDE DEF R
<1>5. /\ Len(f) \in Nat /\ DOMAIN f = 1..Len(f)
      /\ \A k \in 1..Len(f) : f[k] \in R /\ f[k] \in Row /\ f[k].time \in Int
      /\ \A m, n \in 1..Len(f) : m < n => f[m].time <= f[n].time
  BY <1>4, SortedSeq DEF Row
<1>6. /\ i \in 1..Len(f) + 1
      /\ \A m \in 1..i - 1, n \in i..Len(f) : f[m].time < f[n].time
      /\ cands = Holders(Folded) /\ deadline \in Int
      /\ \A r : IsLastOpening(r, Folded) => deadline = r.time + Horizon
  BY <1>1 DEF FoldInv
<1>7. PICK n \in 2..Len(f) + 1 :
        /\ IsBatch(i, n) /\ i' = n
        /\ LET batch == {f[k] : k \in i..n - 1}
               held == IF Opens(batch) # {} THEN Opens(batch) ELSE cands
           IN /\ cands' = {c \in held : c[1] \notin Closes(batch)}
              /\ deadline' = NewDeadline(deadline, Opens(batch), f[i].time)
  BY DEF FoldBatch
<1> DEFINE B == {f[k] : k \in i..n - 1}
           t == f[i].time
<1>8. /\ cands' = {c \in (IF Opens(B) # {} THEN Opens(B) ELSE cands) :
                      c[1] \notin Closes(B)}
      /\ deadline' = NewDeadline(deadline, Opens(B), t)
  BY <1>7
<1>9. /\ i <= Len(f) /\ i \in Nat /\ n \in Nat /\ n \in i + 1..Len(f) + 1
      /\ \A k \in i..n - 1 : f[k].time = t
      /\ n <= Len(f) => f[n].time # t
  BY <1>5, <1>6, <1>7 DEF IsBatch
<1>10. Folded' = Folded \cup B
  <2>1. 1..n - 1 = (1..i - 1) \cup (i..n - 1)
    BY <1>5, <1>6, <1>9
  <2>2. Folded' = {f[k] : k \in 1..n - 1}
    BY <1>2, <1>7 DEF Folded
  <2> QED  BY <2>1, <2>2 DEF Folded
<1>11. /\ Folded \in SUBSET Row /\ B \in SUBSET Row /\ t \in Int
       /\ \A r \in B : r.time = t
       /\ \A r \in Folded : r.time < t
  <2>1. \A k \in 1..i - 1 : k \in 1..Len(f) /\ f[k].time < t
    BY SMTT(30), <1>5, <1>6, <1>9
  <2>2. \A k \in i..n - 1 : k \in 1..Len(f)
    BY <1>5, <1>6, <1>9
  <2> QED  BY <1>5, <1>6, <1>9, <2>1, <2>2 DEF Folded
<1>12. \A m \in 1..n - 1, k \in n..Len(f) : f[m].time < f[k].time
  <2>1. ASSUME NEW m \in 1..n - 1, NEW k \in n..Len(f)
        PROVE  f[m].time < f[k].time
    <3>1. m \in 1..Len(f) /\ k \in 1..Len(f) /\ n \in 1..Len(f) /\ i \in 1..Len(f)
      BY <1>5, <1>6, <1>9
    <3>2. f[m].time <= t
      BY <1>5, <1>6, <1>9, <3>1
    <3>3. t < f[n].time
      BY <1>5, <1>9, <3>1
    <3>4. f[n].time <= f[k].time
      BY <1>5, <1>9, <3>1
    <3> QED  BY <1>5, <3>1, <3>2, <3>3, <3>4
  <2> QED  BY <2>1
<1> HIDE DEF B, t
<1>13. /\ Opens(B) # {} =>
             /\ Holders(Folded \cup B) = {c \in Opens(B) : c[1] \notin Closes(B)}
             /\ \A r : IsLastOpening(r, Folded \cup B) => r.time = t
       /\ Opens(B) = {} =>
             /\ Holders(Folded \cup B)
                  = {c \in Holders(Folded) : c[1] \notin Closes(B)}
             /\ \A r : IsLastOpening(r, Folded \cup B) => IsLastOpening(r, Folded)
  BY <1>11, BatchStep
<1>14. cands' = Holders(Folded')
  BY <1>6, <1>8, <1>10, <1>13
<1>15. Horizon \in Int /\ Horizon' = Horizon
  BY <1>2, TimeAssumption DEF Horizon
<1>16. /\ deadline' \in Int
       /\ \A r : IsLastOpening(r, Folded') => deadline' = r.time + Horizon
  <2>1. CASE Opens(B) # {}
    <3>1. deadline' = t + Horizon
      BY <1>8, <2>1 DEF NewDeadline
    <3>2. \A r : IsLastOpening(r, Folded \cup B) => r.time = t
      BY <1>13, <2>1
    <3>3. t + Horizon \in Int
      BY <1>11, <1>15
    <3>4. \A r : IsLastOpening(r, Folded') => r.time = t
      BY <1>10, <3>2
    <3> QED  BY <3>1, <3>3, <3>4
  <2>2. CASE Opens(B) = {}
    <3>1. deadline' = deadline
      BY <1>8, <2>2 DEF NewDeadline
    <3>2. \A r : IsLastOpening(r, Folded \cup B) => IsLastOpening(r, Folded)
      BY <1>13, <2>2
    <3> QED  BY <1>6, <1>10, <3>1, <3>2
  <2> QED  BY <2>1, <2>2
<1>17. FoldInv'
  <2>1. /\ pc' \in {"devices", "users"}
        /\ f' \in Sorted(Relevant(fetched', KeyOf(subject)', report'[subject'].last))
    BY <1>1, <1>2 DEF FoldInv, KeyOf
  <2>2. /\ i' \in 1..Len(f') + 1
        /\ \A m \in 1..i' - 1, k \in i'..Len(f') : f'[m].time < f'[k].time
    BY <1>2, <1>5, <1>6, <1>7, <1>9, <1>12
  <2> QED  BY <1>14, <1>15, <1>16, <2>1, <2>2 DEF FoldInv, IsLastOpening
<1> QED  BY <1>3, <1>17 DEF Inv

(* The fold is over: its verdict is the reading of the evidence. *)
LEMMA VerdictIsReading ==
    ASSUME TablesInv, ReportInv, FoldInv, subject # None, i > Len(f),
           NEW T \in SUBSET Row, NEW keys,
           fetched = Window(T, keys, Horizon), KeyOf(subject) \in keys
    PROVE  Verdict(cands, report[subject].last <= deadline)
             = Reading(Evidence(T, KeyOf(subject), report[subject].last),
                       report[subject].last, Horizon)
<1> DEFINE t == report[subject].last
           R == Relevant(fetched, KeyOf(subject), t)
<1>1. R \in SUBSET Row /\ IsFiniteSet(R) /\ f \in Sorted(R)
  BY RowsAreRows DEF FoldInv
<1>2. Len(f) \in Nat /\ R = {f[k] : k \in 1..Len(f)}
  BY <1>1, SortedSeq
<1>3. i = Len(f) + 1
  BY <1>2 DEF FoldInv
<1>4. Folded = R
  BY <1>2, <1>3 DEF Folded
<1>5. t \in From..To /\ t \in Int
  BY TimeAssumption DEF ReportInv, Line, Time
<1>6. Horizon \in Nat /\ Horizon \in Int
  BY TimeAssumption DEF Horizon
<1>7. /\ cands = Holders(R) /\ deadline \in Int
      /\ \A r : IsLastOpening(r, R) => deadline = r.time + Horizon
  BY <1>4 DEF FoldInv
<1> HIDE DEF t, R
<1>8. Verdict(cands, t <= deadline) = Reading(R, t, Horizon)
  BY <1>1, <1>5, <1>6, <1>7, CoveredByLast
<1>9. Reading(Relevant(Window(T, keys, Horizon), KeyOf(subject), t), t, Horizon)
        = Reading(Evidence(T, KeyOf(subject), t), t, Horizon)
  BY <1>5, <1>6, WindowIsEnough
<1> QED  BY <1>8, <1>9 DEF t, R

(* A verdict is a token, or says that there is none. *)
LEMMA VerdictType ==
    ASSUME NEW R \in SUBSET Row, NEW covered \in BOOLEAN
    PROVE  Verdict(Holders(R), covered) \in Verdicts
<1>1. ASSUME NEW c \in Holders(R) PROVE c[2] \in Token \cup {NoToken}
  <2>1. PICK r \in R : c = <<r.entity, r.token>>
    BY DEF Holders
  <2> QED  BY <2>1 DEF Row
<1>2. Holders(R) # {} => (CHOOSE c \in Holders(R) : TRUE) \in Holders(R)
  OBVIOUS
<1>3. Holders(R) # {} => TheToken(Holders(R)) \in Token \cup {NoToken}
  BY <1>1, <1>2 DEF TheToken
<1> QED  BY <1>3 DEF Verdict, Verdicts

LEMMA EndFoldInv ==
    ASSUME Inv, EndFold
    PROVE  Inv'
<1> DEFINE v == Verdict(cands, report[subject].last <= deadline)
<1>1. TablesInv /\ ReportInv /\ PhaseInv /\ FoldInv /\ subject # None
  BY DEF Inv, EndFold
<1>2. /\ UNCHANGED <<resolutions, leases, sessions, pc, fetched>>
      /\ report' = IF pc = "devices"
                   THEN [report EXCEPT ![subject].device = v]
                   ELSE [report EXCEPT ![subject].user = v]
      /\ todo' = todo \ {subject} /\ subject' = None /\ i > Len(f)
  BY DEF EndFold, tables
<1>3. /\ pc \in {"devices", "users"} /\ cands = Holders(Folded)
      /\ subject \in todo /\ subject \in DOMAIN report
      /\ report[subject] \in Line /\ fetched = Fetched
  BY <1>1 DEF FoldInv, ReportInv, PhaseInv
<1>4. Folded \in SUBSET Row
  <2> DEFINE R == Relevant(fetched, KeyOf(subject), report[subject].last)
  <2>1. R \in SUBSET Row /\ IsFiniteSet(R) /\ f \in Sorted(R)
    BY <1>1, RowsAreRows DEF FoldInv
  <2> HIDE DEF R
  <2>2. i \in 1..Len(f) + 1 /\ Len(f) \in Nat /\ R = {f[k] : k \in 1..Len(f)}
    BY <1>1, <2>1, SortedSeq DEF FoldInv
  <2> QED  BY <2>1, <2>2 DEF Folded
<1>5. v \in Verdicts
  <2>1. deadline \in Int /\ report[subject].last \in Int
    BY <1>1, <1>3, TimeAssumption DEF FoldInv, Line, Time
  <2>2. (report[subject].last <= deadline) \in BOOLEAN
    BY <2>1
  <2> QED  BY <1>3, <1>4, <2>2, VerdictType
<1>6. /\ DOMAIN report' = DOMAIN report
      /\ report' \in [DOMAIN report -> Line]
      /\ \A c \in DOMAIN report :
            /\ report'[c].last = report[c].last
            /\ c # subject => report'[c] = report[c]
      /\ pc = "devices" => /\ report'[subject].device = v
                           /\ report'[subject].user = report[subject].user
      /\ pc = "users" => /\ \A c \in DOMAIN report :
                               report'[c].device = report[c].device
                         /\ report'[subject].user = v
  <2> HIDE DEF v
  <2>1. CASE pc = "devices"
    BY <1>1, <1>2, <1>3, <1>5, <2>1 DEF ReportInv, Line
  <2>2. CASE pc = "users"
    BY <1>1, <1>2, <1>3, <1>5, <2>2 DEF ReportInv, Line
  <2> QED  BY <1>3, <2>1, <2>2
<1>7. v = Reading(Evidence(IF pc = "devices" THEN leases ELSE sessions,
                           KeyOf(subject), report[subject].last),
                  report[subject].last, Horizon)
  <2>1. leases \in SUBSET Row /\ sessions \in SUBSET Row
    BY <1>1, RowsAreRows
  <2>2. CASE pc = "devices"
    <3>1. fetched = Window(leases, Clients, Horizon) /\ KeyOf(subject) \in Clients
      BY <1>3, <2>2 DEF Fetched, Horizon, KeyOf, Clients
    <3> QED  BY <1>1, <1>2, <2>1, <2>2, <3>1, VerdictIsReading
  <2>3. CASE pc = "users"
    <3>1. HasDevice(subject)
      BY <1>1, <1>3, <2>3 DEF PhaseInv
    <3>2. fetched = Window(sessions, Devices, Horizon) /\ KeyOf(subject) \in Devices
      BY <1>3, <2>3, <3>1 DEF Fetched, Horizon, KeyOf, Devices
    <3> QED  BY <1>1, <1>2, <2>1, <2>3, <3>2, VerdictIsReading
  <2> QED  BY <1>3, <2>2, <2>3
<1> HIDE DEF v
<1>8. TablesInv' /\ ReportInv' /\ FoldInv'
  BY <1>1, <1>2, <1>6 DEF TablesInv, ReportInv, FoldInv
<1>9. PhaseInv'
  <2>1. CASE pc = "devices"
    <3>1. /\ DeviceOf(subject) = v
          /\ \A c \in DOMAIN report : DeviceOf(c)' = DeviceOf(c)
      BY <1>2, <1>3, <1>6, <1>7, <2>1 DEF DeviceOf, KeyOf, Horizon
    <3>2. Fetched' = Fetched
      BY <1>2, <1>6, <2>1 DEF Fetched, Window, Clients
    <3>3. \A c \in DOMAIN report \ todo' : report'[c].device = DeviceOf(c)'
      <4>1. \A c \in DOMAIN report \ todo : report[c].device = DeviceOf(c)
        BY <1>1, <2>1 DEF PhaseInv, DevicesKnown
      <4> QED  BY <1>2, <1>3, <1>6, <2>1, <3>1, <4>1
    <3>4. \A c \in DOMAIN report : report'[c].user = NoToken
      BY <1>1, <1>3, <1>6, <2>1 DEF PhaseInv
    <3> QED  BY <1>2, <1>3, <1>6, <2>1, <3>2, <3>3, <3>4 DEF PhaseInv, DevicesKnown
  <2>2. CASE pc = "users"
    <3>1. /\ HasDevice(subject)
          /\ \A c \in DOMAIN report : HasDevice(c)' = HasDevice(c)
      BY <1>1, <1>3, <1>6, <2>2 DEF PhaseInv, HasDevice
    <3>2. /\ \A c \in DOMAIN report : UserOf(c)' = UserOf(c)
          /\ \A c \in DOMAIN report : DeviceOf(c)' = DeviceOf(c)
          /\ UserOf(subject) = v
      BY <1>2, <1>3, <1>6, <1>7, <2>2, <3>1 DEF UserOf, DeviceOf, KeyOf, Horizon
    <3>3. Devices' = Devices
      BY <1>2, <1>6, <2>2, <3>1 DEF Devices
    <3>4. Fetched' = Fetched
      BY <1>2, <2>2, <3>3 DEF Fetched, Window
    <3>5. \A c \in DOMAIN report \ todo' : report'[c].user = UserOf(c)'
      <4>1. \A c \in DOMAIN report \ todo : report[c].user = UserOf(c)
        BY <1>1, <2>2 DEF PhaseInv
      <4> QED  BY <1>2, <1>3, <1>6, <2>2, <3>2, <4>1
    <3>6. \A c \in DOMAIN report : report'[c].device = DeviceOf(c)'
      BY <1>1, <1>6, <2>2, <3>2 DEF PhaseInv, DevicesKnown
    <3>7. \A c \in todo' : HasDevice(c)'
      <4>1. \A c \in todo : HasDevice(c) /\ c \in DOMAIN report
        BY <1>1, <2>2 DEF PhaseInv, ReportInv
      <4> QED  BY <1>2, <3>1, <4>1
    <3> QED  BY <1>2, <1>3, <1>6, <2>2, <3>4, <3>5, <3>6, <3>7
             DEF PhaseInv, DevicesKnown
  <2> QED  BY <1>3, <2>1, <2>2
<1> QED  BY <1>8, <1>9 DEF Inv

-----------------------------------------------------------------------------
(* The other steps. *)

(* Storing a row disturbs nothing: no claim is made about a table before   *)
(* it has been asked.                                                      *)
LEMMA StoreInv ==
    ASSUME Inv,
           \/ \E r \in ResolutionRow : StoreResolution(r)
           \/ \E r \in LeaseRow : StoreLease(r)
           \/ \E r \in SessionRow : StoreSession(r)
    PROVE  Inv'
<1>1. TablesInv /\ ReportInv /\ PhaseInv /\ FoldInv
  BY DEF Inv
<1>2. /\ pc \in {"resolutions", "leases", "sessions"}
      /\ UNCHANGED <<pc, report, fetched, todo, subject, f, i, cands, deadline>>
      /\ pc = "sessions" => leases' = leases
      /\ leases \subseteq leases' /\ sessions \subseteq sessions'
  BY DEF StoreResolution, StoreLease, StoreSession, fold
<1>3. TablesInv'
  BY <1>1, FS_AddElement
     DEF TablesInv, StoreResolution, StoreLease, StoreSession
<1>4. ReportInv'
  BY <1>1, <1>2 DEF ReportInv
<1>5. subject = None
  BY <1>1, <1>2 DEF FoldInv
<1>6. FoldInv'
  BY <1>2, <1>5 DEF FoldInv
<1>7. PhaseInv'
  BY <1>1, <1>2 DEF PhaseInv, DevicesKnown, DeviceOf
<1> QED  BY <1>3, <1>4, <1>6, <1>7 DEF Inv

LEMMA QueryInv ==
    ASSUME Inv, QueryResolutions \/ QueryLeases \/ QuerySessions \/ QueryFails
    PROVE  Inv'
<1>1. TablesInv /\ ReportInv /\ PhaseInv /\ FoldInv
  BY DEF Inv
<1>2. /\ pc \in {"resolutions", "leases", "sessions"}
      /\ UNCHANGED <<resolutions, leases, sessions, subject, f, i, cands, deadline>>
  BY DEF QueryResolutions, QueryLeases, QuerySessions, QueryFails, tables, fold
<1>3. subject = None /\ TablesInv' /\ FoldInv'
  BY <1>1, <1>2 DEF FoldInv, TablesInv
<1>4. CASE QueryResolutions
  <2> DEFINE groups == {<<r.client, r.name>> : r \in Resolved}
  <2>1. PICK last \in [groups -> From..To] :
          /\ report' = [c \in groups |->
               [last |-> last[c], device |-> NoToken, user |-> NoToken]]
          /\ pc' = IF groups = {} THEN "done" ELSE "leases"
    BY <1>4 DEF QueryResolutions
  <2>2. fetched' = fetched /\ todo' = todo /\ subject' = None
    BY <1>3, <1>4 DEF QueryResolutions, fold
  <2>3. groups \subseteq Candidate
    BY <1>1 DEF TablesInv, Resolved, ResolutionRow, Candidate
  <2> HIDE DEF groups
  <2>4. /\ DOMAIN report' = groups /\ report' \in [groups -> Line]
        /\ \A c \in groups : report'[c].user = NoToken
    BY <2>1 DEF Line, Verdicts
  <2>5. todo' = {}
    BY <1>1, <1>4, <2>2 DEF ReportInv, PhaseInv, QueryResolutions
  <2>6. ReportInv'
    BY <1>1, <1>2, <2>2, <2>3, <2>4, <2>5 DEF ReportInv
  <2>7. PhaseInv'
    BY <2>1, <2>4 DEF PhaseInv, DevicesKnown
  <2> QED  BY <1>3, <2>6, <2>7 DEF Inv
<1>5. CASE QueryLeases
  <2>1. /\ fetched' = Window(leases, Clients, MaxLease)
        /\ todo' = DOMAIN report /\ report' = report
        /\ pc = "leases" /\ pc' = "devices"
    BY <1>5 DEF QueryLeases
  <2>2. ReportInv'
    BY <1>1, <1>2, <1>3, <2>1 DEF ReportInv, Window
  <2>3. PhaseInv'
    BY <1>1, <1>2, <2>1 DEF PhaseInv, DevicesKnown, Fetched, Window, Clients
  <2> QED  BY <1>3, <2>2, <2>3 DEF Inv
<1>6. CASE QuerySessions
  <2>1. /\ fetched' = Window(sessions, Devices, MaxSession)
        /\ todo' = {c \in DOMAIN report : HasDevice(c)} /\ report' = report
        /\ pc = "sessions" /\ pc' = "users"
    BY <1>6 DEF QuerySessions
  <2>2. ReportInv'
    BY <1>1, <1>2, <1>3, <2>1 DEF ReportInv, Window
  <2>3. \A c \in DOMAIN report : /\ DeviceOf(c)' = DeviceOf(c)
                                 /\ UserOf(c)' = UserOf(c)
                                 /\ HasDevice(c)' = HasDevice(c)
    BY <1>2, <2>1 DEF DeviceOf, UserOf, HasDevice
  <2>4. Fetched' = fetched'
    BY <1>2, <2>1 DEF Fetched, Window, Devices, HasDevice
  <2>5. \A c \in DOMAIN report \ todo' : report[c].user = UserOf(c)
    BY <1>1, <2>1 DEF UserOf, PhaseInv
  <2>6. DevicesKnown(DOMAIN report)
    BY <1>1, <2>1 DEF PhaseInv
  <2>7. PhaseInv'
    BY <2>1, <2>3, <2>4, <2>5, <2>6 DEF PhaseInv, DevicesKnown
  <2> QED  BY <1>3, <2>2, <2>7 DEF Inv
<1>7. CASE QueryFails
  <2>1. UNCHANGED <<report, fetched, todo>> /\ pc' = "failed"
    BY <1>7 DEF QueryFails
  <2>2. ReportInv' /\ PhaseInv'
    BY <1>1, <1>2, <2>1 DEF ReportInv, PhaseInv
  <2> QED  BY <1>3, <2>2 DEF Inv
<1> QED  BY <1>4, <1>5, <1>6, <1>7

LEMMA PhaseDoneInv ==
    ASSUME Inv, DevicesDone \/ UsersDone
    PROVE  Inv'
<1>1. TablesInv /\ ReportInv /\ PhaseInv /\ FoldInv
  BY DEF Inv
<1>2. /\ todo = {} /\ pc \in {"devices", "users"}
      /\ UNCHANGED <<resolutions, leases, sessions, report, fetched, todo,
                     subject, f, i, cands, deadline>>
  BY DEF DevicesDone, UsersDone, tables, fold
<1>3. subject = None /\ TablesInv' /\ ReportInv' /\ FoldInv'
  BY <1>1, <1>2 DEF TablesInv, ReportInv, FoldInv
<1>4. \A c \in DOMAIN report : /\ DeviceOf(c)' = DeviceOf(c)
                               /\ UserOf(c)' = UserOf(c)
  BY <1>2 DEF DeviceOf, UserOf, HasDevice
<1>5. DevicesKnown(DOMAIN report)
  BY <1>1, <1>2 DEF PhaseInv
<1>6. CASE DevicesDone
  <2>1. /\ pc = "devices" /\ pc' = IF Devices = {} THEN "done" ELSE "sessions"
    BY <1>6 DEF DevicesDone
  <2>2. \A c \in DOMAIN report : report[c].user = NoToken
    BY <1>1, <2>1 DEF PhaseInv
  <2>3. Devices = {} => \A c \in DOMAIN report : report[c].user = UserOf(c)
    BY <2>2 DEF Devices, UserOf
  <2>4. PhaseInv'
    BY <1>2, <1>4, <1>5, <2>1, <2>2, <2>3 DEF PhaseInv, DevicesKnown
  <2> QED  BY <1>3, <2>4 DEF Inv
<1>7. CASE UsersDone
  <2>1. pc = "users" /\ pc' = "done"
    BY <1>7 DEF UsersDone
  <2>2. PhaseInv'
    BY <1>1, <1>2, <1>4, <1>5, <2>1 DEF PhaseInv, DevicesKnown
  <2> QED  BY <1>3, <2>2 DEF Inv
<1> QED  BY <1>6, <1>7

LEMMA StutterInv == Inv /\ UNCHANGED vars => Inv'
<1> SUFFICES ASSUME Inv, UNCHANGED vars PROVE Inv'
  OBVIOUS
<1>1. TablesInv' /\ ReportInv'
  BY DEF Inv, vars, tables, fold, TablesInv, ReportInv
<1>2. PhaseInv'
  BY DEF Inv, vars, tables, fold, PhaseInv, DevicesKnown, DeviceOf, UserOf,
     HasDevice, Fetched, Window, Clients, Devices
<1>3. FoldInv'
  BY DEF Inv, vars, tables, fold, FoldInv, KeyOf, Horizon, Folded, IsLastOpening
<1> QED  BY <1>1, <1>2, <1>3 DEF Inv

THEOREM InvHolds == Spec => []Inv
<1>1. Inv /\ [Next]_vars => Inv'
  <2> SUFFICES ASSUME Inv, [Next]_vars PROVE Inv'
    OBVIOUS
  <2>1. ASSUME NEW c \in todo, BeginFold(c) PROVE Inv'
    BY <2>1, BeginFoldInv
  <2>2. CASE FoldBatch
    BY <2>2, FoldBatchInv
  <2>3. CASE EndFold
    BY <2>3, EndFoldInv
  <2>4. CASE UNCHANGED vars
    BY <2>4, StutterInv
  <2>5. CASE Ended
    BY <2>5, StutterInv DEF Ended
  <2> QED  BY <2>1, <2>2, <2>3, <2>4, <2>5, StoreInv, QueryInv, PhaseDoneInv
           DEF Next
<1> QED  BY <1>1, InitInv, PTL DEF Spec

-----------------------------------------------------------------------------
(* The tables hold rows, the report names tokens, and only a candidate     *)
(* that is left to do is being reduced (the types of runWho's variables).  *)
THEOREM TypeCorrect == Spec => []TypeOK
<1>1. Inv => TypeOK
  BY DEF Inv, TablesInv, ReportInv, PhaseInv, TypeOK
<1> QED  BY <1>1, InvHolds, PTL

(* What runWho reports is what all the rows stored say, for every set of   *)
(* rows, window and horizon, in every order of equal time stamps           *)
(* (identity_join.go:10-38, main.go:544-545).                              *)
THEOREM ReportIsEvidence == Spec => []BindingsAreEvidence
<1>1. Inv => BindingsAreEvidence
  BY DEF Inv, PhaseInv, DevicesKnown, BindingsAreEvidence
<1> QED  BY <1>1, InvHolds, PTL

-----------------------------------------------------------------------------
(* The live store.  Folding a key's events in order of time, one a second, *)
(* leaves the binding of the latest opening: open, or closed by a closing  *)
(* of its entity since.                                                    *)

(* The order of the naturals, as a relation. *)
Below == {r \in Nat \X Nat : r[1] < r[2]}

LEMMA BelowIsWellFounded == IsWellFoundedOn(Below, Nat)
<1>1. Below = OpToRel(<, Nat)
  BY DEF Below, OpToRel
<1> QED  BY <1>1, NatLessThanWellFounded

LEMMA LeastExists ==
    ASSUME NEW S \in SUBSET Nat, S # {}
    PROVE  \E m \in S : \A n \in S : m <= n
<1>1. PICK m \in S : \A n \in S : <<n, m>> \notin Below
  BY BelowIsWellFounded, WFMin
<1>2. ASSUME NEW n \in S  PROVE m <= n
  <2>1. m \in Nat /\ n \in Nat /\ <<n, m>> \notin Below
    BY <1>1
  <2>2. ~(n < m)
    BY <2>1 DEF Below
  <2> QED  BY <2>1, <2>2
<1> QED  BY <1>2

(* Of finitely many rows one is the latest. *)
LEMMA LatestExists ==
    ASSUME NEW R \in SUBSET Row, R # {}, \A r \in R : r.time \in Time
    PROVE  \E r \in R : \A s \in R : s.time <= r.time
<1> DEFINE D == {n \in Nat : \E r \in R : r.time = MaxTime - n}
<1>1. MaxTime \in Nat /\ \A r \in R : r.time \in 1..MaxTime
  BY TimeAssumption DEF Time
<1>2. \A r \in R : MaxTime - r.time \in D
  BY <1>1
<1>3. D \in SUBSET Nat /\ D # {}
  BY <1>2
<1>4. PICK n \in D : \A m \in D : n <= m
  BY <1>3, LeastExists
<1>5. PICK r \in R : r.time = MaxTime - n
  BY <1>4
<1>6. ASSUME NEW s \in R PROVE s.time <= r.time
  <2>1. n <= MaxTime - s.time /\ n \in Nat
    BY <1>2, <1>4
  <2> QED  BY <1>1, <1>5, <2>1
<1> QED  BY <1>6

(* Any finite set of rows can be put in order. *)
LEMMA SortedExists ==
    ASSUME NEW R \in SUBSET Row, IsFiniteSet(R), \A r \in R : r.time \in Time
    PROVE  Sorted(R) # {}
<1> DEFINE D == {n \in Nat : \E P \in SUBSET R : Cardinality(P) = n /\ Sorted(P) = {}}
<1>1. SUFFICES D = {}
  BY FS_CardinalityType
<1>2. SUFFICES ASSUME D # {} PROVE FALSE
  OBVIOUS
<1>3. PICK n \in D : \A m \in D : n <= m
  BY <1>2, LeastExists
<1>4. PICK P \in SUBSET R : Cardinality(P) = n /\ Sorted(P) = {}
  BY <1>3
<1>5. IsFiniteSet(P) /\ P \in SUBSET Row /\ n \in Nat
  BY <1>3, <1>4, FS_Subset
<1>6. P # {}
  <2>1. ASSUME P = {} PROVE FALSE
    <3>1. Cardinality(P) = 0
      BY <2>1, FS_EmptySet
    <3> DEFINE e == [k \in 1..0 |-> k]
    <3>2. e \in [1..0 -> P] /\ DOMAIN e = {} /\ Range(e) = P
      BY <2>1 DEF Range
    <3>3. \A l, m \in DOMAIN e : l < m => e[l].time <= e[m].time
      BY <3>2
    <3> HIDE DEF e
    <3>4. e \in Sorted(P)
      BY <3>1, <3>2, <3>3 DEF Sorted
    <3> QED  BY <1>4, <3>4
  <2> QED  BY <2>1
<1>7. PICK x \in P : \A s \in P : s.time <= x.time
  BY <1>5, <1>6, LatestExists
<1> DEFINE Q == P \ {x}
<1>8. IsFiniteSet(Q) /\ Cardinality(Q) = n - 1 /\ Cardinality(Q) \in Nat /\ Q \in SUBSET R
  BY <1>4, <1>5, <1>7, FS_RemoveElement, FS_CardinalityType
<1>9. Sorted(Q) # {}
  <2>1. ~(n <= Cardinality(Q))
    BY <1>5, <1>8
  <2>2. Cardinality(Q) \notin D
    <3> HIDE DEF D
    <3> QED  BY <1>3, <2>1
  <2> HIDE DEF Q
  <2> QED  BY <1>8, <2>2
<1>10. PICK g \in Sorted(Q) : TRUE
  BY <1>9
<1>11. /\ Len(g) = n - 1 /\ DOMAIN g = 1..(n - 1) /\ \A k \in 1..(n - 1) : g[k] \in Q
       /\ Q = {g[k] : k \in 1..(n - 1)}
       /\ \A l, m \in 1..(n - 1) : l < m => g[l].time <= g[m].time
  <2> HIDE DEF Q
  <2>1. Len(g) = n - 1
    BY <1>8, <1>10, SortedSeq
  <2> QED  BY <1>8, <1>10, <2>1, SortedSeq
<1> HIDE DEF Q
<1> DEFINE h == [k \in 1..n |-> IF k = n THEN x ELSE g[k]]
<1>12. /\ h \in [1..n -> P] /\ Range(h) = P
  <2>1. P = Q \cup {x}
    BY <1>7 DEF Q
  <2>2. n \in 1..n /\ \A k \in 1..n : k # n => k \in 1..(n - 1)
    BY <1>5, <1>8
  <2>3. \A k \in 1..(n - 1) : k \in 1..n /\ h[k] = g[k]
    BY <1>5
  <2>4. h[n] = x
    BY <2>2
  <2>5. h \in [1..n -> P]
    BY <1>11, <2>1, <2>2
  <2>6. \A r \in P : \E k \in 1..n : h[k] = r
    BY <1>11, <2>1, <2>2, <2>3, <2>4
  <2> QED  BY <2>5, <2>6 DEF Range
<1>13. \A l, m \in 1..n : l < m => h[l].time <= h[m].time
  <2> SUFFICES ASSUME NEW l \in 1..n, NEW m \in 1..n, l < m
               PROVE  h[l].time <= h[m].time
    OBVIOUS
  <2>1. l \in 1..(n - 1) /\ h[l] = g[l] /\ h[l] \in P
    BY <1>5, <1>12
  <2>2. CASE m = n
    BY <1>7, <2>1, <2>2
  <2>3. CASE m # n
    <3>1. m \in 1..(n - 1) /\ h[m] = g[m]
      BY <1>5, <2>3
    <3> QED  BY <1>11, <2>1, <3>1
  <2> QED  BY <2>2, <2>3
<1>14. h \in Sorted(P)
  <2> HIDE DEF h
  <2> QED  BY <1>4, <1>12, <1>13 DEF Sorted
<1> QED  BY <1>4, <1>14

(* The binding that the events of R leave, when no two are of one second.  *)
ClosedSince(r, R) ==
    \E s \in R : ~s.opens /\ s.entity = r.entity /\ r.time < s.time

Leaves(R, b) ==
    \/ b = Absent /\ \A r \in R : ~r.opens
    \/ \E r \in R :
          /\ IsLastOpening(r, R)
          /\ b \in Binding /\ b.entity = r.entity
          /\ IF ClosedSince(r, R)
             THEN b.closed /\ \E s \in R : b.time = s.time
             ELSE ~b.closed /\ b.user = r.token /\ b.time = r.time

Named(R) == \A r \in R : r.entity # NoToken

(* The rules of applyDHCP and applyRADIUS for an event later than all      *)
(* before it.                                                              *)
LEMMA AppliedLeaves ==
    ASSUME NEW R \in SUBSET Row, NEW x \in Row, x.entity # NoToken, Named(R),
           \A r \in R : r.time < x.time,
           NEW b, Leaves(R, b)
    PROVE  Leaves(R \cup {x}, Applied(b, x))
<1> DEFINE W == R \cup {x}
<1> SUFFICES Leaves(W, Applied(b, x))
  OBVIOUS
<1>1. /\ \A r \in W : /\ r.time \in Int /\ r.opens \in BOOLEAN
                        /\ r.entity \in Macs \cup Sessions
                        /\ r.token \in Token \cup {NoToken}
      /\ x \in W /\ R \subseteq W
  BY DEF Row, Named
<1>2. \A e, u, t, c : Live(0, << >>)!Bound(e, u, t, c)
                      = [entity |-> e, user |-> u, time |-> t, closed |-> c]
  BY DEF Live!Bound
<1>3. \A c \in BOOLEAN : [entity |-> x.entity, user |-> x.token,
                          time |-> x.time, closed |-> c] \in Binding
  BY <1>1 DEF Binding
<1>4. b = Absent \/ (b \in Binding /\ b.time < x.time /\ b.time \in Int
                       /\ b.closed \in BOOLEAN)
  BY <1>1 DEF Leaves, IsLastOpening, Binding
<1>5. Absent \notin Binding
  BY LiveAssumption
<1>6. CASE x.opens
  <2>1. ~(b # Absent /\ Live(0, << >>)!TooLate(b, x.entity, x.time))
    BY <1>1, <1>4 DEF Live!TooLate
  <2> DEFINE n == [entity |-> x.entity, user |-> x.token, time |-> x.time,
                   closed |-> FALSE]
  <2>2. Applied(b, x) = n
    BY <1>2, <1>6, <2>1 DEF Applied, Live!Opened
  <2>3. IsLastOpening(x, W)
    BY <1>1, <1>6 DEF IsLastOpening
  <2>4. ~ClosedSince(x, W)
    BY <1>1, <1>6 DEF ClosedSince
  <2>5. n \in Binding /\ n.entity = x.entity /\ ~n.closed /\ n.user = x.token
        /\ n.time = x.time
    BY <1>3
  <2> HIDE DEF n, W
  <2> QED  BY <1>1, <2>2, <2>3, <2>4, <2>5 DEF Leaves
<1>7. CASE ~x.opens
  <2>1. Applied(b, x) =
          IF b # Absent /\ b.entity = x.entity
          THEN [entity |-> x.entity, user |-> x.token, time |-> x.time, closed |-> TRUE]
          ELSE b
    <3>1. b # Absent => x.time >= b.time
      BY <1>1, <1>4
    <3>2. Applied(b, x) = Live(0, << >>)!Ended(b, x.entity, x.token, x.time)
      BY <1>7 DEF Applied
    <3>3. Live(0, << >>)!Ends(b, x.entity, x.time)
            <=> b # Absent /\ b.entity = x.entity /\ x.time >= b.time
      BY DEF Live!Ends
    <3>4. Applied(b, x) =
            IF Live(0, << >>)!Ends(b, x.entity, x.time)
            THEN Live(0, << >>)!Bound(x.entity, x.token, x.time, TRUE) ELSE b
      BY <3>2 DEF Live!Ended
    <3>5. Live(0, << >>)!Ends(b, x.entity, x.time) <=> b # Absent /\ b.entity = x.entity
      BY <3>1, <3>3
    <3>6. Live(0, << >>)!Bound(x.entity, x.token, x.time, TRUE)
            = [entity |-> x.entity, user |-> x.token, time |-> x.time, closed |-> TRUE]
      BY <1>2
    <3> QED  BY <3>4, <3>5, <3>6
  <2>2. CASE b = Absent
    <3>1. \A r \in W : ~r.opens
      BY <1>5, <1>7, <2>2 DEF Leaves
    <3> QED  BY <2>1, <2>2, <3>1 DEF Leaves
  <2>3. CASE b # Absent
    <3>1. PICK r \in R :
             /\ IsLastOpening(r, R)
             /\ b \in Binding /\ b.entity = r.entity
             /\ IF ClosedSince(r, R)
                THEN b.closed /\ \E s \in R : b.time = s.time
                ELSE ~b.closed /\ b.user = r.token /\ b.time = r.time
      BY <2>3 DEF Leaves
    <3>2. IsLastOpening(r, W) /\ r \in W
      BY <1>1, <1>7, <3>1 DEF IsLastOpening
    <3>3. ClosedSince(r, W) <=> ClosedSince(r, R) \/ x.entity = r.entity
      BY <1>1, <1>7, <3>1 DEF ClosedSince
    <3>4. CASE x.entity = r.entity
      <4> DEFINE n == [entity |-> x.entity, user |-> x.token, time |-> x.time,
                       closed |-> TRUE]
      <4>1. Applied(b, x) = n /\ n \in Binding /\ n.entity = r.entity /\ n.closed
            /\ n.time = x.time
        BY <1>3, <2>1, <2>3, <3>1, <3>4
      <4> QED  BY <1>1, <3>2, <3>3, <3>4, <4>1 DEF Leaves
    <3>5. CASE x.entity # r.entity
      <4>1. Applied(b, x) = b
        BY <2>1, <3>1, <3>5
      <4> QED  BY <1>1, <3>1, <3>2, <3>3, <3>5, <4>1 DEF Leaves
    <3> QED  BY <3>4, <3>5
  <2> QED  BY <2>2, <2>3
<1> QED  BY <1>1, <1>6, <1>7

(* The recursive function of Told is there. *)
LEMMA FoldExists ==
    ASSUME NEW N \in Nat, NEW g
    PROVE  \E h : h = [n \in 0..N |-> IF n = 0 THEN Absent
                                     ELSE Applied(h[n - 1], g[n])]
<1> DEFINE Folds(h, k) ==
             /\ h = [n \in 0..k |-> h[n]]
             /\ h[0] = Absent
             /\ \A n \in 1..k : h[n] = Applied(h[n - 1], g[n])
           D == {k \in Nat : k <= N /\ ~\E h : Folds(h, k)}
<1>1. D = {}
  <2> SUFFICES ASSUME D # {} PROVE FALSE
    OBVIOUS
  <2>1. PICK k \in D : \A m \in D : k <= m
    BY LeastExists
  <2>2. k \in Nat /\ k <= N
    OBVIOUS
  <2>3. CASE k = 0
    <3> DEFINE h == [n \in 0..0 |-> Absent]
    <3>1. h = [n \in 0..0 |-> h[n]] /\ h[0] = Absent
      OBVIOUS
    <3>2. Folds(h, 0)
      BY <3>1
    <3> QED  BY <2>3, <3>2
  <2>4. CASE k # 0
    <3>1. k - 1 \in Nat /\ k - 1 <= N /\ ~(k <= k - 1)
      BY <2>2, <2>4
    <3>2. k - 1 \notin D
      <4> HIDE DEF D
      <4> QED  BY <2>1, <3>1
    <3>3. PICK h : Folds(h, k - 1)
      BY <3>1, <3>2
    <3> DEFINE j == [n \in 0..k |-> IF n = k THEN Applied(h[k - 1], g[k]) ELSE h[n]]
    <3>4. j = [n \in 0..k |-> j[n]]
      OBVIOUS
    <3>5. j[k] = Applied(h[k - 1], g[k]) /\ \A n \in 0..(k - 1) : j[n] = h[n]
      BY <2>2, <2>4
    <3>6. ASSUME NEW n \in 1..k PROVE j[n] = Applied(j[n - 1], g[n])
      <4>1. n - 1 \in 0..(k - 1) /\ j[n - 1] = h[n - 1]
        BY <2>2, <3>5
      <4>2. CASE n = k
        BY <3>5, <4>1, <4>2
      <4>3. CASE n # k
        <5>1. n \in 0..(k - 1) /\ n \in 1..(k - 1)
          BY <2>2, <4>3
        <5> QED  BY <3>3, <3>5, <4>1, <5>1
      <4> QED  BY <4>2, <4>3
    <3>7. j[0] = Absent
      <4>1. 0 \in 0..(k - 1)
        BY <3>1
      <4> QED  BY <3>3, <3>5, <4>1
    <3> HIDE DEF j
    <3>8. Folds(j, k)
      BY <3>4, <3>6, <3>7
    <3> QED  BY <3>8
  <2> QED  BY <2>3, <2>4
<1>2. PICK h : Folds(h, N)
  BY <1>1
<1>3. [n \in 0..N |-> h[n]]
        = [n \in 0..N |-> IF n = 0 THEN Absent ELSE Applied(h[n - 1], g[n])]
  <2>1. ASSUME NEW n \in 0..N
        PROVE  h[n] = IF n = 0 THEN Absent ELSE Applied(h[n - 1], g[n])
    <3>1. CASE n = 0
      BY <1>2, <3>1
    <3>2. CASE n # 0
      <4>1. n \in 1..N
        BY <3>2
      <4> QED  BY <1>2, <3>2, <4>1
    <3> QED  BY <3>1, <3>2
  <2> QED  BY <2>1
<1> QED  BY <1>2, <1>3

LEMMA ToldLeaves ==
    ASSUME NEW R \in SUBSET Row, IsFiniteSet(R), Named(R), OneEventASecond(R),
           NEW g \in Sorted(R)
    PROVE  Leaves(R, Told(g))
<1> DEFINE N == Len(g)
<1>1. /\ N \in Nat /\ N = Cardinality(R) /\ DOMAIN g = 1..N
      /\ \A k \in 1..N : g[k] \in R
      /\ R = {g[k] : k \in 1..N}
      /\ \A m, n \in 1..N : m < n => g[m].time <= g[n].time
  BY SortedSeq
<1> HIDE DEF N
<1>0. N \in Nat
  BY <1>1
<1>2. \A m, n \in 1..N : m < n => g[m].time < g[n].time
  <2>1. IsFiniteSet(1..N) /\ Cardinality(1..N) = N
    <3>1. Cardinality(1..N) = IF 1 > N THEN 0 ELSE N - 1 + 1
      BY <1>0, FS_Interval
    <3> QED  BY <1>0, <3>1, FS_Interval
  <2>2. g \in [1..N -> R]
    BY <1>1 DEF Sorted
  <2>3. g \in Surjection(1..N, R)
    BY <1>1, <2>2 DEF Surjection
  <2>4. g \in Injection(1..N, R)
    BY <1>1, <2>1, <2>3, FS_SurjSameCardinalityImpliesInj
  <2> SUFFICES ASSUME NEW m \in 1..N, NEW n \in 1..N, m < n
               PROVE  g[m].time < g[n].time
    OBVIOUS
  <2>5. g[m] # g[n]
    <3>1. m # n
      OBVIOUS
    <3> QED  BY <1>1, <2>4, <3>1 DEF Injection, IsInjective
  <2>6. g[m].time # g[n].time
    BY <1>1, <2>5 DEF OneEventASecond
  <2>7. g[m].time \in Int /\ g[n].time \in Int
    BY <1>1 DEF Row
  <2>8. g[m].time <= g[n].time
    BY <1>1
  <2> QED  BY <2>6, <2>7, <2>8
<1> DEFINE Is(h) == h = [n \in 0..N |-> IF n = 0 THEN Absent
                                       ELSE Applied(h[n - 1], g[n])]
           after == CHOOSE h : Is(h)
<1>3. \E h : Is(h)
  BY <1>1, FoldExists
<1>4. Is(after)
  <2> HIDE DEF Is
  <2> QED  BY Zenon, <1>3
<1>5. Told(g) = after[N]
  BY Zenon DEF Told, N
<1> HIDE DEF after
<1>6. after[0] = Absent /\ \A n \in 1..N : after[n] = Applied(after[n - 1], g[n])
  <2>1. after = [n \in 0..N |-> IF n = 0 THEN Absent
                                ELSE Applied(after[n - 1], g[n])]
    BY <1>4
  <2>2. 0 \in 0..N /\ \A n \in 1..N : n \in 0..N /\ n # 0
    BY <1>0
  <2> QED  BY <2>1, <2>2
<1> DEFINE Prefix(n) == {g[k] : k \in 1..n}
           D == {n \in Nat : n <= N /\ ~Leaves(Prefix(n), after[n])}
<1>7. D = {}
  <2> SUFFICES ASSUME D # {} PROVE FALSE
    OBVIOUS
  <2>1. PICK n \in D : \A m \in D : n <= m
    BY LeastExists
  <2>2. n \in Nat /\ n <= N /\ ~Leaves(Prefix(n), after[n])
    OBVIOUS
  <2>3. CASE n = 0
    <3>1. Prefix(0) = {}
      OBVIOUS
    <3>2. Leaves({}, Absent)
      BY DEF Leaves
    <3> QED  BY <1>6, <2>2, <2>3, <3>1, <3>2
  <2>4. CASE n # 0
    <3>1. /\ n - 1 \in Nat /\ n - 1 <= N /\ ~(n <= n - 1) /\ n \in 1..N
          /\ \A k \in 1..(n - 1) : k \in 1..N /\ k < n
      BY <1>0, <2>2, <2>4
    <3>2. Leaves(Prefix(n - 1), after[n - 1])
      <4>1. n - 1 \notin D
        <5> HIDE DEF D
        <5> QED  BY <2>1, <3>1
      <4> QED  BY <3>1, <4>1
    <3>3. Prefix(n) = Prefix(n - 1) \cup {g[n]}
      <4>1. \A k \in 1..n : k = n \/ k \in 1..(n - 1)
        BY <2>2
      <4>2. \A k \in 1..(n - 1) : k \in 1..n
        BY <2>2
      <4>3. n \in 1..n
        BY <2>2, <2>4
      <4> QED  BY <4>1, <4>2, <4>3
    <3>4. /\ Prefix(n - 1) \in SUBSET Row /\ Named(Prefix(n - 1))
          /\ g[n] \in Row /\ g[n].entity # NoToken
          /\ \A r \in Prefix(n - 1) : r.time < g[n].time
      BY <1>1, <1>2, <3>1 DEF Named
    <3>5. after[n] = Applied(after[n - 1], g[n])
      BY <1>6, <3>1
    <3> HIDE DEF Prefix
    <3>6. Leaves(Prefix(n - 1) \cup {g[n]}, Applied(after[n - 1], g[n]))
      BY <3>2, <3>4, AppliedLeaves
    <3> QED  BY <2>2, <3>3, <3>5, <3>6
  <2> QED  BY <2>3, <2>4
<1>8. Leaves(Prefix(N), after[N])
  <2>1. N \notin D /\ N <= N
    <3> HIDE DEF D
    <3> QED  BY <1>0, <1>7
  <2> HIDE DEF Prefix
  <2> QED  BY <1>0, <2>1
<1> QED  BY <1>1, <1>5, <1>8

(* What the live store answers from a binding is what the evidence says.   *)
LiveBinding(b, t, horizon) == b # Absent /\ ~b.closed /\ ~(t > b.time + horizon)

LEMMA AnswerIsReading ==
    ASSUME NEW R \in SUBSET Row, Named(R), OneEventASecond(R),
           NEW b, Leaves(R, b), NEW t \in Int, NEW horizon \in Int
    PROVE  IF LiveBinding(b, t, horizon)
           THEN \E r \in R : /\ b.entity = r.entity /\ b.user = r.token
                            /\ Reading(R, t, horizon) = r.token
           ELSE Reading(R, t, horizon) = NoToken
<1>1. \A r \in R : r.time \in Int /\ r.opens \in BOOLEAN
  BY DEF Row
<1>2. \A r, s \in R : r.time = s.time => r = s
  BY DEF OneEventASecond
<1> DEFINE Holds(r) ==
             /\ r.opens
             /\ \A s \in R : s.opens => s.time <= r.time
             /\ \A s \in R : ~s.opens /\ s.entity = r.entity => s.time < r.time
<1>3. Holders(R) = {<<r.entity, r.token>> : r \in {r \in R : Holds(r)}}
  BY DEF Holders
<1>4. CASE b = Absent
  <2>1. \A r \in R : ~r.opens
    BY <1>4, LiveAssumption DEF Leaves
  <2>2. ~Covered(R, t, horizon) /\ ~LiveBinding(b, t, horizon)
    BY <1>4, <2>1 DEF Covered, LiveBinding
  <2> QED  BY <2>2 DEF Reading
<1>5. CASE b # Absent
  <2>1. PICK r \in R :
           /\ IsLastOpening(r, R)
           /\ b \in Binding /\ b.entity = r.entity
           /\ IF ClosedSince(r, R)
              THEN b.closed /\ \E s \in R : b.time = s.time
              ELSE ~b.closed /\ b.user = r.token /\ b.time = r.time
    BY <1>5 DEF Leaves
  <2>2. r.opens /\ r.time \in Int /\ \A s \in R : s.opens => s.time <= r.time
    BY <1>1, <2>1 DEF IsLastOpening
  <2>3. \A s \in R : Holds(s) => s = r
    <3> SUFFICES ASSUME NEW s \in R, Holds(s) PROVE s = r
      OBVIOUS
    <3>1. s.time <= r.time /\ r.time <= s.time /\ s.time \in Int
      BY <1>1, <2>2
    <3> QED  BY <1>2, <2>2, <3>1
  <2>4. Holds(r) <=> ~ClosedSince(r, R)
    <3>1. ASSUME NEW s \in R, ~s.opens PROVE s.time < r.time <=> ~(r.time < s.time)
      <4>1. s.time # r.time
        BY <1>2, <2>2, <3>1
      <4> QED  BY <1>1, <2>2, <4>1
    <3> QED  BY <2>2, <3>1 DEF ClosedSince
  <2>5. Covered(R, t, horizon) <=> t <= r.time + horizon
    BY <1>1, <2>2 DEF Covered
  <2> HIDE DEF Holds
  <2>6. CASE ClosedSince(r, R)
    <3>1. Holders(R) = {}
      BY <1>3, <2>3, <2>4, <2>6
    <3>2. ~LiveBinding(b, t, horizon)
      BY <2>1, <2>6 DEF LiveBinding
    <3> QED  BY <3>1, <3>2 DEF Reading
  <2>7. CASE ~ClosedSince(r, R)
    <3>1. Holders(R) = {<<r.entity, r.token>>}
      BY <1>3, <2>3, <2>4, <2>7
    <3>2. TheToken(Holders(R)) = r.token
      <4>1. (CHOOSE c \in {<<r.entity, r.token>>} : TRUE) = <<r.entity, r.token>>
        OBVIOUS
      <4> QED  BY <3>1, <4>1 DEF TheToken
    <3>3. LiveBinding(b, t, horizon) <=> t <= r.time + horizon
      BY <1>5, <2>1, <2>2, <2>7 DEF LiveBinding
    <3>4. Reading(R, t, horizon) = IF t <= r.time + horizon THEN r.token ELSE NoToken
      BY <2>5, <3>1, <3>2 DEF Reading
    <3> QED  BY <2>1, <2>7, <3>3, <3>4
  <2> QED  BY <2>6, <2>7
<1> QED  BY <1>4, <1>5

(* The events of one key, whichever table they are in. *)
LEMMA EvidenceOfKey ==
    ASSUME Inv, NEW t
    PROVE  /\ \A ip \in IPs :
                Evidence(leases \cup sessions, ip, t) = Evidence(leases, ip, t)
           /\ \A mac \in Macs :
                Evidence(leases \cup sessions, mac, t) = Evidence(sessions, mac, t)
           /\ \A key : LET R == Evidence(leases \cup sessions, key, t)
                       IN  R \in SUBSET Row /\ IsFiniteSet(R) /\ Named(R)
                           /\ \A r \in R : r.time \in Time
           /\ \A r \in leases : r.entity = r.token /\ r.entity \in Macs \cup {NoToken}
<1>1. leases \subseteq LeaseRow /\ sessions \subseteq SessionRow
      /\ IsFiniteSet(leases \cup sessions)
  BY FS_Union DEF Inv, TablesInv
<1>2. \A r \in leases : /\ r.key \in IPs /\ r.entity = r.token
                         /\ r.entity \in Macs \cup {NoToken} /\ r.time \in Time
  <2> SUFFICES ASSUME NEW r \in leases
               PROVE  /\ r.key \in IPs /\ r.entity = r.token
                      /\ r.entity \in Macs \cup {NoToken} /\ r.time \in Time
    OBVIOUS
  <2>1. PICK l \in Leases, u \in Time, o \in BOOLEAN :
          r = [key |-> l[1], entity |-> l[2], token |-> l[2], time |-> u, opens |-> o]
    BY <1>1 DEF LeaseRow
  <2>2. l[1] \in IPs /\ l[2] \in Macs \cup {NoToken}
    BY DataAssumption
  <2> QED  BY <2>1, <2>2
<1>3. \A r \in sessions : r.key \in Macs \cup {NoToken} /\ r.time \in Time
  <2> SUFFICES ASSUME NEW r \in sessions
               PROVE  r.key \in Macs \cup {NoToken} /\ r.time \in Time
    OBVIOUS
  <2>1. PICK l \in Logins, u \in Time, o \in BOOLEAN :
          r = [key |-> l[1], entity |-> l[2], token |-> l[3], time |-> u, opens |-> o]
    BY <1>1 DEF SessionRow
  <2>2. l[1] \in Macs \cup {NoToken}
    BY DataAssumption
  <2> QED  BY <2>1, <2>2
<1>4. \A ip \in IPs : ip \notin Macs \cup {NoToken}
  BY LiveAssumption
<1>5. ASSUME NEW ip \in IPs
      PROVE  Evidence(leases \cup sessions, ip, t) = Evidence(leases, ip, t)
  BY <1>3, <1>4 DEF Evidence
<1>6. ASSUME NEW mac \in Macs
      PROVE  Evidence(leases \cup sessions, mac, t) = Evidence(sessions, mac, t)
  BY <1>2, <1>4 DEF Evidence
<1>7. ASSUME NEW key
      PROVE  LET R == Evidence(leases \cup sessions, key, t)
             IN  R \in SUBSET Row /\ IsFiniteSet(R) /\ Named(R)
                 /\ \A r \in R : r.time \in Time
  <2> DEFINE R == Evidence(leases \cup sessions, key, t)
  <2>1. R \subseteq leases \cup sessions /\ Named(R)
    BY DEF Evidence, Named
  <2> HIDE DEF R
  <2>2. IsFiniteSet(R)
    BY <1>1, <2>1, FS_Subset
  <2>3. R \in SUBSET Row
    BY <1>1, <2>1, RowTypes
  <2>4. \A r \in R : r.time \in Time
    BY <1>2, <1>3, <2>1
  <2> QED  BY <2>1, <2>2, <2>3, <2>4 DEF R
<1> QED  BY <1>2, <1>5, <1>6, <1>7

LEMMA ToldInOrder ==
    ASSUME Inv, NEW t, NEW key,
           OneEventASecond(Evidence(leases \cup sessions, key, t))
    PROVE  Leaves(Evidence(leases \cup sessions, key, t), Told(InOrder(key, t)))
<1> DEFINE R == Evidence(leases \cup sessions, key, t)
<1>1. /\ R \in SUBSET Row /\ IsFiniteSet(R) /\ Named(R) /\ OneEventASecond(R)
      /\ \A r \in R : r.time \in Time
  BY EvidenceOfKey
<1>2. InOrder(key, t) \in Sorted(R)
  <2>1. Sorted(R) # {}
    <3> HIDE DEF R
    <3> QED  BY <1>1, SortedExists
  <2> QED  BY <2>1 DEF InOrder
<1> HIDE DEF R
<1>3. Leaves(R, Told(InOrder(key, t)))
  BY <1>1, <1>2, ToldLeaves
<1> QED  BY <1>3 DEF R

(* The trace says of a client what the live store would have said at the   *)
(* time, wherever no two events of its address or of its device fall in    *)
(* one second (identity_join.go:37-38): two independent implementations    *)
(* of newest-event-wins agree.                                             *)
THEOREM TraceAgreesWithLive == Spec => []LiveStoreAgrees
<1>1. Inv => LiveStoreAgrees
  <2> SUFFICES ASSUME Inv, pc = "done", NEW c \in DOMAIN report,
                      LET t == report[c].last
                          told == LiveAnswer(c[1], t)
                      IN  /\ OneEventASecond(Evidence(leases, c[1], t))
                          /\ OneEventASecond(Evidence(sessions, told[1], t))
               PROVE  LiveAnswer(c[1], report[c].last)
                        = <<report[c].device, report[c].user>>
    BY DEF LiveStoreAgrees
  <2> DEFINE t == report[c].last
             ip == c[1]
             B == [k \in IPs \cup Macs |-> Told(InOrder(k, t))]
             told == LiveAnswer(ip, t)
             all(k) == Evidence(leases \cup sessions, k, t)
  <2>1. /\ ip \in IPs /\ t \in Int /\ MaxLease \in Int /\ MaxSession \in Int
        /\ Ambiguous \notin Macs /\ NoToken \notin Macs
        /\ \A mac \in Macs : mac \notin IPs
    <3>1. c \in IPs \X Names /\ report[c] \in Line
      BY DEF Inv, ReportInv, Candidate
    <3> QED  BY <3>1, DataAssumption, TimeAssumption, LiveAssumption DEF Line, Time
  <2>2. report[c].device = DeviceOf(c) /\ report[c].user = UserOf(c)
    BY DEF Inv, PhaseInv, DevicesKnown
  <2>3. /\ DeviceOf(c) = Reading(Evidence(leases, ip, t), t, MaxLease)
        /\ OneEventASecond(Evidence(leases, ip, t))
        /\ OneEventASecond(Evidence(sessions, told[1], t))
    BY DEF DeviceOf
  <2>4. \A k \in IPs \cup Macs : Live(t, B)!IsLive(k) <=>
           LiveBinding(B[k], t, IF k \in IPs THEN MaxLease ELSE MaxSession)
    BY DEF Live!IsLive, Live!Expired, Live!Horizon, LiveBinding
  <2>5. told = IF ~Live(t, B)!IsLive(ip) THEN <<NoToken, NoToken>>
               ELSE LET mac == B[ip].entity
                    IN  <<mac, IF Live(t, B)!IsLive(mac) THEN B[mac].user ELSE NoToken>>
    BY DEF LiveAnswer, Live!Lookup
  <2> HIDE DEF told
  <2>6. /\ Leaves(all(ip), B[ip]) /\ all(ip) = Evidence(leases, ip, t)
        /\ all(ip) \in SUBSET Row /\ Named(all(ip))
    BY <2>1, <2>3, EvidenceOfKey, ToldInOrder
  <2> HIDE DEF t, ip, B
  <2>7. IF LiveBinding(B[ip], t, MaxLease)
        THEN \E r \in all(ip) : /\ B[ip].entity = r.entity /\ B[ip].user = r.token
                                /\ report[c].device = r.token
        ELSE report[c].device = NoToken
    <3>1. report[c].device = Reading(all(ip), t, MaxLease) /\ OneEventASecond(all(ip))
      BY <2>2, <2>3, <2>6 DEF t, ip
    <3> HIDE DEF all
    <3> QED  BY <2>1, <2>6, <3>1, AnswerIsReading
  <2>8. CASE ~Live(t, B)!IsLive(ip)
    <3>1. ~LiveBinding(B[ip], t, MaxLease)
      BY <2>1, <2>4, <2>8
    <3>2. report[c].device = NoToken /\ report[c].user = NoToken
      BY <2>2, <2>7, <3>1 DEF UserOf, HasDevice
    <3> QED  BY <2>5, <2>8, <3>2 DEF told, t, ip
  <2>9. CASE Live(t, B)!IsLive(ip)
    <3> DEFINE mac == B[ip].entity
    <3>1. LiveBinding(B[ip], t, MaxLease)
      BY <2>1, <2>4, <2>9
    <3>2. PICK r \in all(ip) : mac = r.entity /\ report[c].device = r.token
      BY <2>7, <3>1
    <3>3. r \in leases /\ r.entity # NoToken
      BY <2>6 DEF Evidence
    <3>4. mac = report[c].device /\ mac \in Macs
      BY <3>2, <3>3, EvidenceOfKey
    <3> HIDE DEF mac
    <3>5. told = <<mac, IF Live(t, B)!IsLive(mac) THEN B[mac].user ELSE NoToken>>
      BY <2>5, <2>9 DEF mac
    <3>6. OneEventASecond(Evidence(sessions, mac, t))
      BY <2>3, <3>5
    <3>7. /\ Leaves(all(mac), B[mac]) /\ all(mac) = Evidence(sessions, mac, t)
          /\ all(mac) \in SUBSET Row /\ Named(all(mac))
      BY <3>4, <3>6, EvidenceOfKey, ToldInOrder DEF B
    <3>8. report[c].user = Reading(Evidence(sessions, mac, t), t, MaxSession)
      BY <2>1, <2>2, <3>4 DEF UserOf, HasDevice, t
    <3>9. IF LiveBinding(B[mac], t, MaxSession)
          THEN B[mac].user = report[c].user
          ELSE report[c].user = NoToken
      BY <2>1, <3>6, <3>7, <3>8, AnswerIsReading
    <3>10. Live(t, B)!IsLive(mac) <=> LiveBinding(B[mac], t, MaxSession)
      BY <2>1, <2>4, <3>4
    <3>11. told = <<report[c].device, report[c].user>>
      BY <3>4, <3>5, <3>9, <3>10
    <3> QED  BY <3>11 DEF told, t, ip
  <2> QED  BY <2>8, <2>9
<1> QED  BY <1>1, InvHolds, PTL
=============================================================================
