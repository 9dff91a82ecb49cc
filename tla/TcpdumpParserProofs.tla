------------------------- MODULE TcpdumpParserProofs ------------------------
(***************************************************************************)
(* Theorems about TcpdumpParser, for every length of a day, every jitter   *)
(* below half of it, every zone that changes its clocks by less than is    *)
(* left of that half, and every set of packets.                            *)
(***************************************************************************)
EXTENDS TcpdumpParser, TLAPS

(* The parser's clock agrees with the last header, unless something came   *)
(* that it cannot see.                                                     *)
Aligned ==
    IF havePrev
    THEN /\ prevTOD = TOD(header)
         /\ excuses \subseteq {"lost"} => baseDate = header[1]
    ELSE baseDate = Anchor

(* A pending time is that of the last header, and the lines that follow    *)
(* are of its packet, unless lines were lost.                              *)
Paired ==
    pending =>
        /\ pendingTime = Add(baseDate, prevTOD)
        /\ "lost" \notin excuses => stamp = header

HeaderIsPast == ~Earlier(newest, header)

InStep == TypeOK /\ Aligned /\ Paired /\ HeaderIsPast

(* A clock shows a time of day, the true one before it is changed, and a   *)
(* day is neither as short as half of one nor as long as three halves.     *)
LEMMA Clock ==
    ASSUME NEW t \in Time
    PROVE  /\ t[1] \in 0..LastDay /\ t[2] \in Nat /\ t[2] < Length(t[1])
           /\ t = <<t[1], t[2]>>
           /\ Forward[t[1]] \in Jitter - Half..Half - Jitter
           /\ Length(t[1]) = 2 * Half - Forward[t[1]]
           /\ TOD(t) \in 0..Day - 1
           /\ t[2] < SwitchAt => TOD(t) = t[2]
           /\ t[2] >= SwitchAt => TOD(t) = t[2] + Forward[t[1]]
<1>1. /\ t[1] \in 0..LastDay /\ t[2] \in 0..Day + Half - 1 /\ t[2] < Length(t[1])
      /\ t = <<t[1], t[2]>>
  BY DEF Time
<1>2. Half \in Nat \ {0} /\ Jitter \in 0..Half - 1 /\ Day = 2 * Half /\ LastDay \in Nat
  BY TcpdumpAssumption DEF Day
<1>3. t[1] \in 0..LastDay + 1
  BY <1>1, <1>2
<1>4. /\ Forward[t[1]] \in Jitter - Half..Half - Jitter
      /\ SwitchAt \in 1..Day /\ SwitchAt + Forward[t[1]] \in 1..Day
  BY <1>3, TcpdumpAssumption
<1>5. Length(t[1]) = 2 * Half - Forward[t[1]]
  BY <1>2 DEF Length
<1>6. TOD(t) \in 0..Day - 1
  <2>1. CASE Switched(t)
    BY <1>1, <1>2, <1>4, <1>5, <2>1 DEF Switched, TOD
  <2>2. CASE ~Switched(t) /\ Forward[t[1]] = 0
    BY <1>1, <1>2, <1>5, <2>2 DEF TOD
  <2>3. CASE t[2] < SwitchAt
    BY <1>1, <1>2, <1>4, <2>3 DEF Switched, TOD
  <2> QED
    BY <1>1, <1>2, <1>4, <2>1, <2>2, <2>3 DEF Switched
<1> QED
  BY <1>1, <1>2, <1>4, <1>5, <1>6 DEF Switched, TOD

(* What the parser adds up stays a day and a time of day.                  *)
LEMMA AddTyped ==
    ASSUME NEW d \in 0..LastDay + 1, NEW n \in 0..Day - 1
    PROVE  Add(d, n) \in Nat \X (0..Day - 1)
<1>1. Half \in Nat \ {0} /\ Jitter \in 0..Half - 1 /\ Day = 2 * Half /\ LastDay \in Nat
  BY TcpdumpAssumption DEF Day
<1>2. Length(d) \in Half..3 * Half
  <2>1. Forward[d] \in Jitter - Half..Half - Jitter
    BY TcpdumpAssumption
  <2> QED
    BY <1>1, <2>1 DEF Length
<1>3. CASE n < Length(d)
  BY <1>1, <1>3 DEF Add
<1>4. CASE ~(n < Length(d))
  BY <1>1, <1>2, <1>4 DEF Add
<1> QED
  BY <1>3, <1>4

(* A day turns for the parser when and only when it turned for the packet, *)
(* for any step of the capture that is no excuse, also on a night on which *)
(* the clocks are changed (tcpdumplog.go:105-116).                         *)
LEMMA RollsAtMidnight ==
    ASSUME TypeOK, Aligned, HeaderIsPast, havePrev,
           NEW t \in Time, MayCome(t), Excuses(t) = {}
    PROVE  Date(TOD(t)) = t[1]
<1>1. excuses \subseteq {"lost"}
  <2>1. \A x \in {"step", "silence", "late"} : x \notin excuses
    BY DEF Excuses
  <2> QED
    BY <2>1 DEF TypeOK
<1>2. baseDate = header[1] /\ prevTOD = TOD(header)
  BY <1>1 DEF Aligned
<1>3. ~(t[1] < header[1])
  BY DEF Excuses
<1>4. header[1] < t[1] => t[1] = header[1] + 1 /\ TOD(t) + Day - TOD(header) < Half
  BY DEF Excuses
<1>5. header \in Time /\ newest \in Time
  BY DEF TypeOK
<1>6. /\ Half \in Nat \ {0} /\ Jitter \in 0..Half - 1 /\ Day = 2 * Half
      /\ TOD(header) \in 0..Day - 1 /\ TOD(t) \in 0..Day - 1
      /\ header[1] \in Nat /\ t[1] \in Nat
  BY <1>5, TcpdumpAssumption, Clock DEF Day
<1>7. CASE t[1] = header[1]
  <2>1. header[2] - t[2] <= Jitter
    <3>1. /\ header[2] \in Nat /\ t[2] \in Nat /\ header[2] < Length(header[1])
          /\ Length(header[1]) \in Int
          /\ newest[1] \in Nat /\ newest[2] \in Nat
      BY <1>5, <1>6, Clock
    <3> QED
      BY <1>6, <1>7, <3>1 DEF HeaderIsPast, MayCome, Near, Earlier
  <2>2. TOD(header) - TOD(t) <= Half
    <3>1. /\ header[2] \in Nat /\ t[2] \in Nat
          /\ Forward[t[1]] \in Jitter - Half..Half - Jitter
      BY <1>5, <1>6, Clock
    <3>2. /\ header[2] < SwitchAt => TOD(header) = header[2]
          /\ header[2] >= SwitchAt => TOD(header) = header[2] + Forward[t[1]]
          /\ t[2] < SwitchAt => TOD(t) = t[2]
          /\ t[2] >= SwitchAt => TOD(t) = t[2] + Forward[t[1]]
      BY <1>5, <1>7, Clock
    <3>3. SwitchAt \in Int
      BY <1>6, TcpdumpAssumption
    <3> QED
      BY <1>6, <2>1, <3>1, <3>2, <3>3
  <2> QED
    BY <1>2, <1>6, <1>7, <2>2 DEF Date, Rolls
<1>8. CASE header[1] < t[1]
  BY <1>2, <1>4, <1>6, <1>8 DEF Date, Rolls
<1> QED
  BY <1>3, <1>6, <1>7, <1>8

(* What a message gives is an event of its asker, at the time handed in.   *)
LEMMA PayloadGives ==
    ASSUME NEW p \in Packets, NEW ts \in Nat \X (0..Day - 1)
    PROVE  /\ ParsePayload(p, ts) \subseteq Event
           /\ \A e \in ParsePayload(p, ts) :
                 e.time = ts /\ e.client = p.asker /\ e.client # Resolver
<1>1. p \in Packet /\ (IF p.reply THEN p.body \notin {"question", "cut"}
                       ELSE p.body \in {"question", "cut"})
  BY TcpdumpAssumption
<1>2. ClientIP(p) \in Host
  BY <1>1 DEF Packet, ClientIP, Source, Destination
<1>3. Emits(p) => ClientIP(p) = p.asker
  BY <1>1 DEF Packet, Emits, IsQuery, ClientIP, Source, Destination, From53, To53
<1>4. ASSUME NEW e \in ParsePayload(p, ts)
      PROVE  e \in Event /\ e.time = ts /\ e.client = p.asker /\ e.client # Resolver
  <2>1. e = [time |-> ts, client |-> ClientIP(p), tags |-> p.body = "addresses"]
    BY DEF ParsePayload
  <2>2. ClientIP(p) # Resolver /\ Emits(p)
    BY DEF ParsePayload
  <2>3. (p.body = "addresses") \in BOOLEAN
    OBVIOUS
  <2> QED
    BY <1>2, <1>3, <2>1, <2>2, <2>3 DEF Event
<1> QED
  BY <1>4

(* The newest packet is of a time, and at least as new as the last header. *)
LEMMA LatestIsPast ==
    ASSUME TypeOK, HeaderIsPast, NEW t \in Time
    PROVE  Latest(t) \in Time /\ ~Earlier(Latest(t), header) /\ ~Earlier(Latest(t), t)
<1>1. newest \in Time /\ header \in Time
  BY DEF TypeOK
<1>2. LastDay \in Nat
  BY TcpdumpAssumption
<1>3. /\ newest[1] \in Nat /\ newest[2] \in Nat /\ header[1] \in Nat
      /\ header[2] \in Nat /\ t[1] \in Nat /\ t[2] \in Nat
  BY <1>1, <1>2, Clock
<1>4. CASE Earlier(newest, t)
  BY <1>3, <1>4 DEF HeaderIsPast, Latest, Earlier
<1>5. CASE ~Earlier(newest, t)
  BY <1>1, <1>5 DEF HeaderIsPast, Latest
<1> QED
  BY <1>4, <1>5

LEMMA InitInStep == Init => InStep
<1> SUFFICES ASSUME Init PROVE InStep
  OBVIOUS
<1>1. 0 \in 0..Day - 1 /\ 0 \in 0..LastDay /\ 0 \in 0..LastDay + 1 /\ 0 \in 0..MaxRotations
  BY TcpdumpAssumption DEF Day
<1>2. <<0, 0>> \in Time /\ <<0, 0>> \in Nat \X (0..Day - 1)
  <2>1. Forward[0] \in Jitter - Half..Half - Jitter
    BY TcpdumpAssumption
  <2>2. 0 < Length(0) /\ 0 \in 0..Day + Half - 1
    BY TcpdumpAssumption, <2>1 DEF Length, Day
  <2> QED
    BY <1>1, <2>2 DEF Time
<1>3. TypeOK
  BY <1>1, <1>2 DEF Init, TypeOK, Anchor
<1>4. HeaderIsPast
  BY DEF Init, HeaderIsPast, Earlier
<1> QED
  BY <1>3, <1>4 DEF Init, InStep, Aligned, Paired

LEMMA HeaderStep ==
    ASSUME InStep, Header
    PROVE  InStep'
<1> PICK t \in Time, udp \in BOOLEAN :
      /\ MayCome(t) /\ Date(TOD(t)) <= LastDay + 1
      /\ FeedHeader(TOD(t), udp)
      /\ stamp' = t /\ header' = t
      /\ newest' = Latest(t)
      /\ excuses' = Excuses(t)
      /\ UNCHANGED rotations
  BY DEF Header
<1>1. t[1] \in 0..LastDay /\ TOD(t) \in 0..Day - 1
  BY Clock
<1>2. Date(TOD(t)) \in 0..LastDay + 1
  BY TcpdumpAssumption DEF InStep, TypeOK, Date
<1>3. excuses' \subseteq {"step", "silence", "late"}
  BY DEF Excuses
<1>4. TypeOK'
  <2>1. newest' \in Time
    BY DEF InStep, TypeOK, Latest
  <2>2. pendingTime' \in Nat \X (0..Day - 1)
    BY <1>1, <1>2, AddTyped DEF FeedHeader, InStep, TypeOK
  <2> QED
    BY <1>1, <1>2, <1>3, <2>1, <2>2 DEF FeedHeader, InStep, TypeOK
<1>5. Aligned'
  <2>1. ASSUME excuses' = {} PROVE baseDate' = header'[1]
    <3>1. CASE havePrev
      BY <2>1, <3>1, RollsAtMidnight DEF InStep, FeedHeader
    <3>2. CASE ~havePrev
      <4>1. t[1] = Anchor
        BY <2>1, <3>2 DEF Excuses
      <4>2. baseDate = Anchor
        BY <3>2 DEF InStep, Aligned
      <4> QED
        BY <3>2, <4>1, <4>2 DEF FeedHeader, Date, Rolls
    <3> QED
      BY <3>1, <3>2
  <2> QED
    BY <1>3, <2>1 DEF Aligned, FeedHeader
<1>6. Paired'
  BY DEF Paired, FeedHeader
<1>7. HeaderIsPast'
  BY LatestIsPast DEF HeaderIsPast, Earlier, InStep
<1> QED
  BY <1>4, <1>5, <1>6, <1>7 DEF InStep

LEMMA PayloadStep ==
    ASSUME InStep, Payload
    PROVE  InStep'
<1> PICK p \in Packets :
      /\ out' = IF pending THEN ParsePayload(p, pendingTime) ELSE {}
      /\ asker' = p.asker
      /\ pending' = FALSE
      /\ UNCHANGED <<baseDate, havePrev, prevTOD, pendingTime, stamp, newest,
                     header, rotations, excuses>>
  BY DEF Payload
<1>1. out' \subseteq Event
  BY PayloadGives DEF InStep, TypeOK
<1>2. asker' \in Host
  BY TcpdumpAssumption DEF Packet
<1>3. TypeOK'
  BY <1>1, <1>2 DEF InStep, TypeOK, Event
<1> QED
  BY <1>3 DEF InStep, Aligned, Paired, HeaderIsPast, Earlier

LEMMA OtherSteps ==
    ASSUME InStep, Banner \/ LoseLines \/ Rotate
    PROVE  InStep'
<1>1. CASE Banner
  BY <1>1 DEF Banner, InStep, TypeOK, Aligned, Paired, HeaderIsPast, Earlier
<1>2. CASE LoseLines
  <2> PICK t \in Time :
        /\ stamp' = t
        /\ newest' = Latest(t)
        /\ excuses' = excuses \cup {"lost"}
        /\ out' = {} /\ asker' = NoHost
        /\ UNCHANGED <<parser, header, rotations>>
    BY <1>2 DEF LoseLines
  <2>1. newest' \in Time /\ HeaderIsPast'
    BY LatestIsPast DEF InStep, HeaderIsPast, Earlier
  <2>2. TypeOK'
    BY <2>1 DEF InStep, TypeOK, parser, Event
  <2> QED
    BY <2>1, <2>2 DEF InStep, Aligned, Paired, parser
<1>3. CASE Rotate
  <2> PICK t \in Time :
        /\ rotations < MaxRotations /\ rotations' = rotations + 1
        /\ stamp' = t
        /\ newest' = Latest(t)
        /\ excuses' = {}
        /\ baseDate' = Anchor /\ havePrev' = FALSE /\ prevTOD' = 0
        /\ pending' = NoPending /\ pendingTime' = <<0, 0>>
        /\ out' = {} /\ asker' = NoHost
        /\ UNCHANGED header
    BY <1>3 DEF Rotate
  <2>1. newest' \in Time /\ HeaderIsPast'
    BY LatestIsPast DEF InStep, HeaderIsPast, Earlier
  <2>2. 0 \in 0..Day - 1 /\ 0 \in 0..LastDay + 1 /\ rotations' \in 0..MaxRotations
    BY TcpdumpAssumption DEF Day, InStep, TypeOK
  <2>3. TypeOK'
    BY <2>1, <2>2 DEF InStep, TypeOK, NoPending, Anchor, Event
  <2> QED
    BY <2>1, <2>3 DEF InStep, Aligned, Paired, NoPending
<1> QED
  BY <1>1, <1>2, <1>3

LEMMA NextInStep ==
    ASSUME InStep, [Next]_vars
    PROVE  InStep'
<1>1. CASE Next
  BY <1>1, HeaderStep, PayloadStep, OtherSteps DEF Next
<1>2. CASE UNCHANGED vars
  BY <1>2 DEF vars, parser, InStep, TypeOK, Aligned, Paired, HeaderIsPast, Earlier, Event
<1> QED
  BY <1>1, <1>2

LEMMA AlwaysInStep == Spec => []InStep
BY InitInStep, NextInStep, PTL DEF Spec

-----------------------------------------------------------------------------
(* The variables of the parser keep their types; a pending time has a      *)
(* header behind it, after a rotation too (tcpdumplog.go:38-39,            *)
(* dnsstore.go:340-344).                                                   *)
THEOREM TypeCorrect == Spec => []TypeOK
BY AlwaysInStep, PTL DEF InStep

(* An event carries the time of its own packet, date included, for every   *)
(* order of packets within the jitter and every zone, unless one of the    *)
(* excuses holds; after a change of the clocks it is off by that change,   *)
(* until midnight (tcpdumplog.go:79-81, 105-126).                          *)
THEOREM StampsAreTrue == Spec => []StampIsTrue
<1>1. Init => StampIsTrue
  BY DEF Init, StampIsTrue
<1>2. ASSUME InStep, StampIsTrue, [Next]_vars
      PROVE  StampIsTrue'
  <2>1. CASE Payload
    <3> SUFFICES ASSUME excuses' = {}, NEW e \in out'
                 PROVE  e.time = IF Switched(stamp')
                                 THEN Add(stamp'[1], stamp'[2] + Forward[stamp'[1]])
                                 ELSE stamp'
      BY DEF StampIsTrue, Switched, Add, Length
    <3>1. PICK p \in Packets : pending /\ e \in ParsePayload(p, pendingTime)
      BY <2>1 DEF Payload
    <3>2. excuses = {} /\ stamp' = stamp
      BY <2>1 DEF Payload
    <3>3. pendingTime = Add(stamp[1], TOD(stamp)) /\ stamp = header
      BY <3>1, <3>2, <1>2 DEF InStep, TypeOK, Aligned, Paired
    <3>4. stamp = <<stamp[1], stamp[2]>> /\ stamp[2] < Length(stamp[1])
      BY <1>2, Clock DEF InStep, TypeOK
    <3>5. ~Switched(stamp) => Add(stamp[1], TOD(stamp)) = stamp
      BY <3>4 DEF Add, TOD
    <3>6. Switched(stamp) =>
             Add(stamp[1], TOD(stamp)) = Add(stamp[1], stamp[2] + Forward[stamp[1]])
      BY DEF TOD
    <3>7. e.time = Add(stamp[1], TOD(stamp))
      BY <1>2, <3>1, <3>3, PayloadGives DEF InStep, TypeOK
    <3> QED
      BY <3>2, <3>5, <3>6, <3>7 DEF Switched
  <2>2. CASE Header
    BY <2>2 DEF Header, FeedHeader, StampIsTrue
  <2>3. CASE Banner \/ LoseLines \/ Rotate
    BY <2>3 DEF Banner, LoseLines, Rotate, StampIsTrue
  <2>4. CASE UNCHANGED vars
    BY <1>2, <2>4 DEF vars, StampIsTrue
  <2> QED
    BY <1>2, <2>1, <2>2, <2>3, <2>4 DEF Next
<1> QED
  BY <1>1, <1>2, AlwaysInStep, PTL DEF Spec

(* An event names the host that asked, and never the resolver              *)
(* (tcpdumplog.go:156-184).                                                *)
THEOREM EventsAreOfAskers == Spec => []ClientAsked
<1>1. Init => ClientAsked
  BY DEF Init, ClientAsked
<1>2. ASSUME InStep, ClientAsked, [Next]_vars
      PROVE  ClientAsked'
  <2>1. CASE Payload
    <3> SUFFICES ASSUME NEW e \in out' PROVE e.client = asker' /\ e.client # Resolver
      BY DEF ClientAsked
    <3>1. PICK p \in Packets : pending /\ e \in ParsePayload(p, pendingTime) /\ asker' = p.asker
      BY <2>1 DEF Payload
    <3> QED
      BY <1>2, <3>1, PayloadGives DEF InStep, TypeOK
  <2>2. CASE Header
    BY <2>2 DEF Header, FeedHeader, ClientAsked
  <2>3. CASE Banner \/ LoseLines \/ Rotate
    BY <2>3 DEF Banner, LoseLines, Rotate, ClientAsked
  <2>4. CASE UNCHANGED vars
    BY <1>2, <2>4 DEF vars, ClientAsked
  <2> QED
    BY <1>2, <2>1, <2>2, <2>3, <2>4 DEF Next
<1> QED
  BY <1>1, <1>2, AlwaysInStep, PTL DEF Spec
=============================================================================
