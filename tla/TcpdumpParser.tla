--------------------------- MODULE TcpdumpParser ----------------------------
(***************************************************************************)
(* The stateful parser of tcpdumplog.go, one per log file.  tcpdump -v     *)
(* prints a packet as a header line with the time of day, and no date, and *)
(* an indented line with the addresses and the DNS message.  The parser    *)
(* keeps the time of a header until the indented line comes, and keeps a   *)
(* date that it advances when the time of day wraps.                       *)
(*                                                                         *)
(* Lines come as FilePoller hands them over: in order, each once.  After a *)
(* panic some are missing, and after a noticed rotation the poller         *)
(* discards the parser and the next line makes a new one, anchored where   *)
(* the first one was.                                                      *)
(*                                                                         *)
(* A time is a pair <<day, time since that day's midnight>>, compared by   *)
(* its parts; what a clock on the wall shows then is TOD.  The two differ  *)
(* on a day on which the zone puts its clocks forward or back, from then   *)
(* to midnight, and such a day is shorter or longer than the others.       *)
(* Definitions marked "faulty" are wrong variants of the one that follows. *)
(***************************************************************************)
EXTENDS Integers, FiniteSets

CONSTANTS
    Half,          \* 12 hours
    Forward,       \* Forward[d]: by how much the clocks of loc are put
                   \* forward on day d; 0 on most days, negative in autumn
    SwitchAt,      \* the time at which that is done
    Jitter,        \* packets are printed at most so late, after later ones
    Host,
    Packets,       \* the packets on the wire
    Resolver,      \* resolverIP
    NoHost,        \* resolverIP is ""
    LastDay,       \* bound: the days the capture goes on, from 0, and the
                   \* date the parser may reach
    MaxRotations   \* bound: rotations of the file

Day == 2 * Half
Length(d) == Day - Forward[d]
Time == {t \in (0..LastDay) \X (0..Day + Half - 1) : t[2] < Length(t[1])}

(* A packet between an asker and a server.  A query has a question in it,  *)
(* or is cut short before it; a reply has addresses, other records only,   *)
(* or none.                                                                *)
Packet ==
    [asker : Host, server : Host,
     dns : BOOLEAN,              \* the server's port is 53
     from53 : BOOLEAN,           \* the asker's is 53
     reply : BOOLEAN,
     body : {"question", "cut", "addresses", "aliases", "nothing"}]

(* No clock is changed by more than half a day less the jitter, and none   *)
(* at midnight or over it: every day has one midnight.                     *)
ASSUME TcpdumpAssumption ==
    /\ Half \in Nat \ {0} /\ Jitter \in 0..Half - 1
    /\ LastDay \in Nat /\ MaxRotations \in Nat
    /\ Forward \in [0..LastDay + 1 -> Jitter - Half..Half - Jitter]
    /\ SwitchAt \in 1..Day
    /\ \A d \in 0..LastDay + 1 : SwitchAt + Forward[d] \in 1..Day
    /\ Packets \subseteq {p \in Packet :
                             IF p.reply THEN p.body \notin {"question", "cut"}
                             ELSE p.body \in {"question", "cut"}}
    /\ Resolver \in Host \cup {NoHost} /\ NoHost \notin Host

VARIABLES
    baseDate, havePrev, prevTOD,  \* of the parser
    pending, pendingTime,
    out,           \* what feed returned for the last line
    asker,         \* who asked in the message on the last line, or NoHost
    stamp,         \* the time of the packet whose lines are being read
    newest,        \* the latest time of a packet
    header,        \* the time of the packet of the last header read
    rotations,
    excuses        \* what came that the parser cannot see: "step", "silence",
                   \* "late" (until a new parser), "lost" (until a header)

parser == <<baseDate, havePrev, prevTOD, pending, pendingTime>>
vars == <<parser, out, asker, stamp, newest, header, rotations, excuses>>

(* newTcpdumpDNSParser(baseDate): the day of the capture's first packet.   *)
Anchor == 0

Init ==
    /\ baseDate = Anchor /\ havePrev = FALSE /\ prevTOD = 0
    /\ pending = FALSE /\ pendingTime = <<0, 0>>
    /\ out = {} /\ asker = NoHost
    /\ stamp = <<0, 0>>
    /\ newest = <<0, 0>> /\ header = <<0, 0>>
    /\ rotations = 0
    /\ excuses = {}

-----------------------------------------------------------------------------
(* The capture. *)

Earlier(s, t) == s[1] < t[1] \/ (s[1] = t[1] /\ s[2] < t[2])

(* The jitter or less separates t from an earlier s.                       *)
Near(s, t) ==
    \/ t[1] = s[1] /\ t[2] - s[2] <= Jitter
    \/ t[1] = s[1] + 1 /\ t[2] + Length(s[1]) - s[2] <= Jitter

(* The clocks have been changed on the day of t, before t.                 *)
Switched(t) == Forward[t[1]] # 0 /\ t[2] >= SwitchAt

(* The time of day of t, which is what tcpdump prints.                     *)
TOD(t) == IF Switched(t) THEN t[2] + Forward[t[1]] ELSE t[2]

(* A packet of time t may be printed next.                                 *)
MayCome(t) ==
    /\ Earlier(t, newest) => Near(t, newest)
    /\ rotations = 0 /\ ~havePrev => t[1] = Anchor

Latest(t) == IF Earlier(newest, t) THEN t ELSE newest

(* What the parser cannot know of a header of time t: it is of a day       *)
(* before the last one's; midnight went by, and half a day or more on the  *)
(* clock; it is the first and not of the anchor's day.                     *)
Excuses(t) ==
    {x \in {"step", "silence", "late"} :
        \/ x \in excuses
        \/ x = "step" /\ havePrev /\ t[1] < header[1]
        \/ /\ x = "silence" /\ havePrev /\ header[1] < t[1]
           /\ ~(t[1] = header[1] + 1 /\ TOD(t) + Day - TOD(header) < Half)
        \/ x = "late" /\ ~havePrev /\ t[1] # Anchor}

-----------------------------------------------------------------------------
(* feed: a header line with time of day tod. *)

BackwardRolls(tod) == havePrev /\ prevTOD > tod      \* faulty
Rolls(tod) == havePrev /\ prevTOD - tod > Half

Date(tod) == IF Rolls(tod) THEN baseDate + 1 ELSE baseDate

(* baseDate.Add(n): so long after midnight of day d, which is the time at  *)
(* which the clock shows n only if it has not been changed that day.       *)
Add(d, n) == IF n < Length(d) THEN <<d, n>> ELSE <<d + 1, n - Length(d)>>

FeedHeader(tod, udp) ==
    /\ baseDate' = Date(tod)
    /\ prevTOD' = tod /\ havePrev' = TRUE
    /\ pending' = udp
    /\ pendingTime' = IF udp THEN Add(Date(tod), tod) ELSE pendingTime
    /\ out' = {} /\ asker' = NoHost

Header ==
    \E t \in Time, udp \in BOOLEAN :
        /\ MayCome(t) /\ Date(TOD(t)) <= LastDay + 1
        /\ FeedHeader(TOD(t), udp)
        /\ stamp' = t /\ header' = t
        /\ newest' = Latest(t)
        /\ excuses' = Excuses(t)
        /\ UNCHANGED rotations

-----------------------------------------------------------------------------
(* feed: an indented line. *)

Source(p) == IF p.reply THEN p.server ELSE p.asker
Destination(p) == IF p.reply THEN p.asker ELSE p.server
From53(p) == IF p.reply THEN p.dns ELSE p.from53
To53(p) == IF p.reply THEN p.from53 ELSE p.dns

(* Direction by port, and by the question mark when both are 53.           *)
IsQuery(p) == To53(p) /\ (From53(p) => p.body = "question")

ClientByPort(p) == IF To53(p) THEN Source(p) ELSE Destination(p)   \* faulty
ClientIP(p) == IF IsQuery(p) THEN Source(p) ELSE Destination(p)

(* The events of the message p, ts being the time of its header: for a     *)
(* query without a question it is an error, for a reply without records    *)
(* nothing.                                                                *)
Emits(p) ==
    IF IsQuery(p) THEN p.body = "question" ELSE p.body \in {"addresses", "aliases"}

ParsePayload(p, ts) ==
    IF /\ From53(p) \/ To53(p)
       /\ ClientIP(p) # Resolver
       /\ Emits(p)
    THEN {[time |-> ts, client |-> ClientIP(p), tags |-> p.body = "addresses"]}
    ELSE {}

Payload ==
    \E p \in Packets :
        /\ out' = IF pending THEN ParsePayload(p, pendingTime) ELSE {}
        /\ asker' = p.asker
        /\ pending' = FALSE
        /\ UNCHANGED <<baseDate, havePrev, prevTOD, pendingTime, stamp, newest,
                       header, rotations, excuses>>

-----------------------------------------------------------------------------
(* feed: an unindented line that is no header. *)

Banner ==
    /\ pending' = FALSE
    /\ out' = {} /\ asker' = NoHost
    /\ excuses' = excuses \ {"lost"}
    /\ UNCHANGED <<baseDate, havePrev, prevTOD, pendingTime, stamp, newest,
                   header, rotations>>

(* A panic: the poller goes on later in the file, perhaps inside a packet. *)
LoseLines ==
    \E t \in Time :
        /\ havePrev /\ MayCome(t)
        /\ stamp' = t
        /\ newest' = Latest(t)
        /\ excuses' = excuses \cup {"lost"}
        /\ out' = {} /\ asker' = NoHost
        /\ UNCHANGED <<parser, header, rotations>>

(* A noticed rotation: onTruncate, and ingestDNS with the first line of    *)
(* the new content, which may stand inside a packet.                       *)
NoPending == FALSE

Rotate ==
    \E t \in Time :
        /\ rotations < MaxRotations
        /\ rotations' = rotations + 1
        /\ havePrev /\ MayCome(t)
        /\ stamp' = t
        /\ newest' = Latest(t)
        /\ excuses' = {}
        /\ baseDate' = Anchor /\ havePrev' = FALSE /\ prevTOD' = 0
        /\ pending' = NoPending /\ pendingTime' = <<0, 0>>
        /\ out' = {} /\ asker' = NoHost
        /\ UNCHANGED header

Next == Header \/ Payload \/ Banner \/ LoseLines \/ Rotate

Spec == Init /\ [][Next]_vars

-----------------------------------------------------------------------------
Event == [time : Nat \X (0..Day - 1), client : Host, tags : BOOLEAN]

TypeOK ==
    /\ baseDate \in 0..LastDay + 1 /\ havePrev \in BOOLEAN
    /\ prevTOD \in 0..Day - 1
    /\ pending \in BOOLEAN /\ pending => havePrev
    /\ pendingTime \in Nat \X (0..Day - 1)
    /\ out \subseteq Event
    /\ asker \in Host \cup {NoHost}
    /\ stamp \in Time /\ newest \in Time /\ header \in Time
    /\ rotations \in 0..MaxRotations
    /\ excuses \subseteq {"step", "silence", "late", "lost"}

-----------------------------------------------------------------------------
(* Correctness. *)

(* An event carries the time, date included, of its own packet, however    *)
(* packets are reordered within a day, across midnights, banners, packets  *)
(* of other protocols and rotations, unless one of the four things came    *)
(* that the text does not show (tcpdumplog.go:79-81, 105-113).  A packet   *)
(* that came after a change of the clocks the same day is the exception:   *)
(* its event is off by that change and no more (tcpdumplog.go:126), and    *)
(* midnight puts that right.                                               *)
StampIsTrue ==
    excuses = {} =>
        \A e \in out :
            e.time = IF Switched(stamp)
                     THEN Add(stamp[1], stamp[2] + Forward[stamp[1]])
                     ELSE stamp

(* An event is of the host that asked, also when both ports are 53, and    *)
(* the resolver's own questions to its forwarder give none                 *)
(* (tcpdumplog.go:156-184).                                                *)
ClientAsked == \A e \in out : e.client = asker /\ e.client # Resolver

=============================================================================
