------------------------------- MODULE Trace -------------------------------
(***************************************************************************)
(* The forensic trace of cmd/trace in its "who" mode: which device and     *)
(* which user were behind the clients that resolved a name in a window of  *)
(* time.  One run of the program asks three tables one after the other and *)
(* folds the answers; the enricher goes on storing rows meanwhile, and the *)
(* queries are not one snapshot.                                           *)
(*                                                                         *)
(* The tables are sets: they are ReplacingMergeTrees read with FINAL, so a *)
(* row stored again is the same row.  A row counts for the trace if it is  *)
(* there when its table is asked, so each table fills up just before that. *)
(* Rows come back in any order: SliceStable leaves those of one second as  *)
(* they came.                                                              *)
(*                                                                         *)
(* A lease and a session are one kind of row: entity is what a closing row *)
(* closes (the MAC token, the session ID), token is what the report names  *)
(* (the MAC token, the user token).                                        *)
(* Definitions marked "faulty" are wrong variants of the one that follows. *)
(***************************************************************************)
EXTENDS Integers, Sequences, FiniteSets, Functions

CONSTANTS
    IPs, Names, Macs, Sessions, Users,
    Wanted,           \* Wanted: the names (or answers) the question is about
    Leases, Logins,   \* the <<ip, mac>> and <<mac, session, user>> there are
    From, To,         \* the window of the question
    MaxLease,         \* IDENTITY_MAX_LEASE
    MaxSession,       \* IDENTITY_MAX_SESSION
    NoToken,          \* the empty token: "unknown at that time"
    Ambiguous,        \* "ambiguous at that time"
    None,             \* no candidate is being reduced
    MaxTime,          \* bound: time stamps
    MaxRows           \* bound: rows in the three tables

Time == 1..MaxTime
Candidate == IPs \X Names
Token == Macs \cup Users

ASSUME DataAssumption ==
    /\ Wanted \subseteq Names
    /\ Leases \subseteq IPs \X (Macs \cup {NoToken})
    /\ Logins \subseteq (Macs \cup {NoToken}) \X Sessions \X (Users \cup {NoToken})
    /\ NoToken \notin Macs \cup Users \cup Sessions
    /\ Ambiguous \notin Macs \cup Users \cup {NoToken}
    /\ None \notin Candidate

ASSUME TimeAssumption ==
    /\ MaxTime \in Nat /\ From \in Time /\ To \in Time
    /\ MaxLease \in Nat /\ MaxSession \in Nat

ResolutionRow == [client : IPs, name : Names, time : Time]

LeaseRow ==
    {[key |-> l[1], entity |-> l[2], token |-> l[2], time |-> t, opens |-> o] :
        l \in Leases, t \in Time, o \in BOOLEAN}

SessionRow ==
    {[key |-> l[1], entity |-> l[2], token |-> l[3], time |-> t, opens |-> o] :
        l \in Logins, t \in Time, o \in BOOLEAN}

VARIABLES
    resolutions, leases, sessions,   \* the three tables
    pc,                              \* where runWho is
    report,                          \* report[c]: last_seen, device and user
    fetched,                         \* the rows of the last query
    todo, subject,                   \* candidates left to reduce; the one at work
    f, i, cands, deadline            \* the local variables of the fold

tables == <<resolutions, leases, sessions>>
fold == <<subject, f, i, cands, deadline>>
vars == <<tables, pc, report, fetched, todo, fold>>

Init ==
    /\ resolutions = {} /\ leases = {} /\ sessions = {}
    /\ pc = "resolutions"
    /\ report = [c \in {} |-> None]
    /\ fetched = {} /\ todo = {} /\ subject = None
    /\ f = << >> /\ i = 1 /\ cands = {} /\ deadline = 0

-----------------------------------------------------------------------------
(* The enricher stores a row. *)

HasRoom ==
    Cardinality(resolutions) + Cardinality(leases) + Cardinality(sessions) < MaxRows

StoreResolution(r) ==
    /\ pc = "resolutions" /\ HasRoom
    /\ resolutions' = resolutions \cup {r}
    /\ UNCHANGED <<leases, sessions, pc, report, fetched, todo, fold>>

StoreLease(r) ==
    /\ pc = "leases" /\ HasRoom
    /\ leases' = leases \cup {r}
    /\ UNCHANGED <<resolutions, sessions, pc, report, fetched, todo, fold>>

StoreSession(r) ==
    /\ pc = "sessions" /\ HasRoom
    /\ sessions' = sessions \cup {r}
    /\ UNCHANGED <<resolutions, leases, pc, report, fetched, todo, fold>>

-----------------------------------------------------------------------------
(* The queries. *)

Clients == {c[1] : c \in DOMAIN report}
HasDevice(c) == report[c].device \notin {NoToken, Ambiguous}
Devices == {report[c].device : c \in {c \in DOMAIN report : HasDevice(c)}}

(* The rows of the given keys, in a window that starts horizon earlier.    *)
Window(table, keys, horizon) ==
    {r \in table : r.key \in keys /\ r.time \in (From - horizon)..To}

Resolved == {r \in resolutions : r.name \in Wanted /\ r.time \in From..To}

(* Query 1: GROUP BY client_ip, qname, answer_ip, with the max(event_time) *)
(* of each group.                                                          *)
QueryResolutions ==
    /\ pc = "resolutions"
    /\ LET groups == {<<r.client, r.name>> : r \in Resolved}
           times(c) == {r.time : r \in {r \in Resolved : <<r.client, r.name>> = c}}
       IN \E last \in [groups -> From..To] :
            /\ \A c \in groups :
                  last[c] \in times(c) /\ \A t \in times(c) : t <= last[c]
            /\ report' = [c \in groups |->
                  [last |-> last[c], device |-> NoToken, user |-> NoToken]]
            /\ pc' = IF groups = {} THEN "done" ELSE "leases"
    /\ UNCHANGED <<tables, fetched, todo, fold>>

QueryLeases ==
    /\ pc = "leases"
    /\ fetched' = Window(leases, Clients, MaxLease)
    /\ todo' = DOMAIN report
    /\ pc' = "devices"
    /\ UNCHANGED <<tables, report, fold>>

(* A candidate without a single device is not joined any further. *)
QuerySessions ==
    /\ pc = "sessions"
    /\ fetched' = Window(sessions, Devices, MaxSession)
    /\ todo' = {c \in DOMAIN report : HasDevice(c)}
    /\ pc' = "users"
    /\ UNCHANGED <<tables, report, fold>>

(* A query or a scan fails: runWho returns the error and renders nothing.  *)
QueryFails ==
    /\ pc \in {"resolutions", "leases", "sessions"}
    /\ pc' = "failed"
    /\ UNCHANGED <<tables, report, fetched, todo, fold>>

-----------------------------------------------------------------------------
(* The fold of dhcpBindingAt (pc = "devices") and radiusBindingAt          *)
(* (pc = "users") for one candidate.                                       *)

KeyOf(c) == IF pc = "devices" THEN c[1] ELSE report[c].device
Horizon == IF pc = "devices" THEN MaxLease ELSE MaxSession

Relevant(rows, key, t) ==
    {r \in rows : r.key = key /\ r.entity # NoToken /\ r.time <= t}

(* The orders in which SliceStable may leave the rows. *)
Sorted(R) ==
    {g \in [1..Cardinality(R) -> R] :
        /\ Range(g) = R
        /\ \A m, n \in DOMAIN g : m < n => g[m].time <= g[n].time}

BeginFold(c) ==
    /\ pc \in {"devices", "users"} /\ subject = None /\ c \in todo
    /\ subject' = c
    /\ f' \in Sorted(Relevant(fetched, KeyOf(c), report[c].last))
    /\ i' = 1 /\ cands' = {} /\ deadline' = 0
    /\ UNCHANGED <<tables, pc, report, fetched, todo>>

(* f[m], ..., f[n - 1] are the rows of one second. *)
OneRow(m, n) == m <= Len(f) /\ n = m + 1                 \* faulty
IsBatch(m, n) ==
    /\ m <= Len(f) /\ n \in m + 1..Len(f) + 1
    /\ \A k \in m..n - 1 : f[k].time = f[m].time
    /\ n <= Len(f) => f[n].time # f[m].time

(* A batch that opens replaces the candidates and sets the deadline; what  *)
(* it closes goes, in either case.                                         *)
Closes(rows) == {r.entity : r \in {r \in rows : ~r.opens}}
Opens(rows) == {<<r.entity, r.token>> : r \in {r \in rows : r.opens}}

DeadlineOfAny(old, opened, t) == t + Horizon             \* faulty
NewDeadline(old, opened, t) == IF opened # {} THEN t + Horizon ELSE old

FoldBatch ==
    /\ subject # None
    /\ \E n \in 2..Len(f) + 1 :
          /\ IsBatch(i, n)
          /\ LET batch == {f[k] : k \in i..n - 1}
                 held == IF Opens(batch) # {} THEN Opens(batch) ELSE cands
             IN /\ cands' = {c \in held : c[1] \notin Closes(batch)}
                /\ deadline' = NewDeadline(deadline, Opens(batch), f[i].time)
          /\ i' = n
    /\ UNCHANGED <<tables, pc, report, fetched, todo, subject, f>>

TheToken(holders) == (CHOOSE c \in holders : TRUE)[2]

Verdict(holders, covered) ==
    IF holders = {} \/ ~covered THEN NoToken
    ELSE IF \E a, b \in holders : a # b THEN Ambiguous
    ELSE TheToken(holders)

EndFold ==
    /\ subject # None /\ i > Len(f)
    /\ LET verdict == Verdict(cands, report[subject].last <= deadline)
       IN report' = IF pc = "devices"
                    THEN [report EXCEPT ![subject].device = verdict]
                    ELSE [report EXCEPT ![subject].user = verdict]
    /\ todo' = todo \ {subject}
    /\ subject' = None
    /\ f' = << >> /\ i' = 1 /\ cands' = {} /\ deadline' = 0
    /\ UNCHANGED <<tables, pc, fetched>>

(* Query 3 is asked only if some device was found. *)
DevicesDone ==
    /\ pc = "devices" /\ todo = {}
    /\ pc' = IF Devices = {} THEN "done" ELSE "sessions"
    /\ UNCHANGED <<tables, report, fetched, todo, fold>>

UsersDone ==
    /\ pc = "users" /\ todo = {}
    /\ pc' = "done"
    /\ UNCHANGED <<tables, report, fetched, todo, fold>>

(* The program has ended. *)
Ended == pc \in {"done", "failed"} /\ UNCHANGED vars

Next ==
    \/ \E r \in ResolutionRow : StoreResolution(r)
    \/ \E r \in LeaseRow : StoreLease(r)
    \/ \E r \in SessionRow : StoreSession(r)
    \/ QueryResolutions \/ QueryLeases \/ QuerySessions \/ QueryFails
    \/ \E c \in todo : BeginFold(c)
    \/ FoldBatch \/ EndFold \/ DevicesDone \/ UsersDone \/ Ended

Spec == Init /\ [][Next]_vars

-----------------------------------------------------------------------------
Verdicts == Token \cup {NoToken, Ambiguous}
Line == [last : From..To, device : Verdicts, user : Verdicts]

TypeOK ==
    /\ resolutions \subseteq ResolutionRow
    /\ leases \subseteq LeaseRow /\ sessions \subseteq SessionRow
    /\ pc \in {"resolutions", "leases", "devices", "sessions", "users",
               "done", "failed"}
    /\ DOMAIN report \subseteq Candidate
    /\ report \in [DOMAIN report -> Line]
    /\ fetched \subseteq leases \cup sessions
    /\ todo \subseteq DOMAIN report
    /\ subject \in todo \cup {None}

-----------------------------------------------------------------------------
(* Correctness: what the evidence says, defined without the fold.          *)

(* All that is known about a key up to time t, however old.                *)
Evidence(table, key, t) ==
    {r \in table : r.key = key /\ r.entity # NoToken /\ r.time <= t}

(* Who holds the key: those opened last and not closed in that second or   *)
(* after it.                                                               *)
Holders(R) ==
    {<<r.entity, r.token>> : r \in
        {r \in R : /\ r.opens
                   /\ \A s \in R : s.opens => s.time <= r.time
                   /\ \A s \in R : ~s.opens /\ s.entity = r.entity
                                     => s.time < r.time}}

Covered(R, t, horizon) == \E r \in R : r.opens /\ t <= r.time + horizon

(* One holder names the token, several none of theirs. *)
Reading(R, t, horizon) ==
    IF Holders(R) = {} \/ ~Covered(R, t, horizon) THEN NoToken
    ELSE IF \A a, b \in Holders(R) : a = b THEN TheToken(Holders(R))
    ELSE Ambiguous

DeviceOf(c) ==
    Reading(Evidence(leases, c[1], report[c].last), report[c].last, MaxLease)

UserOf(c) ==
    IF ~HasDevice(c) THEN NoToken
    ELSE Reading(Evidence(sessions, report[c].device, report[c].last),
                 report[c].last, MaxSession)

(* The report follows from the evidence: it is that of all the rows        *)
(* stored, of every age and for the client's own address and device only,  *)
(* whatever the order of the rows within a second, and names several       *)
(* holders as ambiguous (identity_join.go:10-38, and main.go:544-545 for   *)
(* the widening).                                                          *)
BindingsAreEvidence ==
    pc = "done" =>
        \A c \in DOMAIN report :
            report[c].device = DeviceOf(c) /\ report[c].user = UserOf(c)
=============================================================================
