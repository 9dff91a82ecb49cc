------------------------------ MODULE LogFeed -------------------------------
(***************************************************************************)
(* What follows the lines of the log files on their way to ClickHouse: the *)
(* poller of identity.go (and of dnsstore.go, with one kind of events),    *)
(* which turns lines into events and buffers them, the flush at the end of *)
(* each scan, and main's FinalFlush at the shutdown, which does not wait   *)
(* for the poller.                                                         *)
(*                                                                         *)
(* flush holds the writer's mutex during its round trips, so it is one     *)
(* step.  A line gives one event or none; a part of a line gives none (it  *)
(* is counted as malformed or skipped).  What an event does to the live    *)
(* view is the subject of IdentityStore and DNSStore.  Definitions marked  *)
(* "faulty" are wrong variants of the one that follows.                    *)
(***************************************************************************)
EXTENDS FilePoller

CONSTANTS
    Kinds,         \* "dhcp" and "radius", or "dns"
    KindOf,        \* KindOf[f]: the kind of events in file f
    Ignored,       \* the lines that are malformed or of no interest
    Refused,       \* the events batch.Append refuses
    MaxBuffer,     \* maxBuffer, per kind
    Attempts,      \* the argument of FinalFlush
    MaxOutages,    \* bound: times ClickHouse becomes unreachable
    MaxFailures    \* bound: file operations that fail

Event == UNION {{f} \X (1..NumLines(f)) : f \in File}

ASSUME FeedAssumption ==
    /\ KindOf \in [File -> Kinds]
    /\ IsFiniteSet(Kinds)
    /\ Ignored \subseteq Event /\ Refused \subseteq Event
    /\ MaxBuffer \in Nat /\ Attempts \in Nat \ {0} 
    /\ MaxOutages \in Nat /\ MaxFailures \in Nat

VARIABLES
    buffers,       \* w.dhcp and w.radius, or w.dns
    stored,        \* the events of the inserts that succeeded
    shed,          \* the events capTail dropped
    main,          \* "serving", in FinalFlush at "flush" or "check", past it
                   \* at "returned", or "exited"
    attempt,       \* i of FinalFlush
    cancelled,     \* ctx.Err() # nil
    reachable,     \* ClickHouse answers
    outages,       \* times it stopped answering
    failures       \* file operations that failed

writerVars == <<buffers, stored, shed>>
mainVars == <<main, attempt>>
worldVars == <<cancelled, reachable, outages, failures>>
feedVars == <<pollerVars, writerVars, mainVars, worldVars>>

FeedInit ==
    /\ PollerInit
    /\ buffers = [k \in Kinds |-> << >>]
    /\ stored = {} /\ shed = {}
    /\ main = "serving" /\ attempt = 0
    /\ cancelled = FALSE /\ reachable = TRUE
    /\ outages = 0 /\ failures = 0

Running == main # "exited"

-----------------------------------------------------------------------------
(* The writer. *)

CapHead(s) == IF Len(s) <= MaxBuffer THEN s ELSE SubSeq(s, 1, MaxBuffer)   \* faulty
CapTail(s) == IF Len(s) <= MaxBuffer THEN s ELSE SubSeq(s, Len(s) - MaxBuffer + 1, Len(s))

OneBatch(answered) ==                                \* faulty
    {k \in answered : \A j \in Kinds : Range(buffers[j]) \cap Refused = {}}

(* The kinds whose insert succeeds: ClickHouse answers, all through the    *)
(* flush or for a part of it, and Append takes the whole batch.            *)
Inserted(answered) == {k \in answered : Range(buffers[k]) \cap Refused = {}}

(* What is in the buffer of k after its insert. *)
KeptOnSuccess(k, ok) == CapTail(buffers[k])          \* faulty
LeftOver(k, ok) == IF k \in ok THEN << >> ELSE CapTail(buffers[k])

Flush ==
    \E answered \in (IF reachable THEN {Kinds} ELSE SUBSET Kinds) :
        LET ok == Inserted(answered)
        IN /\ buffers' = [k \in Kinds |-> LeftOver(k, ok)]
           /\ stored' = stored \cup UNION {Range(buffers[k]) : k \in ok}
           /\ shed' = shed \cup UNION {Range(buffers[k]) \ Range(CapTail(buffers[k])) :
                                         k \in Kinds \ ok}

(* What the handler adds for the line in hand. *)
Added == IF IsWhole /\ <<file, LineNo>> \notin Ignored THEN <<<<file, LineNo>>>> ELSE << >>

-----------------------------------------------------------------------------
(* The poller. *)

Poll(step) ==
    /\ Running
    /\ step
    /\ UNCHANGED <<writerVars, mainVars, worldVars>>

BeginScan == Poll(StartScan)
StatFile == Poll(Stat)
ReadFile == Poll(Read)
Panic == Poll(PanicInLine)

FileFails ==
    /\ Running
    /\ SkipFile
    /\ failures < MaxFailures
    /\ failures' = failures + 1
    /\ UNCHANGED <<writerVars, mainVars, cancelled, reachable, outages>>

Handle ==
    /\ Running
    /\ HandleLine
    /\ buffers' = [buffers EXCEPT ![KindOf[file]] = @ \o Added]
    /\ UNCHANGED <<stored, shed, mainVars, worldVars>>

FlushAfterScan ==
    /\ Running
    /\ EndScan
    /\ Flush
    /\ UNCHANGED <<mainVars, worldVars>>

(* The select of the poller takes ctx.Done(); it may take a tick instead.  *)
StopPoller == cancelled /\ Poll(StopPolling)

-----------------------------------------------------------------------------
(* main: FinalFlush comes after the readers, the workers and FinalDrain.   *)

StartFinalFlush ==
    /\ main = "serving" /\ cancelled
    /\ main' = "flush"
    /\ UNCHANGED <<pollerVars, writerVars, attempt, worldVars>>

FinalFlush ==
    /\ main = "flush"
    /\ Flush
    /\ main' = "check"
    /\ UNCHANGED <<pollerVars, attempt, worldVars>>

Remaining == SumFunction([k \in Kinds |-> Len(buffers[k])])

(* Under the lock again: nothing left or the last attempt, or try again.   *)
LastAttempt == attempt >= Attempts - 1

FinalFlushReturns ==
    /\ main = "check"
    /\ Remaining = 0 \/ LastAttempt
    /\ main' = "returned"
    /\ UNCHANGED <<pollerVars, writerVars, attempt, worldVars>>

FinalFlushRetries ==
    /\ main = "check"
    /\ ~(Remaining = 0 \/ LastAttempt)
    /\ attempt' = attempt + 1
    /\ main' = "flush"
    /\ UNCHANGED <<pollerVars, writerVars, worldVars>>

(* main has other things to do, the other store's FinalFlush among them,   *)
(* before it returns and ends the process.                                 *)
Exit ==
    /\ main = "returned"
    /\ main' = "exited"
    /\ UNCHANGED <<pollerVars, writerVars, attempt, worldVars>>

-----------------------------------------------------------------------------
(* The environment. *)

Log ==
    /\ Running
    /\ \E f \in File : WritePiece(f) \/ Rotate(f)
    /\ UNCHANGED <<writerVars, mainVars, worldVars>>

Cancel ==
    /\ Running /\ ~cancelled
    /\ cancelled' = TRUE
    /\ UNCHANGED <<pollerVars, writerVars, mainVars, reachable, outages, failures>>

Outage ==
    /\ Running /\ reachable /\ outages < MaxOutages
    /\ reachable' = FALSE /\ outages' = outages + 1
    /\ UNCHANGED <<pollerVars, writerVars, mainVars, cancelled, failures>>

Recover ==
    /\ Running /\ ~reachable
    /\ reachable' = TRUE
    /\ UNCHANGED <<pollerVars, writerVars, mainVars, cancelled, outages, failures>>

ProcessEnded == ~Running /\ UNCHANGED feedVars

PollerStep ==
    \/ BeginScan \/ StatFile \/ ReadFile \/ FileFails
    \/ Handle \/ Panic \/ FlushAfterScan

MainStep ==
    StartFinalFlush \/ FinalFlush \/ FinalFlushReturns \/ FinalFlushRetries \/ Exit

FeedNext ==
    \/ PollerStep \/ StopPoller
    \/ MainStep
    \/ Log \/ Cancel \/ Outage \/ Recover
    \/ ProcessEnded

FeedSpec == FeedInit /\ [][FeedNext]_feedVars

(* The ticker ticks, and each file operation and each insert returns: an   *)
(* insert has a timeout.  No fairness on the log files, the signal or      *)
(* ClickHouse.                                                             *)
Fairness == WF_feedVars(PollerStep) /\ WF_feedVars(MainStep)

FairSpec == FeedSpec /\ Fairness

-----------------------------------------------------------------------------
FeedTypeOK ==
    /\ PollerTypeOK
    /\ buffers \in [Kinds -> Seq(Event)]
    /\ stored \subseteq Event
    /\ shed \subseteq Event
    /\ main \in {"serving", "flush", "check", "returned", "exited"}
    /\ attempt \in 0..Attempts - 1
    /\ cancelled \in BOOLEAN
    /\ reachable \in BOOLEAN
    /\ outages \in 0..MaxOutages
    /\ failures \in 0..MaxFailures

-----------------------------------------------------------------------------
(* Correctness. *)

(* The events of the lines handled so far, and of those what is neither    *)
(* stored nor dropped.                                                     *)
Accepted ==
    (UNION {{<<f, l>> : l \in Range(handled[f]) \ torn[f]} : f \in File}) \ Ignored

Buffered(k) == Range(buffers[k])
Unsettled == Accepted \ (stored \cup shed)

(* Each event is in one place: in the buffer of its kind once, or stored,  *)
(* or dropped by capTail, whatever scans and final flushes overlap and     *)
(* whichever of the two inserts of a flush fails (identity.go:409-431).    *)
EventsInOnePlace ==
    /\ \A k \in Kinds :
          /\ IsInjective(buffers[k])
          /\ \A e \in Buffered(k) : KindOf[e[1]] = k
          /\ Buffered(k) \cap (stored \cup shed) = {}
    /\ stored \cap shed = {}
    /\ Accepted = (UNION {Buffered(k) : k \in Kinds}) \cup stored \cup shed

(* An event is dropped only by a failed insert that leaves the buffer of   *)
(* its kind full, and every event kept there is a later one (capTail's     *)
(* "bounded-buffer backstop", identity.go:483-489).                        *)
ShedIsBackstop ==
    [][\A e \in shed' \ shed :
          LET k == KindOf[e[1]]
          IN /\ Len(buffers'[k]) = MaxBuffer
             /\ \A d \in Range(buffers'[k]) : d[1] = e[1] => d[2] > e[2]]_feedVars

(* A complete line is read in the end, or a panic takes it, unless it is   *)
(* rotated away, or its file was and the poller could not notice, or the   *)
(* process is told to stop; no line of the file may be longer than a read  *)
(* (filepoller.go:16-18).  In particular a line that panics holds up       *)
(* neither its own file nor the others.                                    *)
Readable(f) == \A l \in 1..NumLines(f) : Lengths[f][l] <= MaxRead

InFile(f, l) == <<l, Lengths[f][l]>> \in Range(content[f])

Unnoticed(f) ==
    missed[f] \/ (since[f] # rotations[f] /\ Len(content[f]) >= offsets[f])

LinesRead ==
    \A f \in {g \in File : Readable(g)} : \A l \in 1..NumLines(f) :
        InFile(f, l) ~>
            \/ l \in Range(handled[f]) \/ <<f, l>> \in abandoned
            \/ ~InFile(f, l) \/ Unnoticed(f)
            \/ cancelled

(* If ClickHouse stays up in the end, the events of a kind are settled,    *)
(* unless the process ends; a refused event holds up its own kind only     *)
(* (identity.go:433-444).                                                  *)
EventsSettle ==
    <>[]reachable =>
        \A e \in Event :
            (\A d \in Refused : KindOf[d[1]] # KindOf[e[1]]) =>
                (e \in Unsettled ~> e \notin Unsettled \/ ~Running)
=============================================================================
