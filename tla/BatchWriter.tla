---------------------------- MODULE BatchWriter ----------------------------
(***************************************************************************)
(* The flow writer of batchwriter.go together with the goroutines that     *)
(* drive it: the enrichment workers call Add, the flush timer drains once  *)
(* per maxAge, and main runs FinalDrain after the workers have returned.   *)
(* Every drain takes the whole buffer under the lock, sends it in chunks   *)
(* without the lock, and takes the lock again to put back what a failed    *)
(* chunk left unsent, so any number of drains are in flight at once.       *)
(*                                                                         *)
(* Rows are numbered in the order in which Add appended them, so a smaller *)
(* number is an older row.  Definitions marked "faulty" are wrong variants  *)
(* of the one that follows, each breaking a property stated below.         *)
(***************************************************************************)
EXTENDS Integers, Sequences, FiniteSets, Functions

CONSTANTS
    Workers,       \* the ENRICH_WORKERS goroutines
    Timer,         \* the goroutine of StartFlushTimer
    Main,          \* the main goroutine
    NumRows,       \* bound: rows the workers ever produce
    MaxSize,       \* maxSize: rows of one insert
    MaxBuffer,     \* maxBuffer: rows kept by a re-queue
    Attempts,      \* the argument of FinalDrain
    MaxOutages,    \* bound: times ClickHouse becomes unreachable
    Malformed      \* the rows batch.Append refuses

Threads == Workers \cup {Timer, Main}
Row == 1..NumRows

ASSUME ThreadsAssumption ==
    /\ Timer \notin Workers
    /\ Main \notin Workers
    /\ Timer # Main
    /\ IsFiniteSet(Workers)

ASSUME SizesAssumption ==
    /\ NumRows \in Nat
    /\ MaxSize \in Nat \ {0}
    /\ MaxBuffer \in Nat /\ MaxBuffer >= MaxSize
    /\ Attempts \in Nat \ {0}
    /\ MaxOutages \in Nat
    /\ Malformed \subseteq Row

VARIABLES
    buffer,        \* w.buffer, a sequence of rows, oldest arrival first
    backoff,       \* time.Now().Before(w.retryAfter)
    pc,            \* where each thread is
    batch,         \* batch[t]: the rows t has taken and not yet sent
    attempt,       \* i of FinalDrain
    lost,          \* the value FinalDrain returned
    cancelled,     \* ctx.Err() # nil
    reachable,     \* ClickHouse answers
    outages,       \* times it stopped answering
    accepted,      \* rows passed to Add so far
    acked,         \* rows of the inserts ClickHouse acknowledged
    dropped,       \* rows given up, malformed or beyond the cap
    rowsWritten,   \* chRowsWritten
    rowsDropped    \* chRowsDropped

vars == <<buffer, backoff, pc, batch, attempt, lost, cancelled, reachable,
          outages, accepted, acked, dropped, rowsWritten, rowsDropped>>

WorkerPC == {"idle", "flush", "send", "requeue", "done"}
TimerPC  == {"idle", "send", "requeue", "done"}
MainPC   == {"wait", "drain", "send", "requeue", "check", "returned", "exited"}

Init ==
    /\ buffer = << >>
    /\ backoff = FALSE
    /\ pc = [t \in Threads |-> IF t = Main THEN "wait" ELSE "idle"]
    /\ batch = [t \in Threads |-> << >>]
    /\ attempt = 0
    /\ lost = 0
    /\ cancelled = FALSE
    /\ reachable = TRUE
    /\ outages = 0
    /\ accepted = 0
    /\ acked = {}
    /\ dropped = {}
    /\ rowsWritten = 0
    /\ rowsDropped = 0

-----------------------------------------------------------------------------
(* Shorthands for the two ends of a drain. *)

Goto(t, l) == pc' = [pc EXCEPT ![t] = l]

(* Where thread t stands when it calls drain, and where drain returns to. *)
Entry(t) == IF t = Main THEN "drain" ELSE IF t = Timer THEN "idle" ELSE "flush"
After(t) == IF t = Main THEN "check" ELSE "idle"

Running == pc[Main] # "exited"

(* Add's shouldFlush, for a buffer of n rows. *)
FlushLate(n) == n > MaxSize                          \* faulty
ShouldFlush(n) == n >= MaxSize

(* drain's test under its first lock: t finds rows, and either forces or   *)
(* is past the back-off.                                                   *)
MayDrainUnforced(t) == buffer # << >> /\ ~backoff    \* faulty
MayDrainFull(t) ==                                   \* faulty
    Len(buffer) >= MaxSize /\ (t = Main \/ ~backoff)
MayDrain(t) == buffer # << >> /\ (t = Main \/ ~backoff)

(* rows[i:end] and rows[end:] of what is left of the taken rows. *)
ChunkLen(s) == IF Len(s) < MaxSize THEN Len(s) ELSE MaxSize
Chunk(s) == SubSeq(s, 1, ChunkLen(s))
Rest(s)  == SubSeq(s, ChunkLen(s) + 1, Len(s))

(* The sequences that can be built from the rows of s. *)
Arrangements(s) == UNION {[1..n -> Range(s)] : n \in 0..Len(s)}

(* a is what batch.Append took of chunk c: the well-formed rows, in order. *)
IsWholeChunk(a, c) == a = c                          \* faulty
IsAppended(a, c) ==
    /\ a \in Seq(Range(c))
    /\ IsInjective(a)
    /\ Range(a) = Range(c) \ Malformed
    /\ \A i, j \in 1..Len(a) : i < j =>
          \E k, l \in 1..Len(c) : k < l /\ c[k] = a[i] /\ c[l] = a[j]

(* What a failed send leaves to re-queue of s, a being the retryable rows. *)
UnsentChunk(a, s) == a                               \* faulty
Unsent(a, s) == a \o Rest(s)

(* What a re-queue drops from the front of s, and what it keeps. *)
OverInsertSize(s) == IF Len(s) > MaxSize THEN Len(s) - MaxSize ELSE 0 \* faulty
Over(s) == IF Len(s) > MaxBuffer THEN Len(s) - MaxBuffer ELSE 0
CutOff(s) == SubSeq(s, 1, Over(s))
KeptAll(s) == s                                      \* faulty
Kept(s) == SubSeq(s, Over(s) + 1, Len(s))

(* wg.Wait() returns, and FinalDrain's loop: another round, and its number. *)
WorkersTold == cancelled                             \* faulty
WorkersDone == \A w \in Workers : pc[w] = "done"
MayRetry == buffer # << >> /\ attempt < Attempts - 1
SameAttempt == attempt                               \* faulty
NextAttempt == attempt + 1

-----------------------------------------------------------------------------
(* Add appends under the lock and flushes after it when the buffer has     *)
(* reached maxSize.  It never looks at maxBuffer.                          *)
Add(w) ==
    /\ Running
    /\ pc[w] = "idle"
    /\ accepted < NumRows
    /\ accepted' = accepted + 1
    /\ buffer' = Append(buffer, accepted + 1)
    /\ IF ShouldFlush(Len(buffer')) THEN Goto(w, "flush") ELSE UNCHANGED pc
    /\ UNCHANGED <<backoff, batch, attempt, lost, cancelled, reachable, outages,
                   acked, dropped, rowsWritten, rowsDropped>>

(* The first critical section of drain: nothing to do, or still backing    *)
(* off and not forced, or the whole buffer is taken.                       *)
SkipDrain(t) ==
    /\ Running
    /\ pc[t] = Entry(t)
    /\ ~MayDrain(t)
    /\ Goto(t, After(t))
    /\ UNCHANGED <<buffer, backoff, batch, attempt, lost, cancelled, reachable,
                   outages, accepted, acked, dropped, rowsWritten, rowsDropped>>

TakeBuffer(t) ==
    /\ Running
    /\ pc[t] = Entry(t)
    /\ MayDrain(t)
    /\ batch' = [batch EXCEPT ![t] = buffer]
    /\ buffer' = << >>
    /\ Goto(t, "send")
    /\ UNCHANGED <<backoff, attempt, lost, cancelled, reachable, outages,
                   accepted, acked, dropped, rowsWritten, rowsDropped>>

(* One chunk is inserted: its malformed rows are dropped by Append, the    *)
(* others are acknowledged.  chRowsWritten counts the whole chunk.         *)
SendOk(t) ==
    LET chunk == Chunk(batch[t])
        bad == Range(chunk) \cap Malformed
    IN
    /\ Running
    /\ pc[t] = "send"
    /\ reachable
    /\ acked' = acked \cup (Range(chunk) \ Malformed)
    /\ dropped' = dropped \cup bad
    /\ rowsDropped' = rowsDropped + Cardinality(bad)
    /\ rowsWritten' = rowsWritten + Len(chunk)
    /\ batch' = [batch EXCEPT ![t] = Rest(batch[t])]
    /\ Goto(t, IF Rest(batch[t]) = << >> THEN After(t) ELSE "send")
    /\ UNCHANGED <<buffer, backoff, attempt, lost, cancelled, reachable,
                   outages, accepted>>

(* PrepareBatch fails: every row of the chunk is retryable. *)
PrepareFails(t) ==
    /\ Running
    /\ pc[t] = "send"
    /\ ~reachable
    /\ Goto(t, "requeue")
    /\ UNCHANGED <<buffer, backoff, batch, attempt, lost, cancelled, reachable,
                   outages, accepted, acked, dropped, rowsWritten, rowsDropped>>

(* PrepareBatch succeeded but Send fails: Append has already dropped and   *)
(* counted the malformed rows of the chunk; the others are retryable.      *)
SendFails(t) ==
    LET chunk == Chunk(batch[t])
        bad == Range(chunk) \cap Malformed
    IN
    /\ Running
    /\ pc[t] = "send"
    /\ ~reachable
    /\ \E appended \in Arrangements(chunk) :
          /\ IsAppended(appended, chunk)
          /\ batch' = [batch EXCEPT ![t] = Unsent(appended, batch[t])]
    /\ dropped' = dropped \cup bad
    /\ rowsDropped' = rowsDropped + Cardinality(bad)
    /\ Goto(t, "requeue")
    /\ UNCHANGED <<buffer, backoff, attempt, lost, cancelled, reachable,
                   outages, accepted, acked, rowsWritten>>

(* The second critical section: the unsent rows go ahead of the rows that  *)
(* arrived meanwhile, and what exceeds the cap is dropped from the front.  *)
Requeue(t) ==
    LET all == batch[t] \o buffer
    IN
    /\ Running
    /\ pc[t] = "requeue"
    /\ buffer' = Kept(all)
    /\ dropped' = dropped \cup Range(CutOff(all))
    /\ rowsDropped' = rowsDropped + Over(all)
    /\ backoff' = TRUE
    /\ batch' = [batch EXCEPT ![t] = << >>]
    /\ Goto(t, After(t))
    /\ UNCHANGED <<attempt, lost, cancelled, reachable, outages, accepted,
                   acked, rowsWritten>>

-----------------------------------------------------------------------------
(* The goroutines' ends. *)

(* A worker returns when rawChan is closed and empty, which needs the      *)
(* readers to have seen the cancelled context.                             *)
WorkerExit(w) ==
    /\ Running
    /\ cancelled
    /\ pc[w] = "idle"
    /\ Goto(w, "done")
    /\ UNCHANGED <<buffer, backoff, batch, attempt, lost, cancelled, reachable,
                   outages, accepted, acked, dropped, rowsWritten, rowsDropped>>

(* The timer's select picks ctx.Done(); it may pick a tick instead any     *)
(* number of times, and nobody waits for it.                               *)
TimerExit ==
    /\ Running
    /\ cancelled
    /\ pc[Timer] = "idle"
    /\ Goto(Timer, "done")
    /\ UNCHANGED <<buffer, backoff, batch, attempt, lost, cancelled, reachable,
                   outages, accepted, acked, dropped, rowsWritten, rowsDropped>>

(* main passes wg.Wait() and calls FinalDrain. *)
StartFinalDrain ==
    /\ pc[Main] = "wait"
    /\ WorkersDone
    /\ Goto(Main, "drain")
    /\ UNCHANGED <<buffer, backoff, batch, attempt, lost, cancelled, reachable,
                   outages, accepted, acked, dropped, rowsWritten, rowsDropped>>

(* FinalDrain looks at the buffer after a drain: done, or out of attempts, *)
(* or sleep maxAge and drain again.                                        *)
FinalDrainReturns ==
    /\ pc[Main] = "check"
    /\ ~MayRetry
    /\ lost' = Len(buffer)
    /\ Goto(Main, "returned")
    /\ UNCHANGED <<buffer, backoff, batch, attempt, cancelled, reachable,
                   outages, accepted, acked, dropped, rowsWritten, rowsDropped>>

FinalDrainRetries ==
    /\ pc[Main] = "check"
    /\ MayRetry
    /\ attempt' = NextAttempt
    /\ Goto(Main, "drain")
    /\ UNCHANGED <<buffer, backoff, batch, lost, cancelled, reachable, outages,
                   accepted, acked, dropped, rowsWritten, rowsDropped>>

(* main returns, and every goroutine ends with it. *)
Exit ==
    /\ pc[Main] = "returned"
    /\ Goto(Main, "exited")
    /\ UNCHANGED <<buffer, backoff, batch, attempt, lost, cancelled, reachable,
                   outages, accepted, acked, dropped, rowsWritten, rowsDropped>>

-----------------------------------------------------------------------------
(* The environment: the clock, the signal, ClickHouse. *)

BackoffElapses ==
    /\ Running
    /\ backoff
    /\ backoff' = FALSE
    /\ UNCHANGED <<buffer, pc, batch, attempt, lost, cancelled, reachable,
                   outages, accepted, acked, dropped, rowsWritten, rowsDropped>>

Cancel ==
    /\ Running
    /\ ~cancelled
    /\ cancelled' = TRUE
    /\ UNCHANGED <<buffer, backoff, pc, batch, attempt, lost, reachable,
                   outages, accepted, acked, dropped, rowsWritten, rowsDropped>>

Outage ==
    /\ Running
    /\ reachable
    /\ outages < MaxOutages
    /\ reachable' = FALSE
    /\ outages' = outages + 1
    /\ UNCHANGED <<buffer, backoff, pc, batch, attempt, lost, cancelled,
                   accepted, acked, dropped, rowsWritten, rowsDropped>>

Recover ==
    /\ Running
    /\ ~reachable
    /\ reachable' = TRUE
    /\ UNCHANGED <<buffer, backoff, pc, batch, attempt, lost, cancelled,
                   outages, accepted, acked, dropped, rowsWritten, rowsDropped>>

(* The process has ended. *)
Terminated == pc[Main] = "exited" /\ UNCHANGED vars

-----------------------------------------------------------------------------
Drain(t) ==
    \/ SkipDrain(t) \/ TakeBuffer(t)
    \/ SendOk(t) \/ PrepareFails(t) \/ SendFails(t) \/ Requeue(t)

MainStep == StartFinalDrain \/ FinalDrainReturns \/ FinalDrainRetries \/ Exit

Next ==
    \/ \E w \in Workers : Add(w) \/ WorkerExit(w)
    \/ \E t \in Threads : Drain(t)
    \/ TimerExit
    \/ MainStep
    \/ BackoffElapses \/ Cancel \/ Outage \/ Recover
    \/ Terminated

Spec == Init /\ [][Next]_vars

(* Every goroutine that has something to do is scheduled, every call of    *)
(* the driver returns, the ticker ticks and the back-off window passes.    *)
(* No fairness on the arrival of rows, the signal or ClickHouse.           *)
Fairness ==
    /\ \A t \in Threads : WF_vars(Drain(t))
    /\ \A w \in Workers : WF_vars(WorkerExit(w))
    /\ WF_vars(MainStep)
    /\ WF_vars(BackoffElapses)

FairSpec == Spec /\ Fairness

-----------------------------------------------------------------------------
TypeOK ==
    /\ buffer \in Seq(Row)
    /\ backoff \in BOOLEAN
    /\ pc \in [Threads -> WorkerPC \cup TimerPC \cup MainPC]
    /\ \A w \in Workers : pc[w] \in WorkerPC
    /\ pc[Timer] \in TimerPC
    /\ pc[Main] \in MainPC
    /\ batch \in [Threads -> Seq(Row)]
    /\ attempt \in 0..Attempts - 1
    /\ lost \in Nat
    /\ cancelled \in BOOLEAN
    /\ reachable \in BOOLEAN
    /\ outages \in 0..MaxOutages
    /\ accepted \in 0..NumRows
    /\ acked \subseteq Row
    /\ dropped \subseteq Row
    /\ rowsWritten \in Nat
    /\ rowsDropped \in Nat

-----------------------------------------------------------------------------
(* Correctness. *)

Unsettled == (1..accepted) \ (acked \cup dropped)

InFlight(t) == Range(batch[t])

(* A row handed to Add is never lost track of and never doubled: it is in  *)
(* the buffer, or in the hands of exactly one drain, or acknowledged, or   *)
(* dropped, whatever drains overlap and whatever sends fail (drain's       *)
(* take/send/re-queue, batchwriter.go:384-425).                            *)
EachPlaceDistinct ==
    /\ IsInjective(buffer)
    /\ \A t \in Threads : IsInjective(batch[t])

PlacesDisjoint ==
    /\ Range(buffer) \cap (acked \cup dropped) = {}
    /\ acked \cap dropped = {}
    /\ \A t \in Threads :
          /\ InFlight(t) \cap (Range(buffer) \cup acked \cup dropped) = {}
          /\ \A u \in Threads \ {t} : InFlight(t) \cap InFlight(u) = {}

AllAccountedFor ==
    1..accepted = Range(buffer) \cup (UNION {InFlight(t) : t \in Threads})
                    \cup acked \cup dropped

ExactlyOnePlace == EachPlaceDistinct /\ PlacesDisjoint /\ AllAccountedFor

(* chRowsDropped counts every given-up row once, also when a chunk with    *)
(* malformed rows is retried (the comment of sendToClickHouse) and when    *)
(* the cap and a malformed row meet.                                       *)
DropCounterExact == rowsDropped = Cardinality(dropped)

(* A well-formed row is given up in one situation only: a failed drain     *)
(* re-queues, the window of back-off starts and the buffer is full to the  *)
(* cap ("the last resort and the only intentional flow loss").             *)
LossIsLastResort ==
    [][\A r \in dropped' \ dropped :
          r \in Malformed \/ (backoff' /\ Len(buffer') = MaxBuffer)]_vars

(* While ClickHouse has never failed, the buffer outgrows maxSize by at    *)
(* most the workers that have appended and not yet flushed.                *)
HealthyBufferBound ==
    outages = 0 => Len(buffer) < MaxSize + Cardinality(Workers)

(* Once main is past wg.Wait(), no unsettled row is in a worker's hands:   *)
(* what FinalDrain does not settle is in the buffer or in the timer's last *)
(* drain.                                                                  *)
OnlyTimerOutlivesWait ==
    pc[Main] # "wait" =>
        Unsettled \subseteq Range(buffer) \cup InFlight(Main) \cup InFlight(Timer)

(* FinalDrain forces past the back-off: if ClickHouse answers from the     *)
(* moment FinalDrain starts, no row is reported lost, although the last    *)
(* regular flush may just have failed (drain's comment on force).          *)
FinalDrainForces ==
    [](pc[Main] = "drain" /\ attempt = 0 /\ []reachable => [](lost = 0))

(* If ClickHouse stays up in the end, every row handed to Add is settled   *)
(* unless the process has ended first.                                     *)
RowsSettle ==
    <>[]reachable =>
        \A r \in Row : r \in Unsettled ~> (r \notin Unsettled \/ ~Running)

(* A signal always ends the process, ClickHouse up or down.                *)
ShutdownCompletes == cancelled ~> ~Running

(* The promise of FlowSink. *)
RowStatus ==
    [r \in Row |-> IF r > accepted THEN "new"
                   ELSE IF r \in acked THEN "stored"
                   ELSE IF r \in dropped THEN "dropped"
                   ELSE "pending"]

Sink == INSTANCE FlowSink WITH status <- RowStatus

(* The writer implements FlowSink: a row settles once, from pending, and   *)
(* a settled row stays as it is.                                           *)
ImplementsSink == Sink!FSSpec

-----------------------------------------------------------------------------
(* A statement of the code's comments that the code does not keep.         *)

(* FinalDrain "returns the number of rows still buffered - unavoidably     *)
(* lost" (batchwriter.go:427-430): what main reports is what is lost.      *)
LossIsReported == ~Running => lost = Cardinality(Unsettled)
=============================================================================
