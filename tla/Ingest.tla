------------------------------- MODULE Ingest -------------------------------
(***************************************************************************)
(* The ingest half of main.go: Kafka readers with an asynchronous offset   *)
(* commit, the bounded channel rawChan, the enrichment workers with the    *)
(* two critical sections of dedup.go, and main's shutdown, over several    *)
(* lives of the process.  The flow writer behind Add is FlowSink, which    *)
(* BatchWriter implements.                                                 *)
(*                                                                         *)
(* Each reader owns one partition: the group coordinator may move          *)
(* partitions between readers, which is Kafka's business and left out.     *)
(* Enrichment between the duplicate test and Add reads other stores and    *)
(* changes nothing here.  Definitions marked "faulty" are wrong variants   *)
(* of the one that follows.                                                *)
(***************************************************************************)
EXTENDS Integers, Sequences, FiniteSets, Functions

CONSTANTS
    Readers,       \* the KAFKA_READERS goroutines, each with its partition
    Workers,       \* the ENRICH_WORKERS goroutines
    Key,           \* the 7-tuples of dedupKey
    Garbage,       \* the payload of a message that is not a flow
    Log,           \* Log[r]: the payloads of r's partition, oldest first
    ChanCap,       \* capacity of rawChan
    MaxLives,      \* bound: times the process is started
    NoMsg          \* an empty hand

ASSUME LogAssumption ==
    /\ Log \in [Readers -> Seq(Key \cup {Garbage})]
    /\ Garbage \notin Key

ASSUME SizeAssumption ==
    /\ ChanCap \in Nat \ {0}
    /\ MaxLives \in Nat \ {0}
    /\ IsFiniteSet(Workers) /\ IsFiniteSet(Readers) /\ Workers # {}

Life == 1..MaxLives
Msg == UNION {{r} \X (1..Len(Log[r])) : r \in Readers}

ASSUME NoMsgAssumption == NoMsg \notin Msg

(* A message becomes at most one row of the writer in a life. *)
Row == Msg

Payload(m) == Log[m[1]][m[2]]
Flow == {m \in Msg : Payload(m) # Garbage}

VARIABLES
    position,      \* position[r]: messages ReadMessage has returned to r
    committed,     \* committed[r]: the group's committed offset, in Kafka
    readerPc,      \* where each reader is
    channel,       \* rawChan
    closed,        \* close(rawChan) has run
    workerPc,      \* where each worker is
    hand,          \* hand[w]: the message w is working on
    seen,          \* the keys the dedup store holds
    forgotten,     \* keys it has dropped in this life, by TTL or eviction
    duplicates,    \* messages of this life dropped by IsDuplicate
    mainPc,        \* where main is, or how the process ended
    cancelled,     \* ctx.Err() # nil
    life,          \* which start of the process this is
    crashes,       \* how many lives ended without a shutdown
    before,        \* messages earlier lives were finished with
    status         \* this life's writer, see FlowSink

readerVars == <<position, committed, readerPc>>
channelVars == <<channel, closed>>
workerVars == <<workerPc, hand>>
dedupVars == <<seen, forgotten, duplicates>>
mainVars == <<mainPc, cancelled>>
lifeVars == <<life, crashes, before>>

vars == <<readerVars, channelVars, workerVars, dedupVars, mainVars, lifeVars,
          status>>

Sink == INSTANCE FlowSink

Running == mainPc \in {"readers", "workers", "drain"}

(* The state of a fresh process. *)
FreshReaders == [r \in Readers |-> "reading"]
FreshWorkers == [w \in Workers |-> "idle"]
EmptyHands == [w \in Workers |-> NoMsg]

Init ==
    /\ position = [r \in Readers |-> 0]
    /\ committed = [r \in Readers |-> 0]
    /\ readerPc = FreshReaders
    /\ channel = << >>
    /\ closed = FALSE
    /\ workerPc = FreshWorkers
    /\ hand = EmptyHands
    /\ seen = {}
    /\ forgotten = {}
    /\ duplicates = {}
    /\ mainPc = "readers"
    /\ cancelled = FALSE
    /\ life = 1
    /\ crashes = 0
    /\ before = {}
    /\ Sink!FSInit

-----------------------------------------------------------------------------
(* Shorthands. *)

(* rawChan takes one more. *)
HasRoom == Len(channel) < ChanCap

(* Where reader r goes after an error that is not the end of ctx: on with  *)
(* the loop.  It does not return; nor does it fall through to the send,    *)
(* which, were msg declared outside the loop, would repeat the last one.   *)
ReturnsOnError(r) == "done"                          \* faulty
SendsLastAgain(r) ==                                 \* faulty
    IF position[r] > 0 THEN "sending" ELSE "reading"
AfterReadError(r) == "reading"

(* Where a new process resumes partition r. *)
FromPosition(r) == position[r]                       \* faulty
Resume(r) == committed[r]

(* Ranging over the channel ends when it is closed and drained. *)
StopOnSignal == cancelled                            \* faulty
StopOnClose == closed                                \* faulty
RangeEnds == closed /\ channel = << >>

(* What IsDuplicate records for key k. *)
NothingRecorded(k) == {}                             \* faulty
WholeShard(k) == Key                                 \* faulty
Recorded(k) == {k}

(* The messages between ReadMessage and the writer, and those the ingest   *)
(* half is finished with, in this life or an earlier one: what becomes of  *)
(* a row that was handed to the writer is BatchWriter's subject.           *)
InTransit ==
    {<<r, position[r]>> : r \in {q \in Readers : readerPc[q] = "sending"}}
        \cup Range(channel) \cup (Range(hand) \ {NoMsg})

Finished ==
    before \cup {m \in Msg : \/ Payload(m) = Garbage
                            \/ m \in duplicates
                            \/ status[m] # "new"}

(* readerWg.Wait() and wg.Wait() return. *)
ReadersTold == cancelled                             \* faulty
ReadersDone == \A r \in Readers : readerPc[r] = "done"
WorkersDone == \A w \in Workers : workerPc[w] = "done"

-----------------------------------------------------------------------------
(* Readers. *)

(* ReadMessage returns the next message and notes its offset for the next  *)
(* periodic commit.  It may win over a cancelled context.                  *)
Read(r) ==
    /\ Running
    /\ readerPc[r] = "reading"
    /\ position[r] < Len(Log[r])
    /\ position' = [position EXCEPT ![r] = position[r] + 1]
    /\ readerPc' = [readerPc EXCEPT ![r] = "sending"]
    /\ UNCHANGED <<committed, channelVars, workerVars, dedupVars, mainVars,
                   lifeVars, status>>

(* rawChan <- msg.Value blocks while the channel is full, whatever ctx     *)
(* says.                                                                   *)
Send(r) ==
    /\ Running
    /\ readerPc[r] = "sending"
    /\ HasRoom
    /\ channel' = Append(channel, <<r, position[r]>>)
    /\ readerPc' = [readerPc EXCEPT ![r] = "reading"]
    /\ UNCHANGED <<position, committed, closed, workerVars, dedupVars,
                   mainVars, lifeVars, status>>

(* The reader's commit interval passes. *)
Commit(r) ==
    /\ Running
    /\ readerPc[r] # "done"
    /\ committed[r] # position[r]
    /\ committed' = [committed EXCEPT ![r] = position[r]]
    /\ UNCHANGED <<position, readerPc, channelVars, workerVars, dedupVars,
                   mainVars, lifeVars, status>>

(* ReadMessage fails for another reason than the context.                  *)
ReadFails(r) ==
    /\ Running
    /\ readerPc[r] = "reading"
    /\ ~cancelled
    /\ readerPc' = [readerPc EXCEPT ![r] = AfterReadError(r)]
    /\ UNCHANGED <<position, committed, channelVars, workerVars, dedupVars,
                   mainVars, lifeVars, status>>

(* ReadMessage fails with the context cancelled: the reader returns, and   *)
(* r.Close() tries one last commit.                                        *)
StopReading(r) ==
    /\ Running
    /\ readerPc[r] = "reading"
    /\ cancelled
    /\ readerPc' = [readerPc EXCEPT ![r] = "done"]
    /\ committed' \in {committed, [committed EXCEPT ![r] = position[r]]}
    /\ UNCHANGED <<position, channelVars, workerVars, dedupVars, mainVars,
                   lifeVars, status>>

-----------------------------------------------------------------------------
(* Workers. *)

(* A worker receives a payload; one that does not unmarshal is logged and  *)
(* dropped.                                                                *)
Receive(w) ==
    /\ Running
    /\ workerPc[w] = "idle"
    /\ channel # << >>
    /\ channel' = Tail(channel)
    /\ IF Payload(Head(channel)) = Garbage
       THEN UNCHANGED workerVars
       ELSE /\ workerPc' = [workerPc EXCEPT ![w] = "get"]
            /\ hand' = [hand EXCEPT ![w] = Head(channel)]
    /\ UNCHANGED <<closed, readerVars, dedupVars, mainVars, lifeVars, status>>

(* shard.Get: the flow is dropped as a duplicate, or goes on to be added. *)
DropDuplicate(w) ==
    /\ Running
    /\ workerPc[w] = "get"
    /\ Payload(hand[w]) \in seen
    /\ duplicates' = duplicates \cup {hand[w]}
    /\ workerPc' = [workerPc EXCEPT ![w] = "idle"]
    /\ hand' = [hand EXCEPT ![w] = NoMsg]
    /\ UNCHANGED <<seen, forgotten, readerVars, channelVars, mainVars,
                   lifeVars, status>>

FirstSight(w) ==
    /\ Running
    /\ workerPc[w] = "get"
    /\ Payload(hand[w]) \notin seen
    /\ workerPc' = [workerPc EXCEPT ![w] = "add"]
    /\ UNCHANGED <<hand, readerVars, channelVars, dedupVars, mainVars,
                   lifeVars, status>>

(* shard.Add. *)
RecordKey(w) ==
    /\ Running
    /\ workerPc[w] = "add"
    /\ seen' = seen \cup Recorded(Payload(hand[w]))
    /\ workerPc' = [workerPc EXCEPT ![w] = "write"]
    /\ UNCHANGED <<hand, forgotten, duplicates, readerVars, channelVars,
                   mainVars, lifeVars, status>>

(* The enriched flow is handed to the writer. *)
Write(w) ==
    /\ Running
    /\ workerPc[w] = "write"
    /\ status' = [status EXCEPT ![hand[w]] = "pending"]
    /\ workerPc' = [workerPc EXCEPT ![w] = "idle"]
    /\ hand' = [hand EXCEPT ![w] = NoMsg]
    /\ UNCHANGED <<readerVars, channelVars, dedupVars, mainVars, lifeVars>>

StopWorking(w) ==
    /\ Running
    /\ workerPc[w] = "idle"
    /\ RangeEnds
    /\ workerPc' = [workerPc EXCEPT ![w] = "done"]
    /\ UNCHANGED <<hand, readerVars, channelVars, dedupVars, mainVars,
                   lifeVars, status>>

(* The LRU of a shard forgets a key: its TTL is over, or the shard is full.*)
Forget(k) ==
    /\ Running
    /\ k \in seen
    /\ seen' = seen \ {k}
    /\ forgotten' = forgotten \cup {k}
    /\ UNCHANGED <<duplicates, readerVars, channelVars, workerVars, mainVars,
                   lifeVars, status>>

-----------------------------------------------------------------------------
(* main. *)

CloseChannel ==
    /\ mainPc = "readers"
    /\ ReadersDone
    /\ closed' = TRUE
    /\ mainPc' = "workers"
    /\ UNCHANGED <<channel, cancelled, readerVars, workerVars, dedupVars,
                   lifeVars, status>>

StartFinalDrain ==
    /\ mainPc = "workers"
    /\ WorkersDone
    /\ mainPc' = "drain"
    /\ UNCHANGED <<cancelled, readerVars, channelVars, workerVars, dedupVars,
                   lifeVars, status>>

(* FinalDrain returns, with or without rows left, and main with it. *)
Exit ==
    /\ mainPc = "drain"
    /\ mainPc' = "exited"
    /\ UNCHANGED <<cancelled, readerVars, channelVars, workerVars, dedupVars,
                   lifeVars, status>>

-----------------------------------------------------------------------------
(* The environment: the writer, the signal, a crash, a new process. *)

WriterSettles ==
    /\ Running
    /\ \E row \in Row : Sink!Settle({row}, {}) \/ Sink!Settle({}, {row})
    /\ UNCHANGED <<readerVars, channelVars, workerVars, dedupVars, mainVars,
                   lifeVars>>

Cancel ==
    /\ Running
    /\ ~cancelled
    /\ cancelled' = TRUE
    /\ UNCHANGED <<mainPc, readerVars, channelVars, workerVars, dedupVars,
                   lifeVars, status>>

Crash ==
    /\ Running
    /\ life < MaxLives
    /\ mainPc' = "crashed"
    /\ crashes' = crashes + 1
    /\ UNCHANGED <<cancelled, life, before, readerVars, channelVars,
                   workerVars, dedupVars, status>>

(* A new process starts with empty memory at the committed offsets. *)
Restart ==
    /\ ~Running
    /\ life < MaxLives
    /\ position' = [r \in Readers |-> Resume(r)]
    /\ readerPc' = FreshReaders
    /\ channel' = << >>
    /\ closed' = FALSE
    /\ workerPc' = FreshWorkers
    /\ hand' = EmptyHands
    /\ seen' = {}
    /\ forgotten' = {}
    /\ duplicates' = {}
    /\ mainPc' = "readers"
    /\ cancelled' = FALSE
    /\ life' = life + 1
    /\ before' = Finished
    /\ status' = [m \in Row |-> "new"]
    /\ UNCHANGED <<committed, crashes>>

(* The last life has ended. *)
Ended == ~Running /\ life = MaxLives /\ UNCHANGED vars

-----------------------------------------------------------------------------
ReaderStep(r) == Read(r) \/ Send(r) \/ StopReading(r)

WorkerStep(w) ==
    \/ Receive(w) \/ DropDuplicate(w) \/ FirstSight(w) \/ RecordKey(w)
    \/ Write(w) \/ StopWorking(w)

MainStep == CloseChannel \/ StartFinalDrain \/ Exit

Next ==
    \/ \E r \in Readers : ReaderStep(r) \/ Commit(r) \/ ReadFails(r)
    \/ \E w \in Workers : WorkerStep(w)
    \/ \E k \in Key : Forget(k)
    \/ MainStep
    \/ WriterSettles \/ Cancel \/ Crash \/ Restart \/ Ended

Spec == Init /\ [][Next]_vars

(* Every goroutine that can go on is scheduled; a reader whose send could  *)
(* go on infinitely often gets its turn at the channel (the runtime queues *)
(* blocked senders).  Nothing makes the signal, a crash, a commit, a       *)
(* restart or the writer's progress happen.                                *)
Fairness ==
    /\ \A r \in Readers : WF_vars(Read(r) \/ StopReading(r)) /\ SF_vars(Send(r))
    /\ \A w \in Workers : WF_vars(WorkerStep(w))
    /\ WF_vars(MainStep)

FairSpec == Spec /\ Fairness

-----------------------------------------------------------------------------
TypeOK ==
    /\ position \in [Readers -> Nat]
    /\ committed \in [Readers -> Nat]
    /\ \A r \in Readers :
          committed[r] <= position[r] /\ position[r] <= Len(Log[r])
    /\ readerPc \in [Readers -> {"reading", "sending", "done"}]
    /\ \A r \in Readers : readerPc[r] = "sending" => position[r] > 0
    /\ channel \in Seq(Msg) /\ Len(channel) <= ChanCap
    /\ closed \in BOOLEAN
    /\ workerPc \in [Workers -> {"idle", "get", "add", "write", "done"}]
    /\ hand \in [Workers -> Flow \cup {NoMsg}]
    /\ \A w \in Workers : hand[w] = NoMsg <=> workerPc[w] \in {"idle", "done"}
    /\ seen \subseteq Key
    /\ forgotten \subseteq Key
    /\ duplicates \subseteq Msg
    /\ mainPc \in {"readers", "workers", "drain", "exited", "crashed"}
    /\ cancelled \in BOOLEAN
    /\ life \in Life
    /\ crashes \in 0..life /\ (Running => crashes < life)
    /\ before \subseteq Msg
    /\ Sink!FSTypeOK

-----------------------------------------------------------------------------
(* Correctness. *)

ReadSoFar == {m \in Msg : m[2] <= position[m[1]]}
IsCommitted(m) == m[2] <= committed[m[1]]

(* A reader never sends on the closed channel, which would panic: main     *)
(* closes it after readerWg.Wait() only (main.go:526-527).                 *)
NoSendAfterClose ==
    closed => \A r \in Readers : readerPc[r] # "sending"

(* No message is read and then forgotten: it is on its way, or finished in *)
(* some life, or a crash took it, and then it had been committed ("a hard  *)
(* process crash can lose flows already committed", main.go:496).  With no *)
(* crash, no sequence of graceful stops and restarts loses a message.      *)
NoMessageForgotten ==
    \A m \in ReadSoFar :
        \/ m \in Finished
        \/ m \in InTransit /\ mainPc # "exited"
        \/ crashes > 0 /\ IsCommitted(m)

(* IsDuplicate drops only repetitions: in the same life another message of *)
(* the same 7-tuple was handed to the writer or is about to be.            *)
DuplicatesAreCovered ==
    Running =>
        \A m \in duplicates :
            \E n \in Msg \ {m} :
                /\ Payload(n) = Payload(m)
                /\ \/ status[n] # "new"
                   \/ \E w \in Workers : hand[w] = n /\ workerPc[w] = "write"

(* The race between Get and Add lets repetitions pass, but as long as the  *)
(* store has not forgotten the key, no more than one per worker            *)
(* (main.go:442-446).                                                      *)
Passed(k) == {m \in Msg : Payload(m) = k /\ status[m] # "new"}

RaceIsBounded ==
    \A k \in Key \ forgotten : Cardinality(Passed(k)) <= Cardinality(Workers)

(* A graceful shutdown leaves nothing half done: when the writer's final   *)
(* drain starts, no message is with a reader, in the channel or with a     *)
(* worker, so Add is never called again (main.go:526-533).                 *)
ShutdownDrains == mainPc \in {"drain", "exited"} => InTransit = {}

(* Towards the writer, a life uses FlowSink as it wants to be used: no     *)
(* message is handed over twice, and a row's fate does not change.         *)
WritesOnce == Sink!FSInit /\ [][Sink!FSNext \/ Restart]_status

(* A signal ends the process, even with the readers blocked on a full      *)
(* channel at that moment.                                                 *)
ShutdownCompletes == cancelled ~> ~Running

(* A process that is left alone gets through its partitions.               *)
AllProcessed ==
    \A m \in Msg : <>(m \in Finished \/ cancelled \/ ~Running \/ crashes > 0)
=============================================================================
