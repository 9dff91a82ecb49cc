---------------------------- MODULE IngestProofs ----------------------------
(***************************************************************************)
(* Theorems about Ingest, for any readers, workers, partitions, channel    *)
(* capacity and number of lives.                                           *)
(***************************************************************************)
EXTENDS Ingest, SequenceTheorems, FiniteSetTheorems, TLAPS

-----------------------------------------------------------------------------
(* The channel as a sequence. *)

(* A send adds its message, and nothing else. *)
LEMMA AppendSeq ==
    ASSUME NEW S, NEW s \in Seq(S), NEW e \in S
    PROVE  /\ Append(s, e) \in Seq(S)
           /\ Len(Append(s, e)) = Len(s) + 1
           /\ Range(Append(s, e)) = Range(s) \cup {e}
<1> DEFINE t == Append(s, e)
<1>1. /\ t \in Seq(S) /\ Len(t) = Len(s) + 1 /\ Len(s) \in Nat
      /\ \A i \in 1..Len(s) : t[i] = s[i]
      /\ t[Len(s) + 1] = e
  BY AppendProperties, LenProperties
<1>2. DOMAIN s = 1..Len(s) /\ DOMAIN t = 1..Len(t)
  BY <1>1, LenProperties
<1> HIDE DEF t
<1>3. Range(t) = Range(s) \cup {e}
  BY <1>1, <1>2 DEF Range
<1> QED  BY <1>1, <1>3 DEF t

-----------------------------------------------------------------------------
(* Types. *)

LEMMA HeadAndTail ==
    ASSUME NEW S, NEW s \in Seq(S), s # << >>
    PROVE  /\ Head(s) \in S /\ Tail(s) \in Seq(S)
           /\ Len(Tail(s)) = Len(s) - 1
           /\ Range(s) = {Head(s)} \cup Range(Tail(s))
<1>1. /\ Len(s) \in Nat /\ Len(s) > 0 /\ DOMAIN s = 1..Len(s)
      /\ \A i \in 1..Len(s) : s[i] \in S
  BY LenProperties, EmptySeq
<1>2. /\ Head(s) = s[1] /\ Tail(s) \in Seq(S) /\ Len(Tail(s)) = Len(s) - 1
      /\ \A i \in 1..Len(Tail(s)) : Tail(s)[i] = s[i + 1]
  BY <1>1, HeadTailProperties
<1>3. DOMAIN Tail(s) = 1..Len(Tail(s))
  BY <1>2, LenProperties
<1>4. Range(Tail(s)) \subseteq Range(s) /\ Head(s) \in Range(s)
  BY <1>1, <1>2, <1>3 DEF Range
<1>5. ASSUME NEW i \in 1..Len(s), i # 1
      PROVE  s[i] \in Range(Tail(s))
  <2>1. PICK j \in 1..Len(Tail(s)) : j + 1 = i
    <3>1. i - 1 \in 1..Len(Tail(s)) /\ (i - 1) + 1 = i
      BY <1>1, <1>2, <1>5
    <3> QED  BY <3>1
  <2>2. Tail(s)[j] = s[i]
    BY <1>2, <2>1
  <2> QED  BY <1>3, <2>2 DEF Range
<1>6. Range(s) \subseteq {Head(s)} \cup Range(Tail(s))
  BY <1>1, <1>2, <1>5 DEF Range
<1> QED  BY <1>1, <1>2, <1>4, <1>6

LEMMA LogType ==
    ASSUME NEW r \in Readers
    PROVE  Log[r] \in Seq(Key \cup {Garbage}) /\ Len(Log[r]) \in Nat
<1>1. Log[r] \in Seq(Key \cup {Garbage})
  BY LogAssumption
<1> QED  BY <1>1, LenProperties

LEMMA MsgType ==
    /\ \A m \in Msg : /\ m[1] \in Readers /\ m[2] \in 1..Len(Log[m[1]])
                      /\ m = <<m[1], m[2]>>
    /\ \A r \in Readers, i \in Nat : i > 0 /\ i <= Len(Log[r]) => <<r, i>> \in Msg
<1>1. ASSUME NEW r \in Readers, NEW i \in Nat, i > 0, i <= Len(Log[r])
      PROVE  <<r, i>> \in Msg
  <2>1. i \in 1..Len(Log[r])
    BY <1>1, LogType
  <2>2. <<r, i>> \in {r} \X (1..Len(Log[r]))
    BY <2>1
  <2> QED  BY <2>2 DEF Msg
<1> QED  BY <1>1 DEF Msg

LEMMA PayloadType == \A m \in Msg : Payload(m) \in Key \cup {Garbage}
<1> SUFFICES ASSUME NEW m \in Msg  PROVE Payload(m) \in Key \cup {Garbage}
  OBVIOUS
<1>1. m[1] \in Readers /\ m[2] \in 1..Len(Log[m[1]])
  BY MsgType
<1>2. Log[m[1]] \in Seq(Key \cup {Garbage})
  BY <1>1, LogType
<1> QED  BY <1>1, <1>2, LenProperties DEF Payload

LEMMA InitType == Init => TypeOK
<1> SUFFICES ASSUME Init  PROVE TypeOK
  OBVIOUS
<1> USE DEF Init
<1>1. \A r \in Readers : Len(Log[r]) \in Nat
  BY LogType
<1>2. /\ position \in [Readers -> Nat] /\ committed \in [Readers -> Nat]
      /\ \A r \in Readers :
            committed[r] <= position[r] /\ position[r] <= Len(Log[r])
  BY <1>1
<1>3. /\ readerPc \in [Readers -> {"reading", "sending", "done"}]
      /\ \A r \in Readers : readerPc[r] = "sending" => position[r] > 0
  BY DEF FreshReaders
<1>4. channel \in Seq(Msg) /\ Len(channel) <= ChanCap
  BY SizeAssumption
<1>5. /\ workerPc \in [Workers -> {"idle", "get", "add", "write", "done"}]
      /\ hand \in [Workers -> Flow \cup {NoMsg}]
      /\ \A w \in Workers : hand[w] = NoMsg <=> workerPc[w] \in {"idle", "done"}
  BY DEF FreshWorkers, EmptyHands
<1>6. life \in Life /\ crashes \in 0..life /\ crashes < life
  BY SizeAssumption DEF Life
<1>7. Sink!FSTypeOK
  BY DEF Sink!FSInit, Sink!FSTypeOK, Sink!Status
<1> QED  BY <1>2, <1>3, <1>4, <1>5, <1>6, <1>7 DEF TypeOK

(* A read that fails for another reason than the context changes nothing.  *)
LEMMA ReadFailsStutters ==
    ASSUME TypeOK, NEW r \in Readers, ReadFails(r)
    PROVE  UNCHANGED vars
<1>1. readerPc' = readerPc
  BY DEF TypeOK, ReadFails, AfterReadError
<1> QED  BY <1>1 DEF ReadFails, vars, readerVars

LEMMA ReaderType ==
    ASSUME TypeOK, NEW r \in Readers, ReaderStep(r) \/ Commit(r)
    PROVE  TypeOK'
<1> USE DEF TypeOK, readerVars, channelVars, workerVars, dedupVars, mainVars,
            lifeVars, Sink!FSTypeOK, Running
<1>0. \A q \in Readers : Len(Log[q]) \in Nat
  BY LogType
<1>1. CASE Read(r)
  BY <1>0, <1>1 DEF Read
<1>2. CASE Send(r)
  <2>1. <<r, position[r]>> \in Msg
    BY <1>2, MsgType DEF Send
  <2>2. channel' \in Seq(Msg) /\ Len(channel') = Len(channel) + 1
    BY <1>2, <2>1, AppendSeq DEF Send
  <2>3. Len(channel) \in Nat
    BY LenProperties
  <2> QED  BY <1>2, <2>2, <2>3, SizeAssumption DEF Send, HasRoom
<1>3. CASE Commit(r)
  BY <1>0, <1>3 DEF Commit
<1>4. CASE StopReading(r)
  <2>1. \/ committed' = committed
        \/ committed' = [committed EXCEPT ![r] = position[r]]
    BY <1>4 DEF StopReading
  <2>2. /\ committed' \in [Readers -> Nat]
        /\ \A q \in Readers : committed'[q] <= position[q]
    <3>1. CASE committed' = committed
      BY <3>1
    <3>2. CASE committed' = [committed EXCEPT ![r] = position[r]]
      BY <1>0, <3>2
    <3> QED  BY <2>1, <3>1, <3>2
  <2>3. readerPc' = [readerPc EXCEPT ![r] = "done"]
    BY <1>4 DEF StopReading
  <2> QED  BY <1>4, <2>2, <2>3 DEF StopReading
<1> QED  BY <1>1, <1>2, <1>3, <1>4 DEF ReaderStep

(* A worker's program counter and hand move together. *)
LEMMA MoveWorkerType ==
    ASSUME TypeOK, NEW w \in Workers,
           NEW pc \in {"idle", "get", "add", "write", "done"},
           NEW m \in Flow \cup {NoMsg}, m = NoMsg <=> pc \in {"idle", "done"},
           workerPc' = [workerPc EXCEPT ![w] = pc],
           hand' = [hand EXCEPT ![w] = m]
    PROVE  /\ workerPc' \in [Workers -> {"idle", "get", "add", "write", "done"}]
           /\ hand' \in [Workers -> Flow \cup {NoMsg}]
           /\ \A v \in Workers :
                 hand'[v] = NoMsg <=> workerPc'[v] \in {"idle", "done"}
BY DEF TypeOK

LEMMA WorkerType ==
    ASSUME TypeOK, NEW w \in Workers, WorkerStep(w)
    PROVE  TypeOK'
<1> USE DEF TypeOK, readerVars, channelVars, workerVars, dedupVars, mainVars,
            lifeVars, Sink!FSTypeOK, Running
<1>m. workerPc[w] \notin {"idle", "done"} =>
         hand[w] \in Msg /\ Payload(hand[w]) \in Key
  <2>1. workerPc[w] \notin {"idle", "done"} => hand[w] \in Flow
    OBVIOUS
  <2> QED  BY <2>1, PayloadType DEF Flow
<1>1. CASE Receive(w)
  <2>1. /\ Head(channel) \in Msg /\ channel' \in Seq(Msg)
        /\ Len(channel') = Len(channel) - 1
    BY <1>1, HeadAndTail DEF Receive
  <2>2. Len(channel) \in Nat /\ Head(channel) # NoMsg
    BY <2>1, LenProperties, NoMsgAssumption
  <2>3. Len(channel') <= ChanCap
    BY <2>1, <2>2, SizeAssumption
  <2>4. CASE Payload(Head(channel)) = Garbage
    BY <1>1, <2>1, <2>3, <2>4 DEF Receive
  <2>5. CASE Payload(Head(channel)) # Garbage
    <3>1. Head(channel) \in Flow
      BY <2>1, <2>5 DEF Flow
    <3> QED  BY <1>1, <2>1, <2>2, <2>3, <2>5, <3>1, MoveWorkerType DEF Receive
  <2> QED  BY <2>4, <2>5
<1>2. CASE DropDuplicate(w)
  <2>1. duplicates' \subseteq Msg
    BY <1>2, <1>m DEF DropDuplicate
  <2> QED  BY <1>2, <2>1, MoveWorkerType DEF DropDuplicate
<1>3. CASE FirstSight(w)
  BY <1>3 DEF FirstSight
<1>4. CASE RecordKey(w)
  <2>1. Payload(hand[w]) \in Key
    BY <1>4, <1>m DEF RecordKey
  <2> QED  BY <1>4, <2>1 DEF RecordKey, Recorded
<1>5. CASE Write(w)
  <2>1. status' \in [Row -> Sink!Status]
    BY <1>5 DEF Write, Sink!Status
  <2> QED  BY <1>5, <2>1, MoveWorkerType DEF Write
<1>6. CASE StopWorking(w)
  BY <1>6 DEF StopWorking
<1> QED  BY <1>1, <1>2, <1>3, <1>4, <1>5, <1>6 DEF WorkerStep

LEMMA OtherType ==
    ASSUME TypeOK,
           \/ \E k \in Key : Forget(k)
           \/ MainStep \/ WriterSettles \/ Cancel \/ Crash
    PROVE  TypeOK'
<1> USE DEF TypeOK, readerVars, channelVars, workerVars, dedupVars, mainVars,
            lifeVars, Sink!FSTypeOK, Running
<1>1. CASE \E k \in Key : Forget(k)
  BY <1>1 DEF Forget, Running
<1>2. CASE MainStep
  BY <1>2 DEF MainStep, CloseChannel, StartFinalDrain, Exit
<1>3. CASE WriterSettles
  <2>1. status' \in [Row -> Sink!Status]
    BY <1>3 DEF WriterSettles, Sink!Settle, Sink!Status
  <2> QED  BY <1>3, <2>1 DEF WriterSettles
<1>4. CASE Cancel
  BY <1>4 DEF Cancel
<1>5. CASE Crash
  <2>1. crashes' \in 0..life'
    BY <1>5, SizeAssumption DEF Crash, Life
  <2>2. ~Running'
    BY <1>5 DEF Crash, Running
  <2> QED  BY <1>5, <2>1, <2>2 DEF Crash
<1> QED  BY <1>1, <1>2, <1>3, <1>4, <1>5

LEMMA RestartType ==
    ASSUME TypeOK, Restart
    PROVE  TypeOK'
<1> USE DEF Restart
<1>1. /\ position' \in [Readers -> Nat] /\ committed' \in [Readers -> Nat]
      /\ \A r \in Readers :
            committed'[r] <= position'[r] /\ position'[r] <= Len(Log[r])
  <2>1. \A r \in Readers : /\ Len(Log[r]) \in Nat /\ committed[r] \in Nat
                           /\ position[r] \in Nat
                           /\ committed[r] <= position[r]
                           /\ position[r] <= Len(Log[r])
    BY LogType DEF TypeOK
  <2> QED  BY <2>1 DEF TypeOK, Resume
<1>2. /\ readerPc' \in [Readers -> {"reading", "sending", "done"}]
      /\ \A r \in Readers : readerPc'[r] = "sending" => position'[r] > 0
  BY DEF FreshReaders
<1>3. channel' \in Seq(Msg) /\ Len(channel') <= ChanCap
  BY SizeAssumption
<1>4. /\ workerPc' \in [Workers -> {"idle", "get", "add", "write", "done"}]
      /\ hand' \in [Workers -> Flow \cup {NoMsg}]
      /\ \A w \in Workers : hand'[w] = NoMsg <=> workerPc'[w] \in {"idle", "done"}
  BY DEF FreshWorkers, EmptyHands
<1>5. life' \in Life /\ crashes' \in 0..life' /\ crashes' < life'
  BY SizeAssumption DEF Life, TypeOK
<1>6. (Sink!FSTypeOK)'
  BY DEF Sink!FSTypeOK, Sink!Status
<1>7. before' \subseteq Msg
  BY DEF Finished, TypeOK
<1> QED  BY <1>1, <1>2, <1>3, <1>4, <1>5, <1>6, <1>7 DEF TypeOK

LEMMA NextType == TypeOK /\ [Next]_vars => TypeOK'
<1> SUFFICES ASSUME TypeOK, [Next]_vars  PROVE TypeOK'
  OBVIOUS
<1>1. CASE Ended \/ UNCHANGED vars
  BY <1>1 DEF Ended, vars, TypeOK, readerVars, channelVars, workerVars,
              dedupVars, mainVars, lifeVars, Sink!FSTypeOK, Running
<1> QED  BY <1>1, ReadFailsStutters, ReaderType, WorkerType, OtherType, RestartType
         DEF Next

(* Type correctness of the ingest half: among the rest the channel never   *)
(* holds more than its capacity, no offset is committed that was not read, *)
(* and what a worker holds is a flow (main.go:433-440, 489-520).           *)
THEOREM TypeCorrect == Spec => []TypeOK
<1> QED  BY InitType, NextType, PTL DEF Spec

-----------------------------------------------------------------------------
(* The order of the shutdown. *)

(* The channel is closed only after the readers, and a worker is done only *)
(* when nothing can come out of the channel any more.                      *)
InOrder ==
    /\ TypeOK
    /\ closed => ReadersDone
    /\ mainPc \in {"workers", "drain", "exited"} => closed
    /\ \A w \in Workers : workerPc[w] = "done" => closed /\ channel = << >>
    /\ mainPc \in {"drain", "exited"} => WorkersDone

LEMMA InitInOrder == Init => InOrder
BY InitType DEF Init, InOrder, FreshWorkers

LEMMA NextInOrder == InOrder /\ [Next]_vars => InOrder'
<1> SUFFICES ASSUME InOrder, [Next]_vars  PROVE InOrder'
  OBVIOUS
<1>t. TypeOK /\ TypeOK'
  BY NextType DEF InOrder
<1> USE DEF readerVars, channelVars, workerVars, dedupVars, mainVars, lifeVars,
            ReadersDone, WorkersDone
<1>1. ASSUME NEW r \in Readers, ReaderStep(r) \/ Commit(r)
      PROVE  InOrder'
  <2>1. ~closed \/ Commit(r)
    BY <1>1 DEF InOrder, ReaderStep, Read, Send, StopReading
  <2>2. CASE Commit(r)
    BY <1>t, <2>2 DEF InOrder, Commit
  <2>3. CASE ~closed /\ ReaderStep(r)
    <3>1. closed' = closed /\ UNCHANGED <<workerVars, mainVars>>
      BY <2>3 DEF ReaderStep, Read, Send, StopReading
    <3> QED  BY <1>t, <2>3, <3>1 DEF InOrder
  <2> QED  BY <1>1, <2>1, <2>2, <2>3
<1>2. ASSUME NEW w \in Workers, WorkerStep(w)
      PROVE  InOrder'
  <2>1. workerPc[w] # "done" /\ UNCHANGED <<closed, readerPc, mainVars>>
    BY <1>2 DEF WorkerStep, Receive, DropDuplicate, FirstSight, RecordKey,
                Write, StopWorking
  <2>2. mainPc \notin {"drain", "exited"}
    BY <2>1 DEF InOrder
  <2>3. \/ workerPc'[w] # "done"
        \/ closed /\ channel = << >>
    BY <1>2, <1>t, <2>1 DEF WorkerStep, Receive, DropDuplicate, FirstSight,
       RecordKey, Write, StopWorking, RangeEnds, TypeOK
  <2>4. \A v \in Workers : v # w => workerPc'[v] = workerPc[v]
    BY <1>2, <1>t DEF WorkerStep, Receive, DropDuplicate, FirstSight,
       RecordKey, Write, StopWorking, TypeOK
  <2>5. channel = << >> => channel' = channel
    BY <1>2 DEF WorkerStep, Receive, DropDuplicate, FirstSight, RecordKey,
                Write, StopWorking
  <2> QED  BY <1>t, <2>1, <2>2, <2>3, <2>4, <2>5 DEF InOrder
<1>3. CASE \E k \in Key : Forget(k)
  BY <1>3, <1>t DEF Forget, InOrder
<1>4. CASE MainStep
  BY <1>4, <1>t DEF MainStep, CloseChannel, StartFinalDrain, Exit, InOrder
<1>5. CASE WriterSettles
  BY <1>5, <1>t DEF WriterSettles, InOrder
<1>6. CASE Cancel
  BY <1>6, <1>t DEF Cancel, InOrder
<1>7. CASE Crash
  BY <1>7, <1>t DEF Crash, InOrder
<1>8. CASE Restart
  BY <1>8, <1>t DEF Restart, InOrder, FreshWorkers
<1>9. CASE Ended \/ UNCHANGED vars
  BY <1>9, <1>t DEF Ended, vars, InOrder
<1> QED  BY <1>1, <1>2, <1>3, <1>4, <1>5, <1>6, <1>7, <1>8, <1>9, <1>t,
            ReadFailsStutters DEF Next

LEMMA InOrderInvariant == Spec => []InOrder
<1> QED  BY InitInOrder, NextInOrder, PTL DEF Spec

(* No reader sends on the closed channel (main.go:526-527). *)
THEOREM NoSendOnClosed == Spec => []NoSendAfterClose
<1>1. InOrder => NoSendAfterClose
  BY DEF InOrder, NoSendAfterClose, ReadersDone
<1> QED  BY <1>1, InOrderInvariant, PTL

(* When the final drain starts, nothing is with a reader, in the channel   *)
(* or with a worker.                                                       *)
LEMMA DrainedWhenDone == InOrder => ShutdownDrains
<1> SUFFICES ASSUME InOrder, mainPc \in {"drain", "exited"}
             PROVE  InTransit = {}
  BY DEF ShutdownDrains
<1>1. /\ \A r \in Readers : readerPc[r] = "done"
      /\ \A w \in Workers : workerPc[w] = "done"
  BY DEF InOrder, ReadersDone, WorkersDone
<1>2. channel = << >>
  BY <1>1, SizeAssumption DEF InOrder
<1>3. \A w \in Workers : hand[w] = NoMsg
  BY <1>1 DEF InOrder, TypeOK
<1>4. Range(hand) \subseteq {NoMsg}
  BY <1>3 DEF Range, InOrder, TypeOK
<1>5. Range(channel) = {}
  BY <1>2 DEF Range
<1> QED  BY <1>1, <1>4, <1>5 DEF InTransit

(* A graceful shutdown leaves nothing half done (main.go:526-533). *)
THEOREM GracefulDrain == Spec => []ShutdownDrains
<1> QED  BY DrainedWhenDone, InOrderInvariant, PTL

-----------------------------------------------------------------------------
(* No message is read and then forgotten. *)

Kept ==
    /\ InOrder
    /\ NoMessageForgotten
    /\ mainPc = "crashed" => crashes > 0

(* Where a message in transit is. *)
Sending(m) == \E r \in Readers : readerPc[r] = "sending" /\ m = <<r, position[r]>>
Queued(m) == m \in Range(channel)
InHand(m) == \E w \in Workers : hand[w] = m

LEMMA WhereInTransit ==
    ASSUME TypeOK
    PROVE  \A m \in Msg : m \in InTransit <=> Sending(m) \/ Queued(m) \/ InHand(m)
<1>1. \A m : m \in Range(hand) <=> InHand(m)
  BY DEF Range, InHand, TypeOK
<1> QED  BY <1>1, NoMsgAssumption DEF InTransit, Sending, Queued

LEMMA WhereInTransitNext ==
    ASSUME TypeOK'
    PROVE  \A m \in Msg : m \in InTransit' <=> Sending(m)' \/ Queued(m)' \/ InHand(m)'
<1>1. \A m : m \in Range(hand') <=> InHand(m)'
  BY DEF Range, InHand, TypeOK
<1> QED  BY <1>1, NoMsgAssumption DEF InTransit, Sending, Queued

(* A step keeps the messages it knows of when it does not take one out of  *)
(* transit without finishing with it.                                      *)
LEMMA KeptByStep ==
    ASSUME Kept, InOrder', UNCHANGED <<position, crashes>>,
           \A r \in Readers : committed'[r] >= committed[r],
           mainPc' = "crashed" => mainPc = "crashed",
           mainPc' = "exited" => mainPc \in {"drain", "exited"},
           \A m \in Msg : m \in Finished => m \in Finished',
           \A m \in Msg : m \in InTransit => m \in Finished' \/ m \in InTransit'
    PROVE  Kept'
<1>1. ASSUME NEW m \in ReadSoFar'
      PROVE  \/ m \in Finished'
             \/ m \in InTransit' /\ mainPc' # "exited"
             \/ crashes' > 0 /\ IsCommitted(m)'
  <2>1. m \in Msg /\ m[1] \in Readers /\ m[2] \in Nat /\ m \in ReadSoFar
    <3>1. m \in Msg /\ m \in ReadSoFar
      BY DEF ReadSoFar
    <3>2. m[1] \in Readers /\ m[2] \in 1..Len(Log[m[1]])
      BY <3>1, MsgType
    <3> QED  BY <3>1, <3>2, LogType
  <2>2. committed[m[1]] \in Nat /\ committed'[m[1]] \in Nat
    BY <2>1 DEF Kept, InOrder, TypeOK
  <2>3. CASE m \in Finished
    BY <2>1, <2>3
  <2>4. CASE m \in InTransit /\ mainPc # "exited"
    <3>1. mainPc' # "exited" \/ InTransit = {}
      BY DrainedWhenDone DEF Kept, ShutdownDrains
    <3> QED  BY <2>1, <2>4, <3>1
  <2>5. CASE crashes > 0 /\ IsCommitted(m)
    BY <2>1, <2>2, <2>5 DEF IsCommitted
  <2> QED  BY <2>1, <2>3, <2>4, <2>5 DEF Kept, NoMessageForgotten
<1> QED  BY <1>1 DEF Kept, NoMessageForgotten

LEMMA InitKept == Init => Kept
<1> SUFFICES ASSUME Init  PROVE Kept
  OBVIOUS
<1>1. ReadSoFar = {}
  <2> SUFFICES ASSUME NEW m \in Msg, m[2] <= position[m[1]]  PROVE FALSE
    BY DEF ReadSoFar
  <2>1. m[1] \in Readers /\ m[2] \in 1..Len(Log[m[1]])
    BY MsgType
  <2>2. Len(Log[m[1]]) \in Nat /\ position[m[1]] = 0
    BY <2>1, LogType DEF Init
  <2> QED  BY <2>1, <2>2
<1> QED  BY <1>1, InitInOrder DEF Init, Kept, NoMessageForgotten

LEMMA ReaderKept ==
    ASSUME Kept, InOrder', NEW r \in Readers, ReaderStep(r) \/ Commit(r)
    PROVE  Kept'
<1>t. TypeOK /\ TypeOK'
  BY DEF Kept, InOrder
<1>w. /\ \A m \in Msg : m \in InTransit <=> Sending(m) \/ Queued(m) \/ InHand(m)
      /\ \A m \in Msg : m \in InTransit' <=> Sending(m)' \/ Queued(m)' \/ InHand(m)'
  BY <1>t, WhereInTransit, WhereInTransitNext
<1>f. UNCHANGED <<before, duplicates, status, crashes, mainPc, hand>>
  BY DEF ReaderStep, Read, Send, StopReading, Commit, workerVars, dedupVars,
         lifeVars, mainVars
<1>g. Finished' = Finished
  BY <1>f DEF Finished
<1>p. \A q \in Readers : /\ position[q] \in Nat /\ committed[q] \in Nat
                         /\ committed[q] <= position[q]
  BY <1>t DEF TypeOK
<1>1. CASE Read(r)
  <2>1. /\ \A q \in Readers : q # r => /\ position'[q] = position[q]
                                      /\ readerPc'[q] = readerPc[q]
        /\ readerPc[r] = "reading" /\ readerPc'[r] = "sending"
        /\ position'[r] = position[r] + 1
        /\ UNCHANGED <<committed, channel>>
    BY <1>1, <1>t DEF Read, TypeOK, channelVars
  <2>2. \A m \in Msg : Sending(m) => Sending(m)'
    BY <2>1 DEF Sending
  <2>3. \A m \in Msg : m \in InTransit => m \in InTransit'
    BY <1>f, <1>w, <2>1, <2>2 DEF Queued, InHand
  <2>4. \A m \in ReadSoFar' : m \in ReadSoFar \/ m \in InTransit'
    <3> SUFFICES ASSUME NEW m \in ReadSoFar', m \notin ReadSoFar
                 PROVE  m \in InTransit'
      OBVIOUS
    <3>1. m \in Msg /\ m[1] \in Readers /\ m[2] \in Nat /\ m = <<m[1], m[2]>>
      <4>1. m \in Msg
        BY DEF ReadSoFar
      <4>2. m[1] \in Readers /\ m[2] \in 1..Len(Log[m[1]]) /\ m = <<m[1], m[2]>>
        BY <4>1, MsgType
      <4> QED  BY <4>1, <4>2, LogType
    <3>2. m[2] <= position'[m[1]] /\ ~(m[2] <= position[m[1]])
      BY <3>1 DEF ReadSoFar
    <3>3. m[1] = r /\ m[2] = position'[r]
      BY <1>p, <2>1, <3>1, <3>2
    <3>4. Sending(m)'
      BY <2>1, <3>1, <3>3 DEF Sending
    <3> QED  BY <1>w, <3>1, <3>4
  <2>5. mainPc # "exited"
    BY <1>1 DEF Read, Running
  <2>6. \A m : IsCommitted(m)' = IsCommitted(m)
    BY <2>1 DEF IsCommitted
  <2>7. \A m \in ReadSoFar' : m \in Msg
    BY DEF ReadSoFar
  <2> QED  BY <1>f, <1>g, <2>3, <2>4, <2>5, <2>6, <2>7 DEF Kept, NoMessageForgotten
<1>2. CASE Send(r)
  <2>1. /\ \A q \in Readers : q # r => readerPc'[q] = readerPc[q]
        /\ UNCHANGED <<position, committed>>
        /\ channel' = Append(channel, <<r, position[r]>>)
        /\ readerPc[r] = "sending"
    BY <1>2, <1>t DEF Send, TypeOK
  <2>2. <<r, position[r]>> \in Msg
    BY <1>t, <2>1, MsgType DEF TypeOK
  <2>3. Range(channel') = Range(channel) \cup {<<r, position[r]>>}
    <3>1. channel \in Seq(Msg)
      BY <1>t DEF TypeOK
    <3> QED  BY <2>1, <2>2, <3>1, AppendSeq
  <2>4. \A m \in Msg : Sending(m) => Sending(m)' \/ Queued(m)'
    BY <2>1, <2>3 DEF Sending, Queued
  <2>5. \A m \in Msg : m \in InTransit => m \in InTransit'
    BY <1>f, <1>w, <2>3, <2>4 DEF Queued, InHand
  <2> QED  BY <1>f, <1>g, <1>p, <2>1, <2>5, KeptByStep
<1>3. CASE Commit(r) \/ StopReading(r)
  <2>1. /\ UNCHANGED <<position, channel>>
        /\ \A q \in Readers : /\ readerPc[q] = "sending" => readerPc'[q] = "sending"
                              /\ committed'[q] >= committed[q]
    <3>1. CASE Commit(r)
      BY <1>t, <1>p, <3>1 DEF Commit, TypeOK, channelVars
    <3>2. CASE StopReading(r)
      <4>1. /\ UNCHANGED <<position, channel>>
            /\ \A q \in Readers : readerPc[q] = "sending" => readerPc'[q] = "sending"
        BY <1>t, <3>2 DEF StopReading, TypeOK, channelVars
      <4>2. \/ committed' = committed
            \/ committed' = [committed EXCEPT ![r] = position[r]]
        BY <3>2 DEF StopReading
      <4>3. \A q \in Readers : committed'[q] >= committed[q]
        <5>1. CASE committed' = committed
          BY <1>p, <5>1
        <5>2. CASE committed' = [committed EXCEPT ![r] = position[r]]
          BY <1>t, <1>p, <5>2 DEF TypeOK
        <5> QED  BY <4>2, <5>1, <5>2
      <4> QED  BY <4>1, <4>3
    <3> QED  BY <1>3, <3>1, <3>2
  <2>2. \A m \in Msg : m \in InTransit => m \in InTransit'
    BY <1>f, <1>w, <2>1 DEF Sending, Queued, InHand
  <2> QED  BY <1>f, <1>g, <2>1, <2>2, KeptByStep
<1> QED  BY <1>1, <1>2, <1>3 DEF ReaderStep

LEMMA WorkerKept ==
    ASSUME Kept, InOrder', NEW w \in Workers, WorkerStep(w)
    PROVE  Kept'
<1>t. TypeOK /\ TypeOK'
  BY DEF Kept, InOrder
<1>w. /\ \A m \in Msg : m \in InTransit <=> Sending(m) \/ Queued(m) \/ InHand(m)
      /\ \A m \in Msg : m \in InTransit' <=> Sending(m)' \/ Queued(m)' \/ InHand(m)'
  BY <1>t, WhereInTransit, WhereInTransitNext
<1>f. UNCHANGED <<before, crashes, mainPc, position, committed, readerPc>>
  BY DEF WorkerStep, Receive, DropDuplicate, FirstSight, RecordKey, Write,
         StopWorking, readerVars, mainVars, lifeVars
<1>s. \A m \in Msg : Sending(m) => Sending(m)'
  BY <1>f DEF Sending
<1>c. \A r \in Readers : committed'[r] >= committed[r]
  BY <1>f, <1>t DEF TypeOK
<1>1. CASE Receive(w)
  <2>1. /\ channel # << >> /\ channel' = Tail(channel) /\ hand[w] = NoMsg
        /\ UNCHANGED <<duplicates, status>>
    BY <1>1, <1>t DEF Receive, TypeOK, dedupVars
  <2>2. /\ Head(channel) \in Msg
        /\ Range(channel) = {Head(channel)} \cup Range(channel')
    BY <1>t, <2>1, HeadAndTail DEF TypeOK
  <2>3. Finished' = Finished
    BY <1>f, <2>1 DEF Finished
  <2>4. \A v \in Workers : hand[v] # NoMsg => hand'[v] = hand[v]
    BY <1>1, <1>t, <2>1 DEF Receive, TypeOK, workerVars
  <2>5. \A m \in Msg : InHand(m) => InHand(m)'
    BY <2>4, NoMsgAssumption DEF InHand
  <2> DEFINE head == Head(channel)
  <2>6. head \in Finished' \/ \E v \in Workers : hand'[v] = head
    <3>1. CASE Payload(Head(channel)) = Garbage
      BY <2>2, <3>1 DEF Finished
    <3>2. CASE Payload(Head(channel)) # Garbage
      <4>1. hand' = [hand EXCEPT ![w] = Head(channel)]
        BY <1>1, <3>2 DEF Receive
      <4>2. hand'[w] = Head(channel)
        BY <1>t, <4>1 DEF TypeOK
      <4> QED  BY <4>2
    <3> QED  BY <3>1, <3>2
  <2>7. \A m \in Msg : m \in InTransit => m \in Finished' \/ m \in InTransit'
    <3> HIDE DEF head
    <3>1. Range(channel) = {head} \cup Range(channel')
      BY <2>2 DEF head
    <3>2. \A m \in Msg : m = head => m \in Finished' \/ InHand(m)'
      BY <2>6 DEF InHand
    <3>3. \A m \in Msg : Queued(m) => m = head \/ Queued(m)'
      BY <3>1 DEF Queued
    <3> QED  BY <1>s, <1>w, <2>5, <3>2, <3>3
  <2> QED  BY <1>c, <1>f, <2>3, <2>7, KeptByStep
<1>2. CASE DropDuplicate(w) \/ Write(w)
  <2>1. channel' = channel /\ hand' = [hand EXCEPT ![w] = NoMsg]
    BY <1>2 DEF DropDuplicate, Write, channelVars
  <2>2. hand[w] \in Msg
    BY <1>2, <1>t DEF DropDuplicate, Write, TypeOK, Flow
  <2>3. hand[w] \in Finished'
    BY <1>2, <1>t, <2>2
    DEF DropDuplicate, Write, Finished, TypeOK, Sink!FSTypeOK, Row
  <2>4. \A m \in Msg : m \in Finished => m \in Finished'
    <3>1. \A m \in Msg : status[m] # "new" => status'[m] # "new"
      BY <1>2, <1>t DEF DropDuplicate, Write, TypeOK, Sink!FSTypeOK, Row
    <3>2. duplicates \subseteq duplicates'
      BY <1>2 DEF DropDuplicate, Write, dedupVars
    <3> QED  BY <1>f, <3>1, <3>2 DEF Finished
  <2>5. \A m \in Msg : InHand(m) => m = hand[w] \/ InHand(m)'
    BY <1>t, <2>1 DEF InHand, TypeOK
  <2>6. \A m \in Msg : m \in InTransit => m \in Finished' \/ m \in InTransit'
    BY <1>s, <1>w, <2>1, <2>3, <2>5 DEF Queued
  <2> QED  BY <1>c, <1>f, <2>4, <2>6, KeptByStep
<1>3. CASE FirstSight(w) \/ RecordKey(w) \/ StopWorking(w)
  <2>1. UNCHANGED <<channel, hand, duplicates, status>>
    BY <1>3 DEF FirstSight, RecordKey, StopWorking, channelVars, dedupVars
  <2>2. Finished' = Finished
    BY <1>f, <2>1 DEF Finished
  <2>3. \A m \in Msg : m \in InTransit => m \in InTransit'
    BY <1>s, <1>w, <2>1 DEF Queued, InHand
  <2> QED  BY <1>c, <1>f, <2>2, <2>3, KeptByStep
<1> QED  BY <1>1, <1>2, <1>3 DEF WorkerStep

LEMMA OtherKept ==
    ASSUME Kept, InOrder',
           \/ \E k \in Key : Forget(k)
           \/ MainStep \/ WriterSettles \/ Cancel
    PROVE  Kept'
<1>t. TypeOK
  BY DEF Kept, InOrder
<1>1. UNCHANGED <<readerVars, channel, workerVars, duplicates, lifeVars>>
  BY DEF MainStep, CloseChannel, StartFinalDrain, Exit, Forget, WriterSettles,
         Cancel, dedupVars, channelVars
<1>2. InTransit' = InTransit
  BY <1>1 DEF InTransit, readerVars, workerVars
<1>3. \A m \in Msg : status[m] # "new" => status'[m] # "new"
  <2>1. CASE WriterSettles
    BY <2>1, <1>t DEF WriterSettles, Sink!Settle, Row
  <2>2. CASE ~WriterSettles
    BY <2>2 DEF MainStep, CloseChannel, StartFinalDrain, Exit, Forget, Cancel
  <2> QED  BY <2>1, <2>2
<1>4. \A m \in Msg : m \in Finished => m \in Finished'
  BY <1>1, <1>3 DEF Finished, lifeVars
<1>5. /\ mainPc' = "crashed" => mainPc = "crashed"
      /\ mainPc' = "exited" => mainPc \in {"drain", "exited"}
  BY DEF MainStep, CloseChannel, StartFinalDrain, Exit, Forget, WriterSettles,
         Cancel, mainVars
<1>6. \A r \in Readers : committed'[r] >= committed[r]
  BY <1>1, <1>t DEF readerVars, TypeOK
<1> QED  BY <1>1, <1>2, <1>4, <1>5, <1>6, KeptByStep DEF readerVars, lifeVars

(* A crash takes what was in transit, and only from the new process on is  *)
(* that missed: what it reads again is what was not committed.             *)
LEMMA CrashKept ==
    ASSUME Kept, InOrder', Crash
    PROVE  Kept'
<1>1. /\ crashes' > 0 /\ mainPc' = "crashed" /\ mainPc # "exited"
      /\ UNCHANGED <<position, committed>>
  BY DEF Crash, Running, Kept, InOrder, TypeOK, readerVars
<1>2. InTransit' = InTransit /\ Finished' = Finished
  BY DEF Crash, InTransit, Finished, readerVars, channelVars, workerVars, dedupVars
<1>3. ReadSoFar' = ReadSoFar /\ \A m : IsCommitted(m)' = IsCommitted(m)
  BY <1>1 DEF ReadSoFar, IsCommitted
<1>4. crashes > 0 => crashes' > 0
  BY <1>1
<1> QED  BY <1>1, <1>2, <1>3, <1>4 DEF Kept, NoMessageForgotten

LEMMA RestartKept ==
    ASSUME Kept, InOrder', Restart
    PROVE  Kept'
<1>t. TypeOK
  BY DEF Kept, InOrder
<1>1. /\ \A r \in Readers : position'[r] = committed[r]
      /\ committed' = committed /\ crashes' = crashes
      /\ mainPc' = "readers"
  BY DEF Restart, Resume
<1>2. \A m \in Msg : m \in Finished => m \in Finished'
  BY DEF Restart, Finished
<1>3. ASSUME NEW m \in ReadSoFar'
      PROVE  m \in Finished' \/ (crashes' > 0 /\ IsCommitted(m)')
  <2>1. m \in Msg
    BY DEF ReadSoFar
  <2>2. m[1] \in Readers /\ m[2] \in Nat
    BY <2>1, MsgType, LogType
  <2>3. /\ committed[m[1]] \in Nat /\ position[m[1]] \in Nat
        /\ committed[m[1]] <= position[m[1]]
    BY <1>t, <2>2 DEF TypeOK
  <2>4. m[2] <= committed[m[1]]
    BY <1>1, <2>2 DEF ReadSoFar
  <2>5. m \in ReadSoFar
    BY <2>1, <2>2, <2>3, <2>4 DEF ReadSoFar
  <2>6. IsCommitted(m)'
    BY <1>1, <2>4 DEF IsCommitted
  <2>7. mainPc \in {"exited", "crashed"}
    BY <1>t DEF Restart, Running, TypeOK
  <2>8. m \in Finished \/ crashes > 0
    BY <2>5, <2>7 DEF Kept, NoMessageForgotten
  <2> QED  BY <1>1, <1>2, <2>1, <2>6, <2>8
<1> QED  BY <1>1, <1>3 DEF Kept, NoMessageForgotten

LEMMA NextKept == Kept /\ [Next]_vars => Kept'
<1> SUFFICES ASSUME Kept, [Next]_vars  PROVE Kept'
  OBVIOUS
<1>1. InOrder' /\ TypeOK
  BY NextInOrder DEF Kept, InOrder
<1>2. CASE Ended \/ UNCHANGED vars
  <2>1. UNCHANGED vars
    BY <1>2 DEF Ended
  <2> QED  BY <1>1, <2>1
      DEF vars, readerVars, channelVars, workerVars, dedupVars, mainVars, lifeVars,
          Kept, NoMessageForgotten, ReadSoFar, Finished, InTransit, IsCommitted
<1> QED  BY <1>1, <1>2, ReadFailsStutters, ReaderKept, WorkerKept, OtherKept, CrashKept,
            RestartKept DEF Next

(* A message once read is finished with or on its way, over any number of  *)
(* graceful stops and restarts; only a crash can lose one, and only one    *)
(* whose offset had been committed (main.go:489-500).                      *)
THEOREM NothingForgotten == Spec => []NoMessageForgotten
<1>1. Kept => NoMessageForgotten
  BY DEF Kept
<1> QED  BY <1>1, InitKept, NextKept, PTL DEF Spec

-----------------------------------------------------------------------------
(* Each message is in one place. *)

LEMMA AppendDistinct ==
    ASSUME NEW S, NEW s \in Seq(S), IsInjective(s), NEW e \in S, e \notin Range(s)
    PROVE  IsInjective(Append(s, e))
<1> DEFINE t == Append(s, e)
<1>1. /\ t \in Seq(S) /\ Len(t) = Len(s) + 1 /\ Len(s) \in Nat
      /\ \A i \in 1..Len(s) : t[i] = s[i]
      /\ t[Len(s) + 1] = e
  BY AppendProperties, LenProperties
<1>2. DOMAIN s = 1..Len(s) /\ DOMAIN t = 1..Len(t)
  BY <1>1, LenProperties
<1>3. \A i \in 1..Len(s) : s[i] # e
  BY <1>2 DEF Range
<1> HIDE DEF t
<1>4. \A i \in DOMAIN t : i \in 1..Len(s) \/ i = Len(s) + 1
  BY <1>1, <1>2
<1>5. IsInjective(t)
  BY <1>1, <1>2, <1>3, <1>4 DEF IsInjective
<1> QED  BY <1>5 DEF t

LEMMA TailDistinct ==
    ASSUME NEW S, NEW s \in Seq(S), IsInjective(s), s # << >>
    PROVE  IsInjective(Tail(s)) /\ Head(s) \notin Range(Tail(s))
<1>1. /\ Len(s) \in Nat /\ Len(s) > 0 /\ DOMAIN s = 1..Len(s)
  BY LenProperties, EmptySeq
<1>2. /\ Head(s) = s[1] /\ Tail(s) \in Seq(S) /\ Len(Tail(s)) = Len(s) - 1
      /\ \A i \in 1..Len(Tail(s)) : Tail(s)[i] = s[i + 1]
  BY <1>1, HeadTailProperties
<1>3. DOMAIN Tail(s) = 1..Len(Tail(s))
  BY <1>2, LenProperties
<1>4. \A i \in DOMAIN Tail(s) : i \in Nat /\ i + 1 \in DOMAIN s /\ i + 1 # 1
  BY <1>1, <1>2, <1>3
<1>5. IsInjective(Tail(s))
  <2> SUFFICES ASSUME NEW i \in DOMAIN Tail(s), NEW j \in DOMAIN Tail(s),
                      Tail(s)[i] = Tail(s)[j]
               PROVE  i = j
    BY DEF IsInjective
  <2>1. s[i + 1] = s[j + 1]
    BY <1>2, <1>3
  <2>2. i + 1 = j + 1
    BY <1>4, <2>1 DEF IsInjective
  <2> QED  BY <1>4, <2>2
<1>6. Head(s) \notin Range(Tail(s))
  <2> SUFFICES ASSUME NEW i \in DOMAIN Tail(s), Tail(s)[i] = Head(s)
               PROVE  FALSE
    BY DEF Range
  <2>1. s[i + 1] = s[1] /\ 1 \in DOMAIN s
    BY <1>1, <1>2, <1>3
  <2> QED  BY <1>4, <2>1 DEF IsInjective
<1> QED  BY <1>5, <1>6

(* A message its reader has not sent yet, and one no worker has finished.  *)
Ahead(m) ==
    \/ m[2] > position[m[1]]
    \/ readerPc[m[1]] = "sending" /\ m[2] = position[m[1]]

Untouched(m) == status[m] = "new" /\ m \notin duplicates

(* A message is ahead of its reader, or in the channel once, or in one     *)
(* hand, or finished.                                                      *)
OnceEach ==
    /\ IsInjective(channel)
    /\ \A v, w \in Workers : hand[v] = hand[w] => hand[v] = NoMsg \/ v = w
    /\ \A m \in Msg : Queued(m) \/ InHand(m) => ~Ahead(m)
    /\ \A m \in Msg : Queued(m) => ~InHand(m)
    /\ \A m \in Msg : Ahead(m) \/ Queued(m) \/ InHand(m) => Untouched(m)
    /\ \A m \in duplicates : status[m] = "new"

Once == TypeOK /\ OnceEach

LEMMA InitOnce == Init => Once
<1> SUFFICES ASSUME Init  PROVE Once
  OBVIOUS
<1>1. TypeOK
  BY InitType
<1>2. channel = << >> /\ Range(channel) = {} /\ IsInjective(channel)
  BY DEF Init, Range, IsInjective
<1>3. \A w \in Workers : hand[w] = NoMsg
  BY DEF Init, EmptyHands
<1>4. \A m \in Msg : ~Queued(m) /\ ~InHand(m)
  BY <1>2, <1>3, NoMsgAssumption DEF Queued, InHand
<1>5. \A m \in Msg : Untouched(m)
  BY DEF Init, Sink!FSInit, Untouched, Row
<1>6. duplicates = {}
  BY DEF Init
<1> QED  BY <1>1, <1>2, <1>3, <1>4, <1>5, <1>6 DEF Once, OnceEach

(* A step that leaves the messages where they are. *)
LEMMA OnceWhenStill ==
    ASSUME Once, TypeOK', UNCHANGED <<channel, hand, position, readerPc, duplicates>>,
           \A m \in Msg : status[m] = "new" => status'[m] = "new"
    PROVE  Once'
<1>1. \A m \in Msg : /\ Ahead(m)' = Ahead(m)
                     /\ Queued(m)' = Queued(m) /\ InHand(m)' = InHand(m)
  BY DEF Ahead, Queued, InHand
<1>2. \A m \in Msg : Untouched(m) => Untouched(m)'
  BY DEF Untouched
<1>3. \A m \in duplicates : m \in Msg
  BY DEF Once, TypeOK
<1> QED  BY <1>1, <1>2, <1>3 DEF Once, OnceEach

LEMMA ReaderOnce ==
    ASSUME Once, TypeOK', NEW r \in Readers, ReaderStep(r) \/ Commit(r)
    PROVE  Once'
<1>t. TypeOK
  BY DEF Once
<1>m. \A m \in Msg : m[1] \in Readers /\ m[2] \in Nat /\ m = <<m[1], m[2]>>
  <2> SUFFICES ASSUME NEW m \in Msg
               PROVE  m[1] \in Readers /\ m[2] \in Nat /\ m = <<m[1], m[2]>>
    OBVIOUS
  <2>1. m[1] \in Readers /\ m[2] \in 1..Len(Log[m[1]]) /\ m = <<m[1], m[2]>>
    BY MsgType
  <2> QED  BY <2>1, LogType
<1>f. UNCHANGED <<hand, duplicates, status>>
  BY DEF ReaderStep, Read, Send, StopReading, Commit, workerVars, dedupVars
<1>h. \A m \in Msg : InHand(m)' = InHand(m) /\ Untouched(m)' = Untouched(m)
  BY <1>f DEF InHand, Untouched
<1>1. CASE Read(r)
  <2>1. /\ position' = [position EXCEPT ![r] = position[r] + 1]
        /\ readerPc' = [readerPc EXCEPT ![r] = "sending"]
        /\ readerPc[r] = "reading" /\ channel' = channel
    BY <1>1 DEF Read, channelVars
  <2>2. \A m \in Msg : Ahead(m)' = Ahead(m)
    <3> SUFFICES ASSUME NEW m \in Msg  PROVE Ahead(m)' = Ahead(m)
      OBVIOUS
    <3>1. CASE m[1] = r
      BY <1>t, <1>m, <2>1, <3>1 DEF Ahead, TypeOK
    <3>2. CASE m[1] # r
      BY <1>t, <1>m, <2>1, <3>2 DEF Ahead, TypeOK
    <3> QED  BY <3>1, <3>2
  <2>3. \A m \in Msg : Queued(m)' = Queued(m)
    BY <2>1 DEF Queued
  <2> QED  BY <1>f, <1>h, <2>1, <2>2, <2>3 DEF Once, OnceEach
<1>2. CASE Send(r)
  <2> DEFINE sent == <<r, position[r]>>
  <2>1. /\ position' = position /\ readerPc[r] = "sending"
        /\ readerPc' = [readerPc EXCEPT ![r] = "reading"]
        /\ channel' = Append(channel, sent)
    BY <1>2 DEF Send
  <2>2. sent \in Msg /\ channel \in Seq(Msg)
    BY <1>t, <2>1, MsgType DEF TypeOK
  <2>3. Ahead(sent)
    BY <2>1 DEF Ahead
  <2>4. \A m \in Msg : Ahead(m)' <=> Ahead(m) /\ m # sent
    <3> SUFFICES ASSUME NEW m \in Msg  PROVE Ahead(m)' <=> Ahead(m) /\ m # sent
      OBVIOUS
    <3>1. CASE m[1] = r
      BY <1>t, <1>m, <2>1, <3>1 DEF Ahead, TypeOK
    <3>2. CASE m[1] # r
      BY <1>t, <1>m, <2>1, <3>2 DEF Ahead, TypeOK
    <3> QED  BY <3>1, <3>2
  <2> HIDE DEF sent
  <2>5. Range(channel') = Range(channel) \cup {sent}
    BY <2>1, <2>2, AppendSeq
  <2>6. \A m \in Msg : Queued(m)' <=> Queued(m) \/ m = sent
    BY <2>5 DEF Queued
  <2>7. IsInjective(channel')
    <3>1. sent \notin Range(channel)
      BY <2>2, <2>3 DEF Once, OnceEach, Queued
    <3> QED  BY <2>1, <2>2, <3>1, AppendDistinct DEF Once, OnceEach
  <2> QED  BY <1>f, <1>h, <2>2, <2>3, <2>4, <2>6, <2>7 DEF Once, OnceEach
<1>3. CASE Commit(r) \/ StopReading(r)
  <2>1. /\ UNCHANGED <<position, channel>>
        /\ \/ readerPc' = readerPc
           \/ /\ readerPc[r] = "reading"
              /\ readerPc' = [readerPc EXCEPT ![r] = "done"]
    BY <1>3 DEF Commit, StopReading, channelVars
  <2>2. \A m \in Msg : Ahead(m)' = Ahead(m)
    BY <1>t, <1>m, <2>1 DEF Ahead, TypeOK
  <2>3. \A m \in Msg : Queued(m)' = Queued(m)
    BY <2>1 DEF Queued
  <2> QED  BY <1>f, <1>h, <2>1, <2>2, <2>3 DEF Once, OnceEach
<1> QED  BY <1>1, <1>2, <1>3 DEF ReaderStep

LEMMA WorkerOnce ==
    ASSUME Once, TypeOK', NEW w \in Workers, WorkerStep(w)
    PROVE  Once'
<1>t. TypeOK
  BY DEF Once
<1>f. UNCHANGED <<position, readerPc>>
  BY DEF WorkerStep, Receive, DropDuplicate, FirstSight, RecordKey, Write,
         StopWorking, readerVars
<1>a. \A m \in Msg : Ahead(m)' = Ahead(m)
  BY <1>f DEF Ahead
<1>n. NoMsg \notin Msg
  BY NoMsgAssumption
<1>1. CASE Receive(w)
  <2> DEFINE head == Head(channel)
  <2>1. /\ channel # << >> /\ channel' = Tail(channel)
        /\ hand[w] = NoMsg /\ UNCHANGED <<duplicates, status>>
        /\ hand' = hand \/ hand' = [hand EXCEPT ![w] = head]
    BY <1>1, <1>t DEF Receive, TypeOK, dedupVars, workerVars
  <2>2. /\ channel \in Seq(Msg) /\ IsInjective(channel)
    BY <1>t DEF Once, OnceEach, TypeOK
  <2>3. /\ head \in Msg /\ Range(channel) = {head} \cup Range(channel')
        /\ IsInjective(channel') /\ head \notin Range(channel')
    BY <2>1, <2>2, HeadAndTail, TailDistinct
  <2> HIDE DEF head
  <2>4. \A m \in Msg : Queued(m)' <=> Queued(m) /\ m # head
    BY <2>3 DEF Queued
  <2>5. \A m \in Msg : Untouched(m)' = Untouched(m)
    BY <2>1 DEF Untouched
  <2>6. Queued(head) /\ ~InHand(head)
    BY <2>3 DEF Once, OnceEach, Queued
  <2>7. \A m \in Msg : InHand(m)' => InHand(m) \/ m = head
    BY <1>t, <1>n, <2>1, <2>3 DEF InHand, TypeOK
  <2>8. \A v, x \in Workers : hand'[v] = hand'[x] => hand'[v] = NoMsg \/ v = x
    <3>1. CASE hand' = hand
      BY <3>1 DEF Once, OnceEach
    <3>2. CASE hand' = [hand EXCEPT ![w] = head]
      <4>1. hand'[w] = head /\ \A v \in Workers : v # w => hand'[v] = hand[v]
        BY <1>t, <3>2 DEF TypeOK
      <4>2. \A v \in Workers : hand[v] # head
        BY <2>6 DEF InHand
      <4> QED  BY <4>1, <4>2 DEF Once, OnceEach
    <3> QED  BY <2>1, <3>1, <3>2
  <2> QED  BY <1>a, <2>1, <2>3, <2>4, <2>5, <2>6, <2>7, <2>8 DEF Once, OnceEach
<1>2. CASE DropDuplicate(w) \/ Write(w)
  <2> DEFINE m0 == hand[w]
  <2>1. /\ channel' = channel /\ hand' = [hand EXCEPT ![w] = NoMsg]
        /\ \/ status' = status /\ duplicates' = duplicates \cup {m0}
           \/ status' = [status EXCEPT ![m0] = "pending"] /\ duplicates' = duplicates
    BY <1>2 DEF DropDuplicate, Write, channelVars, dedupVars
  <2>2. m0 \in Msg
    BY <1>2, <1>t DEF DropDuplicate, Write, TypeOK, Flow
  <2> HIDE DEF m0
  <2>3. InHand(m0) /\ Untouched(m0)
    BY <2>2 DEF m0, InHand, Once, OnceEach
  <2>4. \A m \in Msg : m # m0 /\ Untouched(m) => Untouched(m)'
    BY <1>t, <2>1 DEF Untouched, TypeOK, Sink!FSTypeOK, Row
  <2>5. \A v \in Workers : v # w =>
           hand'[v] = hand[v] /\ (hand[v] = m0 => hand[v] = NoMsg)
    BY <1>t, <2>1 DEF m0, TypeOK, Once, OnceEach
  <2>6. \A m \in Msg : InHand(m)' => InHand(m) /\ m # m0
    <3>1. hand'[w] = NoMsg
      BY <1>t, <2>1 DEF TypeOK
    <3> QED  BY <1>n, <2>2, <2>5, <3>1 DEF InHand
  <2>7. \A m \in Msg : Queued(m)' = Queued(m)
    BY <2>1 DEF Queued
  <2>8. \A v, x \in Workers : hand'[v] = hand'[x] => hand'[v] = NoMsg \/ v = x
    <3>1. hand'[w] = NoMsg
      BY <1>t, <2>1 DEF TypeOK
    <3> QED  BY <2>5, <3>1 DEF Once, OnceEach
  <2>9. \A m \in duplicates' : status'[m] = "new"
    <3>1. m0 \notin duplicates /\ status[m0] = "new"
      BY <2>3 DEF Untouched
    <3>2. \A m \in duplicates : status[m] = "new" /\ m \in Row
      BY <1>t DEF Once, OnceEach, TypeOK, Row
    <3> QED  BY <1>t, <2>1, <3>1, <3>2 DEF TypeOK, Sink!FSTypeOK
  <2>10. \A m \in Msg : m = m0 => ~Queued(m) /\ ~Ahead(m)
    BY <2>3 DEF Once, OnceEach
  <2>11. IsInjective(channel')
    BY <2>1 DEF Once, OnceEach
  <2>12. \A m \in Msg : Queued(m)' \/ InHand(m)' => ~Ahead(m)'
    BY <1>a, <2>6, <2>7 DEF Once, OnceEach
  <2>13. \A m \in Msg : Queued(m)' => ~InHand(m)'
    BY <2>6, <2>7 DEF Once, OnceEach
  <2>14. \A m \in Msg : Ahead(m)' \/ Queued(m)' \/ InHand(m)' => Untouched(m)'
    BY <1>a, <2>4, <2>6, <2>7, <2>10 DEF Once, OnceEach
  <2> QED  BY <2>8, <2>9, <2>11, <2>12, <2>13, <2>14 DEF Once, OnceEach
<1>3. CASE FirstSight(w) \/ RecordKey(w) \/ StopWorking(w)
  <2>1. UNCHANGED <<channel, hand, duplicates, status>>
    BY <1>3 DEF FirstSight, RecordKey, StopWorking, channelVars, dedupVars
  <2> QED  BY <1>f, <2>1, OnceWhenStill
<1> QED  BY <1>1, <1>2, <1>3 DEF WorkerStep

LEMMA RestartOnce ==
    ASSUME Once, TypeOK', Restart
    PROVE  Once'
<1>1. channel' = << >> /\ Range(channel') = {} /\ IsInjective(channel')
  BY DEF Restart, Range, IsInjective
<1>2. \A w \in Workers : hand'[w] = NoMsg
  BY DEF Restart, EmptyHands
<1>3. \A m \in Msg : ~Queued(m)' /\ ~InHand(m)'
  BY <1>1, <1>2, NoMsgAssumption DEF Queued, InHand
<1>4. \A m \in Msg : Untouched(m)'
  BY DEF Restart, Untouched, Row
<1>5. duplicates' = {}
  BY DEF Restart
<1> QED  BY <1>1, <1>2, <1>3, <1>4, <1>5 DEF Once, OnceEach

LEMMA NextOnce == Once /\ [Next]_vars => Once'
<1> SUFFICES ASSUME Once, [Next]_vars  PROVE Once'
  OBVIOUS
<1>t. TypeOK /\ TypeOK'
  BY NextType DEF Once
<1>1. CASE \/ \E k \in Key : Forget(k)
           \/ MainStep \/ Cancel \/ Crash \/ Ended \/ UNCHANGED vars
  <2>1. UNCHANGED <<channel, hand, position, readerPc, duplicates, status>>
    BY <1>1 DEF Forget, MainStep, CloseChannel, StartFinalDrain, Exit, Cancel, Crash,
                Ended, vars, channelVars, workerVars, readerVars, dedupVars
  <2> QED  BY <1>t, <2>1, OnceWhenStill
<1>2. CASE WriterSettles
  <2>1. UNCHANGED <<channel, hand, position, readerPc, duplicates>>
    BY <1>2 DEF WriterSettles, channelVars, workerVars, readerVars, dedupVars
  <2>2. \A m \in Msg : status[m] = "new" => status'[m] = "new"
    BY <1>2 DEF WriterSettles, Sink!Settle, Row
  <2> QED  BY <1>t, <2>1, <2>2, OnceWhenStill
<1> QED  BY <1>1, <1>2, <1>t, ReadFailsStutters, ReaderOnce, WorkerOnce, RestartOnce
         DEF Next

(* A life hands no message to the writer twice, and the writer's rows keep *)
(* their fate until the process is started anew.                           *)
THEOREM EachWrittenOnce == Spec => WritesOnce
<1>1. Init => Sink!FSInit
  BY DEF Init
<1>2. ASSUME Once, [Next]_vars
      PROVE  [Sink!FSNext \/ Restart]_status
  <2>t. TypeOK
    BY <1>2 DEF Once
  <2>1. CASE \E w \in Workers : Write(w)
    <3> PICK w \in Workers : Write(w)
      BY <2>1
    <3>1. hand[w] \in Msg
      BY <2>t DEF Write, TypeOK, Flow
    <3>2. status[hand[w]] = "new"
      BY <1>2, <3>1 DEF Once, OnceEach, InHand, Untouched
    <3>3. Sink!Accept(hand[w])
      BY <3>2 DEF Write, Sink!Accept
    <3> QED  BY <3>1, <3>3 DEF Sink!FSNext, Row
  <2>2. CASE WriterSettles
    <3>1. \E row \in Row : Sink!Settle({row}, {}) \/ Sink!Settle({}, {row})
      BY <2>2 DEF WriterSettles
    <3>2. \A row \in Row : {row} \in SUBSET Row /\ {} \in SUBSET Row
      OBVIOUS
    <3> QED  BY <3>1, <3>2 DEF Sink!FSNext
  <2>3. CASE Restart
    BY <2>3
  <2>4. CASE ~WriterSettles /\ ~Restart /\ ~\E w \in Workers : Write(w)
    <3>1. status' = status
      BY <1>2, <2>4 DEF Next, ReaderStep, Read, ReadFails, Send, StopReading, Commit,
         WorkerStep, Receive, DropDuplicate, FirstSight, RecordKey, StopWorking,
         Forget, MainStep,
         CloseChannel, StartFinalDrain, Exit, Cancel, Crash, Ended, vars
    <3> QED  BY <3>1
  <2> QED  BY <2>1, <2>2, <2>3, <2>4
<1> QED  BY <1>1, <1>2, InitOnce, NextOnce, PTL DEF Spec, WritesOnce

-----------------------------------------------------------------------------
(* What the dedup store knows. *)

(* A row of key k was handed to the writer or is about to be. *)
Writes(w, k) == workerPc[w] = "write" /\ Payload(hand[w]) = k

Backed(k) ==
    \/ \E n \in Msg : Payload(n) = k /\ status[n] # "new"
    \/ \E w \in Workers : Writes(w, k)

KeysAreBacked ==
    /\ Once
    /\ \A k \in seen : Backed(k)
    /\ \A m \in duplicates : Backed(Payload(m))

(* Within a life a key that is backed stays so. *)
LEMMA BackedStays ==
    ASSUME TypeOK, [Next]_vars, ~Restart, NEW k, Backed(k)
    PROVE  Backed(k)'
<1>1. CASE \E w \in Workers : Write(w) /\ Payload(hand[w]) = k
  <2> PICK w \in Workers : Write(w) /\ Payload(hand[w]) = k
    BY <1>1
  <2>1. hand[w] \in Msg
    BY DEF Write, TypeOK, Flow
  <2>2. status'[hand[w]] # "new"
    BY <2>1 DEF Write, TypeOK, Sink!FSTypeOK, Row
  <2> QED  BY <2>1, <2>2 DEF Backed
<1>2. CASE \E n \in Msg : Payload(n) = k /\ status[n] # "new"
  <2> PICK n \in Msg : Payload(n) = k /\ status[n] # "new"
    BY <1>2
  <2>1. status'[n] # "new"
    <3>1. CASE WriterSettles
      BY <3>1 DEF WriterSettles, Sink!Settle, Row
    <3>2. CASE \E w \in Workers : Write(w)
      BY <3>2 DEF Write, TypeOK, Sink!FSTypeOK, Row
    <3>3. CASE ~WriterSettles /\ ~\E w \in Workers : Write(w)
      BY <3>3 DEF Next, ReaderStep, Read, ReadFails, Send, StopReading, Commit,
         WorkerStep, Receive, DropDuplicate, FirstSight, RecordKey, StopWorking,
         Forget, MainStep,
         CloseChannel, StartFinalDrain, Exit, Cancel, Crash, Ended, vars
    <3> QED  BY <3>1, <3>2, <3>3
  <2> QED  BY <2>1 DEF Backed
<1>3. ASSUME NEW w \in Workers, Writes(w, k), ~Write(w)
      PROVE  Backed(k)'
  <2>1. workerPc[w] = "write" /\ Payload(hand[w]) = k
    BY <1>3 DEF Writes
  <2>2. workerPc'[w] = workerPc[w] /\ hand'[w] = hand[w]
    <3>1. CASE \E v \in Workers : WorkerStep(v)
      <4> PICK v \in Workers : WorkerStep(v)
        BY <3>1
      <4>1. v # w
        BY <1>3, <2>1 DEF WorkerStep, Receive, DropDuplicate, FirstSight, RecordKey,
                         StopWorking
      <4>2. workerPc'[w] = workerPc[w]
        BY <4>1 DEF WorkerStep, Receive, DropDuplicate, FirstSight, RecordKey, Write,
                    StopWorking, TypeOK, workerVars
      <4>3. hand'[w] = hand[w]
        BY <4>1 DEF WorkerStep, Receive, DropDuplicate, FirstSight, RecordKey, Write,
                    StopWorking, TypeOK, workerVars
      <4> QED  BY <4>2, <4>3
    <3>2. CASE ~\E v \in Workers : WorkerStep(v)
      BY <3>2 DEF Next, ReaderStep, Read, ReadFails, Send, StopReading, Commit,
         Forget, MainStep, CloseChannel, StartFinalDrain, Exit, Cancel, Crash, Ended,
         WriterSettles, vars,
         workerVars
    <3> QED  BY <3>1, <3>2
  <2>3. Writes(w, k)'
    <3>1. Payload(hand'[w]) = Payload(hand[w])
      BY <2>2
    <3> QED  BY <2>1, <2>2, <3>1 DEF Writes, Payload
  <2> QED  BY <2>3 DEF Backed
<1> QED  BY <1>1, <1>2, <1>3 DEF Backed, Writes

LEMMA NextKeysAreBacked == KeysAreBacked /\ [Next]_vars => KeysAreBacked'
<1> SUFFICES ASSUME KeysAreBacked, [Next]_vars  PROVE KeysAreBacked'
  OBVIOUS
<1>t. TypeOK /\ Once /\ Once'
  BY NextOnce DEF KeysAreBacked, Once
<1>1. CASE Restart
  BY <1>1, <1>t DEF Restart, KeysAreBacked
<1>2. ASSUME NEW w \in Workers, RecordKey(w)
      PROVE  KeysAreBacked'
  <2> PICK k : k = Payload(hand[w])
    OBVIOUS
  <2>1. seen' = seen \cup {k} /\ UNCHANGED <<duplicates, hand>> /\ ~Restart
    BY <1>2 DEF RecordKey, Recorded, Restart
  <2>2. workerPc'[w] = "write" /\ Payload(hand[w])' = k
    BY <1>2, <1>t, <2>1 DEF RecordKey, TypeOK, Payload
  <2>3. Writes(w, k)'
    BY <2>2 DEF Writes
  <2>4. Backed(k)'
    BY <2>3 DEF Backed
  <2>5. \A x \in seen' : Backed(x)'
    <3> SUFFICES ASSUME NEW x \in seen'  PROVE Backed(x)'
      OBVIOUS
    <3>1. CASE x \in seen
      BY <1>t, <2>1, <3>1, BackedStays DEF KeysAreBacked
    <3>2. CASE x = k
      BY <2>4, <3>2
    <3> QED  BY <2>1, <3>1, <3>2
  <2>6. \A m \in duplicates' : Backed(Payload(m))'
    <3> SUFFICES ASSUME NEW m \in duplicates'  PROVE Backed(Payload(m))'
      OBVIOUS
    <3> QED  BY <1>t, <2>1, BackedStays DEF KeysAreBacked
  <2> QED  BY <1>t, <2>5, <2>6 DEF KeysAreBacked
<1>3. ASSUME NEW w \in Workers, DropDuplicate(w)
      PROVE  KeysAreBacked'
  <2> DEFINE m0 == hand[w]
  <2>1. /\ Payload(m0) \in seen /\ duplicates' = duplicates \cup {m0}
        /\ seen' = seen
    BY <1>3 DEF DropDuplicate
  <2>2. ~Restart
    BY <1>3 DEF DropDuplicate, Restart
  <2> HIDE DEF m0
  <2>3. \A m : Payload(m)' = Payload(m)
    BY DEF Payload
  <2>4. Backed(Payload(m0)) /\ \A k \in seen : Backed(k)'
    BY <1>t, <2>1, <2>2, BackedStays DEF KeysAreBacked
  <2>5. \A m \in duplicates' : Backed(Payload(m))'
    <3> SUFFICES ASSUME NEW m \in duplicates'  PROVE Backed(Payload(m))'
      OBVIOUS
    <3>1. Backed(Payload(m))
      BY <2>1, <2>4 DEF KeysAreBacked
    <3> QED  BY <1>t, <2>2, <3>1, BackedStays
  <2> QED  BY <1>t, <2>1, <2>4, <2>5 DEF KeysAreBacked
<1>4. CASE ~Restart /\ ~(\E w \in Workers : RecordKey(w) \/ DropDuplicate(w))
  <2>1. seen' \subseteq seen /\ duplicates' = duplicates
    BY <1>4 DEF Next, ReaderStep, Read, ReadFails, Send, StopReading, Commit,
         WorkerStep, Receive, FirstSight, Write, StopWorking, Forget, MainStep,
         WriterSettles,
         CloseChannel, StartFinalDrain, Exit, Cancel, Crash, Ended, vars, dedupVars
  <2>2. \A m \in duplicates' : Backed(Payload(m))'
    <3> SUFFICES ASSUME NEW m \in duplicates'  PROVE Backed(Payload(m))'
      OBVIOUS
    <3> QED  BY <1>4, <1>t, <2>1, BackedStays DEF KeysAreBacked
  <2> QED  BY <1>4, <1>t, <2>1, <2>2, BackedStays DEF KeysAreBacked
<1> QED  BY <1>1, <1>2, <1>3, <1>4

(* A flow is dropped as a duplicate only if another one of its 7-tuple     *)
(* reaches the writer in the same life (dedup.go, main.go:442-446).        *)
THEOREM DropsAreRepetitions == Spec => []DuplicatesAreCovered
<1>1. Init => KeysAreBacked
  BY InitOnce DEF Init, KeysAreBacked
<1>2. KeysAreBacked => DuplicatesAreCovered
  <2> SUFFICES ASSUME KeysAreBacked, NEW m \in duplicates
               PROVE  \E n \in Msg \ {m} :
                         /\ Payload(n) = Payload(m)
                         /\ \/ status[n] # "new"
                            \/ \E w \in Workers : hand[w] = n /\ workerPc[w] = "write"
    BY DEF DuplicatesAreCovered
  <2>1. m \in Msg /\ status[m] = "new" /\ ~InHand(m)
    BY DEF KeysAreBacked, Once, OnceEach, Untouched, TypeOK
  <2>2. CASE \E n \in Msg : Payload(n) = Payload(m) /\ status[n] # "new"
    BY <2>1, <2>2
  <2>3. CASE \E w \in Workers : Writes(w, Payload(m))
    <3> PICK w \in Workers : Writes(w, Payload(m))
      BY <2>3
    <3>1. hand[w] \in Msg /\ workerPc[w] = "write" /\ Payload(hand[w]) = Payload(m)
      BY DEF Writes, KeysAreBacked, Once, TypeOK, Flow
    <3>2. hand[w] # m
      BY <2>1 DEF InHand
    <3> QED  BY <3>1, <3>2
  <2> QED  BY <2>2, <2>3 DEF KeysAreBacked, Backed
<1> QED  BY <1>1, <1>2, NextKeysAreBacked, PTL DEF Spec


-----------------------------------------------------------------------------
(* The race between Get and Add. *)

(* The workers that have seen no entry for k and are past the test.        *)
Recording(k) ==
    {w \in Workers : workerPc[w] \in {"add", "write"} /\ Payload(hand[w]) = k}

(* A key the store has not forgotten is recorded before any row of it is   *)
(* handed over; until then the workers past the test are all there are.    *)
RaceIsOpen(k) ==
    /\ k \notin seen => ~Backed(k)
    /\ IsFiniteSet(Passed(k))
    /\ Cardinality(Passed(k)) + Cardinality(Recording(k)) <= Cardinality(Workers)

Races == Once /\ \A k \in Key \ forgotten : RaceIsOpen(k)

LEMMA RecordingFinite ==
    ASSUME NEW k
    PROVE  /\ IsFiniteSet(Recording(k)) /\ IsFiniteSet(Recording(k)')
           /\ Cardinality(Recording(k)) \in Nat /\ Cardinality(Recording(k)') \in Nat
           /\ Cardinality(Recording(k)') <= Cardinality(Workers)
           /\ Cardinality(Workers) \in Nat
<1>1. Recording(k) \subseteq Workers /\ Recording(k)' \subseteq Workers
  BY DEF Recording
<1> QED  BY <1>1, SizeAssumption, FS_Subset, FS_CardinalityType

(* A step that takes no worker past the test and gives the writer nothing. *)
LEMMA RacesWhenStill ==
    ASSUME Races, Once', forgotten \subseteq forgotten',
           \A k \in Key \ forgotten' : k \in seen => k \in seen',
           \A m \in Msg : status'[m] = "new" <=> status[m] = "new",
           \A w \in Workers :
              /\ workerPc'[w] = "add" <=> workerPc[w] = "add"
              /\ workerPc'[w] = "write" <=> workerPc[w] = "write"
              /\ workerPc[w] \in {"add", "write"} => hand'[w] = hand[w]
    PROVE  Races'
<1>1. ASSUME NEW k \in Key
      PROVE  /\ Passed(k)' = Passed(k)
             /\ Recording(k)' = Recording(k)
             /\ Backed(k)' <=> Backed(k)
  <2>1. Passed(k)' = Passed(k)
    BY DEF Passed, Payload
  <2>2. \A w \in Workers : workerPc[w] \in {"add", "write"} =>
                              Payload(hand[w])' = Payload(hand[w])
    BY DEF Payload
  <2>3. Recording(k)' = Recording(k)
    BY <2>2 DEF Recording
  <2>4. \A w \in Workers : Writes(w, k)' <=> Writes(w, k)
    BY <2>2 DEF Writes
  <2>5. \A m \in Msg : Payload(m)' = Payload(m)
    BY DEF Payload
  <2> QED  BY <2>1, <2>3, <2>4, <2>5 DEF Backed
<1>2. ASSUME NEW k \in Key \ forgotten'
      PROVE  RaceIsOpen(k)'
  <2>1. RaceIsOpen(k) /\ (k \notin seen' => k \notin seen)
    BY DEF Races
  <2> QED  BY <1>1, <2>1 DEF RaceIsOpen
<1> QED  BY <1>2 DEF Races

LEMMA FirstSightRaces ==
    ASSUME Races, Once', NEW w \in Workers, FirstSight(w)
    PROVE  Races'
<1> DEFINE k0 == Payload(hand[w])
<1>1. /\ workerPc' = [workerPc EXCEPT ![w] = "add"] /\ workerPc[w] = "get"
      /\ UNCHANGED <<hand, seen, forgotten, status>> /\ k0 \notin seen
  BY DEF FirstSight, dedupVars
<1>2. workerPc \in [Workers -> {"idle", "get", "add", "write", "done"}]
  BY DEF Races, Once, TypeOK
<1> HIDE DEF k0
<1>3. \A k : /\ Payload(k)' = Payload(k)
            /\ \A v \in Workers : Payload(hand[v])' = Payload(hand[v])
  BY <1>1 DEF Payload
<1>4. ASSUME NEW k \in Key \ forgotten'
      PROVE  RaceIsOpen(k)'
  <2>1. RaceIsOpen(k)
    BY <1>1 DEF Races
  <2>2. Passed(k)' = Passed(k)
    BY <1>1 DEF Passed, Payload
  <2>3. \A v \in Workers : Writes(v, k)' <=> Writes(v, k)
    BY <1>1, <1>2, <1>3 DEF Writes
  <2>4. Backed(k)' <=> Backed(k)
    BY <1>1, <1>3, <2>3 DEF Backed
  <2>5. CASE k = k0
    <3>1. ~Backed(k)
      BY <1>1, <2>1, <2>5 DEF RaceIsOpen
    <3>2. Passed(k) = {}
      BY <3>1 DEF Backed, Passed
    <3>3. Cardinality(Passed(k)') = 0
      BY <2>2, <3>2, FS_EmptySet
    <3> QED  BY <1>1, <2>1, <2>2, <2>4, <3>3, RecordingFinite DEF RaceIsOpen
  <2>6. CASE k # k0
    <3>1. Recording(k)' = Recording(k)
      BY <1>1, <1>2, <1>3, <2>6 DEF Recording, k0
    <3> QED  BY <1>1, <2>1, <2>2, <2>4, <3>1 DEF RaceIsOpen
  <2> QED  BY <2>5, <2>6
<1> QED  BY <1>4 DEF Races

LEMMA RecordKeyRaces ==
    ASSUME Races, Once', NEW w \in Workers, RecordKey(w)
    PROVE  Races'
<1> DEFINE k0 == Payload(hand[w])
<1>1. /\ workerPc' = [workerPc EXCEPT ![w] = "write"] /\ workerPc[w] = "add"
      /\ UNCHANGED <<hand, forgotten, status>> /\ seen' = seen \cup {k0}
  BY DEF RecordKey, Recorded
<1>2. workerPc \in [Workers -> {"idle", "get", "add", "write", "done"}]
  BY DEF Races, Once, TypeOK
<1> HIDE DEF k0
<1>3. \A k : /\ Payload(k)' = Payload(k)
            /\ \A v \in Workers : Payload(hand[v])' = Payload(hand[v])
  BY <1>1 DEF Payload
<1>4. ASSUME NEW k \in Key \ forgotten'
      PROVE  RaceIsOpen(k)'
  <2>1. RaceIsOpen(k)
    BY <1>1 DEF Races
  <2>2. Passed(k)' = Passed(k)
    BY <1>1 DEF Passed, Payload
  <2>3. Recording(k)' = Recording(k)
    BY <1>1, <1>2, <1>3 DEF Recording
  <2>4. ASSUME k \notin seen'
        PROVE  ~Backed(k)'
    <3>1. k # k0 /\ ~Backed(k)
      BY <1>1, <2>1, <2>4 DEF RaceIsOpen
    <3>2. \A v \in Workers : Writes(v, k)' => Writes(v, k)
      BY <1>1, <1>2, <1>3, <3>1 DEF Writes, k0
    <3> QED  BY <1>1, <1>3, <3>1, <3>2 DEF Backed
  <2> QED  BY <2>1, <2>2, <2>3, <2>4 DEF RaceIsOpen
<1> QED  BY <1>4 DEF Races

LEMMA WriteRaces ==
    ASSUME Races, Once', NEW w \in Workers, Write(w)
    PROVE  Races'
<1> DEFINE m0 == hand[w]
           k0 == Payload(hand[w])
<1>1. /\ workerPc' = [workerPc EXCEPT ![w] = "idle"] /\ workerPc[w] = "write"
      /\ hand' = [hand EXCEPT ![w] = NoMsg]
      /\ status' = [status EXCEPT ![m0] = "pending"]
      /\ UNCHANGED <<seen, forgotten>>
  BY DEF Write, dedupVars
<1>2. /\ workerPc \in [Workers -> {"idle", "get", "add", "write", "done"}]
      /\ hand \in [Workers -> Flow \cup {NoMsg}]
      /\ status \in [Msg -> Sink!Status]
  BY DEF Races, Once, TypeOK, Sink!FSTypeOK, Row
<1>3. m0 \in Msg /\ status[m0] = "new"
  <2>1. m0 \in Msg
    BY <1>1 DEF Races, Once, TypeOK, Flow
  <2> QED  BY <2>1 DEF Races, Once, OnceEach, InHand, Untouched
<1>4. Payload(m0) = k0 /\ Writes(w, k0)
  BY <1>1 DEF Writes
<1> HIDE DEF m0, k0
<1>5. /\ \A v \in Workers : v # w => hand'[v] = hand[v] /\ workerPc'[v] = workerPc[v]
      /\ workerPc'[w] = "idle"
      /\ \A m \in Msg : status'[m] = IF m = m0 THEN "pending" ELSE status[m]
  BY <1>1, <1>2
<1>6. ASSUME NEW k \in Key \ forgotten'
      PROVE  RaceIsOpen(k)'
  <2>1. RaceIsOpen(k)
    BY <1>1 DEF Races
  <2>2. \A v \in Workers : v # w => Payload(hand[v])' = Payload(hand[v])
    BY <1>5 DEF Payload
  <2>3. Recording(k)' = Recording(k) \ {w}
    BY <1>5, <2>2 DEF Recording
  <2>4. \A m \in Msg : Payload(m)' = Payload(m)
    BY DEF Payload
  <2>5. CASE k = k0
    <3>1. Passed(k)' = Passed(k) \cup {m0} /\ m0 \notin Passed(k)
      BY <1>3, <1>4, <1>5, <2>4, <2>5 DEF Passed
    <3>2. w \in Recording(k)
      BY <1>1, <2>5 DEF Recording, k0
    <3>3. /\ IsFiniteSet(Passed(k)')
          /\ Cardinality(Passed(k)') = Cardinality(Passed(k)) + 1
          /\ Cardinality(Passed(k)) \in Nat
      BY <2>1, <3>1, FS_AddElement, FS_CardinalityType DEF RaceIsOpen
    <3>4. Cardinality(Recording(k)') = Cardinality(Recording(k)) - 1
      BY <2>3, <3>2, RecordingFinite, FS_RemoveElement
    <3>5. k \in seen
      BY <1>4, <2>1, <2>5 DEF RaceIsOpen, Backed
    <3> QED  BY <1>1, <2>1, <3>3, <3>4, <3>5, RecordingFinite DEF RaceIsOpen
  <2>6. CASE k # k0
    <3>1. Passed(k)' = Passed(k)
      BY <1>4, <1>5, <2>4, <2>6 DEF Passed
    <3>2. w \notin Recording(k)
      BY <2>6 DEF Recording, k0
    <3>3. Recording(k)' = Recording(k)
      BY <2>3, <3>2
    <3>4. \A v \in Workers : Writes(v, k)' => Writes(v, k)
      BY <1>5, <2>2 DEF Writes
    <3>5. Backed(k)' => Backed(k)
      BY <1>4, <1>5, <2>4, <2>6, <3>4 DEF Backed
    <3> QED  BY <1>1, <2>1, <3>1, <3>3, <3>5 DEF RaceIsOpen
  <2> QED  BY <2>5, <2>6
<1> QED  BY <1>6 DEF Races

(* A fresh process has raced over nothing. *)
LEMMA FreshRace ==
    ASSUME NEW k
    PROVE  /\ (\A m \in Msg : status[m] = "new") /\ workerPc = FreshWorkers =>
                 RaceIsOpen(k)
           /\ (\A m \in Msg : status'[m] = "new") /\ workerPc' = FreshWorkers =>
                 RaceIsOpen(k)'
<1>1. IsFiniteSet({}) /\ Cardinality({}) = 0 /\ Cardinality(Workers) \in Nat
  BY FS_EmptySet, SizeAssumption, FS_CardinalityType
<1>2. (\A m \in Msg : status[m] = "new") /\ workerPc = FreshWorkers =>
         Passed(k) = {} /\ Recording(k) = {} /\ ~Backed(k)
  BY DEF Passed, Recording, Backed, Writes, FreshWorkers
<1>3. (\A m \in Msg : status'[m] = "new") /\ workerPc' = FreshWorkers =>
         Passed(k)' = {} /\ Recording(k)' = {} /\ ~Backed(k)'
  BY DEF Passed, Recording, Backed, Writes, FreshWorkers
<1> QED  BY <1>1, <1>2, <1>3 DEF RaceIsOpen

LEMMA NextRaces == Races /\ [Next]_vars => Races'
<1> SUFFICES ASSUME Races, [Next]_vars  PROVE Races'
  OBVIOUS
<1>t. TypeOK /\ Once'
  BY NextOnce DEF Races, Once
<1>1. CASE Restart
  <2>1. (\A m \in Msg : status'[m] = "new") /\ workerPc' = FreshWorkers
    BY <1>1 DEF Restart, Row
  <2> QED  BY <1>t, <2>1, FreshRace DEF Races
<1>2. CASE \E w \in Workers : FirstSight(w) \/ RecordKey(w) \/ Write(w)
  BY <1>2, <1>t, FirstSightRaces, RecordKeyRaces, WriteRaces
<1>3. ASSUME NEW w \in Workers, Receive(w) \/ DropDuplicate(w) \/ StopWorking(w)
      PROVE  Races'
  <2>1. UNCHANGED <<seen, forgotten, status>>
    BY <1>3 DEF Receive, DropDuplicate, StopWorking, dedupVars
  <2>2. \A v \in Workers :
           /\ v # w => workerPc'[v] = workerPc[v] /\ hand'[v] = hand[v]
           /\ workerPc[w] \notin {"add", "write"} /\ workerPc'[w] \notin {"add", "write"}
    BY <1>3, <1>t DEF Receive, DropDuplicate, StopWorking, TypeOK, workerVars
  <2>3. \A v \in Workers :
           /\ workerPc'[v] = "add" <=> workerPc[v] = "add"
           /\ workerPc'[v] = "write" <=> workerPc[v] = "write"
           /\ workerPc[v] \in {"add", "write"} => hand'[v] = hand[v]
    BY <2>2
  <2> QED  BY <1>t, <2>1, <2>3, RacesWhenStill
<1>4. ASSUME NEW k \in Key, Forget(k)
      PROVE  Races'
  <2>1. /\ seen' = seen \ {k} /\ forgotten' = forgotten \cup {k}
        /\ UNCHANGED <<workerVars, status>>
    BY <1>4 DEF Forget
  <2> QED  BY <1>t, <2>1, RacesWhenStill DEF workerVars
<1>5. CASE WriterSettles
  <2>1. UNCHANGED <<workerVars, dedupVars>>
    BY <1>5 DEF WriterSettles
  <2>2. \A m \in Msg : status'[m] = "new" <=> status[m] = "new"
    BY <1>5 DEF WriterSettles, Sink!Settle, Row
  <2> QED  BY <1>t, <2>1, <2>2, RacesWhenStill DEF workerVars, dedupVars
<1>6. CASE \/ \E r \in Readers : ReaderStep(r) \/ Commit(r) \/ ReadFails(r)
           \/ MainStep \/ Cancel \/ Crash \/ Ended \/ UNCHANGED vars
  <2>1. UNCHANGED <<workerPc, hand, seen, forgotten, status>>
    BY <1>6 DEF ReaderStep, Read, ReadFails, Send, StopReading, Commit, MainStep,
       CloseChannel, StartFinalDrain, Exit, Cancel, Crash, Ended, vars, workerVars, dedupVars
  <2> QED  BY <1>t, <2>1, RacesWhenStill
<1> QED  BY <1>1, <1>2, <1>3, <1>4, <1>5, <1>6 DEF Next, WorkerStep

(* As long as the store has not forgotten a 7-tuple, no more rows of it    *)
(* pass than there are workers (main.go:442-446).                          *)
THEOREM PassesAreBounded == Spec => []RaceIsBounded
<1>1. Init => Races
  BY InitOnce, FreshRace DEF Init, Races, Sink!FSInit, Row
<1>2. Races => RaceIsBounded
  <2> SUFFICES ASSUME Races, NEW k \in Key \ forgotten
               PROVE  Cardinality(Passed(k)) <= Cardinality(Workers)
    BY DEF RaceIsBounded
  <2>1. RaceIsOpen(k)
    BY DEF Races
  <2>2. Cardinality(Passed(k)) \in Nat
    BY <2>1, FS_CardinalityType DEF RaceIsOpen
  <2> QED  BY <2>1, <2>2, RecordingFinite DEF RaceIsOpen
<1> QED  BY <1>1, <1>2, NextRaces, PTL DEF Spec
=============================================================================
