------------------------- MODULE BatchWriterProofs -------------------------
(***************************************************************************)
(* Theorems about BatchWriter, for any workers, sizes and row counts.      *)
(***************************************************************************)
EXTENDS BatchWriter, SequenceTheorems, FiniteSetTheorems, TLAPS

-----------------------------------------------------------------------------
(* What cutting, joining and extending a sequence does to its range and to *)
(* the distinctness of its elements, and how they are counted.             *)

(* Splitting a sequence in two: the parts are sequences, cover the whole,  *)
(* and share nothing when no element occurs twice.                         *)
LEMMA SplitSeq ==
    ASSUME NEW S, NEW s \in Seq(S), NEW n \in 0..Len(s)
    PROVE  LET a == SubSeq(s, 1, n)
               b == SubSeq(s, n + 1, Len(s))
           IN  /\ a \in Seq(S) /\ b \in Seq(S)
               /\ Len(a) = n /\ Len(b) = Len(s) - n
               /\ Range(s) = Range(a) \cup Range(b)
               /\ IsInjective(s) => /\ IsInjective(a) /\ IsInjective(b)
                                    /\ Range(a) \cap Range(b) = {}
<1> DEFINE a == SubSeq(s, 1, n)
           b == SubSeq(s, n + 1, Len(s))
<1>1. Len(s) \in Nat /\ n \in Nat /\ n <= Len(s) /\ DOMAIN s = 1..Len(s)
  BY LenProperties
<1>2. \A i \in 1..Len(s) : s[i] \in S
  BY ElementOfSeq
<1>3. /\ a \in Seq(S)
      /\ Len(a) = n
      /\ \A i \in 1..n : a[i] = s[i]
  <2>1. \A i \in 1..n : s[i] \in S
    BY <1>1, <1>2
  <2>2. /\ a \in Seq(S)
        /\ Len(a) = IF 1 <= n THEN n - 1 + 1 ELSE 0
        /\ \A i \in 1..(n - 1 + 1) : a[i] = s[1 + i - 1]
    BY <1>1, <2>1, SubSeqProperties
  <2> QED  BY <1>1, <2>2
<1>4. /\ b \in Seq(S)
      /\ Len(b) = Len(s) - n
      /\ \A i \in 1..(Len(s) - n) : b[i] = s[n + i]
  <2>1. \A i \in (n + 1)..Len(s) : s[i] \in S
    BY <1>1, <1>2
  <2>2. /\ b \in Seq(S)
        /\ Len(b) = IF n + 1 <= Len(s) THEN Len(s) - (n + 1) + 1 ELSE 0
        /\ \A i \in 1..(Len(s) - (n + 1) + 1) : b[i] = s[n + 1 + i - 1]
    BY <1>1, <2>1, SubSeqProperties
  <2> QED  BY <1>1, <2>2
<1>5. DOMAIN a = 1..n /\ DOMAIN b = 1..(Len(s) - n)
  BY <1>3, <1>4, LenProperties
<1> HIDE DEF a, b
<1>6. Range(s) = Range(a) \cup Range(b)
  <2>1. ASSUME NEW i \in 1..Len(s)
        PROVE  s[i] \in Range(a) \cup Range(b)
    <3>1. CASE i <= n
      BY <1>1, <1>3, <1>5, <3>1 DEF Range
    <3>2. CASE i > n
      <4>1. i - n \in 1..(Len(s) - n) /\ b[i - n] = s[i]
        BY <1>1, <1>4, <3>2
      <4> QED  BY <1>5, <4>1 DEF Range
    <3> QED  BY <1>1, <3>1, <3>2
  <2>2. \A i \in 1..n : a[i] \in Range(s)
    BY <1>1, <1>3 DEF Range
  <2>3. \A i \in 1..(Len(s) - n) : b[i] \in Range(s)
    BY <1>1, <1>4 DEF Range
  <2> QED  BY <1>1, <1>5, <2>1, <2>2, <2>3 DEF Range
<1>7. ASSUME IsInjective(s)
      PROVE  IsInjective(a) /\ IsInjective(b) /\ Range(a) \cap Range(b) = {}
  <2>1. \A i, j \in 1..Len(s) : s[i] = s[j] => i = j
    BY <1>1, <1>7 DEF IsInjective
  <2>2. ASSUME NEW i \in 1..n, NEW j \in 1..(Len(s) - n)
        PROVE  a[i] # b[j]
    <3>1. i \in 1..Len(s) /\ n + j \in 1..Len(s) /\ i # n + j
      BY <1>1
    <3> QED  BY <1>3, <1>4, <2>1, <3>1
  <2>3. \A i, j \in 1..n : a[i] = a[j] => i = j
    <3>1. \A i \in 1..n : i \in 1..Len(s)
      BY <1>1
    <3> QED  BY <1>3, <2>1, <3>1
  <2>4. \A i, j \in 1..(Len(s) - n) : b[i] = b[j] => i = j
    <3>1. ASSUME NEW i \in 1..(Len(s) - n), NEW j \in 1..(Len(s) - n),
                 b[i] = b[j]
          PROVE  i = j
      <4>1. n + i \in 1..Len(s) /\ n + j \in 1..Len(s) /\ s[n + i] = s[n + j]
        BY <1>1, <1>4, <3>1
      <4> QED  BY <1>1, <2>1, <4>1
    <3> QED  BY <3>1
  <2> QED  BY <1>5, <2>2, <2>3, <2>4 DEF IsInjective, Range
<1> QED  BY <1>3, <1>4, <1>6, <1>7 DEF a, b

(* Joining two sequences that share no element. *)
LEMMA ConcatSeq ==
    ASSUME NEW S, NEW s \in Seq(S), NEW t \in Seq(S)
    PROVE  /\ s \o t \in Seq(S)
           /\ Len(s \o t) = Len(s) + Len(t)
           /\ Range(s \o t) = Range(s) \cup Range(t)
           /\ IsInjective(s) /\ IsInjective(t) /\ Range(s) \cap Range(t) = {}
                => IsInjective(s \o t)
<1>1. /\ Len(s) \in Nat /\ Len(t) \in Nat
      /\ DOMAIN s = 1..Len(s) /\ DOMAIN t = 1..Len(t)
  BY LenProperties
<1>2. /\ s \o t \in Seq(S)
      /\ Len(s \o t) = Len(s) + Len(t)
      /\ \A i \in 1..Len(s) + Len(t) :
            (s \o t)[i] = IF i <= Len(s) THEN s[i] ELSE t[i - Len(s)]
  BY ConcatProperties
<1>3. DOMAIN (s \o t) = 1..Len(s) + Len(t)
  BY <1>2, LenProperties
<1>4. Range(s \o t) = Range(s) \cup Range(t)
  BY RangeConcatenation
<1>5. ASSUME IsInjective(s), IsInjective(t), Range(s) \cap Range(t) = {}
      PROVE  IsInjective(s \o t)
  <2>1. ASSUME NEW i \in 1..Len(s) + Len(t), NEW j \in 1..Len(s) + Len(t),
               (s \o t)[i] = (s \o t)[j]
        PROVE  i = j
    <3>1. CASE i <= Len(s) /\ j <= Len(s)
      BY <1>1, <1>2, <1>5, <2>1, <3>1 DEF IsInjective
    <3>2. CASE i > Len(s) /\ j > Len(s)
      <4>1. /\ i - Len(s) \in 1..Len(t) /\ j - Len(s) \in 1..Len(t)
            /\ t[i - Len(s)] = t[j - Len(s)]
        BY <1>1, <1>2, <2>1, <3>2
      <4>2. i - Len(s) = j - Len(s)
        BY <1>1, <1>5, <4>1 DEF IsInjective
      <4> QED  BY <1>1, <4>2
    <3>3. CASE i <= Len(s) /\ j > Len(s)
      <4>1. s[i] \in Range(s) /\ t[j - Len(s)] \in Range(t)
        BY <1>1, <3>3 DEF Range
      <4>2. s[i] = t[j - Len(s)]
        BY <1>1, <1>2, <2>1, <3>3
      <4> QED  BY <1>5, <4>1, <4>2
    <3>4. CASE i > Len(s) /\ j <= Len(s)
      <4>1. s[j] \in Range(s) /\ t[i - Len(s)] \in Range(t)
        BY <1>1, <3>4 DEF Range
      <4>2. s[j] = t[i - Len(s)]
        BY <1>1, <1>2, <2>1, <3>4
      <4> QED  BY <1>5, <4>1, <4>2
    <3> QED  BY <1>1, <3>1, <3>2, <3>3, <3>4
  <2> QED  BY <1>3, <2>1 DEF IsInjective
<1> QED  BY <1>2, <1>4, <1>5

(* Appending an element that is not there yet. *)
LEMMA AppendSeq ==
    ASSUME NEW S, NEW s \in Seq(S), NEW e \in S
    PROVE  /\ Append(s, e) \in Seq(S)
           /\ Len(Append(s, e)) = Len(s) + 1
           /\ Range(Append(s, e)) = Range(s) \cup {e}
           /\ IsInjective(s) /\ e \notin Range(s) => IsInjective(Append(s, e))
<1>1. /\ <<e>> \in Seq(S)
      /\ Len(<<e>>) = 1
      /\ DOMAIN <<e>> = {1}
      /\ <<e>>[1] = e
  OBVIOUS
<1>2. Range(<<e>>) = {e} /\ IsInjective(<<e>>)
  BY <1>1 DEF Range, IsInjective
<1>3. Append(s, e) = s \o <<e>>
  BY AppendIsConcat
<1> DEFINE t == <<e>>
<1> HIDE DEF t
<1>4. t \in Seq(S) /\ Len(t) = 1 /\ Range(t) = {e} /\ IsInjective(t)
  BY <1>1, <1>2 DEF t
<1>5. /\ s \o t \in Seq(S)
      /\ Len(s \o t) = Len(s) + Len(t)
      /\ Range(s \o t) = Range(s) \cup Range(t)
      /\ IsInjective(s) /\ Range(s) \cap Range(t) = {} => IsInjective(s \o t)
  BY ZenonT(30), <1>4, ConcatSeq
<1>6. Append(s, e) = s \o t
  BY <1>3 DEF t
<1> QED  BY <1>4, <1>5, <1>6

(* The empty sequence holds nothing. *)
LEMMA EmptySeqFacts == Range(<< >>) = {} /\ IsInjective(<< >>)
BY DEF Range, IsInjective

(* A sequence without repetitions is as long as its range is large.        *)
LEMMA InjectiveLength ==
    ASSUME NEW S, NEW s \in Seq(S), IsInjective(s)
    PROVE  IsFiniteSet(Range(s)) /\ Cardinality(Range(s)) = Len(s)
<1>1. Len(s) \in Nat /\ DOMAIN s = 1..Len(s) /\ s \in [1..Len(s) -> S]
  BY LenProperties
<1>2. IsFiniteSet(1..Len(s)) /\ Cardinality(1..Len(s)) = Len(s)
  BY <1>1, FS_Interval
<1>3. s \in [1..Len(s) -> Range(s)]
  BY <1>1 DEF Range
<1>4. s \in Surjection(1..Len(s), Range(s))
  BY <1>1, <1>3 DEF Surjection, Range
<1>5. s \in Injection(1..Len(s), Range(s))
  BY <1>3 DEF Injection
<1>6. s \in Bijection(1..Len(s), Range(s))
  BY <1>4, <1>5 DEF Bijection
<1>7. ExistsBijection(1..Len(s), Range(s))
  BY <1>6 DEF ExistsBijection
<1> QED  BY <1>2, <1>7, FS_Bijection

(* Disjoint finite sets add up. *)
LEMMA DisjointUnion ==
    ASSUME NEW S, NEW T, IsFiniteSet(S), IsFiniteSet(T), S \cap T = {}
    PROVE  Cardinality(S \cup T) = Cardinality(S) + Cardinality(T)
<1>1. Cardinality(S \cup T) =
        Cardinality(S) + Cardinality(T) - Cardinality(S \cap T)
  BY FS_Union
<1>2. Cardinality(S \cap T) = 0
  BY FS_EmptySet
<1>3. Cardinality(S) \in Nat /\ Cardinality(T) \in Nat
  BY FS_CardinalityType
<1> QED  BY <1>1, <1>2, <1>3

-----------------------------------------------------------------------------
(* The pieces drain cuts rows into.                                        *)

(* rows[i:end] and rows[end:] are rows, and together all of them, once.    *)
LEMMA ChunkRest ==
    ASSUME NEW s \in Seq(Row)
    PROVE  /\ Chunk(s) \in Seq(Row) /\ Rest(s) \in Seq(Row)
           /\ Range(s) = Range(Chunk(s)) \cup Range(Rest(s))
           /\ IsInjective(s) => /\ IsInjective(Chunk(s)) /\ IsInjective(Rest(s))
                                /\ Range(Chunk(s)) \cap Range(Rest(s)) = {}
<1>1. ChunkLen(s) \in 0..Len(s)
  BY SizesAssumption, LenProperties DEF ChunkLen
<1> QED  BY <1>1, SplitSeq DEF Chunk, Rest

(* What a re-queue cuts off and keeps are the rows it was given, once, and *)
(* it keeps exactly maxBuffer of them when it cuts any off.                *)
LEMMA CutOffKept ==
    ASSUME NEW s \in Seq(Row)
    PROVE  /\ CutOff(s) \in Seq(Row) /\ Kept(s) \in Seq(Row)
           /\ Over(s) \in Nat
           /\ Len(CutOff(s)) = Over(s)
           /\ Range(s) = Range(CutOff(s)) \cup Range(Kept(s))
           /\ Over(s) > 0 => Len(Kept(s)) = MaxBuffer
           /\ IsInjective(s) => /\ IsInjective(CutOff(s)) /\ IsInjective(Kept(s))
                                /\ Range(CutOff(s)) \cap Range(Kept(s)) = {}
<1>1. Over(s) \in 0..Len(s) /\ (Over(s) > 0 => Len(s) - Over(s) = MaxBuffer)
  BY SizesAssumption, LenProperties DEF Over
<1>2. Over(s) \in Nat
  BY <1>1
<1> QED  BY <1>1, <1>2, SplitSeq DEF CutOff, Kept

(* A set of rows is finite. *)
LEMMA RowsFinite ==
    ASSUME NEW R, R \subseteq Row
    PROVE  IsFiniteSet(R) /\ Cardinality(R) \in Nat
<1>1. IsFiniteSet(Row)
  BY SizesAssumption, FS_Interval DEF Row
<1>2. IsFiniteSet(R)
  BY <1>1, FS_Subset
<1> QED  BY <1>2, FS_CardinalityType

(* The rows batch.Append took of a chunk, followed by the rest. *)
LEMMA UnsentRows ==
    ASSUME NEW s \in Seq(Row), NEW a, IsAppended(a, Chunk(s))
    PROVE  /\ Unsent(a, s) \in Seq(Row)
           /\ Range(Unsent(a, s)) =
                 (Range(Chunk(s)) \ Malformed) \cup Range(Rest(s))
           /\ IsInjective(s) => IsInjective(Unsent(a, s))
<1>1. a \in Seq(Range(Chunk(s)))
  BY DEF IsAppended
<1>2. Range(Chunk(s)) \subseteq Row
  BY ChunkRest, RangeOfSeq
<1>3. a \in Seq(Row)
  BY <1>1, <1>2, SeqMonotonic
<1>4. IsInjective(a) /\ Range(a) = Range(Chunk(s)) \ Malformed
  BY DEF IsAppended
<1> QED  BY <1>3, <1>4, ChunkRest, ConcatSeq DEF Unsent

-----------------------------------------------------------------------------
(* Typing.                                                                 *)

LEMMA InitType == Init => TypeOK
<1> SUFFICES ASSUME Init PROVE TypeOK
  OBVIOUS
<1>1. batch \in [Threads -> Seq(Row)] /\ buffer \in Seq(Row)
  BY DEF Init
<1>2. /\ pc \in [Threads -> WorkerPC \cup TimerPC \cup MainPC]
      /\ \A w \in Workers : pc[w] \in WorkerPC
      /\ pc[Timer] \in TimerPC
      /\ pc[Main] \in MainPC
  BY ThreadsAssumption DEF Init, Threads, WorkerPC, TimerPC, MainPC
<1>3. attempt \in 0..Attempts - 1 /\ outages \in 0..MaxOutages
      /\ accepted \in 0..NumRows
  BY SizesAssumption DEF Init
<1> QED
  BY <1>1, <1>2, <1>3 DEF Init, TypeOK

(* Moving thread t to one of its own labels keeps pc well typed. *)
LEMMA GotoType ==
    ASSUME TypeOK, NEW t \in Threads, NEW l, Goto(t, l),
           t \in Workers => l \in WorkerPC,
           t = Timer => l \in TimerPC,
           t = Main => l \in MainPC
    PROVE  /\ pc' \in [Threads -> WorkerPC \cup TimerPC \cup MainPC]
           /\ \A w \in Workers : pc'[w] \in WorkerPC
           /\ pc'[Timer] \in TimerPC
           /\ pc'[Main] \in MainPC
           /\ pc'[t] = l
           /\ \A u \in Threads \ {t} : pc'[u] = pc[u]
BY ThreadsAssumption DEF TypeOK, Goto, Threads

LEMMA AfterLabel ==
    ASSUME NEW t \in Threads
    PROVE  /\ t \in Workers => {After(t), "send", "requeue"} \subseteq WorkerPC
           /\ t = Timer => {After(t), "send", "requeue"} \subseteq TimerPC
           /\ t = Main => {After(t), "send", "requeue"} \subseteq MainPC
BY ThreadsAssumption DEF After, WorkerPC, TimerPC, MainPC

LEMMA NextType == TypeOK /\ [Next]_vars => TypeOK'
<1> SUFFICES ASSUME TypeOK, [Next]_vars PROVE TypeOK'
  OBVIOUS
<1>1. ASSUME NEW w \in Workers, Add(w) PROVE TypeOK'
  <2>1. w \in Threads /\ accepted + 1 \in Row /\ accepted' \in 0..NumRows
    BY <1>1, SizesAssumption DEF Add, TypeOK, Threads, Row
  <2>2. buffer' \in Seq(Row)
    BY <1>1, <2>1, AppendSeq DEF Add, TypeOK
  <2>3. /\ pc' \in [Threads -> WorkerPC \cup TimerPC \cup MainPC]
        /\ \A v \in Workers : pc'[v] \in WorkerPC
        /\ pc'[Timer] \in TimerPC
        /\ pc'[Main] \in MainPC
    <3>1. CASE Goto(w, "flush")
      BY <2>1, <3>1, GotoType, ThreadsAssumption DEF WorkerPC
    <3>2. CASE UNCHANGED pc
      BY <3>2 DEF TypeOK
    <3> QED  BY <1>1, <3>1, <3>2 DEF Add
  <2> QED  BY <1>1, <2>1, <2>2, <2>3 DEF Add, TypeOK
<1>2. ASSUME NEW t \in Threads, SkipDrain(t) PROVE TypeOK'
  BY <1>2, GotoType, AfterLabel DEF SkipDrain, TypeOK
<1>3. ASSUME NEW t \in Threads, TakeBuffer(t) PROVE TypeOK'
  <2>1. buffer' \in Seq(Row) /\ batch' \in [Threads -> Seq(Row)]
    BY <1>3 DEF TakeBuffer, TypeOK
  <2> QED  BY <1>3, <2>1, GotoType, AfterLabel DEF TakeBuffer, TypeOK
<1>4. ASSUME NEW t \in Threads, SendOk(t) PROVE TypeOK'
  <2>1. batch[t] \in Seq(Row)
    BY DEF TypeOK
  <2> DEFINE c == Chunk(batch[t])
             l == IF Rest(batch[t]) = << >> THEN After(t) ELSE "send"
  <2>2. c \in Seq(Row) /\ Rest(batch[t]) \in Seq(Row) /\ Len(c) \in Nat
    BY <2>1, ChunkRest, LenProperties
  <2>3. Range(c) \subseteq Row
    BY <2>2, RangeOfSeq
  <2>4. Cardinality(Range(c) \cap Malformed) \in Nat
    BY <2>3, RowsFinite
  <2>5. /\ batch' = [batch EXCEPT ![t] = Rest(batch[t])]
        /\ acked' = acked \cup (Range(c) \ Malformed)
        /\ dropped' = dropped \cup (Range(c) \cap Malformed)
        /\ rowsWritten' = rowsWritten + Len(c)
        /\ rowsDropped' = rowsDropped + Cardinality(Range(c) \cap Malformed)
        /\ Goto(t, l)
        /\ UNCHANGED <<buffer, backoff, attempt, lost, cancelled, reachable,
                       outages, accepted>>
    BY <1>4 DEF SendOk
  <2> HIDE DEF c, l
  <2>6. l \in {After(t), "send"}
    BY DEF l
  <2>7. batch' \in [Threads -> Seq(Row)]
    BY <2>2, <2>5 DEF TypeOK
  <2>8. /\ pc' \in [Threads -> WorkerPC \cup TimerPC \cup MainPC]
        /\ \A w \in Workers : pc'[w] \in WorkerPC
        /\ pc'[Timer] \in TimerPC
        /\ pc'[Main] \in MainPC
    BY <2>5, <2>6, GotoType, AfterLabel
  <2>9. acked' \subseteq Row /\ dropped' \subseteq Row
    BY <2>3, <2>5 DEF TypeOK
  <2>10. rowsWritten' \in Nat /\ rowsDropped' \in Nat
    BY <2>2, <2>4, <2>5 DEF TypeOK
  <2> QED  BY <2>5, <2>7, <2>8, <2>9, <2>10 DEF TypeOK
<1>5. ASSUME NEW t \in Threads, PrepareFails(t) PROVE TypeOK'
  BY <1>5, GotoType, AfterLabel DEF PrepareFails, TypeOK
<1>6. ASSUME NEW t \in Threads, SendFails(t) PROVE TypeOK'
  <2>1. batch[t] \in Seq(Row)
    BY DEF TypeOK
  <2>2. Range(Chunk(batch[t])) \subseteq Row
    BY <2>1, ChunkRest, RangeOfSeq
  <2>3. Cardinality(Range(Chunk(batch[t])) \cap Malformed) \in Nat
    BY <2>2, RowsFinite
  <2>4. PICK a : /\ IsAppended(a, Chunk(batch[t]))
                 /\ batch' = [batch EXCEPT ![t] = Unsent(a, batch[t])]
    BY <1>6 DEF SendFails
  <2>5. batch' \in [Threads -> Seq(Row)]
    BY <2>1, <2>4, UnsentRows DEF TypeOK
  <2>6. /\ pc' \in [Threads -> WorkerPC \cup TimerPC \cup MainPC]
        /\ \A w \in Workers : pc'[w] \in WorkerPC
        /\ pc'[Timer] \in TimerPC
        /\ pc'[Main] \in MainPC
    BY <1>6, GotoType, AfterLabel DEF SendFails
  <2> QED  BY <1>6, <2>2, <2>3, <2>5, <2>6 DEF SendFails, TypeOK
<1>7. ASSUME NEW t \in Threads, Requeue(t) PROVE TypeOK'
  <2> DEFINE all == batch[t] \o buffer
  <2>1. all \in Seq(Row)
    BY ConcatSeq DEF TypeOK
  <2>2. /\ CutOff(all) \in Seq(Row) /\ Kept(all) \in Seq(Row) /\ Over(all) \in Nat
    BY <2>1, CutOffKept
  <2>3. Range(CutOff(all)) \subseteq Row
    BY <2>2, RangeOfSeq
  <2>4. /\ buffer' = Kept(all)
        /\ dropped' = dropped \cup Range(CutOff(all))
        /\ rowsDropped' = rowsDropped + Over(all)
        /\ backoff' = TRUE
        /\ batch' = [batch EXCEPT ![t] = << >>]
        /\ Goto(t, After(t))
        /\ UNCHANGED <<attempt, lost, cancelled, reachable, outages, accepted,
                       acked, rowsWritten>>
    BY <1>7 DEF Requeue
  <2> HIDE DEF all
  <2>5. batch' \in [Threads -> Seq(Row)]
    BY <2>4 DEF TypeOK
  <2>6. /\ pc' \in [Threads -> WorkerPC \cup TimerPC \cup MainPC]
        /\ \A w \in Workers : pc'[w] \in WorkerPC
        /\ pc'[Timer] \in TimerPC
        /\ pc'[Main] \in MainPC
    BY <2>4, GotoType, AfterLabel
  <2> QED  BY <2>2, <2>3, <2>4, <2>5, <2>6 DEF TypeOK
<1>8. ASSUME NEW w \in Workers, WorkerExit(w) PROVE TypeOK'
  BY <1>8, GotoType, ThreadsAssumption DEF WorkerExit, TypeOK, Threads, WorkerPC
<1>9. CASE TimerExit
  BY <1>9, GotoType, ThreadsAssumption DEF TimerExit, TypeOK, Threads, TimerPC
<1>10. CASE StartFinalDrain
  BY <1>10, GotoType, ThreadsAssumption DEF StartFinalDrain, TypeOK, Threads, MainPC
<1>11. CASE FinalDrainReturns
  <2>1. Len(buffer) \in Nat
    BY LenProperties DEF TypeOK
  <2> QED  BY <1>11, <2>1, GotoType, ThreadsAssumption
              DEF FinalDrainReturns, TypeOK, Threads, MainPC
<1>12. CASE FinalDrainRetries
  BY <1>12, GotoType, ThreadsAssumption, SizesAssumption
     DEF FinalDrainRetries, MayRetry, NextAttempt, TypeOK, Threads, MainPC
<1>13. CASE Exit
  BY <1>13, GotoType, ThreadsAssumption DEF Exit, TypeOK, Threads, MainPC
<1>14. CASE BackoffElapses \/ Cancel \/ Outage \/ Recover
  <2>1. CASE Outage
    <3>1. outages' \in 0..MaxOutages
      BY <2>1, SizesAssumption DEF Outage, TypeOK
    <3> QED  BY <2>1, <3>1 DEF Outage, TypeOK
  <2>2. CASE BackoffElapses
    BY <2>2 DEF BackoffElapses, TypeOK
  <2>3. CASE Cancel
    BY <2>3 DEF Cancel, TypeOK
  <2>4. CASE Recover
    BY <2>4 DEF Recover, TypeOK
  <2> QED  BY <1>14, <2>1, <2>2, <2>3, <2>4
<1>15. CASE UNCHANGED vars
  BY <1>15 DEF vars, TypeOK
<1> QED
  BY <1>1, <1>2, <1>3, <1>4, <1>5, <1>6, <1>7, <1>8, <1>9, <1>10, <1>11, <1>12,
     <1>13, <1>14, <1>15 DEF Next, Drain, MainStep, Terminated

(* Every variable keeps its type, whatever the sizes and however many      *)
(* workers drain at once.                                                  *)
THEOREM TypeCorrect == Spec => []TypeOK
<1>1. Init => TypeOK
  BY InitType
<1>2. TypeOK /\ [Next]_vars => TypeOK'
  BY NextType
<1> QED  BY <1>1, <1>2, PTL DEF Spec

-----------------------------------------------------------------------------
(* Conservation.  The inductive invariant adds to ExactlyOnePlace that a   *)
(* thread outside a drain holds no rows, since a drain overwrites what its *)
(* thread holds.                                                           *)

HandsEmpty ==
    \A t \in Threads : pc[t] \notin {"send", "requeue"} => batch[t] = << >>

Places == TypeOK /\ HandsEmpty /\ ExactlyOnePlace

(* A step that moves rows only between the buffer, the hands of one thread *)
(* and the two final places, losing none and copying none, keeps every row *)
(* in exactly one place.                                                   *)
LEMMA MoveKeepsPlaces ==
    ASSUME TypeOK, ExactlyOnePlace, NEW t \in Threads,
           UNCHANGED accepted,
           \A u \in Threads \ {t} : batch'[u] = batch[u],
           IsInjective(buffer'), IsInjective(batch'[t]),
           Range(buffer') \cup Range(batch'[t]) \cup acked' \cup dropped' =
               Range(buffer) \cup Range(batch[t]) \cup acked \cup dropped,
           Range(buffer') \cap Range(batch'[t]) = {},
           (Range(buffer') \cup Range(batch'[t])) \cap (acked' \cup dropped') = {},
           acked' \cap dropped' = {}
    PROVE  ExactlyOnePlace'
<1>1. /\ \A u \in Threads : IsInjective(batch[u])
      /\ \A u \in Threads :
            /\ Range(batch[u]) \cap (Range(buffer) \cup acked \cup dropped) = {}
            /\ \A v \in Threads \ {u} : Range(batch[u]) \cap Range(batch[v]) = {}
      /\ 1..accepted = Range(buffer) \cup (UNION {Range(batch[u]) : u \in Threads})
                          \cup acked \cup dropped
  BY DEF ExactlyOnePlace, EachPlaceDistinct, PlacesDisjoint, AllAccountedFor, InFlight
<1>2. EachPlaceDistinct'
  BY <1>1 DEF EachPlaceDistinct
<1>3. PlacesDisjoint'
  <2>1. ASSUME NEW u \in Threads
        PROVE  /\ Range(batch'[u]) \cap (Range(buffer') \cup acked' \cup dropped') = {}
               /\ \A v \in Threads \ {u} : Range(batch'[u]) \cap Range(batch'[v]) = {}
    <3>1. CASE u = t
      <4>1. \A v \in Threads \ {t} : Range(batch'[t]) \cap Range(batch[v]) = {}
        BY <1>1
      <4> QED  BY <3>1, <4>1
    <3>2. CASE u # t
      <4>1. batch'[u] = batch[u]
        BY <3>2
      <4>2. Range(batch[u]) \cap
              (Range(buffer) \cup Range(batch[t]) \cup acked \cup dropped) = {}
        BY <1>1, <3>2
      <4>3. Range(batch[u]) \cap
              (Range(buffer') \cup Range(batch'[t]) \cup acked' \cup dropped') = {}
        BY <4>2
      <4>4. \A v \in Threads \ {u} : Range(batch[u]) \cap Range(batch'[v]) = {}
        BY <1>1, <4>3
      <4> QED  BY <4>1, <4>3, <4>4
    <3> QED  BY <3>1, <3>2
  <2>2. Range(buffer') \cap (acked' \cup dropped') = {} /\ acked' \cap dropped' = {}
    OBVIOUS
  <2> QED  BY <2>1, <2>2 DEF PlacesDisjoint, InFlight
<1>4. AllAccountedFor'
  <2> DEFINE others == UNION {Range(batch[u]) : u \in Threads \ {t}}
             all == UNION {Range(batch[u]) : u \in Threads}
             after == UNION {Range(batch'[u]) : u \in Threads}
  <2>1. all = Range(batch[t]) \cup others
    OBVIOUS
  <2>2. after = Range(batch'[t]) \cup others
    OBVIOUS
  <2>3. 1..accepted = Range(buffer) \cup all \cup acked \cup dropped
    BY <1>1
  <2> HIDE DEF others, all, after
  <2>4. 1..accepted = Range(buffer') \cup after \cup acked' \cup dropped'
    BY <2>1, <2>2, <2>3
  <2> QED  BY <2>4 DEF AllAccountedFor, InFlight, after
<1> QED  BY <1>2, <1>3, <1>4 DEF ExactlyOnePlace

LEMMA InitPlaces == Init => Places
<1> SUFFICES ASSUME Init PROVE Places
  OBVIOUS
<1>1. TypeOK
  BY InitType
<1>2. buffer = << >> /\ \A t \in Threads : batch[t] = << >>
  BY DEF Init
<1>3. Range(buffer) = {} /\ \A t \in Threads : Range(batch[t]) = {}
  BY <1>2, EmptySeqFacts
<1>4. EachPlaceDistinct
  BY <1>2, EmptySeqFacts DEF EachPlaceDistinct
<1>5. PlacesDisjoint /\ AllAccountedFor
  BY <1>3 DEF Init, PlacesDisjoint, AllAccountedFor, InFlight
<1> QED  BY <1>1, <1>2, <1>4, <1>5 DEF Places, HandsEmpty, ExactlyOnePlace

LEMMA NextPlaces == Places /\ [Next]_vars => Places'
<1> SUFFICES ASSUME Places, [Next]_vars PROVE Places'
  OBVIOUS
<1>0. TypeOK /\ TypeOK' /\ HandsEmpty /\ ExactlyOnePlace
  BY NextType DEF Places
<1>a. /\ IsInjective(buffer)
      /\ \A t \in Threads : IsInjective(batch[t])
      /\ Range(buffer) \cap (acked \cup dropped) = {}
      /\ acked \cap dropped = {}
      /\ \A t \in Threads :
            Range(batch[t]) \cap (Range(buffer) \cup acked \cup dropped) = {}
  BY <1>0 DEF ExactlyOnePlace, EachPlaceDistinct, PlacesDisjoint, InFlight
<1>b. buffer \in Seq(Row) /\ \A t \in Threads : batch[t] \in Seq(Row)
  BY <1>0 DEF TypeOK
<1>1. ASSUME NEW w \in Workers, Add(w) PROVE Places'
  <2> DEFINE r == accepted + 1
  <2>1. /\ buffer' = Append(buffer, r) /\ accepted' = r
        /\ UNCHANGED <<batch, acked, dropped>>
        /\ r \in Row /\ accepted \in Nat
    BY <1>0, <1>1, SizesAssumption DEF Add, TypeOK, Row
  <2>2. r \notin 1..accepted /\ 1..r = (1..accepted) \cup {r}
    BY <2>1
  <2> HIDE DEF r
  <2>3. /\ 1..accepted = Range(buffer) \cup (UNION {Range(batch[t]) : t \in Threads})
                            \cup acked \cup dropped
        /\ \A t, u \in Threads : t # u => Range(batch[t]) \cap Range(batch[u]) = {}
    BY <1>0 DEF ExactlyOnePlace, AllAccountedFor, PlacesDisjoint, InFlight
  <2>4. /\ r \notin Range(buffer) /\ r \notin acked /\ r \notin dropped
        /\ \A t \in Threads : r \notin Range(batch[t])
    <3> DEFINE all == UNION {Range(batch[t]) : t \in Threads}
    <3>1. 1..accepted = Range(buffer) \cup all \cup acked \cup dropped
      BY <2>3
    <3>2. \A t \in Threads : Range(batch[t]) \subseteq all
      OBVIOUS
    <3> HIDE DEF all
    <3> QED  BY <2>2, <3>1, <3>2
  <2>5. Range(buffer') = Range(buffer) \cup {r} /\ IsInjective(buffer')
    BY <1>a, <1>b, <2>1, <2>4, AppendSeq
  <2>6. EachPlaceDistinct'
    BY <1>a, <2>1, <2>5 DEF EachPlaceDistinct
  <2>7. PlacesDisjoint'
    <3>1. /\ Range(buffer') \cap (acked' \cup dropped') = {}
          /\ acked' \cap dropped' = {}
      BY <1>a, <2>1, <2>4, <2>5
    <3>2. ASSUME NEW t \in Threads
          PROVE  /\ Range(batch'[t]) \cap (Range(buffer') \cup acked' \cup dropped') = {}
                 /\ \A u \in Threads \ {t} : Range(batch'[t]) \cap Range(batch'[u]) = {}
      <4>1. Range(batch[t]) \cap (Range(buffer) \cup acked \cup dropped) = {}
        BY <1>a
      <4>2. Range(batch[t]) \cap (Range(buffer') \cup acked \cup dropped) = {}
        BY <2>4, <2>5, <4>1
      <4> QED  BY <2>1, <2>3, <4>2
    <3> QED  BY <3>1, <3>2 DEF PlacesDisjoint, InFlight
  <2>8. AllAccountedFor'
    BY <2>1, <2>2, <2>3, <2>5 DEF AllAccountedFor, InFlight
  <2>9. HandsEmpty'
    BY <1>0, <1>1, <2>1, ThreadsAssumption DEF HandsEmpty, Add, Goto, TypeOK, Threads
  <2> QED  BY <1>0, <2>6, <2>7, <2>8, <2>9 DEF Places, ExactlyOnePlace
<1>2. ASSUME NEW t \in Threads, TakeBuffer(t) PROVE Places'
  <2>1. batch[t] = << >>
    BY <1>0, <1>2 DEF TakeBuffer, HandsEmpty, Entry
  <2>2. /\ batch'[t] = buffer /\ buffer' = << >>
        /\ \A u \in Threads \ {t} : batch'[u] = batch[u]
        /\ UNCHANGED <<accepted, acked, dropped>>
    BY <1>0, <1>2 DEF TakeBuffer, TypeOK
  <2>3. Range(batch[t]) = {} /\ Range(buffer') = {} /\ IsInjective(buffer')
    BY <2>1, <2>2, EmptySeqFacts
  <2>4. ExactlyOnePlace'
    BY <1>0, <1>a, <2>2, <2>3, MoveKeepsPlaces
  <2>5. HandsEmpty'
    BY <1>0, <1>2, <2>2 DEF HandsEmpty, TakeBuffer, Goto, TypeOK
  <2> QED  BY <1>0, <2>4, <2>5 DEF Places
<1>3. ASSUME NEW t \in Threads, SendOk(t) PROVE Places'
  <2> DEFINE c == Chunk(batch[t])
             d == Rest(batch[t])
  <2>1. /\ c \in Seq(Row) /\ d \in Seq(Row)
        /\ Range(batch[t]) = Range(c) \cup Range(d)
        /\ IsInjective(d)
        /\ Range(c) \cap Range(d) = {}
    BY <1>a, <1>b, ChunkRest
  <2>2. /\ batch'[t] = d
        /\ \A u \in Threads \ {t} : batch'[u] = batch[u]
        /\ acked' = acked \cup (Range(c) \ Malformed)
        /\ dropped' = dropped \cup (Range(c) \cap Malformed)
        /\ UNCHANGED <<buffer, accepted>>
    BY <1>0, <1>3 DEF SendOk, TypeOK
  <2>3. HandsEmpty'
    <3>1. ASSUME NEW u \in Threads, pc'[u] \notin {"send", "requeue"}
          PROVE  batch'[u] = << >>
      <4>1. CASE u = t
        BY <1>0, <1>3, <2>2, <3>1, <4>1 DEF SendOk, Goto, TypeOK
      <4>2. CASE u # t
        BY <1>0, <1>3, <2>2, <3>1, <4>2 DEF SendOk, Goto, TypeOK, HandsEmpty
      <4> QED  BY <4>1, <4>2
    <3> QED  BY <3>1 DEF HandsEmpty
  <2> HIDE DEF c, d
  <2>4. Range(buffer) \cap Range(c) = {} /\ Range(c) \cap (acked \cup dropped) = {}
        /\ Range(buffer) \cap Range(d) = {} /\ Range(d) \cap (acked \cup dropped) = {}
    BY <1>a, <2>1
  <2>5. ExactlyOnePlace'
    <3>1. IsInjective(buffer') /\ IsInjective(batch'[t])
      BY <1>a, <2>1, <2>2
    <3>2. Range(buffer') \cup Range(batch'[t]) \cup acked' \cup dropped' =
               Range(buffer) \cup Range(batch[t]) \cup acked \cup dropped
      BY <2>1, <2>2
    <3>3. /\ Range(buffer') \cap Range(batch'[t]) = {}
          /\ (Range(buffer') \cup Range(batch'[t])) \cap (acked' \cup dropped') = {}
          /\ acked' \cap dropped' = {}
      BY <1>a, <2>1, <2>2, <2>4
    <3> QED  BY <1>0, <2>2, <3>1, <3>2, <3>3, MoveKeepsPlaces
  <2> QED  BY <1>0, <2>3, <2>5 DEF Places
<1>4. ASSUME NEW t \in Threads, SendFails(t) PROVE Places'
  <2> DEFINE c == Chunk(batch[t])
             d == Rest(batch[t])
  <2>1. /\ Range(batch[t]) = Range(c) \cup Range(d)
        /\ Range(c) \cap Range(d) = {}
    BY <1>a, <1>b, ChunkRest
  <2>2. PICK a : IsAppended(a, c) /\ batch' = [batch EXCEPT ![t] = Unsent(a, batch[t])]
    BY <1>4 DEF SendFails
  <2>3. /\ batch'[t] = Unsent(a, batch[t])
        /\ \A u \in Threads \ {t} : batch'[u] = batch[u]
        /\ dropped' = dropped \cup (Range(c) \cap Malformed)
        /\ UNCHANGED <<buffer, accepted, acked>>
    BY <1>0, <1>4, <2>2 DEF SendFails, TypeOK
  <2>4. HandsEmpty'
    BY <1>0, <1>4, <2>3 DEF SendFails, Goto, TypeOK, HandsEmpty
  <2>5. /\ Range(batch'[t]) = (Range(c) \ Malformed) \cup Range(d)
        /\ IsInjective(batch'[t])
    BY <1>a, <1>b, <2>2, <2>3, UnsentRows
  <2> HIDE DEF c, d
  <2>6. Range(buffer) \cap Range(c) = {} /\ Range(c) \cap (acked \cup dropped) = {}
        /\ Range(buffer) \cap Range(d) = {} /\ Range(d) \cap (acked \cup dropped) = {}
    BY <1>a, <2>1
  <2>7. ExactlyOnePlace'
    <3>2. Range(buffer') \cup Range(batch'[t]) \cup acked' \cup dropped' =
               Range(buffer) \cup Range(batch[t]) \cup acked \cup dropped
      BY <2>1, <2>3, <2>5
    <3>3. /\ Range(buffer') \cap Range(batch'[t]) = {}
          /\ (Range(buffer') \cup Range(batch'[t])) \cap (acked' \cup dropped') = {}
          /\ acked' \cap dropped' = {}
      BY <1>a, <2>1, <2>3, <2>5, <2>6
    <3> QED  BY <1>0, <1>a, <2>3, <2>5, <3>2, <3>3, MoveKeepsPlaces
  <2> QED  BY <1>0, <2>4, <2>7 DEF Places
<1>5. ASSUME NEW t \in Threads, Requeue(t) PROVE Places'
  <2> DEFINE all == batch[t] \o buffer
  <2>1. /\ all \in Seq(Row)
        /\ Range(all) = Range(batch[t]) \cup Range(buffer)
        /\ IsInjective(all)
    BY <1>a, <1>b, ConcatSeq
  <2>2. /\ Range(all) = Range(CutOff(all)) \cup Range(Kept(all))
        /\ IsInjective(Kept(all))
        /\ Range(CutOff(all)) \cap Range(Kept(all)) = {}
    BY <2>1, CutOffKept
  <2>3. /\ batch'[t] = << >>
        /\ \A u \in Threads \ {t} : batch'[u] = batch[u]
        /\ buffer' = Kept(all)
        /\ dropped' = dropped \cup Range(CutOff(all))
        /\ UNCHANGED <<accepted, acked>>
    BY <1>0, <1>5 DEF Requeue, TypeOK
  <2>4. HandsEmpty'
    BY <1>0, <1>5, <2>3 DEF Requeue, Goto, TypeOK, HandsEmpty
  <2> HIDE DEF all
  <2>5. Range(batch'[t]) = {} /\ IsInjective(batch'[t])
    BY <2>3, EmptySeqFacts
  <2>6. Range(all) \cap (acked \cup dropped) = {}
    BY <1>a, <2>1
  <2>7. ExactlyOnePlace'
    <3>2. Range(buffer') \cup Range(batch'[t]) \cup acked' \cup dropped' =
               Range(buffer) \cup Range(batch[t]) \cup acked \cup dropped
      BY <2>1, <2>2, <2>3, <2>5
    <3>3. /\ Range(buffer') \cap Range(batch'[t]) = {}
          /\ (Range(buffer') \cup Range(batch'[t])) \cap (acked' \cup dropped') = {}
          /\ acked' \cap dropped' = {}
      BY <1>a, <2>2, <2>3, <2>5, <2>6
    <3>4. IsInjective(buffer')
      BY <2>2, <2>3
    <3> QED  BY <1>0, <2>3, <2>5, <3>2, <3>3, <3>4, MoveKeepsPlaces
  <2> QED  BY <1>0, <2>4, <2>7 DEF Places
<1>6. ASSUME UNCHANGED <<buffer, batch, accepted, acked, dropped>>
      PROVE  ExactlyOnePlace'
  BY <1>0, <1>6 DEF ExactlyOnePlace, EachPlaceDistinct, PlacesDisjoint,
                    AllAccountedFor, InFlight
<1>7. ASSUME NEW t \in Threads, SkipDrain(t) \/ PrepareFails(t) PROVE Places'
  <2>1. HandsEmpty'
    BY <1>0, <1>7 DEF HandsEmpty, SkipDrain, PrepareFails, Entry, Goto, TypeOK
  <2> QED  BY <1>0, <1>6, <1>7, <2>1 DEF Places, SkipDrain, PrepareFails
<1>8. ASSUME NEW w \in Workers, WorkerExit(w) PROVE Places'
  <2>1. HandsEmpty'
    BY <1>0, <1>8 DEF HandsEmpty, WorkerExit, Goto, TypeOK, Threads
  <2> QED  BY <1>0, <1>6, <1>8, <2>1 DEF Places, WorkerExit
<1>9. CASE TimerExit \/ MainStep
  <2>1. HandsEmpty'
    BY <1>0, <1>9 DEF HandsEmpty, TimerExit, MainStep, StartFinalDrain,
       FinalDrainReturns, FinalDrainRetries, Exit, Goto, TypeOK, Threads
  <2> QED
    BY <1>0, <1>6, <1>9, <2>1 DEF Places, TimerExit, MainStep, StartFinalDrain,
       FinalDrainReturns, FinalDrainRetries, Exit
<1>10. CASE BackoffElapses \/ Cancel \/ Outage \/ Recover \/ UNCHANGED vars
  <2>1. UNCHANGED <<pc, buffer, batch, accepted, acked, dropped>>
    BY <1>10 DEF BackoffElapses, Cancel, Outage, Recover, vars
  <2>2. HandsEmpty'
    BY <1>0, <2>1 DEF HandsEmpty
  <2> QED  BY <1>0, <1>6, <2>1, <2>2 DEF Places
<1> QED
  BY <1>1, <1>2, <1>3, <1>4, <1>5, <1>7, <1>8, <1>9, <1>10
     DEF Next, Drain, Terminated

LEMMA PlacesInvariant == Spec => []Places
<1>1. Init => Places
  BY InitPlaces
<1>2. Places /\ [Next]_vars => Places'
  BY NextPlaces
<1> QED  BY <1>1, <1>2, PTL DEF Spec

(* No row handed to Add is ever lost track of or doubled, for any number   *)
(* of overlapping drains.                                                  *)
THEOREM RowsConserved == Spec => []ExactlyOnePlace
<1>1. Places => ExactlyOnePlace
  BY DEF Places
<1> QED  BY <1>1, PlacesInvariant, PTL

-----------------------------------------------------------------------------
(* What follows from conservation.                                         *)

LEMMA NextDropCounter ==
    Places /\ DropCounterExact /\ [Next]_vars => DropCounterExact'
<1> SUFFICES ASSUME Places, DropCounterExact, [Next]_vars PROVE DropCounterExact'
  OBVIOUS
<1>0. TypeOK /\ ExactlyOnePlace /\ dropped \subseteq Row
      /\ rowsDropped = Cardinality(dropped)
  BY DEF Places, TypeOK, DropCounterExact
<1>a. \A t \in Threads : /\ batch[t] \in Seq(Row) /\ IsInjective(batch[t])
                         /\ Range(batch[t]) \cap dropped = {}
  BY <1>0 DEF TypeOK, ExactlyOnePlace, EachPlaceDistinct, PlacesDisjoint, InFlight
<1>1. ASSUME NEW t \in Threads,
             dropped' = dropped \cup (Range(Chunk(batch[t])) \cap Malformed),
             rowsDropped' = rowsDropped
                              + Cardinality(Range(Chunk(batch[t])) \cap Malformed)
      PROVE  DropCounterExact'
  <2> DEFINE bad == Range(Chunk(batch[t])) \cap Malformed
  <2>1. Chunk(batch[t]) \in Seq(Row)
        /\ Range(Chunk(batch[t])) \subseteq Range(batch[t])
    BY <1>a, ChunkRest
  <2>2. bad \subseteq Row /\ bad \cap dropped = {}
    BY <1>a, <2>1, RangeOfSeq
  <2>3. dropped' = dropped \cup bad /\ rowsDropped' = rowsDropped + Cardinality(bad)
    BY <1>1
  <2> HIDE DEF bad
  <2>4. Cardinality(dropped \cup bad) = Cardinality(dropped) + Cardinality(bad)
    <3>1. IsFiniteSet(dropped) /\ IsFiniteSet(bad)
      BY <1>0, <2>2, RowsFinite
    <3> QED  BY <2>2, <3>1, DisjointUnion
  <2> QED  BY <1>0, <2>3, <2>4 DEF DropCounterExact
<1>2. ASSUME NEW t \in Threads, Requeue(t) PROVE DropCounterExact'
  <2> DEFINE all == batch[t] \o buffer
             cut == CutOff(all)
  <2>0. /\ buffer \in Seq(Row) /\ IsInjective(buffer)
        /\ Range(batch[t]) \cap Range(buffer) = {}
        /\ Range(buffer) \cap dropped = {}
    BY <1>0 DEF TypeOK, ExactlyOnePlace, EachPlaceDistinct, PlacesDisjoint, InFlight
  <2>1. /\ all \in Seq(Row) /\ IsInjective(all)
        /\ Range(all) = Range(batch[t]) \cup Range(buffer)
    BY <1>a, <2>0, ConcatSeq
  <2>2. /\ cut \in Seq(Row) /\ Len(cut) = Over(all) /\ IsInjective(cut)
        /\ Range(cut) \subseteq Range(all)
    <3> HIDE DEF all
    <3> QED  BY <2>1, CutOffKept
  <2>3. dropped' = dropped \cup Range(cut) /\ rowsDropped' = rowsDropped + Over(all)
    BY <1>2 DEF Requeue
  <2> HIDE DEF cut, all
  <2>4. Cardinality(Range(cut)) = Over(all) /\ Range(cut) \subseteq Row
    BY <2>2, InjectiveLength, RangeOfSeq
  <2>5. dropped \cap Range(cut) = {}
    BY <1>a, <2>0, <2>1, <2>2
  <2>6. Cardinality(dropped \cup Range(cut)) = Cardinality(dropped) + Over(all)
    <3>1. IsFiniteSet(dropped) /\ IsFiniteSet(Range(cut))
      BY <1>0, <2>4, RowsFinite
    <3> QED  BY <2>4, <2>5, <3>1, DisjointUnion
  <2> QED  BY <1>0, <2>3, <2>6 DEF DropCounterExact
<1>3. ASSUME UNCHANGED <<dropped, rowsDropped>> PROVE DropCounterExact'
  BY <1>0, <1>3 DEF DropCounterExact
<1>4. ASSUME NEW t \in Threads, SendOk(t) \/ SendFails(t) PROVE DropCounterExact'
  BY <1>1, <1>4 DEF SendOk, SendFails
<1>5. ASSUME NEW w \in Workers, Add(w) \/ WorkerExit(w) PROVE DropCounterExact'
  BY <1>3, <1>5 DEF Add, WorkerExit
<1>6. ASSUME NEW t \in Threads, SkipDrain(t) \/ TakeBuffer(t) \/ PrepareFails(t)
      PROVE DropCounterExact'
  BY <1>3, <1>6 DEF SkipDrain, TakeBuffer, PrepareFails
<1>7. CASE TimerExit \/ MainStep
  BY <1>3, <1>7 DEF TimerExit, MainStep, StartFinalDrain, FinalDrainReturns,
                    FinalDrainRetries, Exit
<1>8. CASE BackoffElapses \/ Cancel \/ Outage \/ Recover \/ UNCHANGED vars
  BY <1>3, <1>8 DEF BackoffElapses, Cancel, Outage, Recover, vars
<1> QED  BY <1>2, <1>4, <1>5, <1>6, <1>7, <1>8 DEF Next, Drain, Terminated

(* enricher_clickhouse_rows_dropped_total counts each given-up row once,   *)
(* whatever sends were retried.                                            *)
THEOREM DropsCountedOnce == Spec => []DropCounterExact
<1>1. Init => DropCounterExact
  BY FS_EmptySet DEF Init, DropCounterExact
<1>2. Places /\ DropCounterExact /\ [Next]_vars => DropCounterExact'
  BY NextDropCounter
<1> QED  BY <1>1, <1>2, PlacesInvariant, PTL DEF Spec

(* A well-formed row is given up only by a re-queue that leaves the buffer *)
(* full to the cap and the back-off running.                               *)
THEOREM NoLossBelowCap == Spec => LossIsLastResort
<1> DEFINE LastResort == \A r \in dropped' \ dropped :
              r \in Malformed \/ (backoff' /\ Len(buffer') = MaxBuffer)
<1>1. TypeOK /\ [Next]_vars => [LastResort]_vars
  <2> SUFFICES ASSUME TypeOK, Next PROVE LastResort \/ UNCHANGED vars
    OBVIOUS
  <2>1. ASSUME NEW t \in Threads, Requeue(t) PROVE LastResort
    <3> DEFINE all == batch[t] \o buffer
    <3>1. all \in Seq(Row)
      BY ConcatSeq DEF TypeOK
    <3>2. /\ Over(all) \in Nat /\ Len(CutOff(all)) = Over(all)
          /\ CutOff(all) \in Seq(Row)
          /\ Over(all) > 0 => Len(Kept(all)) = MaxBuffer
      BY <3>1, CutOffKept
    <3>3. backoff' /\ buffer' = Kept(all) /\ dropped' = dropped \cup Range(CutOff(all))
      BY <2>1 DEF Requeue
    <3> HIDE DEF all
    <3>4. Over(all) = 0 => Range(CutOff(all)) = {}
      <4>1. ASSUME Over(all) = 0 PROVE CutOff(all) = << >>
        BY <3>2, <4>1, EmptySeq
      <4> QED  BY <4>1, EmptySeqFacts
    <3> QED  BY <3>2, <3>3, <3>4
  <2>2. ASSUME NEW t \in Threads, SendOk(t) \/ SendFails(t) PROVE LastResort
    BY <2>2 DEF SendOk, SendFails
  <2>3. CASE UNCHANGED dropped
    BY <2>3
  <2>4. ASSUME NEW w \in Workers, Add(w) \/ WorkerExit(w) PROVE UNCHANGED dropped
    BY <2>4 DEF Add, WorkerExit
  <2>5. ASSUME NEW t \in Threads, SkipDrain(t) \/ TakeBuffer(t) \/ PrepareFails(t)
        PROVE UNCHANGED dropped
    BY <2>5 DEF SkipDrain, TakeBuffer, PrepareFails
  <2>6. ASSUME TimerExit \/ MainStep PROVE UNCHANGED dropped
    BY <2>6 DEF TimerExit, MainStep, StartFinalDrain, FinalDrainReturns,
                FinalDrainRetries, Exit
  <2>7. ASSUME BackoffElapses \/ Cancel \/ Outage \/ Recover \/ Terminated
        PROVE UNCHANGED dropped
    BY <2>7 DEF BackoffElapses, Cancel, Outage, Recover, Terminated, vars
  <2> QED  BY <2>1, <2>2, <2>3, <2>4, <2>5, <2>6, <2>7 DEF Next, Drain
<1> QED  BY <1>1, TypeCorrect, PTL DEF Spec, LossIsLastResort

-----------------------------------------------------------------------------
(* The writer implements FlowSink.                                         *)

(* Steps that touch none of accepted, acked and dropped stutter. *)
LEMMA SinkStutters ==
    ASSUME UNCHANGED <<accepted, acked, dropped>>
    PROVE  UNCHANGED RowStatus
BY DEF RowStatus

(* A step that settles rows in the hands of one thread or in the buffer is *)
(* a Settle step of the sink.                                              *)
LEMMA SinkSettles ==
    ASSUME Places, NEW S, NEW D, S \cap D = {},
           S \cup D \subseteq Row,
           \A r \in S \cup D : /\ r \in 1..accepted
                               /\ r \notin acked \cup dropped,
           accepted' = accepted, acked' = acked \cup S, dropped' = dropped \cup D
    PROVE  Sink!FSNext
<1>1. acked \cap dropped = {} /\ accepted \in Nat
  BY SizesAssumption DEF Places, ExactlyOnePlace, PlacesDisjoint, TypeOK
<1>2. \A r \in S \cup D : RowStatus[r] = "pending"
  BY <1>1 DEF RowStatus, Row
<1>3. RowStatus' = [r \in Row |-> IF r \in S THEN "stored"
                                  ELSE IF r \in D THEN "dropped"
                                  ELSE RowStatus[r]]
  <2>1. ASSUME NEW r \in Row
        PROVE  RowStatus'[r] = IF r \in S THEN "stored"
                               ELSE IF r \in D THEN "dropped"
                               ELSE RowStatus[r]
    BY <1>1 DEF RowStatus, Row
  <2> QED  BY <2>1 DEF RowStatus
<1>4. Sink!Settle(S, D)
  BY <1>2, <1>3 DEF Sink!Settle
<1>5. S \in SUBSET Row /\ D \in SUBSET Row
  OBVIOUS
<1> QED  BY <1>4, <1>5 DEF Sink!FSNext

LEMMA RowsInHand ==
    ASSUME Places, NEW t \in Threads
    PROVE  /\ batch[t] \in Seq(Row) /\ buffer \in Seq(Row)
           /\ \A r \in Range(batch[t]) \cup Range(buffer) :
                 /\ r \in Row /\ r \in 1..accepted
                 /\ r \notin acked \cup dropped
<1>1. batch[t] \in Seq(Row) /\ buffer \in Seq(Row)
  BY DEF Places, TypeOK
<1>2. Range(batch[t]) \subseteq Row /\ Range(buffer) \subseteq Row
  BY <1>1, RangeOfSeq
<1>3. /\ Range(batch[t]) \cap (acked \cup dropped) = {}
      /\ Range(buffer) \cap (acked \cup dropped) = {}
  BY DEF Places, ExactlyOnePlace, PlacesDisjoint, InFlight
<1>4. Range(batch[t]) \cup Range(buffer) \subseteq 1..accepted
  <2> DEFINE all == UNION {Range(batch[u]) : u \in Threads}
  <2>1. 1..accepted = Range(buffer) \cup all \cup acked \cup dropped
    BY DEF Places, ExactlyOnePlace, AllAccountedFor, InFlight
  <2>2. Range(batch[t]) \subseteq all
    OBVIOUS
  <2> HIDE DEF all
  <2> QED  BY <2>1, <2>2
<1> QED  BY <1>1, <1>2, <1>3, <1>4

(* Whatever BatchWriter does is what FlowSink allows: a row is accepted,   *)
(* then stored or dropped once, and never changes again.                   *)
THEOREM WriterImplementsSink == Spec => ImplementsSink
<1>1. Init => Sink!FSInit
  <2> SUFFICES ASSUME Init PROVE Sink!FSInit
    OBVIOUS
  <2>1. \A r \in Row : r > accepted
    BY SizesAssumption DEF Init, Row
  <2> QED  BY <2>1 DEF Sink!FSInit, RowStatus
<1>2. Places /\ [Next]_vars => [Sink!FSNext]_RowStatus
  <2> SUFFICES ASSUME Places, [Next]_vars
               PROVE  Sink!FSNext \/ UNCHANGED RowStatus
    OBVIOUS
  <2>1. ASSUME NEW w \in Workers, Add(w) PROVE Sink!FSNext
    <3> DEFINE r == accepted + 1
    <3>1. /\ accepted \in Nat /\ r \in Row /\ accepted' = r
          /\ acked' = acked /\ dropped' = dropped
      BY <2>1, SizesAssumption DEF Add, Places, TypeOK, Row
    <3>2. acked \cup dropped \subseteq 1..accepted
      BY DEF Places, ExactlyOnePlace, AllAccountedFor
    <3>3. r \notin acked /\ r \notin dropped
      BY <3>1, <3>2
    <3>4. RowStatus[r] = "new"
      BY <3>1 DEF RowStatus
    <3>5. RowStatus' = [RowStatus EXCEPT ![r] = "pending"]
      <4>1. ASSUME NEW q \in Row
            PROVE  RowStatus'[q] = IF q = r THEN "pending" ELSE RowStatus[q]
        BY <3>1, <3>3 DEF RowStatus, Row
      <4> QED  BY <3>1, <4>1 DEF RowStatus
    <3> QED  BY <3>1, <3>4, <3>5 DEF Sink!FSNext, Sink!Accept
  <2>2. ASSUME NEW t \in Threads, SendOk(t) PROVE Sink!FSNext
    <3> DEFINE c == Range(Chunk(batch[t]))
    <3>1. c \subseteq Range(batch[t])
      BY RowsInHand, ChunkRest
    <3>2. \A r \in c : r \in Row /\ r \in 1..accepted /\ r \notin acked \cup dropped
      BY <3>1, RowsInHand
    <3>3. /\ accepted' = accepted /\ acked' = acked \cup (c \ Malformed)
          /\ dropped' = dropped \cup (c \cap Malformed)
      BY <2>2 DEF SendOk
    <3> HIDE DEF c
    <3> QED  BY <3>2, <3>3, SinkSettles
  <2>3. ASSUME NEW t \in Threads, SendFails(t) PROVE Sink!FSNext
    <3> DEFINE c == Range(Chunk(batch[t]))
    <3>1. c \subseteq Range(batch[t])
      BY RowsInHand, ChunkRest
    <3>2. \A r \in c : r \in Row /\ r \in 1..accepted /\ r \notin acked \cup dropped
      BY <3>1, RowsInHand
    <3>3. /\ accepted' = accepted /\ acked' = acked \cup {}
          /\ dropped' = dropped \cup (c \cap Malformed)
      BY <2>3 DEF SendFails
    <3> HIDE DEF c
    <3> QED  BY <3>2, <3>3, SinkSettles
  <2>4. ASSUME NEW t \in Threads, Requeue(t) PROVE Sink!FSNext
    <3> DEFINE all == batch[t] \o buffer
               c == Range(CutOff(all))
    <3>1. all \in Seq(Row) /\ Range(all) = Range(batch[t]) \cup Range(buffer)
      BY RowsInHand, ConcatSeq
    <3>2. c \subseteq Range(all)
      <4> HIDE DEF all
      <4> QED  BY <3>1, CutOffKept
    <3>3. /\ accepted' = accepted /\ acked' = acked \cup {}
          /\ dropped' = dropped \cup c
      BY <2>4 DEF Requeue
    <3> HIDE DEF all, c
    <3>4. \A r \in c : r \in Row /\ r \in 1..accepted /\ r \notin acked \cup dropped
      BY <3>1, <3>2, RowsInHand
    <3> QED  BY <3>3, <3>4, SinkSettles
  <2>5. ASSUME NEW t \in Threads, SkipDrain(t) \/ TakeBuffer(t) \/ PrepareFails(t)
        PROVE  UNCHANGED RowStatus
    BY <2>5, SinkStutters DEF SkipDrain, TakeBuffer, PrepareFails
  <2>6. ASSUME NEW w \in Workers, WorkerExit(w) PROVE UNCHANGED RowStatus
    BY <2>6, SinkStutters DEF WorkerExit
  <2>7. ASSUME TimerExit \/ MainStep PROVE UNCHANGED RowStatus
    BY <2>7, SinkStutters DEF TimerExit, MainStep, StartFinalDrain,
       FinalDrainReturns, FinalDrainRetries, Exit
  <2>8. ASSUME BackoffElapses \/ Cancel \/ Outage \/ Recover \/ UNCHANGED vars
        PROVE  UNCHANGED RowStatus
    BY <2>8, SinkStutters DEF BackoffElapses, Cancel, Outage, Recover, vars
  <2> QED  BY <2>1, <2>2, <2>3, <2>4, <2>5, <2>6, <2>7, <2>8
              DEF Next, Drain, Terminated
<1> QED  BY <1>1, <1>2, PlacesInvariant, PTL DEF Spec, ImplementsSink, Sink!FSSpec

-----------------------------------------------------------------------------
(* Shutdown and the healthy buffer.                                        *)

(* Workers stay done, so main finds them done for as long as it drains. *)
WaitOver == pc[Main] # "wait" => WorkersDone

LEMMA NextWaitOver == TypeOK /\ WaitOver /\ [Next]_vars => WaitOver'
<1> SUFFICES ASSUME TypeOK, WaitOver, [Next]_vars PROVE WaitOver'
  OBVIOUS
<1>1. ASSUME NEW w \in Workers, Add(w) \/ WorkerExit(w) PROVE WaitOver'
  BY <1>1, ThreadsAssumption
     DEF Add, WorkerExit, Goto, WaitOver, WorkersDone, TypeOK, Threads
<1>2. ASSUME NEW t \in Threads, Drain(t) PROVE WaitOver'
  <2>1. /\ pc[t] \notin {"done", "wait"} \/ t = Timer
        /\ \E l : Goto(t, l) /\ l # "wait"
    BY <1>2 DEF Drain, SkipDrain, TakeBuffer, SendOk, PrepareFails, SendFails,
                Requeue, Entry, After
  <2> QED  BY <2>1, ThreadsAssumption DEF Goto, WaitOver, WorkersDone, TypeOK, Threads
<1>3. CASE TimerExit \/ MainStep
  BY <1>3, ThreadsAssumption DEF TimerExit, MainStep, StartFinalDrain,
     FinalDrainReturns, FinalDrainRetries, Exit, Goto, WaitOver, WorkersDone,
     TypeOK, Threads
<1>4. CASE BackoffElapses \/ Cancel \/ Outage \/ Recover \/ UNCHANGED vars
  BY <1>4 DEF BackoffElapses, Cancel, Outage, Recover, vars, WaitOver, WorkersDone
<1> QED  BY <1>1, <1>2, <1>3, <1>4 DEF Next, Terminated

(* From wg.Wait() on, whatever is not settled is in the buffer, in the     *)
(* hands of FinalDrain or in those of the timer, which nobody waits for.   *)
THEOREM OnlyTimerIsUnwaited == Spec => []OnlyTimerOutlivesWait
<1>1. Init => WaitOver
  BY ThreadsAssumption DEF Init, WaitOver, Threads
<1>2. Places /\ WaitOver => OnlyTimerOutlivesWait
  <2> SUFFICES ASSUME Places, WaitOver, pc[Main] # "wait", NEW r \in Unsettled
               PROVE  r \in Range(buffer) \cup InFlight(Main) \cup InFlight(Timer)
    BY DEF OnlyTimerOutlivesWait
  <2>1. \A w \in Workers : InFlight(w) = {}
    <3>1. \A w \in Workers : batch[w] = << >>
      BY DEF Places, HandsEmpty, WaitOver, WorkersDone, Threads
    <3> QED  BY <3>1, EmptySeqFacts DEF InFlight
  <2> DEFINE all == UNION {InFlight(t) : t \in Threads}
  <2>2. 1..accepted = Range(buffer) \cup all \cup acked \cup dropped
    BY DEF Places, ExactlyOnePlace, AllAccountedFor
  <2>3. all \subseteq InFlight(Main) \cup InFlight(Timer)
    BY <2>1 DEF Threads
  <2> HIDE DEF all
  <2> QED  BY <2>2, <2>3 DEF Unsettled
<1> QED  BY <1>1, <1>2, NextWaitOver, TypeCorrect, PlacesInvariant, PTL DEF Spec

(* Until the first outage no send fails, so every row above maxSize - 1    *)
(* was appended by a worker that is about to flush.                        *)
Flushing == {w \in Workers : pc[w] = "flush"}

Healthy ==
    outages = 0 =>
        /\ reachable
        /\ ~backoff
        /\ \A t \in Threads : pc[t] # "requeue"
        /\ Len(buffer) < MaxSize + Cardinality(Flushing)

LEMMA FlushingCount ==
    /\ IsFiniteSet(Flushing) /\ Cardinality(Flushing) \in Nat
    /\ Cardinality(Workers) \in Nat
    /\ Cardinality(Flushing) <= Cardinality(Workers)
BY ThreadsAssumption, FS_Subset, FS_CardinalityType DEF Flushing

LEMMA NextHealthy == TypeOK /\ Healthy /\ [Next]_vars => Healthy'
<1> SUFFICES ASSUME TypeOK, Healthy, [Next]_vars, outages' = 0
             PROVE  /\ reachable' /\ ~backoff'
                    /\ \A t \in Threads : pc'[t] # "requeue"
                    /\ Len(buffer') < MaxSize + Cardinality(Flushing')
  BY DEF Healthy
<1>0. /\ Len(buffer) \in Nat /\ MaxSize \in Nat \ {0}
      /\ Cardinality(Flushing) \in Nat /\ outages \in Nat
      /\ pc \in [Threads -> WorkerPC \cup TimerPC \cup MainPC]
  BY SizesAssumption, FlushingCount, LenProperties DEF TypeOK
<1>a. IsFiniteSet(Flushing') /\ Cardinality(Flushing') \in Nat
  BY ThreadsAssumption, FS_Subset, FS_CardinalityType DEF Flushing
<1>b. ASSUME outages = 0
      PROVE  /\ reachable /\ ~backoff
             /\ \A t \in Threads : pc[t] # "requeue"
             /\ Len(buffer) < MaxSize + Cardinality(Flushing)
  BY <1>b DEF Healthy
<1>1. ASSUME NEW w \in Workers, Add(w)
      PROVE  /\ reachable' /\ ~backoff'
             /\ \A t \in Threads : pc'[t] # "requeue"
             /\ Len(buffer') < MaxSize + Cardinality(Flushing')
  <2>1. /\ outages = 0 /\ UNCHANGED <<reachable, backoff>> /\ w \in Threads
        /\ pc[w] = "idle" /\ buffer' = Append(buffer, accepted + 1)
        /\ IF Len(buffer') >= MaxSize THEN Goto(w, "flush") ELSE UNCHANGED pc
    BY <1>1 DEF Add, ShouldFlush, Threads
  <2>2. Len(buffer') = Len(buffer) + 1
    BY <1>0, <2>1 DEF TypeOK
  <2>3. CASE Len(buffer') >= MaxSize
    <3>1. pc' = [pc EXCEPT ![w] = "flush"]
      BY <2>1, <2>3 DEF Goto
    <3>2. Flushing' = Flushing \cup {w} /\ w \notin Flushing
      BY <1>0, <2>1, <3>1 DEF Flushing, Threads
    <3>3. Cardinality(Flushing') = Cardinality(Flushing) + 1
      BY <3>2, FlushingCount, FS_AddElement
    <3> QED  BY <1>0, <1>b, <2>1, <2>2, <3>1, <3>3
  <2>4. CASE Len(buffer') < MaxSize
    <3>1. UNCHANGED pc
      BY <1>0, <2>1, <2>2, <2>4
    <3> QED  BY <1>0, <1>a, <1>b, <2>1, <2>2, <2>4, <3>1
  <2> QED  BY <1>0, <2>2, <2>3, <2>4
<1>2. ASSUME NEW t \in Threads, Drain(t)
      PROVE  /\ reachable' /\ ~backoff'
             /\ \A u \in Threads : pc'[u] # "requeue"
             /\ Len(buffer') < MaxSize + Cardinality(Flushing')
  <2>1. outages = 0
    BY <1>2 DEF Drain, SkipDrain, TakeBuffer, SendOk, PrepareFails, SendFails, Requeue
  <2>2. CASE SkipDrain(t) \/ TakeBuffer(t)
    <3>1. /\ UNCHANGED <<reachable, backoff>>
          /\ Goto(t, After(t)) \/ Goto(t, "send")
      BY <2>2 DEF SkipDrain, TakeBuffer
    <3>2. buffer' = << >> \/ (t = Main /\ UNCHANGED buffer)
      BY <1>b, <2>1, <2>2 DEF SkipDrain, TakeBuffer, MayDrain
    <3>3. t = Main => Flushing' = Flushing
      BY <1>0, <3>1, ThreadsAssumption DEF Flushing, Goto, Threads
    <3>4. Len(buffer') < MaxSize + Cardinality(Flushing')
      BY <1>0, <1>a, <1>b, <2>1, <3>2, <3>3
    <3> QED  BY <1>0, <1>b, <2>1, <3>1, <3>4 DEF Goto, After
  <2>3. CASE SendOk(t)
    <3>1. /\ UNCHANGED <<reachable, backoff, buffer>> /\ pc[t] = "send"
          /\ \E l \in {After(t), "send"} : Goto(t, l)
      BY <2>3 DEF SendOk
    <3>2. Flushing' = Flushing
      BY <1>0, <3>1 DEF Flushing, Goto, After
    <3> QED  BY <1>0, <1>b, <2>1, <3>1, <3>2 DEF Goto, After
  <2> QED  BY <1>b, <1>2, <2>1, <2>2, <2>3 DEF Drain, PrepareFails, SendFails, Requeue
<1>3. ASSUME NEW w \in Workers, WorkerExit(w)
      PROVE  /\ reachable' /\ ~backoff'
             /\ \A t \in Threads : pc'[t] # "requeue"
             /\ Len(buffer') < MaxSize + Cardinality(Flushing')
  <2>1. Flushing' = Flushing
    BY <1>0, <1>3 DEF WorkerExit, Goto, Flushing, Threads
  <2> QED  BY <1>0, <1>b, <1>3, <2>1 DEF WorkerExit, Goto
<1>4. CASE TimerExit \/ MainStep
  <2>1. UNCHANGED <<outages, reachable, backoff, buffer>>
    BY <1>4 DEF TimerExit, MainStep, StartFinalDrain, FinalDrainReturns,
                FinalDrainRetries, Exit
  <2>2. Flushing' = Flushing
    BY <1>0, <1>4, ThreadsAssumption DEF TimerExit, MainStep, StartFinalDrain,
       FinalDrainReturns, FinalDrainRetries, Exit, Goto, Flushing, Threads
  <2>3. (\A t \in Threads : pc[t] # "requeue") => \A t \in Threads : pc'[t] # "requeue"
    BY <1>0, <1>4 DEF TimerExit, MainStep, StartFinalDrain, FinalDrainReturns,
       FinalDrainRetries, Exit, Goto
  <2> QED  BY <1>b, <2>1, <2>2, <2>3
<1>5. CASE BackoffElapses \/ Cancel \/ Outage \/ Recover \/ UNCHANGED vars
  <2>1. UNCHANGED <<pc, buffer>> /\ Flushing' = Flushing
    BY <1>5 DEF BackoffElapses, Cancel, Outage, Recover, vars, Flushing
  <2>2. outages = 0 /\ ~Outage
    BY <1>0, <1>5 DEF BackoffElapses, Cancel, Outage, Recover, vars
  <2>3. reachable /\ ~backoff
    BY <1>b, <2>2
  <2>4. CASE Recover
    BY <2>3, <2>4 DEF Recover
  <2>5. CASE BackoffElapses \/ Cancel \/ UNCHANGED vars
    <3>1. UNCHANGED <<reachable, backoff>>
      BY <2>3, <2>5 DEF BackoffElapses, Cancel, vars
    <3> QED  BY <1>b, <2>1, <2>2, <3>1
  <2> QED  BY <1>5, <2>2, <2>4, <2>5
<1> QED  BY <1>1, <1>2, <1>3, <1>4, <1>5 DEF Next, Terminated

(* While ClickHouse has never failed, the buffer exceeds maxSize by fewer  *)
(* rows than there are workers, although Add checks no cap.                *)
THEOREM HealthyBufferIsSmall == Spec => []HealthyBufferBound
<1>1. Init => Healthy
  <2> SUFFICES ASSUME Init PROVE Healthy
    OBVIOUS
  <2>1. Len(buffer) = 0 /\ reachable /\ ~backoff
    BY DEF Init
  <2>2. \A t \in Threads : pc[t] # "requeue"
    BY DEF Init
  <2> QED  BY <2>1, <2>2, FlushingCount, SizesAssumption DEF Healthy
<1>2. TypeOK /\ Healthy => HealthyBufferBound
  <2>1. TypeOK => Len(buffer) \in Nat
    BY LenProperties DEF TypeOK
  <2> QED  BY <2>1, FlushingCount, SizesAssumption DEF Healthy, HealthyBufferBound
<1> QED  BY <1>1, <1>2, NextHealthy, TypeCorrect, PTL DEF Spec

-----------------------------------------------------------------------------
(* FinalDrain with ClickHouse up.  Nothing enters "requeue" any more, so   *)
(* the only rows that can still come back to the buffer are those the      *)
(* timer was about to put back when FinalDrain started.  If they arrive    *)
(* before the check of the first round, the check sees them; if later,     *)
(* the first round has returned with an empty buffer.                      *)
LostLate == pc[Main] \notin {"returned", "exited"} => lost = 0

Forcing ==
    /\ lost = 0
    /\ pc[Main] \in {"drain", "send", "check", "returned", "exited"}
    /\ pc[Main] \in {"send", "check"} /\ (attempt > 0 \/ pc[Timer] = "requeue")
          => buffer = << >>
    /\ pc[Timer] = "requeue" => attempt = 0 \/ pc[Main] \in {"returned", "exited"}

LEMMA NextLostLate == TypeOK /\ LostLate /\ [Next]_vars => LostLate'
<1> SUFFICES ASSUME TypeOK, LostLate, [Next]_vars PROVE LostLate'
  OBVIOUS
<1>0. pc \in [Threads -> WorkerPC \cup TimerPC \cup MainPC] /\ Main \in Threads
  BY DEF TypeOK, Threads
<1>1. ASSUME NEW w \in Workers, Add(w) \/ WorkerExit(w) PROVE LostLate'
  BY <1>0, <1>1, ThreadsAssumption DEF Add, WorkerExit, Goto, LostLate, Threads
<1>2. ASSUME NEW t \in Threads, Drain(t) PROVE LostLate'
  <2>1. /\ UNCHANGED lost /\ pc[Main] # "exited"
        /\ \E l : Goto(t, l) /\ (t = Main => pc[t] \in {"drain", "send", "requeue"})
    BY <1>2 DEF Drain, SkipDrain, TakeBuffer, SendOk, PrepareFails, SendFails,
                Requeue, Entry, Running
  <2> QED  BY <1>0, <2>1 DEF Goto, LostLate
<1>3. CASE TimerExit \/ MainStep
  BY <1>0, <1>3, ThreadsAssumption DEF TimerExit, MainStep, StartFinalDrain,
     FinalDrainReturns, FinalDrainRetries, Exit, Goto, LostLate
<1>4. CASE BackoffElapses \/ Cancel \/ Outage \/ Recover \/ UNCHANGED vars
  BY <1>4 DEF BackoffElapses, Cancel, Outage, Recover, vars, LostLate
<1> QED  BY <1>1, <1>2, <1>3, <1>4 DEF Next, Terminated

LEMMA NextForcing ==
    ASSUME Attempts > 1
    PROVE  TypeOK /\ WaitOver /\ Forcing /\ reachable /\ [Next]_vars => Forcing'
<1> SUFFICES ASSUME TypeOK, WaitOver, Forcing, reachable, [Next]_vars PROVE Forcing'
  OBVIOUS
<1>0. /\ pc \in [Threads -> WorkerPC \cup TimerPC \cup MainPC]
      /\ Main \in Threads /\ Timer \in Threads /\ Timer # Main
      /\ attempt \in Nat /\ Attempts \in Nat
      /\ \A w \in Workers : w \in Threads /\ w # Main /\ w # Timer
  BY ThreadsAssumption, SizesAssumption DEF TypeOK, Threads
<1>1. pc[Main] # "wait"
  BY DEF Forcing
<1>2. \A w \in Workers : pc[w] = "done"
  BY <1>1 DEF WaitOver, WorkersDone
<1>3. ASSUME NEW w \in Workers, Add(w) \/ WorkerExit(w) PROVE Forcing'
  BY <1>2, <1>3 DEF Add, WorkerExit
<1>4. ASSUME NEW t \in Threads, Drain(t) PROVE Forcing'
  <2>1. t = Main \/ t = Timer
    BY <1>2, <1>4 DEF Drain, SkipDrain, TakeBuffer, SendOk, PrepareFails,
                      SendFails, Requeue, Entry, Threads
  <2>2. CASE SkipDrain(t)
    BY <1>0, <2>1, <2>2
       DEF SkipDrain, Entry, After, MayDrain, Goto, Forcing
  <2>3. CASE TakeBuffer(t)
    BY <1>0, <2>1, <2>3 DEF TakeBuffer, Entry, Goto, Forcing
  <2>4. CASE SendOk(t)
    <3>1. /\ UNCHANGED <<buffer, attempt, lost>> /\ pc[t] = "send"
          /\ Goto(t, "send") \/ Goto(t, After(t))
      BY <2>4 DEF SendOk
    <3> QED  BY <1>0, <2>1, <3>1 DEF After, Goto, Forcing
  <2>5. CASE Requeue(t)
    <3>1. /\ t = Timer /\ UNCHANGED <<attempt, lost>> /\ pc[t] = "requeue"
          /\ Goto(t, "idle")
      BY <2>1, <2>5, <1>0 DEF Requeue, After, Forcing
    <3>2. pc'[Timer] = "idle" /\ pc'[Main] = pc[Main]
      BY <1>0, <3>1 DEF Goto
    <3>3. attempt = 0 \/ pc[Main] \in {"returned", "exited"}
      BY <3>1 DEF Forcing
    <3> QED  BY <1>0, <3>1, <3>2, <3>3 DEF Forcing
  <2> QED  BY <1>4, <2>2, <2>3, <2>4, <2>5 DEF Drain, PrepareFails, SendFails
<1>5. CASE TimerExit
  BY <1>0, <1>5 DEF TimerExit, Goto, Forcing
<1>6. CASE StartFinalDrain \/ Exit
  BY <1>0, <1>1, <1>2, <1>6 DEF StartFinalDrain, Exit, Goto, Forcing
<1>7. CASE FinalDrainReturns
  <2>1. buffer = << >>
    <3>1. pc[Main] = "check" /\ (buffer = << >> \/ ~(attempt < Attempts - 1))
      BY <1>7 DEF FinalDrainReturns, MayRetry
    <3> QED  BY <1>0, <3>1 DEF Forcing
  <2>2. lost' = 0 /\ pc'[Main] = "returned" /\ pc'[Timer] = pc[Timer]
    BY <1>0, <1>7, <2>1, LenProperties DEF FinalDrainReturns, Goto
  <2> QED  BY <2>2 DEF Forcing
<1>8. CASE FinalDrainRetries
  BY <1>0, <1>8 DEF FinalDrainRetries, MayRetry, NextAttempt, Goto, Forcing
<1>9. CASE BackoffElapses \/ Cancel \/ Outage \/ Recover \/ UNCHANGED vars
  BY <1>9 DEF BackoffElapses, Cancel, Outage, Recover, vars, Forcing
<1> QED  BY <1>3, <1>4, <1>5, <1>6, <1>7, <1>8, <1>9 DEF Next, MainStep, Terminated

(* With at least two rounds (main.go:533 asks for five), FinalDrain loses  *)
(* no row to a failure before it: if ClickHouse answers from its start,    *)
(* it reports none lost, back-off or not, late re-queue or not.            *)
THEOREM DrainForces == Attempts > 1 => (Spec => FinalDrainForces)
<1> SUFFICES ASSUME Attempts > 1 PROVE Spec => FinalDrainForces
  OBVIOUS
<1> DEFINE Starts == pc[Main] = "drain" /\ attempt = 0
           NoneLost == lost = 0
<1>1. Init => LostLate /\ WaitOver
  BY ThreadsAssumption DEF Init, LostLate, WaitOver, Threads
<1>2. TypeOK /\ LostLate /\ WaitOver /\ Starts => Forcing
  BY DEF LostLate, WaitOver, Forcing
<1>3. TypeOK /\ WaitOver /\ Forcing /\ reachable /\ [Next]_vars => Forcing'
  BY NextForcing
<1>4. Forcing => NoneLost
  BY DEF Forcing
<1> HIDE DEF Starts, NoneLost
<1>5. Spec => [](Starts /\ []reachable => []NoneLost)
  BY <1>1, <1>2, <1>3, <1>4, NextLostLate, NextWaitOver, TypeCorrect, PTL DEF Spec
<1> QED  BY <1>5, PTL DEF FinalDrainForces, Starts, NoneLost
=============================================================================
