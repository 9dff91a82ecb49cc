------------------------ MODULE DnstapParserProofs -------------------------
(***************************************************************************)
(* Theorems about DnstapParser, for every set of texts of one kind each    *)
(* and every number of documents.                                          *)
(***************************************************************************)
EXTENDS DnstapParser, FiniteSetTheorems, TLAPS

-----------------------------------------------------------------------------
(* What one line more changes in what the lines say. *)

LEMMA SkippedNext ==
    ASSUME NEW t, NEW n \in Nat
    PROVE  Skipped(t, n + 2) <=>
               t[n + 1] # "label" /\ (t[n + 1] = "literal" \/ Skipped(t, n + 1))
<1>1. ASSUME Skipped(t, n + 2)
      PROVE  t[n + 1] # "label" /\ (t[n + 1] = "literal" \/ Skipped(t, n + 1))
  <2> PICK j \in 1..n + 1 :
        t[j] = "literal" /\ \A k \in j + 1..n + 1 : t[k] # "label"
    BY <1>1 DEF Skipped
  <2>1. CASE j = n + 1
    BY <2>1
  <2>2. CASE j # n + 1
    <3>1. j \in 1..n /\ n + 1 \in j + 1..n + 1
      BY <2>2
    <3>2. \A k \in j + 1..n : t[k] # "label"
      OBVIOUS
    <3> QED
      BY <3>1, <3>2 DEF Skipped
  <2> QED
    BY <2>1, <2>2
<1>2. ASSUME t[n + 1] = "literal"
      PROVE  Skipped(t, n + 2)
  BY <1>2 DEF Skipped
<1>3. ASSUME t[n + 1] # "label", Skipped(t, n + 1)
      PROVE  Skipped(t, n + 2)
  <2> PICK j \in 1..n :
        t[j] = "literal" /\ \A k \in j + 1..n : t[k] # "label"
    BY <1>3 DEF Skipped
  <2>1. \A k \in j + 1..n + 1 : t[k] # "label"
    BY <1>3
  <2> QED
    BY <2>1 DEF Skipped
<1> QED
  BY <1>1, <1>2, <1>3

LEMMA SaysNext ==
    ASSUME NEW t, NEW n \in Nat, NEW line
    PROVE  Says(t, n + 1, line) <=>
               \/ Says(t, n, line)
               \/ t[n + 1] = line /\ ~Skipped(t, n + 1)
BY DEF Says

LEMMA OpenNext ==
    ASSUME NEW t, NEW n \in Nat, NEW header
    PROVE  Open(t, n + 1, header) <=>
               \/ t[n + 1] = header /\ ~Skipped(t, n + 1)
               \/ Open(t, n, header) /\ t[n + 1] \in Items \cup {"label"}
<1>1. ASSUME Open(t, n + 1, header)
      PROVE  \/ t[n + 1] = header /\ ~Skipped(t, n + 1)
             \/ Open(t, n, header) /\ t[n + 1] \in Items \cup {"label"}
  <2> PICK j \in 1..n + 1 :
        /\ t[j] = header /\ ~Skipped(t, j)
        /\ \A k \in j + 1..n + 1 : t[k] \in Items \cup {"label"}
    BY <1>1 DEF Open
  <2>1. CASE j = n + 1
    BY <2>1
  <2>2. CASE j # n + 1
    <3>1. j \in 1..n /\ n + 1 \in j + 1..n + 1
      BY <2>2
    <3>2. \A k \in j + 1..n : t[k] \in Items \cup {"label"}
      OBVIOUS
    <3> QED
      BY <3>1, <3>2 DEF Open
  <2> QED
    BY <2>1, <2>2
<1>2. ASSUME t[n + 1] = header, ~Skipped(t, n + 1)
      PROVE  Open(t, n + 1, header)
  BY <1>2 DEF Open
<1>3. ASSUME Open(t, n, header), t[n + 1] \in Items \cup {"label"}
      PROVE  Open(t, n + 1, header)
  <2> PICK j \in 1..n :
        /\ t[j] = header /\ ~Skipped(t, j)
        /\ \A k \in j + 1..n : t[k] \in Items \cup {"label"}
    BY <1>3 DEF Open
  <2>1. \A k \in j + 1..n + 1 : t[k] \in Items \cup {"label"}
    BY <1>3
  <2> QED
    BY <2>1 DEF Open
<1> QED
  BY <1>1, <1>2, <1>3

LEMMA UnderNext ==
    ASSUME NEW t, NEW n \in Nat, NEW header
    PROVE  Under(t, n + 1, header) <=>
               t[n + 1] \in Items /\ ~Skipped(t, n + 1) /\ Open(t, n, header)
<1>1. n + 1 - 1 = n
  OBVIOUS
<1>2. Open(t, n + 1 - 1, header) <=> Open(t, n, header)
  BY <1>1
<1> QED
  BY <1>2 DEF Under

LEMMA NamedNext ==
    ASSUME NEW t, NEW n \in Nat
    PROVE  IsNamed(t, n + 1) <=>
               \/ IsNamed(t, n)
               \/ t[n + 1] \in Items /\ ~Skipped(t, n + 1) /\ Open(t, n, "question")
BY UnderNext DEF IsNamed

LEMMA AnsweredNext ==
    ASSUME NEW t, NEW n \in Nat
    PROVE  Answered(t, n + 1) =
               IF t[n + 1] = "address" /\ ~Skipped(t, n + 1) /\ Open(t, n, "answer")
               THEN Answered(t, n) \cup {n + 1} ELSE Answered(t, n)
<1>1. t[n + 1] = "address" /\ Under(t, n + 1, "answer") <=>
          t[n + 1] = "address" /\ ~Skipped(t, n + 1) /\ Open(t, n, "answer")
  BY UnderNext DEF Items
<1>2. 1..n + 1 = 1..n \cup {n + 1}
  OBVIOUS
<1> QED
  BY <1>1, <1>2 DEF Answered

LEMMA AnsweredIsFinite ==
    ASSUME NEW t, NEW n \in Nat
    PROVE  IsFiniteSet(Answered(t, n)) /\ Cardinality(Answered(t, n)) \in Nat
<1>1. IsFiniteSet(1..n)
  BY FS_Interval
<1>2. Answered(t, n) \subseteq 1..n
  BY DEF Answered
<1> QED
  BY <1>1, <1>2, FS_Subset, FS_CardinalityType

LEMMA NothingSaid ==
    ASSUME NEW t
    PROVE  /\ ~Skipped(t, 1)
           /\ \A x : ~Says(t, 0, x) /\ ~Open(t, 0, x)
           /\ ~IsNamed(t, 0) /\ Cardinality(Answered(t, 0)) = 0
<1>1. Answered(t, 0) = {}
  BY DEF Answered
<1> QED
  BY <1>1, FS_EmptySet DEF Skipped, Says, Open, IsNamed

-----------------------------------------------------------------------------
(* The parser's fields are what the lines heard so far say, unless some    *)
(* went missing.                                                           *)

Placed ==
    /\ text \in Texts \cup {<<>>}
    /\ heard => doc # 0 /\ text \in Texts /\ pos <= Len(text)

Matches ==
    /\ inLiteral <=> Skipped(text, pos + 1)
    /\ inLiteral => section = "none"
    /\ \A x \in Kinds : kind = x <=> Says(text, pos, x)
    /\ \A h \in {"question", "answer"} : section = h <=> Open(text, pos, h)
    /\ eventTime = IF Says(text, pos, "time") THEN doc ELSE None
    /\ clientIP = IF Says(text, pos, "client") THEN doc ELSE None
    /\ qname = IF IsNamed(text, pos) THEN doc ELSE None
    /\ Len(answers) = Cardinality(Answered(text, pos))
    /\ \A i \in 1..Len(answers) : answers[i] = doc

Follows ==
    ~lost => /\ inBlock = heard
             /\ heard => Matches

Understood == TypeOK /\ Placed /\ Follows

LEMMA EmptyIsSeq ==
    \A S : <<>> \in Seq(S) /\ Len(<<>>) = 0
OBVIOUS

LEMMA NothingHasType ==
    /\ Nothing \in [events : Seq(Answer), err : BOOLEAN]
    /\ Failure \in [events : Seq(Answer), err : BOOLEAN]
BY DEF Nothing, Failure

LEMMA NoneIsDocument == None \in Document
BY DnstapAssumption DEF None, Document

(* The parts of the type invariant the steps need one by one.              *)
LEMMA Parts ==
    ASSUME TypeOK
    PROVE  /\ answers \in Seq(Document) /\ Len(answers) \in Nat
           /\ text \in Seq(Line) /\ Len(text) \in Nat
           /\ pos \in Nat /\ pos <= Len(text) + 1
           /\ doc \in Nat /\ doc <= MaxDocuments /\ MaxDocuments \in Nat
<1>1. answers \in Seq(Document) /\ text \in Seq(Line) /\ pos \in 0..Len(text) + 1
  BY DEF TypeOK
<1>2. doc \in 0..MaxDocuments
  BY DEF TypeOK, Document
<1>3. Len(answers) \in Nat /\ Len(text) \in Nat
  BY <1>1
<1> QED
  BY <1>1, <1>2, <1>3, DnstapAssumption

LEMMA InitUnderstood == Init => Understood
<1> SUFFICES ASSUME Init PROVE Understood
  OBVIOUS
<1>1. TypeOK
  <2>1. answers \in Seq(Document) /\ text \in Seq(Line) /\ Len(text) = 0
    BY EmptyIsSeq DEF Init
  <2>2. pos \in 0..Len(text) + 1
    <3>1. pos = 0
      BY DEF Init
    <3> QED
      BY <2>1, <3>1
  <2>3. {eventTime, clientIP, qname} = {None}
    BY DEF Init
  <2>4. eventTime \in Document /\ clientIP \in Document /\ qname \in Document
        /\ doc \in Document
    BY NoneIsDocument DEF Init, None
  <2> QED
    BY <2>1, <2>2, <2>3, <2>4, NothingHasType DEF Init, TypeOK
<1> QED
  BY <1>1 DEF Init, Understood, Placed, Follows

(* flush returns answers to the document's questions only.                 *)
LEMMA FlushedHasType ==
    ASSUME TypeOK
    PROVE  Flushed \in [events : Seq(Answer), err : BOOLEAN]
<1>2. \A a \in Document : Event(a) \in Answer
  BY DEF TypeOK, Event, Answer
<1>4. <<Event(None)>> \in Seq(Answer)
  BY <1>2, NoneIsDocument
<1>5. [i \in DOMAIN answers |-> Event(answers[i])] \in Seq(Answer)
  <2>0. answers \in Seq(Document)
    BY DEF TypeOK
  <2>1. DOMAIN answers = 1..Len(answers) /\ Len(answers) \in Nat
    BY <2>0
  <2>2. \A i \in 1..Len(answers) : Event(answers[i]) \in Answer
    BY <1>2, <2>0
  <2> QED
    BY <2>1, <2>2
<1> QED
  BY <1>4, <1>5, NothingHasType DEF Flushed

(* The heart of it: what flush returns is what the lines mean.             *)
LEMMA FlushedIsMeant ==
    ASSUME Understood, ~lost
    PROVE  Flushed = IF heard THEN Meaning(doc, text, pos) ELSE Nothing
<1>1. CASE ~heard
  BY <1>1 DEF Understood, Follows, Flushed
<1>2. CASE heard
  <2>0. answers \in Seq(Document) /\ pos \in 0..Len(text) + 1
    BY DEF Understood, TypeOK
  <2>1. inBlock /\ Matches /\ doc # 0 /\ text \in Texts
    BY <1>2 DEF Understood, Follows, Placed
  <2>2. kind \in ClientKinds <=> Says(text, pos, "query") \/ Says(text, pos, "response")
    BY <2>1 DEF Matches, ClientKinds, Kinds
  <2>3. Incomplete <=> \/ ~Says(text, pos, "time") \/ ~Says(text, pos, "client")
                       \/ ~IsNamed(text, pos)
    BY <2>1 DEF Matches, Incomplete, None
  <2>4. CASE kind \notin ClientKinds \/ Incomplete
    BY <1>2, <2>1, <2>2, <2>3, <2>4 DEF Flushed, Meaning
  <2>5. CASE kind \in ClientKinds /\ ~Incomplete
    <3> DEFINE number == IF Says(text, pos, "query") THEN 0
                         ELSE Cardinality(Answered(text, pos))
    <3> DEFINE one(a) == [time |-> doc, client |-> doc, name |-> doc, answer |-> a]
    <3>1. eventTime = doc /\ clientIP = doc /\ qname = doc
      BY <2>1, <2>3, <2>5 DEF Matches
    <3>2. \A a : Event(a) = one(a)
      BY <3>1 DEF Event
    <3>3. number = 0 <=> kind = "query" \/ answers = <<>>
      <4>1. kind = "query" <=> Says(text, pos, "query")
        BY <2>1 DEF Matches, Kinds
      <4>2. answers = <<>> <=> Len(answers) = 0
        BY <2>0
      <4> QED
        BY <4>1, <4>2, <2>1 DEF Matches
    <3>4. CASE number = 0
      <4>1. Flushed = [events |-> <<one(None)>>, err |-> FALSE]
        BY <2>1, <2>5, <3>2, <3>3, <3>4 DEF Flushed
      <4>2. Meaning(doc, text, pos) = [events |-> <<one(None)>>, err |-> FALSE]
        BY <2>2, <2>3, <2>5, <3>4 DEF Meaning
      <4> QED
        BY <1>2, <4>1, <4>2
    <3>5. CASE number # 0
      <4>1. Flushed = [events |-> [i \in DOMAIN answers |-> Event(answers[i])], err |-> FALSE]
        BY <2>1, <2>5, <3>3, <3>5 DEF Flushed
      <4>2. DOMAIN answers = 1..number
        BY <2>0, <2>1, <3>3, <3>5 DEF Matches
      <4>3. \A i \in 1..number : Event(answers[i]) = one(doc)
        BY <2>0, <2>1, <3>2, <4>2 DEF Matches
      <4>4. [i \in DOMAIN answers |-> Event(answers[i])] = [i \in 1..number |-> one(doc)]
        BY <4>2, <4>3
      <4>5. Meaning(doc, text, pos) = [events |-> [i \in 1..number |-> one(doc)], err |-> FALSE]
        BY <2>2, <2>3, <2>5, <3>5 DEF Meaning
      <4> QED
        BY <1>2, <4>1, <4>4, <4>5
    <3> QED
      BY <3>4, <3>5
  <2> QED
    BY <2>4, <2>5
<1> QED
  BY <1>1, <1>2

-----------------------------------------------------------------------------
(* The steps. *)

LEMMA ClearedHasType ==
    ASSUME NEW active \in BOOLEAN, Cleared(active)
    PROVE  /\ inBlock' = active /\ inBlock' \in BOOLEAN
           /\ inLiteral' = FALSE /\ kind' = "" /\ section' = "none"
           /\ eventTime' \in Document /\ clientIP' \in Document /\ qname' \in Document
           /\ {eventTime', clientIP', qname'} = {None}
           /\ answers' \in Seq(Document) /\ answers' = <<>>
<1>1. answers' \in Seq(Document)
  BY EmptyIsSeq DEF Cleared, NoAnswers
<1> QED
  BY <1>1, NoneIsDocument DEF Cleared, NoAnswers

LEMMA TypeStep ==
    ASSUME Understood, FeedType
    PROVE  Understood'
<1>1. text' \in Texts /\ doc' = doc + 1 /\ doc < MaxDocuments /\ pos' = 0
      /\ heard' = TRUE /\ lost' = FALSE /\ out' = Flushed /\ Cleared(TRUE)
  BY DEF FeedType
<1>2. text' \in Seq(Line)
  BY <1>1, DnstapAssumption
<1>3. doc' \in Document /\ doc' # 0
  BY <1>1, Parts DEF Understood, Document
<1>4. Len(text') \in Nat /\ pos' \in 0..Len(text') + 1 /\ pos' <= Len(text')
  BY <1>1, <1>2
<1>5. out' \in [events : Seq(Answer), err : BOOLEAN]
  BY <1>1, FlushedHasType DEF Understood
<1>6. TypeOK'
  <2>1. /\ inBlock' = TRUE /\ inLiteral' = FALSE /\ kind' = "" /\ section' = "none"
        /\ eventTime' \in Document /\ clientIP' \in Document /\ qname' \in Document
        /\ answers' \in Seq(Document)
    BY <1>1, ClearedHasType
  <2> QED
    BY <1>1, <1>2, <1>3, <1>4, <1>5, <2>1 DEF TypeOK
<1>7. Placed'
  BY <1>1, <1>3, <1>4 DEF Placed
<1>8. Matches'
  <2>1. /\ inLiteral' = FALSE /\ kind' = "" /\ section' = "none"
        /\ eventTime' = None /\ clientIP' = None /\ qname' = None /\ Len(answers') = 0
    BY <1>1, EmptyIsSeq DEF Cleared, NoAnswers
  <2>2. /\ ~Skipped(text', pos' + 1)
        /\ \A x : ~Says(text', pos', x) /\ ~Open(text', pos', x)
        /\ ~IsNamed(text', pos') /\ Cardinality(Answered(text', pos')) = 0
    BY <1>1, NothingSaid
  <2>3. \A x \in Kinds : kind' = x <=> Says(text', pos', x)
    BY <2>1, <2>2 DEF Kinds
  <2>4. \A h \in {"question", "answer"} : section' = h <=> Open(text', pos', h)
    BY <2>1, <2>2
  <2>5. \A i \in 1..Len(answers') : answers'[i] = doc'
    <3>1. Len(answers') = 0
      BY <2>1
    <3>2. 1..Len(answers') = {}
      BY <3>1
    <3> QED
      BY <3>2
  <2> QED
    BY <2>1, <2>2, <2>3, <2>4, <2>5 DEF Matches
<1> QED
  BY <1>1, <1>6, <1>7, <1>8 DEF Understood, Follows, Cleared

LEMMA EndStep ==
    ASSUME Understood, FeedEnd
    PROVE  Understood'
<1>1. doc' = doc /\ text' = text /\ pos = Len(text) /\ pos' = pos + 1
      /\ heard' = FALSE /\ lost' = FALSE /\ out' = Flushed
  BY DEF FeedEnd
<1>2. pos' \in 0..Len(text) + 1
  BY <1>1, Parts DEF Understood
<1>3. out' \in [events : Seq(Answer), err : BOOLEAN]
  BY <1>1, FlushedHasType DEF Understood
<1>4. /\ inBlock' = FALSE /\ inLiteral' = FALSE /\ kind' = "" /\ section' = "none"
      /\ eventTime' \in Document /\ clientIP' \in Document /\ qname' \in Document
      /\ {eventTime', clientIP', qname'} = {None}
      /\ answers' \in Seq(Document) /\ answers' = <<>>
  <2>1. CASE inBlock
    BY <2>1, ClearedHasType DEF FeedEnd
  <2>2. CASE ~inBlock
    BY <2>2 DEF FeedEnd, Understood, TypeOK
  <2> QED
    BY <2>1, <2>2
<1>5. TypeOK'
  BY <1>1, <1>2, <1>3, <1>4 DEF Understood, TypeOK
<1> QED
  BY <1>1, <1>4, <1>5 DEF Understood, Placed, Follows

LEMMA GoOnStep ==
    ASSUME Understood, GoOn
    PROVE  /\ text' \in Texts \cup {<<>>} /\ text' \in Seq(Line)
           /\ doc' \in Document /\ pos' \in 0..Len(text') + 1
           /\ heard => doc' # 0 /\ text' \in Texts /\ pos' <= Len(text')
<1> USE Parts DEF Understood
<1>1. CASE doc > 0 /\ pos' \in pos..Len(text) /\ UNCHANGED <<doc, text>>
  <2>1. pos' \in 0..Len(text) + 1 /\ pos' <= Len(text)
    BY <1>1
  <2> QED
    BY <1>1, <2>1 DEF Placed, Document
<1>2. CASE /\ doc' \in doc + 1..MaxDocuments
           /\ text' \in Texts /\ pos' \in 0..Len(text')
  <2>1. text' \in Seq(Line)
    BY <1>2, DnstapAssumption
  <2>2. Len(text') \in Nat
    BY <2>1
  <2>3. doc' \in 0..MaxDocuments /\ doc' # 0
    BY <1>2
  <2> QED
    BY <1>2, <2>1, <2>2, <2>3 DEF Document
<1> QED
  BY <1>1, <1>2 DEF GoOn

LEMMA GapStep ==
    ASSUME Understood, LoseLines \/ Rotate
    PROVE  Understood'
<1>1. /\ text' \in Texts \cup {<<>>} /\ text' \in Seq(Line)
      /\ doc' \in Document /\ pos' \in 0..Len(text') + 1
      /\ heard => doc' # 0 /\ text' \in Texts /\ pos' <= Len(text')
  BY GoOnStep DEF LoseLines, Rotate
<1>2. out' \in [events : Seq(Answer), err : BOOLEAN]
  BY NothingHasType DEF LoseLines, Rotate
<1>3. CASE LoseLines
  <2>1. lost' = TRUE /\ UNCHANGED <<parser, heard>>
    BY <1>3 DEF LoseLines
  <2>2. TypeOK'
    BY <1>1, <1>2, <2>1 DEF Understood, TypeOK, parser
  <2> QED
    BY <1>1, <2>1, <2>2 DEF Understood, Placed, Follows
<1>4. CASE Rotate
  <2>1. heard' = FALSE /\ lost' = FALSE /\ Cleared(FALSE)
    BY <1>4 DEF Rotate
  <2>2. TypeOK'
    <3>1. /\ inBlock' = FALSE /\ inLiteral' = FALSE /\ kind' = "" /\ section' = "none"
          /\ eventTime' \in Document /\ clientIP' \in Document /\ qname' \in Document
          /\ {eventTime', clientIP', qname'} = {None}
          /\ answers' \in Seq(Document) /\ answers' = <<>>
      BY <2>1, ClearedHasType
    <3> QED
      BY <1>1, <1>2, <2>1, <3>1 DEF TypeOK
  <2> QED
    BY <1>1, <2>1, <2>2 DEF Understood, Placed, Follows, Cleared
<1> QED
  BY <1>3, <1>4

(* A line of a document that is heard and whole: one line more is said.    *)
LEMMA LineIsSaid ==
    ASSUME Understood, FeedLine, heard, ~lost
    PROVE  Matches'
<1> DEFINE line == text[pos + 1]
<1> DEFINE n == pos
<1>1. /\ n \in Nat /\ pos' = n + 1 /\ text' = text /\ doc' = doc
      /\ text \in Texts /\ n + 1 \in 1..Len(text) /\ n + 1 \in DOMAIN text
  BY Parts DEF Understood, Placed, FeedLine
<1>2. inBlock /\ Matches
  BY DEF Understood, Follows
<1>3. line \in Line
  BY <1>1, Parts DEF Understood
<1>4. answers \in Seq(Document) /\ Len(answers) \in Nat
  BY Parts DEF Understood
<1>5. Skipped(text, n + 2) <=>
          line # "label" /\ (line = "literal" \/ inLiteral)
  BY <1>1, <1>2, SkippedNext DEF Matches
<1>6. \A x : Says(text, n + 1, x) <=> Says(text, n, x) \/ (line = x /\ ~inLiteral)
  BY <1>1, <1>2, SaysNext DEF Matches
<1>7. \A h : Open(text, n + 1, h) <=>
          \/ line = h /\ ~inLiteral
          \/ Open(text, n, h) /\ line \in Items \cup {"label"}
  BY <1>1, <1>2, OpenNext DEF Matches
<1>8. IsNamed(text, n + 1) <=>
          \/ IsNamed(text, n)
          \/ line \in Items /\ ~inLiteral /\ section = "question"
  BY <1>1, <1>2, NamedNext DEF Matches
<1> DEFINE new == line = "address" /\ ~inLiteral /\ section = "answer"
<1>9. Cardinality(Answered(text, n + 1)) =
          IF new THEN Cardinality(Answered(text, n)) + 1
          ELSE Cardinality(Answered(text, n))
  <2>1. Answered(text, n + 1) =
            IF new THEN Answered(text, n) \cup {n + 1} ELSE Answered(text, n)
    BY <1>1, <1>2, AnsweredNext DEF Matches
  <2>2. n + 1 \notin Answered(text, n)
    BY <1>1 DEF Answered
  <2> QED
    BY <1>1, <2>1, <2>2, AnsweredIsFinite, FS_AddElement
<1>10. Skipped(text', pos' + 1) <=> Skipped(text, n + 2)
  <2>1. pos' + 1 = n + 2
    BY <1>1
  <2> QED
    BY <1>1, <2>1
<1>11. \A x \in Kinds : line \in Kinds => (Says(text, n, x) => x = line)
  <2> SUFFICES ASSUME NEW x \in Kinds, line \in Kinds, Says(text, n, x)
               PROVE  x = line
    OBVIOUS
  <2>1. PICK i \in 1..n : text[i] = x
    BY DEF Says
  <2>2. i \in DOMAIN text
    BY <1>1, Parts DEF Understood
  <2> QED
    BY <1>1, <2>1, <2>2, DnstapAssumption
<1> DEFINE Said ==
        /\ inLiteral' <=> line # "label" /\ (line = "literal" \/ inLiteral)
        /\ inLiteral' => section' = "none"
        /\ \A x \in Kinds : kind' = x <=> kind = x \/ (line = x /\ ~inLiteral)
        /\ \A h \in {"question", "answer"} :
              section' = h <=> \/ line = h /\ ~inLiteral
                               \/ section = h /\ line \in Items \cup {"label"}
        /\ eventTime' = IF line = "time" /\ ~inLiteral THEN doc ELSE eventTime
        /\ clientIP' = IF line = "client" /\ ~inLiteral THEN doc ELSE clientIP
        /\ qname' = IF line \in Items /\ ~inLiteral /\ section = "question"
                    THEN doc ELSE qname
        /\ answers' = IF new THEN Append(answers, doc) ELSE answers
<1>12. Said
  <2>1. inLiteral \in BOOLEAN /\ (inLiteral => section = "none")
    BY <1>2 DEF Matches, Understood, TypeOK
  <2>2. CASE line = "label"
    <3>1. Label
      BY <2>2 DEF FeedLine
    <3> QED
      BY <2>1, <2>2, <3>1 DEF Label, Kinds, Items
  <2>3. CASE line # "label" /\ inLiteral
    <3>1. UNCHANGED parser
      BY <1>2, <2>3 DEF FeedLine
    <3> QED
      BY <2>1, <2>3, <3>1 DEF parser
  <2>4. CASE line \in Items /\ ~inLiteral
    <3>1. Item(line)
      BY <1>2, <2>4 DEF FeedLine, Items
    <3> QED
      BY <2>1, <2>4, <3>1 DEF Item, Kinds, Items
  <2>5. CASE line \notin Items \cup {"label"} /\ ~inLiteral
    <3>1. Field(line)
      BY <1>2, <2>5 DEF FeedLine
    <3>2. \A x \in Kinds : kind' = x <=> kind = x \/ line = x
      BY <1>2, <1>11, <3>1 DEF Field, Matches
    <3> QED
      BY <2>1, <2>5, <3>1, <3>2 DEF Field, SectionAfter, Items
  <2> QED
    BY <2>2, <2>3, <2>4, <2>5
<1>13. inLiteral' <=> Skipped(text', pos' + 1)
  BY <1>5, <1>10, <1>12
<1>14. \A x \in Kinds : kind' = x <=> Says(text', pos', x)
  BY <1>1, <1>2, <1>6, <1>12 DEF Matches
<1>15. \A h \in {"question", "answer"} : section' = h <=> Open(text', pos', h)
  BY <1>1, <1>2, <1>7, <1>12 DEF Matches
<1>16. /\ eventTime' = IF Says(text', pos', "time") THEN doc' ELSE None
       /\ clientIP' = IF Says(text', pos', "client") THEN doc' ELSE None
  BY <1>1, <1>2, <1>6, <1>12 DEF Matches
<1>17. qname' = IF IsNamed(text', pos') THEN doc' ELSE None
  BY <1>1, <1>2, <1>8, <1>12 DEF Matches
<1>18. /\ Len(answers') = Cardinality(Answered(text', pos'))
       /\ \A i \in 1..Len(answers') : answers'[i] = doc'
  <2>1. Len(answers) = Cardinality(Answered(text, n)) /\ \A i \in 1..Len(answers) : answers[i] = doc
    BY <1>2 DEF Matches
  <2>2. Cardinality(Answered(text', pos')) = Cardinality(Answered(text, n + 1))
    BY <1>1
  <2>3. CASE new
    <3>1. answers' = Append(answers, doc) /\ doc \in Document
      BY <1>12, <2>3 DEF Understood, TypeOK
    <3>2. Len(answers') = Len(answers) + 1
      BY <1>4, <3>1
    <3>3. \A i \in 1..Len(answers) + 1 : answers'[i] = doc
      BY <1>4, <2>1, <3>1
    <3> QED
      BY <1>1, <1>9, <2>1, <2>2, <2>3, <3>2, <3>3
  <2>4. CASE ~new
    BY <1>1, <1>9, <1>12, <2>1, <2>2, <2>4
  <2> QED
    BY <2>3, <2>4
<1> QED
  BY <1>12, <1>13, <1>14, <1>15, <1>16, <1>17, <1>18 DEF Matches

LEMMA LineStep ==
    ASSUME Understood, FeedLine
    PROVE  Understood'
<1> DEFINE line == text[pos + 1]
<1>1. /\ pos' = pos + 1 /\ pos < Len(text) /\ out' = Nothing
      /\ UNCHANGED <<doc, text, heard, lost>>
  BY DEF FeedLine
<1>2. pos' \in 0..Len(text) + 1 /\ pos' <= Len(text) /\ line \in Line
  BY <1>1, Parts DEF Understood
<1>3. /\ inBlock' = inBlock /\ inLiteral' \in BOOLEAN /\ kind' \in Kinds \cup {""}
      /\ section' \in {"none", "question", "answer"}
      /\ eventTime' \in Document /\ clientIP' \in Document /\ qname' \in Document
      /\ answers' \in Seq(Document)
      /\ ~inBlock => /\ inLiteral' = FALSE
                     /\ UNCHANGED <<kind, section, eventTime, clientIP, qname, answers>>
  <2>1. /\ inBlock \in BOOLEAN /\ inLiteral \in BOOLEAN /\ kind \in Kinds \cup {""}
        /\ section \in {"none", "question", "answer"}
        /\ eventTime \in Document /\ clientIP \in Document /\ qname \in Document
        /\ answers \in Seq(Document) /\ doc \in Document
        /\ ~inBlock => inLiteral = FALSE
    BY DEF Understood, TypeOK
  <2>2. CASE line = "label"
    BY <2>1, <2>2 DEF FeedLine, Label
  <2>3. CASE line # "label" /\ (~inBlock \/ inLiteral)
    BY <2>1, <2>3 DEF FeedLine, parser
  <2>4. CASE line \in Items /\ inBlock /\ ~inLiteral
    <3>1. Item(line)
      BY <2>4 DEF FeedLine, Items
    <3>2. answers' \in Seq(Document)
      <4>1. answers \in Seq(Document) /\ doc \in Document
        BY Parts DEF Understood, TypeOK
      <4>2. Append(answers, doc) \in Seq(Document)
        BY <4>1
      <4> QED
        BY <3>1, <4>1, <4>2 DEF Item
    <3> QED
      BY <2>1, <2>4, <3>1, <3>2 DEF Item
  <2>5. CASE line \notin Items \cup {"label"} /\ inBlock /\ ~inLiteral
    <3>1. Field(line)
      BY <2>5 DEF FeedLine
    <3> QED
      BY <2>1, <2>5, <3>1 DEF Field, SectionAfter
  <2> QED
    BY <2>2, <2>3, <2>4, <2>5
<1>4. TypeOK'
  <2>1. ~inBlock' => /\ kind' = "" /\ section' = "none" /\ ~inLiteral'
                     /\ {eventTime', clientIP', qname'} = {None} /\ answers' = <<>>
    BY <1>3 DEF Understood, TypeOK
  <2> QED
    BY <1>1, <1>2, <1>3, <2>1, NothingHasType DEF Understood, TypeOK
<1>5. Placed'
  BY <1>1, <1>2 DEF Understood, Placed
<1>6. Follows'
  BY <1>1, <1>3, LineIsSaid DEF Understood, Follows
<1> QED
  BY <1>4, <1>5, <1>6 DEF Understood

LEMMA NextUnderstood ==
    ASSUME Understood, [Next]_vars
    PROVE  Understood'
<1>1. CASE Next
  <2>1. CASE UNCHANGED vars
    BY <2>1 DEF vars, parser, stream, Understood, TypeOK, Placed, Follows, Matches
  <2> QED
    BY <1>1, <2>1, TypeStep, EndStep, LineStep, GapStep DEF Next, Waiting
<1>2. CASE UNCHANGED vars
  BY <1>2 DEF vars, parser, stream, Understood, TypeOK, Placed, Follows, Matches
<1> QED
  BY <1>1, <1>2

LEMMA AlwaysUnderstood == Spec => []Understood
BY InitUnderstood, NextUnderstood, PTL DEF Spec

-----------------------------------------------------------------------------
(* The variables of the parser keep their types; outside a block it holds  *)
(* nothing of the last one (dnstaplog.go:299-322).                         *)
THEOREM TypeCorrect == Spec => []TypeOK
BY AlwaysUnderstood, PTL DEF Understood

(* What the parser makes of a document, cut short or not, is what the      *)
(* lines of that document mean, whatever came before it, whatever order    *)
(* its lines have and however often they occur (dnstaplog.go:105-181).     *)
THEOREM DocumentsAreUnderstood == Spec => EventsAreMeant
<1>1. ASSUME Understood, [Next]_vars
      PROVE  [/\ (FeedType \/ FeedEnd) /\ ~lost =>
                    out' = IF heard THEN Meaning(doc, text, pos) ELSE Nothing
              /\ FeedLine => out' = Nothing]_vars
  <2>1. ASSUME FeedType \/ FeedEnd, ~lost
        PROVE  out' = IF heard THEN Meaning(doc, text, pos) ELSE Nothing
    <3>1. out' = Flushed
      BY <2>1 DEF FeedType, FeedEnd
    <3> QED
      BY <1>1, <2>1, <3>1, FlushedIsMeant
  <2>2. FeedLine => out' = Nothing
    BY DEF FeedLine
  <2> QED
    BY <2>1, <2>2
<1> QED
  BY <1>1, AlwaysUnderstood, PTL DEF Spec, EventsAreMeant
=============================================================================
