---------------------------- MODULE DnstapParser ----------------------------
(***************************************************************************)
(* The stateful parser of dnstaplog.go, one per log file.  dnstap-read     *)
(* prints a DNS message as a document of many lines: "type:" in the first  *)
(* column opens it and "---" closes it.  The parser collects fields line   *)
(* by line and makes events of them when the document is closed, or when   *)
(* the next one opens because this one was cut short.                      *)
(*                                                                         *)
(* A line is modelled by its class, a value read from a line by the number *)
(* of the document the line is of, so that a mixture shows.                *)
(*                                                                         *)
(* Lines come as FilePoller hands them over: in order, each once.  After a *)
(* panic or an unnoticed rotation some are missing; after a noticed one    *)
(* the poller discards the parser.                                         *)
(* Definitions marked "faulty" are wrong variants of the one that follows. *)
(***************************************************************************)
EXTENDS Integers, Sequences, FiniteSets

CONSTANTS
    Texts,         \* what may stand between "type:" and "---"
    MaxDocuments   \* bound: documents in the stream

Kinds == {"query", "response", "upstream"}      \* "  type: ...", by value
Items == {"name", "address", "alias"}           \* "- '...'", by record
Line ==
    Kinds \cup Items \cup
    {"label",                  \* of the first column: identity, version, message
     "time", "badtime", "client", "literal",
     "question", "answer",     \* the two section headers that count
     "other"}                  \* any other indented line, the dig copy included

ASSUME DnstapAssumption ==
    /\ Texts \subseteq Seq(Line)
    /\ \A t \in Texts : \A i, j \in DOMAIN t :      \* of one kind
          t[i] \in Kinds /\ t[j] \in Kinds => i = j
    /\ MaxDocuments \in Nat \ {0}

VARIABLES
    inBlock, inLiteral, kind, section,      \* of the parser
    eventTime, clientIP, qname, answers,
    out,           \* what feed returned for the last line
    doc, text,     \* the document being read: its number, its lines
    pos,           \* the lines of it read
    heard,         \* this parser has read its "type:" and not its end
    lost           \* lines went missing since the parser was last clean

parser == <<inBlock, inLiteral, kind, section, eventTime, clientIP, qname, answers>>
stream == <<doc, text, pos, heard, lost>>
vars == <<parser, out, stream>>

None == 0
Nothing == [events |-> <<>>, err |-> FALSE]
Failure == [events |-> <<>>, err |-> TRUE]

Init ==
    /\ inBlock = FALSE /\ inLiteral = FALSE /\ kind = "" /\ section = "none"
    /\ eventTime = None /\ clientIP = None /\ qname = None /\ answers = <<>>
    /\ out = Nothing
    /\ doc = 0 /\ text = <<>> /\ pos = 0
    /\ heard = FALSE /\ lost = FALSE

-----------------------------------------------------------------------------
(* flush, begin and reset. *)

Event(answer) ==
    [time |-> eventTime, client |-> clientIP, name |-> qname, answer |-> answer]

ClientKinds == {"query", "response"}

Incomplete == None \in {eventTime, clientIP, qname}

Flushed ==
    IF ~inBlock \/ kind \notin ClientKinds THEN Nothing
    ELSE IF Incomplete THEN Failure
    ELSE IF kind = "query" \/ answers = <<>>
    THEN [events |-> <<Event(None)>>, err |-> FALSE]
    ELSE [events |-> [i \in DOMAIN answers |-> Event(answers[i])], err |-> FALSE]

NoAnswers == <<>>

Cleared(active) ==
    /\ inBlock' = active /\ inLiteral' = FALSE /\ kind' = "" /\ section' = "none"
    /\ eventTime' = None /\ clientIP' = None /\ qname' = None
    /\ answers' = NoAnswers

-----------------------------------------------------------------------------
(* feed. *)

(* "type:" in the first column: the next document.  The one before may     *)
(* have been cut short, dnstap-read having died in it.                     *)
FeedType ==
    /\ doc < MaxDocuments
    /\ doc' = doc + 1 /\ text' \in Texts /\ pos' = 0
    /\ heard' = TRUE /\ lost' = FALSE
    /\ out' = Flushed /\ Cleared(TRUE)

(* "---": flush, which clears the fields only when a block is open.        *)
FeedEnd ==
    /\ doc > 0 /\ pos = Len(text)
    /\ pos' = pos + 1 /\ heard' = FALSE /\ lost' = FALSE
    /\ UNCHANGED <<doc, text>>
    /\ out' = Flushed
    /\ IF inBlock THEN Cleared(FALSE)
       ELSE inLiteral' = FALSE /\ UNCHANGED <<inBlock, kind, section, eventTime,
                                              clientIP, qname, answers>>

Label ==
    /\ inLiteral' = FALSE
    /\ UNCHANGED <<inBlock, kind, section, eventTime, clientIP, qname, answers>>

(* parseQuestion takes any item, parseAnswer only a valid address.         *)
Item(line) ==
    /\ qname' = IF section = "question" THEN doc ELSE qname
    /\ answers' = IF section = "answer" /\ line = "address"
                  THEN Append(answers, doc) ELSE answers
    /\ UNCHANGED <<inBlock, inLiteral, kind, section, eventTime, clientIP>>

(* Any other line ends an open list.                                       *)
SectionKept(line) ==                            \* faulty
    IF line \in {"question", "answer"} THEN line ELSE section
SectionAfter(line) == IF line \in {"question", "answer"} THEN line ELSE "none"

Field(line) ==
    /\ section' = SectionAfter(line)
    /\ kind' = IF line \in Kinds THEN line ELSE kind
    /\ eventTime' = IF line = "time" THEN doc ELSE eventTime
    /\ clientIP' = IF line = "client" THEN doc ELSE clientIP
    /\ inLiteral' = (line = "literal")
    /\ UNCHANGED <<inBlock, qname, answers>>

FeedLine ==
    /\ pos < Len(text)
    /\ pos' = pos + 1
    /\ UNCHANGED <<doc, text, heard, lost>>
    /\ out' = Nothing
    /\ LET line == text[pos + 1]
       IN IF line = "label" THEN Label
          ELSE IF ~inBlock \/ inLiteral THEN UNCHANGED parser
          ELSE IF line \in Items THEN Item(line)
          ELSE Field(line)

-----------------------------------------------------------------------------
(* What happens between two lines. *)

(* The stream goes on at a later line, of this document or another.        *)
GoOn ==
    \/ /\ doc > 0 /\ pos' \in pos..Len(text) /\ UNCHANGED <<doc, text>>
    \/ /\ doc' \in doc + 1..MaxDocuments
       /\ text' \in Texts /\ pos' \in 0..Len(text')

(* A panic in a handler, or a rotation the file's size does not show.      *)
LoseLines ==
    /\ GoOn
    /\ lost' = TRUE /\ out' = Nothing
    /\ UNCHANGED <<parser, heard>>

(* A noticed rotation: onTruncate, and ingestDNS with a new parser.        *)
Rotate ==
    /\ GoOn
    /\ heard' = FALSE /\ lost' = FALSE
    /\ out' = Nothing
    /\ Cleared(FALSE)

(* The stream has ended; the poller waits for more lines.                  *)
Waiting ==
    /\ doc = MaxDocuments /\ pos = Len(text) + 1
    /\ UNCHANGED vars

Next == FeedType \/ FeedEnd \/ FeedLine \/ LoseLines \/ Rotate \/ Waiting

Spec == Init /\ [][Next]_vars

-----------------------------------------------------------------------------
(* Types: outside a block the parser holds nothing.                        *)
Document == 0..MaxDocuments
Answer == [time : Document, client : Document, name : Document, answer : Document]

TypeOK ==
    /\ inBlock \in BOOLEAN /\ inLiteral \in BOOLEAN
    /\ kind \in Kinds \cup {""} /\ section \in {"none", "question", "answer"}
    /\ eventTime \in Document /\ clientIP \in Document /\ qname \in Document
    /\ answers \in Seq(Document)
    /\ ~inBlock => /\ kind = "" /\ section = "none" /\ ~inLiteral
                   /\ {eventTime, clientIP, qname} = {None} /\ answers = <<>>
    /\ out \in [events : Seq(Answer), err : BOOLEAN]
    /\ doc \in Document /\ text \in Seq(Line) /\ pos \in 0..Len(text) + 1
    /\ heard \in BOOLEAN /\ lost \in BOOLEAN

-----------------------------------------------------------------------------
(* What the first n lines of t say, line by line and without the parser's *)
(* state: a line in a literal says nothing, an item belongs to the header  *)
(* above it.                                                               *)

Skipped(t, i) ==
    \E j \in 1..i - 1 : t[j] = "literal" /\ \A k \in j + 1..i - 1 : t[k] # "label"

Says(t, n, line) == \E i \in 1..n : t[i] = line /\ ~Skipped(t, i)

(* After n lines the list below the header is still open.                  *)
Open(t, n, header) ==
    \E j \in 1..n :
        /\ t[j] = header /\ ~Skipped(t, j)
        /\ \A k \in j + 1..n : t[k] \in Items \cup {"label"}

Under(t, i, header) ==
    t[i] \in Items /\ ~Skipped(t, i) /\ Open(t, i - 1, header)

IsNamed(t, n) == \E i \in 1..n : Under(t, i, "question")

Answered(t, n) == {i \in 1..n : t[i] = "address" /\ Under(t, i, "answer")}

(* The events of document d when the first n lines of its text t came.     *)
Meaning(d, t, n) ==
    IF ~Says(t, n, "query") /\ ~Says(t, n, "response") THEN Nothing
    ELSE IF ~Says(t, n, "time") \/ ~Says(t, n, "client") \/ ~IsNamed(t, n)
    THEN Failure
    ELSE LET number == IF Says(t, n, "query") THEN 0 ELSE Cardinality(Answered(t, n))
             one(a) == [time |-> d, client |-> d, name |-> d, answer |-> a]
         IN [events |-> IF number = 0 THEN <<one(None)>>
                        ELSE [i \in 1..number |-> one(d)],
             err |-> FALSE]

(* When a document is closed or cut short, and no line of it went missing, *)
(* the events are those its own lines mean: nothing of a document before,  *)
(* of a literal copy, of another section or of a part never heard; at any  *)
(* other line there are none (dnstaplog.go:105-134, 235-295).              *)
EventsAreMeant ==
    [][/\ (FeedType \/ FeedEnd) /\ ~lost =>
             out' = IF heard THEN Meaning(doc, text, pos) ELSE Nothing
       /\ FeedLine => out' = Nothing]_vars
=============================================================================
