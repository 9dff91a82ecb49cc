----------------------------- MODULE FilePoller -----------------------------
(***************************************************************************)
(* The tailing of log files in filepoller.go, shared by the identity and   *)
(* the DNS pollers.  Another program appends lines to the files, in pieces *)
(* that need not end at the end of a line, and rotates or truncates them   *)
(* between two lines.  One goroutine visits the files one after the other, *)
(* keeps an offset per file, and hands each complete line to a handler.    *)
(*                                                                         *)
(* A piece <<l, i>> is the i-th part of the l-th line its file ever gets;  *)
(* the last part of a line carries the newline.  Offsets and sizes count   *)
(* pieces.  A file operation that fails ends the visit, with nothing       *)
(* changed.  Empty lines, which are skipped, are left out.                 *)
(*                                                                         *)
(* The actions change this module's variables only; LogFeed composes them  *)
(* with the writer of the events.  Definitions marked "faulty" are wrong   *)
(* variants of the one that follows.                                       *)
(***************************************************************************)
EXTENDS Integers, Sequences, FiniteSets, Functions

CONSTANTS
    NumFiles,      \* files of the directories, in the order of the visits
    Lengths,       \* Lengths[f]: the pieces of each line of file f
    MaxRead,       \* maxScanReadBytes
    MaxRotations   \* bound: MaxRotations[f], rotations of file f

File == 1..NumFiles

ASSUME FileAssumption ==
    /\ NumFiles \in Nat \ {0}
    /\ Lengths \in [File -> Seq(Nat \ {0})]
    /\ MaxRead \in Nat \ {0}
    /\ MaxRotations \in [File -> Nat]

NumLines(f) == Len(Lengths[f])
Piece(f) == {p \in (1..NumLines(f)) \X (Nat \ {0}) : p[2] <= Lengths[f][p[1]]}
EndsLine(f, p) == p[2] = Lengths[f][p[1]]

VARIABLES
    content,       \* content[f]: the pieces in the file now
    last,          \* last[f]: the last piece written to f, in any rotation
    rotations,     \* rotations[f]: how often f was rotated
    offsets,       \* offsets[f]
    since,         \* since[f]: rotations[f] when offsets[f] was set
    at,            \* where the poller is: "idle", "stat", "read", "handle",
                   \* "scanned" or "stopped"
    file,          \* the file it visits
    off,           \* off of readAppendedFile
    todo,          \* what it has read of that file and not handled
    handled,       \* handled[f]: the lines handed to the handler, in order
    torn,          \* torn[f]: those of which the handler got a part only
    abandoned,     \* <<f, l>> of the lines read and then lost to a panic
    missed         \* missed[f]: a rotation of f went unnoticed

fileVars == <<content, last, rotations>>
pollVars == <<offsets, since, at, file, off, todo>>
historyVars == <<handled, torn, abandoned, missed>>
pollerVars == <<fileVars, pollVars, historyVars>>

PollerInit ==
    /\ content = [f \in File |-> << >>]
    /\ last = [f \in File |-> <<0, 0>>]
    /\ rotations = [f \in File |-> 0]
    /\ offsets = [f \in File |-> 0]
    /\ since = [f \in File |-> 0]
    /\ at = "idle" /\ file = 1 /\ off = 0 /\ todo = << >>
    /\ handled = [f \in File |-> << >>]
    /\ torn = [f \in File |-> {}]
    /\ abandoned = {}
    /\ missed = [f \in File |-> FALSE]

-----------------------------------------------------------------------------
(* The program that writes the logs. *)

BetweenLines(f) == last[f][1] # 0 => EndsLine(f, last[f])

NextPiece(f) ==
    IF BetweenLines(f) THEN <<last[f][1] + 1, 1>> ELSE <<last[f][1], last[f][2] + 1>>

WritePiece(f) ==
    /\ NextPiece(f) \in Piece(f)
    /\ content' = [content EXCEPT ![f] = Append(@, NextPiece(f))]
    /\ last' = [last EXCEPT ![f] = NextPiece(f)]
    /\ UNCHANGED <<rotations, pollVars, historyVars>>

(* The name of the file now leads to a new, empty one, or the file has     *)
(* been truncated.                                                         *)
Rotate(f) ==
    /\ rotations[f] < MaxRotations[f]
    /\ BetweenLines(f) /\ content[f] # << >>
    /\ content' = [content EXCEPT ![f] = << >>]
    /\ rotations' = [rotations EXCEPT ![f] = @ + 1]
    /\ UNCHANGED <<last, pollVars, historyVars>>

-----------------------------------------------------------------------------
(* The poller. *)

(* The places of the newlines in s. *)
LineEnds(f, s) == {i \in 1..Len(s) : EndsLine(f, s[i])}
LastEnd(f, s) == CHOOSE i \in LineEnds(f, s) : \A j \in LineEnds(f, s) : j <= i

(* bytes.Split cuts after each of them, and at the end of s. *)
FirstCut(f, s) ==
    CHOOSE i \in LineEnds(f, s) \cup {Len(s)} : \A j \in LineEnds(f, s) : i <= j

(* What ReadAll of the limited reader returns from position n on. *)
UpTo(s, n) == IF Len(s) < n + MaxRead THEN Len(s) ELSE n + MaxRead
Unread(s, n) == SubSeq(s, n + 1, UpTo(s, n))

(* Where the visit of a file starts, given its size. *)
AlwaysOffset(f) == offsets[f]                        \* faulty
Start(f) == IF Len(content[f]) < offsets[f] THEN 0 ELSE offsets[f]

(* How much of the data s of file f is taken. *)
Everything(f, s) == Len(s)                           \* faulty
Complete(f, s) == IF LineEnds(f, s) = {} THEN 0 ELSE LastEnd(f, s)

(* The offset after n pieces of f were taken from off on. *)
OffsetKept(f, n) == offsets[f]                       \* faulty
OnePast(f, n) == off + n + 1                         \* faulty
Advanced(f, n) == off + n

(* The visit of a file is over, and perhaps the scan. *)
Leave ==
    /\ at' = IF file = NumFiles THEN "scanned" ELSE "stat"
    /\ file' = IF file = NumFiles THEN file ELSE file + 1

StartScan ==
    /\ at = "idle"
    /\ at' = "stat" /\ file' = 1
    /\ UNCHANGED <<fileVars, offsets, since, off, todo, historyVars>>

(* os.Stat: nothing new, or go on to open and read. *)
Stat ==
    /\ at = "stat"
    /\ IF Len(content[file]) = Start(file)
       THEN Leave /\ UNCHANGED off
       ELSE off' = Start(file) /\ at' = "read" /\ UNCHANGED file
    /\ UNCHANGED <<fileVars, offsets, since, todo, historyVars>>

(* Open, Seek and ReadAll.  The file may be another one than Stat saw.     *)
Read ==
    LET data == Unread(content[file], off)
        n == Complete(file, data)
    IN
    /\ at = "read"
    /\ IF n = 0
       THEN Leave /\ UNCHANGED <<offsets, since, todo, missed>>
       ELSE /\ offsets' = [offsets EXCEPT ![file] = Advanced(file, n)]
            /\ since' = [since EXCEPT ![file] = rotations[file]]
            /\ todo' = SubSeq(data, 1, n)
            /\ missed' = [missed EXCEPT ![file] =
                             @ \/ (off > 0 /\ since[file] # rotations[file])]
            /\ at' = "handle" /\ UNCHANGED file
    /\ UNCHANGED <<fileVars, off, handled, torn, abandoned>>

(* Any of the file operations fails. *)
SkipFile ==
    /\ at \in {"stat", "read"}
    /\ Leave
    /\ UNCHANGED <<fileVars, offsets, since, off, todo, historyVars>>

(* The next line of what was read. *)
Line == SubSeq(todo, 1, FirstCut(file, todo))
LineNo == Line[Len(Line)][1]
IsWhole == Line[1][2] = 1 /\ EndsLine(file, Line[Len(Line)])

(* A line is handled.  The loop ends with the last of them. *)
HandleLine ==
    /\ at = "handle"
    /\ handled' = [handled EXCEPT ![file] = Append(@, LineNo)]
    /\ torn' = [torn EXCEPT ![file] = IF IsWhole THEN @ ELSE @ \cup {LineNo}]
    /\ todo' = SubSeq(todo, Len(Line) + 1, Len(todo))
    /\ IF todo' = << >> THEN Leave ELSE UNCHANGED <<at, file>>
    /\ UNCHANGED <<fileVars, offsets, since, off, abandoned, missed>>

(* The handler panics: the scan is over, the rest of what was read is gone.*)
PanicInLine ==
    /\ at = "handle"
    /\ abandoned' = abandoned \cup {<<file, todo[i][1]>> : i \in LineEnds(file, todo)}
    /\ todo' = << >>
    /\ at' = "idle"
    /\ UNCHANGED <<fileVars, offsets, since, file, off, handled, torn, missed>>

(* The scan's other work is done, or the poller sees the context cancelled.*)
EndScan ==
    /\ at = "scanned"
    /\ at' = "idle"
    /\ UNCHANGED <<fileVars, offsets, since, file, off, todo, historyVars>>

StopPolling ==
    /\ at = "idle"
    /\ at' = "stopped"
    /\ UNCHANGED <<fileVars, offsets, since, file, off, todo, historyVars>>

-----------------------------------------------------------------------------
PollerTypeOK ==
    /\ \A f \in File : content[f] \in Seq(Piece(f))
    /\ \A f \in File : last[f] \in Piece(f) \cup {<<0, 0>>}
    /\ rotations \in [File -> Nat] /\ since \in [File -> Nat]
    /\ offsets \in [File -> Nat]
    /\ \A f \in File : since[f] <= rotations[f] /\ rotations[f] <= MaxRotations[f]
    /\ at \in {"idle", "stat", "read", "handle", "scanned", "stopped"}
    /\ file \in File
    /\ off \in Nat
    /\ todo \in Seq(Piece(file))
    /\ at = "handle" <=> todo # << >>
    /\ todo # << >> => EndsLine(file, todo[Len(todo)])
    /\ \A f \in File : handled[f] \in Seq(1..NumLines(f))
    /\ \A f \in File : torn[f] \subseteq 1..NumLines(f)
    /\ abandoned \subseteq UNION {{f} \X (1..NumLines(f)) : f \in File}
    /\ missed \in [File -> BOOLEAN]

-----------------------------------------------------------------------------
(* Correctness. *)

(* The lines that stand complete in the first n pieces of f. *)
CompleteLines(f, n) ==
    {content[f][i][1] : i \in {j \in LineEnds(f, content[f]) : j <= n}}

InHand(f) == IF f = file THEN {todo[i][1] : i \in LineEnds(f, todo)} ELSE {}

(* A line is handled at most once, and after the lines before it, whatever *)
(* rotations, partial lines, bounded reads and panics there are            *)
(* (readAppendedFile's comment, filepoller.go:47-53).                      *)
HandledInOrder ==
    \A f \in File : \A i, j \in DOMAIN handled[f] : i < j => handled[f][i] < handled[f][j]

(* The offset passes no line that was not read: each line below it has     *)
(* been handled or is about to be, a panic took it, or a rotation went     *)
(* unnoticed because the new file was as long as the offset when next      *)
(* looked at (filepoller.go:61).                                           *)
NoLineSkipped ==
    \A f \in File : since[f] = rotations[f] /\ ~missed[f] =>
        \A l \in CompleteLines(f, offsets[f]) :
            l \in Range(handled[f]) \cup InHand(f) \/ <<f, l>> \in abandoned
=============================================================================
