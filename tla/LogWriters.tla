----------------------------- MODULE LogWriters -----------------------------
(***************************************************************************)
(* The log of the program: package log4go, as main.go and logconfig.xml    *)
(* use it.  Every goroutine logs through one map of filters; a filter      *)
(* passes a record to its writer, a goroutine behind a channel of          *)
(* LogBufferLength records.  The console writer prints; the file writer    *)
(* appends to a file, and opens a new one when the old one has too many    *)
(* lines or bytes or is of another day, with the old one renamed to the    *)
(* next free number if the option rotate is set.                           *)
(*                                                                         *)
(* A goroutine blocks while the channel is full.  The writers fail with    *)
(* the disk; the process is killed, or ends itself with Crashf, and is     *)
(* started again on the files that are there.                              *)
(*                                                                         *)
(* Left out: what a line looks like, headers and trailers (logconfig.xml   *)
(* sets none), Rotate (called by nothing), the writers for sockets and XML *)
(* (logconfig.xml has none enabled).                                       *)
(***************************************************************************)
EXTENDS Naturals, Sequences, FiniteSets

CONSTANTS
  Goroutines, Main,      \* those that log, one of them main()
  NRecords,              \* NRecords[g]: how often g logs
  LevelOf, Bytes,        \* the level and the length of a goroutine's records
  LogBufferLength,
  FilterLevel,           \* the levels the filters have in logconfig.xml
  MaxLines, MaxSize,     \* of a log file; 0 is no limit
  Rotate, Daily,
  MaxNumber,             \* the last number of an old file, 999 in the code
  DiskFails              \* "yes" if opening, renaming and writing may fail

\* The console writer the package starts with, and the two of logconfig.xml.
Writers == {"first", "stdout", "file"}
Consoles == {"first", "stdout"}

Level == 0 .. 7          \* FINEST to CRITICAL

ASSUME LogAssumption ==
  /\ IsFiniteSet(Goroutines) /\ Main \in Goroutines
  /\ NRecords \in [Goroutines -> Nat]
  /\ LevelOf \in [Goroutines -> Level]
  /\ Bytes \in [Goroutines -> Nat \ {0}]
  /\ LogBufferLength \in Nat \ {0}
  /\ FilterLevel \in [Writers -> Level]
  /\ MaxLines \in Nat /\ MaxSize \in Nat
  /\ Rotate \in BOOLEAN /\ Daily \in BOOLEAN
  /\ MaxNumber \in Nat
  /\ DiskFails \in {"yes", "no"}

Record == UNION {[by : {g}, n : 1 .. NRecords[g]] : g \in Goroutines}
NoRecord == [by |-> Main, n |-> 0]

VARIABLES
  phase,       \* of main()
  logged,      \* logged[g]: the records g has made, ever
  pc,          \* pc[g]: where g is in intLogf
  seen,        \* seen[g]: the filters its loop has reached
  to,          \* to[g]: the filter it sends to, while it does
  filters,     \* the filters in the map Global
  channel,     \* channel[w]: the records buffered for writer w
  closed,      \* the channels that are closed
  writer,      \* writer[w]: where its goroutine is
  hand,        \* hand[w]: the record it took and has not written yet
  files,       \* the log files: 0 is the current one, k the one numbered k
  disk,        \* disk[k]: the records in file k
  lines, size, \* maxlines_curlines, maxsize_cursize
  midnight,    \* the day is not daily_opendate
  wrote        \* history: wrote[w] are the records w has written, ever

loggerVars == <<logged, pc, seen, to>>
writerVars == <<channel, writer, hand, wrote>>
diskVars   == <<files, disk, lines, size, midnight>>
vars == <<phase, loggerVars, filters, closed, writerVars, diskVars>>

Phase == {"down", "crashed", "boot", "loading", "serving", "crashing",
          "closing"}

TypeOK ==
  /\ phase \in Phase
  /\ logged \in [Goroutines -> Nat]
  /\ \A g \in Goroutines : logged[g] <= NRecords[g]
  /\ pc \in [Goroutines -> {"idle", "range", "send"}]
  /\ seen \in [Goroutines -> SUBSET Writers]
  /\ to \in [Goroutines -> Writers]
  /\ filters \subseteq Writers /\ closed \subseteq Writers
  /\ channel \in [Writers -> Seq(Record)]
  /\ \A w \in Writers : Len(channel[w]) <= LogBufferLength
  /\ writer \in
       [Writers -> {"none", "take", "rotate", "open", "write", "stopped"}]
  /\ hand \in [Writers -> Record \cup {NoRecord}]
  /\ files \subseteq 0 .. MaxNumber
  /\ disk \in [0 .. MaxNumber -> Seq(Record)]
  /\ lines \in Nat /\ size \in Nat /\ midnight \in BOOLEAN
  /\ wrote \in [Writers -> Seq(Record)]

Up == phase \notin {"down", "crashed"}

\* The state a process starts with: the package's init has run.  What
\* outlives a process is on the disk.
Fresh ==
  /\ UNCHANGED <<logged, files, disk, wrote>>
  /\ pc' = [g \in Goroutines |-> "idle"]
  /\ seen' = [g \in Goroutines |-> {}]
  /\ to' = [g \in Goroutines |-> "first"]
  /\ filters' = {"first"} /\ closed' = {}
  /\ channel' = [w \in Writers |-> <<>>]
  /\ writer' = [w \in Writers |-> IF w = "first" THEN "take" ELSE "none"]
  /\ hand' = [w \in Writers |-> NoRecord]
  /\ lines' = 0 /\ size' = 0 /\ midnight' = FALSE

ProcessEnds == phase' = "down" /\ Fresh

Init ==
  /\ phase = "boot"
  /\ logged = [g \in Goroutines |-> 0]
  /\ pc = [g \in Goroutines |-> "idle"]
  /\ seen = [g \in Goroutines |-> {}]
  /\ to = [g \in Goroutines |-> "first"]
  /\ filters = {"first"} /\ closed = {}
  /\ channel = [w \in Writers |-> <<>>]
  /\ writer = [w \in Writers |-> IF w = "first" THEN "take" ELSE "none"]
  /\ hand = [w \in Writers |-> NoRecord]
  /\ files = {} /\ disk = [k \in 0 .. MaxNumber |-> <<>>]
  /\ lines = 0 /\ size = 0 /\ midnight = FALSE
  /\ wrote = [w \in Writers |-> <<>>]

-----------------------------------------------------------------------------
(* intLogf, by any goroutine.                                              *)

Accepts(w, g) == LevelOf[g] >= FilterLevel[w]

\* The record is made only if some filter wants it.
MakesRecord(g) == \E w \in filters : Accepts(w, g)

NewRecord(g) ==
  /\ pc[g] = "idle" /\ logged[g] < NRecords[g] /\ MakesRecord(g)
  /\ logged' = [logged EXCEPT ![g] = @ + 1]
  /\ pc' = [pc EXCEPT ![g] = "range"]
  /\ seen' = [seen EXCEPT ![g] = {}]
  /\ UNCHANGED <<to, filters, closed, writerVars, diskVars>>

\* main() logs while it reads its options, everyone once it serves.
Log(g) ==
  /\ \/ phase = "boot" /\ g = Main
     \/ phase \in {"serving", "crashing", "closing"} /\ g # Main
     \/ phase = "serving"
  /\ NewRecord(g)
  /\ UNCHANGED phase

\* A step of the loop over the map, whose order is any.
RangeStep(g, w) ==
  /\ Up /\ pc[g] = "range" /\ w \in filters \ seen[g]
  /\ seen' = [seen EXCEPT ![g] = @ \cup {w}]
  /\ IF Accepts(w, g)
       THEN /\ pc' = [pc EXCEPT ![g] = "send"]
            /\ to' = [to EXCEPT ![g] = w]
       ELSE UNCHANGED <<pc, to>>
  /\ UNCHANGED <<phase, logged, filters, closed, writerVars, diskVars>>

\* A mutant of RangeEnds: the loop ends after the first filter.
RangeEndsEarly(g) ==
  /\ Up /\ pc[g] = "range" /\ seen[g] # {}
  /\ pc' = [pc EXCEPT ![g] = "idle"]
  /\ UNCHANGED <<phase, logged, seen, to, filters, closed, writerVars,
                 diskVars>>

RangeEnds(g) ==
  /\ Up /\ pc[g] = "range" /\ filters \subseteq seen[g]
  /\ pc' = [pc EXCEPT ![g] = "idle"]
  /\ UNCHANGED <<phase, logged, seen, to, filters, closed, writerVars,
                 diskVars>>

\* A mutant of HasRoom: room for one record too many.
HasRoomForMore(w) == Len(channel[w]) <= LogBufferLength

HasRoom(w) == Len(channel[w]) < LogBufferLength

\* LogWrite: the goroutine waits while the buffer is full.
LogWrite(g) ==
  /\ Up /\ pc[g] = "send" /\ to[g] \notin closed /\ HasRoom(to[g])
  /\ channel' = [channel EXCEPT ![to[g]] =
                   Append(@, [by |-> g, n |-> logged[g]])]
  /\ pc' = [pc EXCEPT ![g] = "range"] /\ to' = [to EXCEPT ![g] = "first"]
  /\ UNCHANGED <<phase, logged, seen, filters, closed, writer, hand, wrote,
                 diskVars>>

\* A send on a closed channel panics.
LogWritePanics(g) ==
  /\ Up /\ pc[g] = "send" /\ to[g] \in closed
  /\ ProcessEnds

\* The runtime may notice a loop over the map while Close deletes from it.
RuntimeAbort(g) ==
  /\ phase = "closing" /\ pc[g] = "range"
  /\ ProcessEnds

-----------------------------------------------------------------------------
(* The goroutines of the writers.                                          *)

\* A mutant of Due: one line, or one byte, too many.
DueLate ==
  \/ MaxLines > 0 /\ lines > MaxLines
  \/ MaxSize > 0 /\ size > MaxSize
  \/ Daily /\ midnight

Due ==
  \/ MaxLines > 0 /\ lines >= MaxLines
  \/ MaxSize > 0 /\ size >= MaxSize
  \/ Daily /\ midnight

\* A mutant of Take: the record stays in the buffer.
TakeCopies(w) ==
  /\ Up /\ writer[w] = "take" /\ channel[w] # <<>>
  /\ hand' = [hand EXCEPT ![w] = Head(channel[w])]
  /\ writer' = [writer EXCEPT ![w] =
                  IF w = "file" /\ Due THEN "rotate" ELSE "write"]
  /\ UNCHANGED <<phase, loggerVars, filters, closed, channel, wrote,
                 diskVars>>

Take(w) ==
  /\ Up /\ writer[w] = "take" /\ channel[w] # <<>>
  /\ hand' = [hand EXCEPT ![w] = Head(channel[w])]
  /\ channel' = [channel EXCEPT ![w] = Tail(@)]
  /\ writer' = [writer EXCEPT ![w] =
                  IF w = "file" /\ Due THEN "rotate" ELSE "write"]
  /\ UNCHANGED <<phase, loggerVars, filters, closed, wrote, diskVars>>

WriterEnds(w) ==
  /\ Up /\ writer[w] = "take" /\ channel[w] = <<>> /\ w \in closed
  /\ writer' = [writer EXCEPT ![w] = "stopped"]
  /\ UNCHANGED <<phase, loggerVars, filters, closed, channel, hand, wrote,
                 diskVars>>

Written(w) ==
  /\ wrote' = [wrote EXCEPT ![w] = Append(@, hand[w])]
  /\ hand' = [hand EXCEPT ![w] = NoRecord]
  /\ writer' = [writer EXCEPT ![w] = "take"]
  /\ UNCHANGED <<phase, loggerVars, filters, closed, channel>>

PrintLine(w) ==
  /\ Up /\ w \in Consoles /\ writer[w] = "write"
  /\ Written(w)
  /\ UNCHANGED diskVars

WriteFile ==
  /\ Up /\ writer["file"] = "write"
  /\ Written("file")
  /\ disk' = [disk EXCEPT ![0] = Append(@, hand["file"])]
  /\ lines' = lines + 1
  /\ size' = size + Bytes[hand["file"].by]
  /\ UNCHANGED <<files, midnight>>

\* A mutant of FileFails: the writer goes on with the next record.
FileFailsOnce ==
  IF phase = "loading"
    THEN ProcessEnds
    ELSE /\ writer' = [writer EXCEPT !["file"] = "take"]
         /\ hand' = [hand EXCEPT !["file"] = NoRecord]
         /\ UNCHANGED <<phase, loggerVars, filters, closed, channel, wrote,
                        diskVars>>

\* On any error the goroutine of the file writer returns.  In the first
\* intRotate, NewFileLogWriter returns nil and SetFormat panics.
FileFails ==
  IF phase = "loading"
    THEN ProcessEnds
    ELSE /\ writer' = [writer EXCEPT !["file"] = "stopped"]
         /\ hand' = [hand EXCEPT !["file"] = NoRecord]
         /\ UNCHANGED <<phase, loggerVars, filters, closed, channel, wrote,
                        diskVars>>

DiskError ==
  /\ Up /\ DiskFails = "yes"
  /\ \/ writer["file"] = "rotate" /\ Rotate /\ 0 \in files
     \/ writer["file"] \in {"open", "write"}
  /\ FileFails

\* A mutant of FreeNumbers: nobody looks whether the number is used.
AnyNumber == 1 .. MaxNumber

FreeNumbers == (1 .. MaxNumber) \ files

\* intRotate up to the renaming.
Rename ==
  /\ Up /\ writer["file"] = "rotate"
  /\ Rotate /\ 0 \in files
  /\ \E k \in FreeNumbers :
       /\ \A j \in FreeNumbers : k <= j
       /\ files' = (files \ {0}) \cup {k}
       /\ disk' = [disk EXCEPT ![k] = disk[0], ![0] = <<>>]
  /\ writer' = [writer EXCEPT !["file"] = "open"]
  /\ UNCHANGED <<phase, loggerVars, filters, closed, channel, hand, wrote,
                 lines, size, midnight>>

NothingToRename ==
  /\ Up /\ writer["file"] = "rotate"
  /\ ~Rotate \/ 0 \notin files
  /\ writer' = [writer EXCEPT !["file"] = "open"]
  /\ UNCHANGED <<phase, loggerVars, filters, closed, channel, hand, wrote,
                 diskVars>>

\* A mutant of NoFreeNumber: the search goes on for ever.
SearchesForever == FALSE

NoFreeNumber ==
  /\ Up /\ writer["file"] = "rotate"
  /\ Rotate /\ 0 \in files /\ FreeNumbers = {}
  /\ FileFails

\* The rest of intRotate: the file is appended to, or created.  At the end
\* of LoadConfiguration the filters come into the map.
Open ==
  /\ Up /\ writer["file"] = "open"
  /\ files' = files \cup {0}
  /\ lines' = 0 /\ size' = 0 /\ midnight' = FALSE
  /\ IF phase = "loading"
       THEN /\ phase' = "serving"
            /\ filters' = {"stdout", "file"}
            /\ writer' = [writer EXCEPT !["file"] = "take"]
       ELSE /\ writer' = [writer EXCEPT !["file"] = "write"]
            /\ UNCHANGED <<phase, filters>>
  /\ UNCHANGED <<loggerVars, closed, channel, hand, wrote, disk>>

\* It matters to an open file only: opening one reads the day again.
Midnight ==
  /\ Up /\ Daily /\ ~midnight /\ midnight' = TRUE
  /\ writer["file"] \in {"take", "write"}
  /\ UNCHANGED <<phase, loggerVars, filters, closed, writerVars, files, disk,
                 lines, size>>

-----------------------------------------------------------------------------
(* main().                                                                 *)

\* LoadConfiguration closes the logger before it reads the file.
LoadConfiguration ==
  /\ phase = "boot" /\ pc[Main] = "idle"
  /\ phase' = "loading"
  /\ UNCHANGED <<loggerVars, filters, closed, writerVars, diskVars>>

Close(w) ==
  /\ phase \in {"loading", "closing"} /\ w \in filters
  /\ closed' = closed \cup {w}
  /\ filters' = filters \ {w}
  /\ UNCHANGED <<phase, loggerVars, writerVars, diskVars>>

NewWriters ==
  /\ phase = "loading" /\ filters = {} /\ writer["file"] = "none"
  /\ writer' = [writer EXCEPT !["stdout"] = "take", !["file"] = "rotate"]
  /\ UNCHANGED <<phase, loggerVars, filters, closed, channel, hand, wrote,
                 diskVars>>

\* A configuration that cannot be read ends the process.
BadConfiguration ==
  /\ phase = "loading" /\ filters = {} /\ writer["file"] = "none"
  /\ ProcessEnds

\* ListenAndServe has returned: Crashf logs, closes the logger and panics.
Crashf ==
  /\ phase = "serving" /\ NewRecord(Main)
  /\ phase' = "crashing"

CrashfCloses ==
  /\ phase = "crashing" /\ pc[Main] = "idle"
  /\ phase' = "closing"
  /\ UNCHANGED <<loggerVars, filters, closed, writerVars, diskVars>>

CrashfPanics ==
  /\ phase = "closing" /\ filters = {}
  /\ phase' = "crashed"
  /\ UNCHANGED <<loggerVars, filters, closed, writerVars, diskVars>>

Kill ==
  /\ Up /\ ProcessEnds

Restart ==
  /\ ~Up /\ phase' = "boot"
  /\ Fresh

-----------------------------------------------------------------------------
Logger(g) ==
  \/ Log(g) \/ RangeEnds(g) \/ LogWrite(g) \/ LogWritePanics(g)
  \/ RuntimeAbort(g)
  \/ \E w \in Writers : RangeStep(g, w)

Writer(w) == Take(w) \/ WriterEnds(w) \/ PrintLine(w)

FileWriter == WriteFile \/ Rename \/ NothingToRename \/ NoFreeNumber \/ Open

MainStep ==
  \/ LoadConfiguration \/ NewWriters \/ BadConfiguration
  \/ Crashf \/ CrashfCloses \/ CrashfPanics
  \/ \E w \in Writers : Close(w)

Next ==
  \/ \E g \in Goroutines : Logger(g)
  \/ \E w \in Writers : Writer(w)
  \/ FileWriter \/ DiskError \/ Midnight
  \/ MainStep \/ Kill \/ Restart

Spec == Init /\ [][Next]_vars

\* Every goroutine that can run does.  The goroutines that wait to send on a
\* channel are served in the order they came, so none waits while others
\* send again and again.
FairSpec ==
  /\ Spec
  /\ \A g \in Goroutines : SF_vars(LogWrite(g))
  /\ \A w \in Consoles : WF_vars(Writer(w))
  /\ WF_vars(Writer("file") \/ FileWriter)

-----------------------------------------------------------------------------
(* Properties.                                                             *)

InHand(w) == IF hand[w] = NoRecord THEN <<>> ELSE <<hand[w]>>

\* All that was given to writer w.
Given(w) == wrote[w] \o InHand(w) \o channel[w]

\* What one goroutine logs reaches each writer in its order and once, over
\* rotations, failures and restarts (intLogf, LogWrite, the writers' loops).
OrderKept ==
  \A w \in Writers :
    LET given == Given(w)
    IN  \A i, j \in 1 .. Len(given) :
          i < j /\ given[i].by = given[j].by => given[i].n < given[j].n

\* A call that has returned has given its record to every filter whose level
\* accepts it; only a writer that has stopped may have dropped it (the loop
\* over the map at the end of intLogf).
LoggedEverywhere ==
  \A g \in Goroutines, w \in filters :
    /\ phase = "serving" /\ pc[g] = "idle" /\ seen[g] \cap filters # {}
    /\ Accepts(w, g) /\ writer[w] # "stopped"
    => \E i \in 1 .. Len(Given(w)) :
         Given(w)[i] = [by |-> g, n |-> logged[g]]

Numbered[k \in 0 .. MaxNumber] ==
  IF k = 0 THEN <<>> ELSE Numbered[k - 1] \o disk[k]

\* The numbered files, in the order of their numbers, and the current one
\* together hold every record ever written, in order: no rotation replaces
\* or reorders an old file (intRotate).
DiskHolds == Numbered[MaxNumber] \o disk[0] = wrote["file"]

\* The length of the records s.
BytesOf(s) ==
  LET upTo[i \in 0 .. Len(s)] ==
        IF i = 0 THEN 0 ELSE upTo[i - 1] + Bytes[s[i].by]
  IN  upTo[Len(s)]

\* With rotation a file has at most MaxLines records, and reaches MaxSize
\* with its last record only (the test before each write).
FileLimit ==
  \A k \in files : Rotate =>
    /\ MaxLines > 0 => Len(disk[k]) <= MaxLines
    /\ MaxSize > 0 /\ disk[k] # <<>> =>
         BytesOf(SubSeq(disk[k], 1, Len(disk[k]) - 1)) < MaxSize

Pending(w) == InHand(w) \o channel[w]

FirstQueue == INSTANCE RecordQueue WITH
  pending <- Pending("first"), delivered <- wrote["first"],
  broken <- writer["first"] = "stopped"

StdoutQueue == INSTANCE RecordQueue WITH
  pending <- Pending("stdout"), delivered <- wrote["stdout"],
  broken <- writer["stdout"] = "stopped"

FileQueue == INSTANCE RecordQueue WITH
  pending <- Pending("file"), delivered <- wrote["file"],
  broken <- writer["file"] = "stopped"

\* Each writer keeps the promise of RecordQueue.
WritersAreQueues == FirstQueue!Spec /\ StdoutQueue!Spec /\ FileQueue!Spec

\* A goroutine that logs gets on, unless the writer it waits for has stopped
\* (LogWrite blocks while the buffer is full).
LogReturns ==
  \A g \in Goroutines :
    Up /\ pc[g] = "send" ~>
      \/ ~Up \/ pc[g] # "send"
      \/ writer[to[g]] = "stopped"
=============================================================================
