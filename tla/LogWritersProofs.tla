-------------------------- MODULE LogWritersProofs --------------------------
(***************************************************************************)
(* Theorems about LogWriters for any number of goroutines and records, any *)
(* buffers, limits and numbers of files, with failures and kills.          *)
(***************************************************************************)
EXTENDS LogWriters, SequenceTheorems, WellFoundedInduction, TLAPS

------------------------------------------------------------------------------
(* Records.                                                                 *)

LEMMA MakeRecord ==
  ASSUME NEW g \in Goroutines, NEW n \in 1 .. NRecords[g]
  PROVE  [by |-> g, n |-> n] \in Record
<1>1. [by |-> g, n |-> n] \in [by : {g}, n : 1 .. NRecords[g]]
  OBVIOUS
<1>2. QED
  BY <1>1 DEF Record

LEMMA RecordFields ==
  ASSUME NEW r \in Record
  PROVE  /\ r.by \in Goroutines /\ r.n \in Nat /\ r.n >= 1
         /\ r = [by |-> r.by, n |-> r.n]
<1>1. PICK g \in Goroutines : r \in [by : {g}, n : 1 .. NRecords[g]]
  BY DEF Record
<1>2. NRecords[g] \in Nat
  BY LogAssumption
<1>3. QED
  BY <1>1, <1>2

LEMMA NoRecordIsNone == NoRecord \notin Record
<1>1. NoRecord.n = 0
  BY DEF NoRecord
<1>2. QED
  BY <1>1, RecordFields

------------------------------------------------------------------------------
(* Every variable stays in its range.                                       *)

LoggerType ==
  /\ logged \in [Goroutines -> Nat]
  /\ \A g \in Goroutines : logged[g] <= NRecords[g]
  /\ pc \in [Goroutines -> {"idle", "range", "send"}]
  /\ seen \in [Goroutines -> SUBSET Writers]
  /\ to \in [Goroutines -> Writers]

WriterType ==
  /\ channel \in [Writers -> Seq(Record)]
  /\ \A w \in Writers : Len(channel[w]) <= LogBufferLength
  /\ writer \in
       [Writers -> {"none", "take", "rotate", "open", "write", "stopped"}]
  /\ hand \in [Writers -> Record \cup {NoRecord}]
  /\ wrote \in [Writers -> Seq(Record)]

DiskType ==
  /\ files \subseteq 0 .. MaxNumber
  /\ disk \in [0 .. MaxNumber -> Seq(Record)]
  /\ lines \in Nat /\ size \in Nat /\ midnight \in BOOLEAN

MainType ==
  phase \in Phase /\ filters \subseteq Writers /\ closed \subseteq Writers

LEMMA Types == TypeOK <=> LoggerType /\ WriterType /\ DiskType /\ MainType
BY DEF TypeOK, LoggerType, WriterType, DiskType, MainType

\* Which record a writer has in hand, where it is.
HandInv ==
  /\ \A w \in Writers :
       /\ writer[w] \in {"none", "take", "stopped"} => hand[w] = NoRecord
       /\ writer[w] = "write" => hand[w] \in Record
  /\ \A w \in Consoles : writer[w] \notin {"rotate", "open"}
  /\ writer["file"] \in {"rotate", "open"} =>
       IF phase = "loading" THEN hand["file"] = NoRecord
                            ELSE hand["file"] \in Record
  /\ phase \in {"boot", "down"} => writer["file"] = "none"
  /\ phase = "loading" => writer["file"] \in {"none", "rotate", "open"}
  /\ writer["file"] = "none" => writer["stdout"] = "none"

\* A goroutine in intLogf has made a record.
MadeInv == \A g \in Goroutines : pc[g] # "idle" => logged[g] >= 1

Inv == LoggerType /\ WriterType /\ DiskType /\ MainType /\ HandInv /\ MadeInv

LEMMA WriterNames ==
  /\ Writers = Consoles \cup {"file"} /\ "file" \notin Consoles
  /\ Consoles = {"first", "stdout"}
  /\ {"first", "stdout", "file"} \subseteq Writers
BY DEF Writers, Consoles

LEMMA NoItems == << >> \in Seq(Record) /\ Len(<< >>) = 0
BY EmptySeq

LEMMA FreshInv ==
  ASSUME Inv, Fresh, phase' \in {"down", "boot"}
  PROVE  Inv'
<1> USE WriterNames, NoItems, LogAssumption
<1>1. LoggerType'
  BY DEF Inv, LoggerType, Fresh
<1>2. WriterType'
  <2>1. wrote' \in [Writers -> Seq(Record)]
    BY DEF Inv, WriterType, Fresh
  <2>2. channel' = [w \in Writers |-> << >>]
        /\ hand' = [w \in Writers |-> NoRecord]
        /\ writer' = [w \in Writers |-> IF w = "first" THEN "take"
                                                      ELSE "none"]
    BY DEF Fresh
  <2>3. channel' \in [Writers -> Seq(Record)]
        /\ \A w \in Writers : Len(channel'[w]) <= LogBufferLength
    BY <2>2
  <2>4. QED
    BY <2>1, <2>2, <2>3 DEF WriterType
<1>3. DiskType'
  BY Zenon DEF Inv, DiskType, Fresh
<1>4. MainType'
  BY DEF MainType, Fresh, Phase
<1>5. HandInv'
  BY DEF Fresh, HandInv
<1>6. MadeInv'
  BY DEF Fresh, MadeInv
<1>7. QED
  BY <1>1, <1>2, <1>3, <1>4, <1>5, <1>6 DEF Inv

LEMMA EndsInv == ASSUME Inv, ProcessEnds PROVE Inv'
BY FreshInv DEF ProcessEnds

\* Steps of a goroutine that logs.
LEMMA LoggerInv ==
  ASSUME Inv, NEW g \in Goroutines, Logger(g) \/ (g = Main /\ Crashf)
  PROVE  Inv'
<1> USE DEF Inv
<1>1. /\ pc \in [Goroutines -> {"idle", "range", "send"}]
      /\ seen \in [Goroutines -> SUBSET Writers]
      /\ to \in [Goroutines -> Writers]
      /\ logged \in [Goroutines -> Nat] /\ NRecords[g] \in Nat
  BY LogAssumption DEF LoggerType
<1>2. ASSUME NewRecord(g),
             phase' = phase \/ (phase = "serving" /\ phase' = "crashing")
      PROVE  Inv'
  <2>1. LoggerType' /\ MadeInv'
    BY <1>1, <1>2 DEF NewRecord, LoggerType, MadeInv
  <2>2. WriterType' /\ DiskType'
    BY <1>2 DEF NewRecord, WriterType, DiskType, writerVars, diskVars
  <2>3. MainType' /\ HandInv'
    BY <1>2 DEF NewRecord, MainType, HandInv, writerVars, Phase
  <2>4. QED
    BY <2>1, <2>2, <2>3
<1>3. ASSUME UNCHANGED <<phase, filters, closed, writerVars, diskVars>>,
             LoggerType', MadeInv'
      PROVE  Inv'
  <2>1. WriterType' /\ DiskType' /\ MainType' /\ HandInv'
    BY <1>3 DEF WriterType, DiskType, MainType, HandInv, writerVars, diskVars
  <2>2. QED
    BY <1>3, <2>1
<1>4. CASE \E w \in Writers : RangeStep(g, w)
  <2>1. PICK w \in Writers : RangeStep(g, w)
    BY <1>4
  <2>2. LoggerType' /\ MadeInv'
    BY <1>1, <2>1 DEF RangeStep, LoggerType, MadeInv
  <2>3. QED
    BY <1>3, <2>1, <2>2 DEF RangeStep
<1>5. CASE RangeEnds(g)
  BY <1>1, <1>3, <1>5 DEF RangeEnds, LoggerType, MadeInv
<1>6. CASE LogWrite(g)
  <2> DEFINE w == to[g]
             r == [by |-> g, n |-> logged[g]]
             s == Append(channel[w], r)
  <2>1. w \in Writers /\ channel[w] \in Seq(Record)
    BY <1>1 DEF WriterType
  <2>2. r \in Record
    BY <1>1, <1>6, MakeRecord DEF LogWrite, MadeInv, LoggerType
  <2>3. s \in Seq(Record) /\ Len(s) = Len(channel[w]) + 1
    <3> HIDE DEF r
    <3>1. QED
      BY <2>1, <2>2, AppendProperties
  <2>4. Len(s) <= LogBufferLength
    BY <1>6, <2>1, <2>3, LogAssumption DEF LogWrite, HasRoom
  <2>5. channel' = [channel EXCEPT ![w] = s]
    BY <1>6 DEF LogWrite
  <2> HIDE DEF s, r, w
  <2>6. WriterType'
    BY <1>6, <2>1, <2>3, <2>4, <2>5 DEF LogWrite, WriterType
  <2>7. LoggerType' /\ MadeInv'
    BY <1>1, <1>6, WriterNames DEF LogWrite, LoggerType, MadeInv
  <2>8. DiskType' /\ MainType' /\ HandInv'
    BY <1>6 DEF LogWrite, DiskType, MainType, HandInv, diskVars
  <2>9. QED
    BY <2>6, <2>7, <2>8
<1>7. CASE LogWritePanics(g) \/ RuntimeAbort(g)
  BY <1>7, EndsInv DEF LogWritePanics, RuntimeAbort
<1>8. CASE Log(g)
  BY <1>2, <1>8 DEF Log
<1>9. CASE g = Main /\ Crashf
  BY <1>2, <1>9 DEF Crashf
<1>10. QED
  BY <1>4, <1>5, <1>6, <1>7, <1>8, <1>9 DEF Logger

\* Steps of the writers' goroutines.
LEMMA TakeInv ==
  ASSUME Inv, NEW w \in Writers, Writer(w)
  PROVE  Inv'
<1> USE DEF Inv
<1>1. /\ channel[w] \in Seq(Record) /\ Len(channel[w]) <= LogBufferLength
      /\ LogBufferLength \in Nat
  BY LogAssumption DEF WriterType
<1>2. /\ writer \in [Writers ->
                     {"none", "take", "rotate", "open", "write", "stopped"}]
      /\ hand \in [Writers -> Record \cup {NoRecord}]
      /\ channel \in [Writers -> Seq(Record)]
      /\ wrote \in [Writers -> Seq(Record)]
  BY DEF WriterType
<1>3. ASSUME UNCHANGED <<phase, loggerVars, filters, closed, diskVars>>,
             WriterType', HandInv'
      PROVE  Inv'
  BY <1>3 DEF LoggerType, DiskType, MainType, MadeInv, loggerVars, diskVars
<1>4. CASE Take(w)
  <2> DEFINE p == IF w = "file" /\ Due THEN "rotate" ELSE "write"
             h == Head(channel[w])
             t == Tail(channel[w])
  <2>1. /\ h \in Record /\ t \in Seq(Record) /\ Len(t) = Len(channel[w]) - 1
        /\ Len(channel[w]) \in Nat
    BY <1>1, <1>4, HeadTailProperties DEF Take
  <2>2. p \in {"rotate", "write"} /\ (p = "rotate" => w = "file")
    OBVIOUS
  <2>3. /\ hand' = [hand EXCEPT ![w] = h]
        /\ channel' = [channel EXCEPT ![w] = t]
        /\ writer' = [writer EXCEPT ![w] = p]
        /\ wrote' = wrote /\ phase' = phase
    BY <1>4 DEF Take
  <2>4. writer[w] = "take"
    BY <1>4 DEF Take
  <2> HIDE DEF p, h, t
  <2>5. Len(t) <= LogBufferLength
    BY <1>1, <2>1
  <2>6. WriterType'
    BY <1>2, <2>1, <2>2, <2>3, <2>5 DEF WriterType
  <2>7. w = "file" => phase # "loading" /\ phase \notin {"boot", "down"}
    BY <2>4 DEF HandInv
  <2>8. HandInv'
    <3>1. /\ writer'[w] = p /\ hand'[w] = h
          /\ \A v \in Writers \ {w} :
               writer'[v] = writer[v] /\ hand'[v] = hand[v]
      BY <1>2, <2>3
    <3>2. CASE w = "file"
      BY <2>1, <2>2, <2>3, <2>7, <3>1, <3>2, WriterNames DEF HandInv
    <3>3. CASE w \in Consoles
      <4>1. writer["file"] = "none" => w = "first"
        BY <2>4, <3>3, WriterNames DEF HandInv
      <4>2. QED
        BY <2>1, <2>2, <2>3, <3>1, <3>3, <4>1, WriterNames DEF HandInv
    <3>4. QED
      BY <3>2, <3>3, WriterNames
  <2>9. QED
    BY <1>3, <1>4, <2>6, <2>8 DEF Take
<1>5. CASE WriterEnds(w)
  <2>1. WriterType'
    BY <1>2, <1>5 DEF WriterEnds, WriterType
  <2>2. HandInv'
    BY <1>2, <1>5, WriterNames DEF WriterEnds, HandInv
  <2>3. QED
    BY <1>3, <1>5, <2>1, <2>2 DEF WriterEnds
<1>6. CASE PrintLine(w)
  <2>1. /\ wrote[w] \in Seq(Record) /\ hand[w] \in Record
    BY <1>2, <1>6 DEF PrintLine, HandInv
  <2>2. Append(wrote[w], hand[w]) \in Seq(Record)
    BY <2>1, AppendProperties
  <2>3. WriterType'
    BY <1>2, <1>6, <2>2 DEF PrintLine, Written, WriterType
  <2>4. HandInv'
    BY <1>2, <1>6, WriterNames DEF PrintLine, Written, HandInv
  <2>5. QED
    BY <1>3, <1>6, <2>3, <2>4 DEF PrintLine, Written
<1>7. QED
  BY <1>4, <1>5, <1>6 DEF Writer

LEMMA FileFailsInv ==
  ASSUME Inv, Up, writer["file"] \in {"rotate", "open", "write"}, FileFails
  PROVE  Inv'
<1>1. CASE phase = "loading"
  BY <1>1, EndsInv DEF FileFails
<1>2. CASE phase # "loading"
  <2> USE DEF Inv
  <2>1. /\ writer' = [writer EXCEPT !["file"] = "stopped"]
        /\ hand' = [hand EXCEPT !["file"] = NoRecord]
        /\ UNCHANGED <<phase, loggerVars, filters, closed, channel, wrote,
                       diskVars>>
    BY <1>2 DEF FileFails
  <2>2. WriterType'
    BY <2>1, WriterNames DEF WriterType
  <2>3. phase \notin {"boot", "down"}
    BY DEF HandInv
  <2>4. HandInv'
    BY <1>2, <2>1, <2>3, WriterNames DEF HandInv, WriterType
  <2>5. QED
    BY <2>1, <2>2, <2>4
       DEF LoggerType, DiskType, MainType, MadeInv, loggerVars, diskVars
<1>3. QED
  BY <1>1, <1>2

LEMMA FileWriterInv ==
  ASSUME Inv, FileWriter \/ DiskError \/ Midnight
  PROVE  Inv'
<1> USE DEF Inv
<1>1. /\ writer \in [Writers ->
                     {"none", "take", "rotate", "open", "write", "stopped"}]
      /\ hand \in [Writers -> Record \cup {NoRecord}]
      /\ channel \in [Writers -> Seq(Record)]
      /\ wrote \in [Writers -> Seq(Record)]
      /\ disk \in [0 .. MaxNumber -> Seq(Record)] /\ 0 \in 0 .. MaxNumber
      /\ files \subseteq 0 .. MaxNumber /\ MaxNumber \in Nat
      /\ lines \in Nat /\ size \in Nat
  BY LogAssumption DEF WriterType, DiskType
<1>2. CASE WriteFile
  <2> DEFINE h == hand["file"]
  <2>1. h \in Record /\ "file" \in Writers
    BY <1>2, WriterNames DEF WriteFile, HandInv
  <2>2. Bytes[h.by] \in Nat
    BY <2>1, RecordFields, LogAssumption
  <2>3. /\ Append(wrote["file"], h) \in Seq(Record)
        /\ Append(disk[0], h) \in Seq(Record)
    BY <1>1, <2>1, AppendProperties
  <2>4. DiskType'
    <3>1. disk' = [disk EXCEPT ![0] = Append(disk[0], h)]
      BY <1>2 DEF WriteFile
    <3>2. disk' \in [0 .. MaxNumber -> Seq(Record)]
      BY <1>1, <2>3, <3>1
    <3>3. lines' \in Nat /\ size' \in Nat /\ files' = files
      BY <1>1, <1>2, <2>2 DEF WriteFile
    <3>4. midnight' \in BOOLEAN
      BY <1>2, Zenon DEF WriteFile, DiskType
    <3>5. QED
      BY <1>1, <3>2, <3>3, <3>4 DEF DiskType
  <2>5. WriterType'
    BY <1>1, <1>2, <2>1, <2>3 DEF WriteFile, Written, WriterType
  <2>6. HandInv'
    BY <1>1, <1>2, WriterNames DEF WriteFile, Written, HandInv
  <2>7. QED
    BY <1>2, <2>4, <2>5, <2>6
       DEF WriteFile, Written, LoggerType, MainType, MadeInv, loggerVars
<1>3. CASE Rename
  <2>1. PICK k \in FreeNumbers :
          /\ files' = (files \ {0}) \cup {k}
          /\ disk' = [disk EXCEPT ![k] = disk[0], ![0] = << >>]
    BY <1>3 DEF Rename
  <2>2. FreeNumbers \subseteq 1 .. MaxNumber
    BY DEF FreeNumbers
  <2>4. k \in 0 .. MaxNumber
    BY <1>1, <2>2
  <2>5. DiskType'
    <3>1. disk' \in [0 .. MaxNumber -> Seq(Record)]
      BY <1>1, <2>1, <2>4, NoItems
    <3>2. files' \subseteq 0 .. MaxNumber
      BY <1>1, <2>1, <2>4
    <3>3. lines' \in Nat /\ size' \in Nat
      BY <1>1, <1>3 DEF Rename
    <3>4. midnight' \in BOOLEAN
      BY <1>3, Zenon DEF Rename, DiskType
    <3>5. QED
      BY <3>1, <3>2, <3>3, <3>4 DEF DiskType
  <2>6. WriterType'
    BY <1>1, <1>3 DEF Rename, WriterType
  <2>7. HandInv'
    BY <1>1, <1>3, WriterNames DEF Rename, HandInv
  <2>8. QED
    BY <1>3, <2>5, <2>6, <2>7
       DEF Rename, LoggerType, MainType, MadeInv, loggerVars
<1>4. CASE NothingToRename
  <2>1. WriterType' /\ HandInv'
    BY <1>1, <1>4, WriterNames DEF NothingToRename, WriterType, HandInv
  <2>2. QED
    BY <1>4, <2>1 DEF NothingToRename, LoggerType, MainType, MadeInv,
       DiskType, loggerVars, diskVars
<1>5. CASE NoFreeNumber
  BY <1>5, FileFailsInv DEF NoFreeNumber
<1>6. CASE DiskError
  BY <1>6, FileFailsInv DEF DiskError
<1>7. CASE Open
  <2>1. /\ writer["file"] = "open" /\ UNCHANGED <<channel, hand, wrote>>
        /\ \/ /\ phase = "loading" /\ phase' = "serving"
              /\ filters' = {"stdout", "file"}
              /\ writer' = [writer EXCEPT !["file"] = "take"]
           \/ /\ phase # "loading" /\ UNCHANGED <<phase, filters>>
              /\ writer' = [writer EXCEPT !["file"] = "write"]
    BY <1>7 DEF Open
  <2>2. WriterType' /\ MainType'
    <3>1. MainType'
      BY <1>7, <2>1, WriterNames DEF Open, MainType, Phase
    <3>2. WriterType'
      BY <1>1, <2>1 DEF WriterType
    <3>3. QED
      BY <3>1, <3>2
  <2>3. HandInv'
    BY <1>1, <2>1, WriterNames DEF HandInv
  <2>4. DiskType'
    <3>1. files' \subseteq 0 .. MaxNumber /\ disk' = disk
          /\ lines' = 0 /\ size' = 0
      BY <1>1, <1>7 DEF Open
    <3>2. midnight' \in BOOLEAN
      BY <1>7, Zenon DEF Open
    <3>3. QED
      BY <1>1, <3>1, <3>2 DEF DiskType
  <2>5. QED
    BY <1>7, <2>2, <2>3, <2>4 DEF Open, LoggerType, MadeInv, loggerVars
<1>8. CASE Midnight
  <2>1. midnight' \in BOOLEAN
    BY <1>8, Zenon DEF Midnight
  <2>2. QED
    BY <1>1, <1>8, <2>1 DEF Midnight, LoggerType, WriterType, DiskType,
       MainType, HandInv, MadeInv, loggerVars, writerVars
<1>9. QED
  BY <1>2, <1>3, <1>4, <1>5, <1>6, <1>7, <1>8 DEF FileWriter

LEMMA MainInv ==
  ASSUME Inv, MainStep \/ Kill \/ Restart
  PROVE  Inv'
<1> USE DEF Inv
<1>1. ASSUME NEW p \in Phase, phase' = p,
             filters' \subseteq filters, closed' \subseteq Writers,
             UNCHANGED <<loggerVars, channel, hand, wrote, diskVars>>,
             WriterType', HandInv'
      PROVE  Inv'
  <2>1. LoggerType' /\ MadeInv'
    BY <1>1 DEF LoggerType, MadeInv, loggerVars
  <2>2. DiskType'
    BY <1>1 DEF DiskType, diskVars
  <2>3. MainType'
    BY <1>1 DEF MainType
  <2>4. QED
    BY <1>1, <2>1, <2>2, <2>3
<1>2. CASE LoadConfiguration
  <2>1. WriterType' /\ HandInv'
    BY <1>2 DEF LoadConfiguration, WriterType, HandInv, writerVars
  <2>2. closed \subseteq Writers
    BY DEF MainType
  <2>3. "loading" \in Phase
    BY DEF Phase
  <2>4. /\ phase' = "loading" /\ filters' = filters /\ closed' = closed
        /\ UNCHANGED <<loggerVars, channel, hand, wrote, diskVars>>
    BY <1>2 DEF LoadConfiguration, writerVars
  <2>5. QED
    BY <1>1, <2>1, <2>2, <2>3, <2>4
<1>3. CASE \E w \in Writers : Close(w)
  <2>1. PICK w \in Writers : Close(w)
    BY <1>3
  <2>2. WriterType' /\ HandInv'
    BY <2>1 DEF Close, WriterType, HandInv, writerVars
  <2>3. QED
    BY <1>1, <2>1, <2>2 DEF Close, writerVars, MainType
<1>4. CASE NewWriters
  <2>1. writer' = [writer EXCEPT !["stdout"] = "take", !["file"] = "rotate"]
        /\ phase = "loading" /\ phase' = phase
        /\ UNCHANGED <<channel, hand, wrote>> /\ writer["file"] = "none"
    BY <1>4 DEF NewWriters
  <2>2. WriterType'
    BY <2>1, WriterNames DEF WriterType
  <2>3. /\ HandInv /\ hand' = hand /\ phase' = phase /\ phase = "loading"
        /\ \A w \in Writers \ {"stdout", "file"} : writer'[w] = writer[w]
        /\ writer'["stdout"] = "take" /\ writer'["file"] = "rotate"
    BY <2>1, WriterNames DEF WriterType
  <2>4. hand["stdout"] = NoRecord
    BY <2>1, WriterNames DEF HandInv
  <2>5. HandInv'
    BY <2>3, <2>4, WriterNames DEF HandInv
  <2>6. QED
    BY <1>1, <1>4, <2>2, <2>5 DEF NewWriters, MainType
<1>5. CASE BadConfiguration \/ Kill
  BY <1>5, EndsInv DEF BadConfiguration, Kill
<1>6. CASE Restart
  BY <1>6, FreshInv DEF Restart
<1>7. CASE CrashfCloses
  <2>1. WriterType' /\ HandInv'
    BY <1>7 DEF CrashfCloses, WriterType, HandInv, writerVars
  <2>2. QED
    BY <1>1, <1>7, <2>1 DEF CrashfCloses, writerVars, MainType, Phase
<1>8. CASE CrashfPanics
  <2>1. WriterType' /\ HandInv'
    BY <1>8 DEF CrashfPanics, WriterType, HandInv, writerVars
  <2>2. QED
    BY <1>1, <1>8, <2>1 DEF CrashfPanics, writerVars, MainType, Phase
<1>9. CASE Crashf
  BY <1>9, LoggerInv, LogAssumption
<1>10. QED
  BY <1>2, <1>3, <1>4, <1>5, <1>6, <1>7, <1>8, <1>9 DEF MainStep

LEMMA NextInv == ASSUME Inv, [Next]_vars PROVE Inv'
<1>1. CASE UNCHANGED vars
  BY <1>1 DEF vars, loggerVars, writerVars, diskVars, Inv, LoggerType,
     WriterType, DiskType, MainType, HandInv, MadeInv
<1>2. QED
  BY <1>1, LoggerInv, TakeInv, FileWriterInv, MainInv DEF Next

LEMMA InitInv == ASSUME Init PROVE Inv
<1> USE WriterNames, NoItems, LogAssumption
<1>1. LoggerType
  BY DEF Init, LoggerType
<1>2. WriterType
  <2>1. \A w \in Writers : channel[w] = << >>
    BY DEF Init
  <2>2. /\ channel \in [Writers -> Seq(Record)]
        /\ wrote \in [Writers -> Seq(Record)]
        /\ hand \in [Writers -> Record \cup {NoRecord}]
    BY DEF Init
  <2>3. writer \in [Writers ->
          {"none", "take", "rotate", "open", "write", "stopped"}]
    BY DEF Init
  <2>4. \A w \in Writers : Len(channel[w]) <= LogBufferLength
    BY <2>1
  <2>5. QED
    BY <2>2, <2>3, <2>4 DEF WriterType
<1>3. DiskType
  <2>1. /\ files \subseteq 0 .. MaxNumber /\ lines \in Nat /\ size \in Nat
        /\ disk \in [0 .. MaxNumber -> Seq(Record)]
    BY DEF Init
  <2>2. midnight \in BOOLEAN
    BY Zenon DEF Init
  <2>3. QED
    BY <2>1, <2>2 DEF DiskType
<1>4. MainType /\ HandInv /\ MadeInv
  BY DEF Init, MainType, Phase, HandInv, MadeInv
<1>5. QED
  BY <1>1, <1>2, <1>3, <1>4 DEF Inv

LEMMA InvAlways == Spec => []Inv
<1>1. Init => Inv
  BY InitInv
<1>2. Inv /\ [Next]_vars => Inv'
  BY NextInv
<1>3. QED
  BY <1>1, <1>2, PTL DEF Spec

\* Every variable stays in its range: no buffer has more records than
\* LogBufferLength, no goroutine makes more than it does.
THEOREM LogTyped == Spec => []TypeOK
<1>1. Inv => TypeOK
  BY Types DEF Inv
<1>2. QED
  BY <1>1, InvAlways, PTL

------------------------------------------------------------------------------
(* Members of sequences, and sequences in the order of their records.       *)

In(x, s) == \E i \in 1 .. Len(s) : s[i] = x

\* Of two records of one goroutine x is the earlier.
Before(x, y) == x.by = y.by => x.n < y.n

Ordered(s) == \A i, j \in 1 .. Len(s) : i < j => Before(s[i], s[j])

LEMMA InNothing == Ordered(<< >>) /\ \A x : ~In(x, << >>)
BY NoItems DEF Ordered, In

LEMMA InConcat ==
  ASSUME NEW S, NEW s \in Seq(S), NEW t \in Seq(S), Ordered(s), Ordered(t),
         \A x, y : In(x, s) /\ In(y, t) => Before(x, y)
  PROVE  /\ s \o t \in Seq(S) /\ Ordered(s \o t)
         /\ \A x : In(x, s \o t) <=> In(x, s) \/ In(x, t)
<1> DEFINE u == s \o t
<1>1. /\ u \in Seq(S) /\ Len(u) = Len(s) + Len(t)
      /\ Len(s) \in Nat /\ Len(t) \in Nat
      /\ \A i \in 1 .. Len(u) :
           u[i] = IF i <= Len(s) THEN s[i] ELSE t[i - Len(s)]
  BY ConcatProperties
<1> HIDE DEF u
<1>2. \A i \in 1 .. Len(u) :
        \/ i \in 1 .. Len(s) /\ u[i] = s[i]
        \/ i > Len(s) /\ i - Len(s) \in 1 .. Len(t) /\ u[i] = t[i - Len(s)]
  BY <1>1
<1>3. Ordered(u)
  <2>1. SUFFICES ASSUME NEW i \in 1 .. Len(u), NEW j \in 1 .. Len(u), i < j
                 PROVE  Before(u[i], u[j])
    BY DEF Ordered
  <2>2. CASE i \in 1 .. Len(s) /\ j \in 1 .. Len(s)
    <3>1. u[i] = s[i] /\ u[j] = s[j]
      BY <1>1, <2>2
    <3>2. QED
      BY <2>1, <2>2, <3>1 DEF Ordered
  <2>3. CASE i \in 1 .. Len(s) /\ j > Len(s)
    <3>1. u[i] = s[i] /\ u[j] = t[j - Len(s)] /\ j - Len(s) \in 1 .. Len(t)
      BY <1>1, <2>3
    <3>2. In(u[i], s) /\ In(u[j], t)
      BY <2>3, <3>1 DEF In
    <3>3. QED
      BY <3>2
  <2>4. CASE i > Len(s) /\ j > Len(s)
    <3>1. /\ u[i] = t[i - Len(s)] /\ i - Len(s) \in 1 .. Len(t)
          /\ u[j] = t[j - Len(s)] /\ j - Len(s) \in 1 .. Len(t)
          /\ i - Len(s) < j - Len(s)
      BY <1>1, <2>1, <2>4
    <3>2. QED
      BY <3>1 DEF Ordered
  <2>5. QED
    BY <1>1, <2>1, <2>2, <2>3, <2>4
<1>4. ASSUME NEW x
      PROVE  In(x, u) <=> In(x, s) \/ In(x, t)
  <2>1. ASSUME In(x, u) PROVE In(x, s) \/ In(x, t)
    <3>1. PICK i \in 1 .. Len(u) : u[i] = x
      BY <2>1 DEF In
    <3>2. QED
      BY <1>2, <3>1 DEF In
  <2>2. ASSUME In(x, s) PROVE In(x, u)
    <3>1. PICK i \in 1 .. Len(s) : s[i] = x
      BY <2>2 DEF In
    <3>2. i \in 1 .. Len(u) /\ u[i] = x
      BY <1>1, <3>1
    <3>3. QED
      BY <3>2 DEF In
  <2>3. ASSUME In(x, t) PROVE In(x, u)
    <3>1. PICK i \in 1 .. Len(t) : t[i] = x
      BY <2>3 DEF In
    <3>2. /\ i + Len(s) \in 1 .. Len(u) /\ i + Len(s) > Len(s)
          /\ (i + Len(s)) - Len(s) = i
      BY <1>1, <3>1
    <3>3. u[i + Len(s)] = x
      BY <1>1, <3>1, <3>2
    <3>4. QED
      BY <3>2, <3>3 DEF In
  <2>4. QED
    BY <2>1, <2>2, <2>3
<1>5. QED
  BY <1>1, <1>3, <1>4 DEF u

LEMMA InAppend ==
  ASSUME NEW S, NEW s \in Seq(S), NEW e \in S, Ordered(s),
         \A x : In(x, s) => Before(x, e)
  PROVE  /\ Ordered(Append(s, e))
         /\ \A x : In(x, Append(s, e)) <=> In(x, s) \/ x = e
<1> DEFINE u == Append(s, e)
<1>1. /\ Len(u) = Len(s) + 1 /\ Len(s) \in Nat /\ u[Len(u)] = e
      /\ \A i \in 1 .. Len(s) : u[i] = s[i]
  BY AppendProperties
<1> HIDE DEF u
<1>2. \A i \in 1 .. Len(u) : i \in 1 .. Len(s) \/ i = Len(u)
  BY <1>1
<1>3. \A i \in 1 .. Len(s) : i \in 1 .. Len(u) /\ i < Len(u)
  BY <1>1
<1>4. Ordered(u)
  <2>1. SUFFICES ASSUME NEW i \in 1 .. Len(u), NEW j \in 1 .. Len(u), i < j
                 PROVE  Before(u[i], u[j])
    BY DEF Ordered
  <2>2. i \in 1 .. Len(s)
    BY <1>1, <2>1
  <2>3. CASE j \in 1 .. Len(s)
    BY <1>1, <2>1, <2>2, <2>3 DEF Ordered
  <2>4. CASE j = Len(u)
    <3>1. In(u[i], s)
      BY <1>1, <2>2 DEF In
    <3>2. QED
      BY <1>1, <2>4, <3>1
  <2>5. QED
    BY <1>2, <2>3, <2>4
<1>5. ASSUME NEW x
      PROVE  In(x, u) <=> In(x, s) \/ x = e
  <2>1. Len(u) \in 1 .. Len(u)
    BY <1>1
  <2>2. QED
    BY <1>1, <1>2, <1>3, <2>1 DEF In
<1>6. QED
  BY <1>4, <1>5 DEF u

LEMMA InTail ==
  ASSUME NEW S, NEW s \in Seq(S), s # << >>, Ordered(s)
  PROVE  /\ Ordered(Tail(s)) /\ \A x : In(x, Tail(s)) => Before(Head(s), x)
         /\ \A x : In(x, s) <=> x = Head(s) \/ In(x, Tail(s))
<1> DEFINE u == Tail(s)
<1>1. /\ Len(u) = Len(s) - 1 /\ Len(s) \in Nat \ {0} /\ Head(s) = s[1]
      /\ \A i \in 1 .. Len(u) : u[i] = s[i + 1]
  BY HeadTailProperties
<1> HIDE DEF u
<1>2. \A i \in 1 .. Len(u) : i + 1 \in 1 .. Len(s) /\ 1 < i + 1
  BY <1>1
<1>3. 1 \in 1 .. Len(s)
  BY <1>1
<1>4. Ordered(u)
  BY <1>1, <1>2 DEF Ordered
<1>5. \A x : In(x, u) => Before(Head(s), x)
  BY <1>1, <1>2, <1>3 DEF Ordered, In
<1>6. ASSUME NEW x
      PROVE  In(x, s) <=> x = Head(s) \/ In(x, u)
  <2>1. ASSUME In(x, s) PROVE x = Head(s) \/ In(x, u)
    <3>1. PICK i \in 1 .. Len(s) : s[i] = x
      BY <2>1 DEF In
    <3>2. CASE i # 1
      <4>1. i - 1 \in 1 .. Len(u) /\ u[i - 1] = s[i]
        BY <1>1, <3>1, <3>2
      <4>2. QED
        BY <3>1, <4>1 DEF In
    <3>3. QED
      BY <1>1, <3>1, <3>2
  <2>2. ASSUME In(x, u) PROVE In(x, s)
    <3>1. PICK i \in 1 .. Len(u) : u[i] = x
      BY <2>2 DEF In
    <3>2. QED
      BY <1>1, <1>2, <3>1 DEF In
  <2>3. ASSUME x = Head(s) PROVE In(x, s)
    BY <1>1, <1>3, <2>3 DEF In
  <2>4. QED
    BY <2>1, <2>2, <2>3
<1>7. QED
  BY <1>4, <1>5, <1>6 DEF u

------------------------------------------------------------------------------
(* What was given to a writer.                                              *)

\* Writer w has written record x, has it in hand or in its buffer.
Has(w, x) == In(x, wrote[w]) \/ In(x, channel[w])
               \/ (hand[w] \in Record /\ x = hand[w])

\* In the order in which they were given.
InOrder(w) ==
  /\ Ordered(wrote[w]) /\ Ordered(channel[w])
  /\ \A x, y : In(x, wrote[w]) /\ In(y, channel[w]) => Before(x, y)
  /\ hand[w] \in Record =>
       /\ \A x : In(x, wrote[w]) => Before(x, hand[w])
       /\ \A x : In(x, channel[w]) => Before(hand[w], x)

\* They are records that were made; the newest of a goroutine that has not
\* returned is there only if its loop has been at w.
Made(w) ==
  \A x : Has(w, x) =>
    /\ x \in Record /\ x.n <= logged[x.by]
    /\ x.n = logged[x.by] /\ pc[x.by] # "idle" =>
         w \in seen[x.by] /\ ~(pc[x.by] = "send" /\ to[x.by] = w)

Sends == \A g \in Goroutines : pc[g] = "send" => to[g] \in seen[g]

OrderInv == Sends /\ \A w \in Writers : InOrder(w) /\ Made(w)

LEMMA Sequences ==
  ASSUME Inv, NEW w \in Writers
  PROVE  /\ wrote[w] \in Seq(Record) /\ channel[w] \in Seq(Record)
         /\ hand[w] \in Record \cup {NoRecord} /\ NoRecord \notin Record
BY NoRecordIsNone DEF Inv, WriterType

\* Nothing happens to w's records.
LEMMA KeptOrder ==
  ASSUME NEW w \in Writers, InOrder(w),
         wrote'[w] = wrote[w], channel'[w] = channel[w], hand'[w] = hand[w]
  PROVE  InOrder(w)' /\ \A x : Has(w, x)' <=> Has(w, x)
BY DEF InOrder, Has

LEMMA TakeOrder ==
  ASSUME Inv, NEW w \in Writers, InOrder(w), Take(w)
  PROVE  InOrder(w)' /\ \A x : Has(w, x)' <=> Has(w, x)
<1> DEFINE h == Head(channel[w])
           t == Tail(channel[w])
<1>1. /\ channel[w] \in Seq(Record) /\ channel[w] # << >>
      /\ writer[w] = "take"
  BY Sequences DEF Take
<1>2. hand[w] \notin Record
  BY <1>1, NoRecordIsNone DEF Inv, HandInv
<1>3. h \in Record
  BY <1>1, HeadTailProperties
<1>4. /\ Ordered(t) /\ \A x : In(x, t) => Before(h, x)
      /\ \A x : In(x, channel[w]) <=> x = h \/ In(x, t)
  BY <1>1, InTail DEF InOrder
<1>5. channel'[w] = t /\ hand'[w] = h /\ wrote'[w] = wrote[w]
  BY DEF Take, Inv, WriterType
<1> HIDE DEF h, t
<1>6. InOrder(w)'
  BY <1>3, <1>4, <1>5 DEF InOrder
<1>7. \A x : Has(w, x)' <=> Has(w, x)
  BY <1>2, <1>3, <1>4, <1>5 DEF Has
<1>8. QED
  BY <1>6, <1>7

LEMMA WrittenOrder ==
  ASSUME Inv, NEW w \in Writers, InOrder(w), writer[w] = "write", Written(w)
  PROVE  InOrder(w)' /\ \A x : Has(w, x)' <=> Has(w, x)
<1> DEFINE h == hand[w]
           u == Append(wrote[w], h)
<1>1. h \in Record /\ wrote[w] \in Seq(Record)
  BY Sequences DEF Inv, HandInv
<1>2. Ordered(u) /\ \A x : In(x, u) <=> In(x, wrote[w]) \/ x = h
  BY <1>1, InAppend DEF InOrder
<1>3. wrote'[w] = u /\ hand'[w] = NoRecord /\ channel'[w] = channel[w]
  BY DEF Written, Inv, WriterType
<1> HIDE DEF u
<1>4. InOrder(w)'
  BY <1>1, <1>2, <1>3, NoRecordIsNone DEF InOrder
<1>5. \A x : Has(w, x)' <=> Has(w, x)
  BY <1>1, <1>2, <1>3, NoRecordIsNone DEF Has
<1>6. QED
  BY <1>4, <1>5

LEMMA LogWriteOrder ==
  ASSUME Inv, NEW w \in Writers, InOrder(w), NEW r \in Record,
         \A x : Has(w, x) => Before(x, r),
         channel'[w] = Append(channel[w], r),
         wrote'[w] = wrote[w], hand'[w] = hand[w]
  PROVE  InOrder(w)' /\ \A x : Has(w, x)' <=> Has(w, x) \/ x = r
<1>1. channel[w] \in Seq(Record)
  BY Sequences
<1> DEFINE u == Append(channel[w], r)
<1>2. Ordered(u) /\ \A x : In(x, u) <=> In(x, channel[w]) \/ x = r
  BY <1>1, InAppend DEF InOrder, Has
<1>3. channel'[w] = u
  OBVIOUS
<1> HIDE DEF u
<1>4. InOrder(w)'
  BY <1>2, <1>3 DEF InOrder, Has
<1>5. \A x : Has(w, x)' <=> Has(w, x) \/ x = r
  BY <1>2, <1>3 DEF Has
<1>6. QED
  BY <1>4, <1>5

\* What w has in hand is lost, or what it has in its buffer too.
LEMMA LostOrder ==
  ASSUME NEW w \in Writers, InOrder(w), wrote'[w] = wrote[w],
         channel'[w] \in {channel[w], << >>}, hand'[w] = NoRecord
  PROVE  InOrder(w)' /\ \A x : Has(w, x)' => Has(w, x)
BY InNothing, NoRecordIsNone DEF InOrder, Has

\* The writers have no more than before, and the goroutines do as before.
LEMMA SameMade ==
  ASSUME OrderInv, UNCHANGED loggerVars,
         \A w \in Writers : InOrder(w)' /\ \A x : Has(w, x)' => Has(w, x)
  PROVE  OrderInv'
<1>1. Sends'
  BY DEF OrderInv, Sends, loggerVars
<1>2. ASSUME NEW w \in Writers
      PROVE  Made(w)'
  BY DEF OrderInv, Made, loggerVars
<1>3. QED
  BY <1>1, <1>2 DEF OrderInv

LEMMA FreshOrder == ASSUME Inv, OrderInv, Fresh PROVE OrderInv'
<1>1. ASSUME NEW w \in Writers
      PROVE  /\ InOrder(w)' /\ \A x : Has(w, x)' => Has(w, x)
             /\ Made(w)'
  <2>1. /\ wrote'[w] = wrote[w] /\ channel'[w] = << >>
        /\ hand'[w] = NoRecord /\ InOrder(w) /\ Made(w)
    BY DEF Fresh, OrderInv
  <2>2. InOrder(w)' /\ \A x : Has(w, x)' => Has(w, x)
    BY <2>1, LostOrder
  <2>3. logged' = logged /\ pc' = [g \in Goroutines |-> "idle"]
    BY DEF Fresh
  <2>4. ASSUME NEW x, Has(w, x)'
        PROVE  x \in Record /\ x.n <= logged'[x.by] /\ pc'[x.by] = "idle"
    <3>1. x \in Record /\ x.n <= logged[x.by]
      BY <2>1, <2>2, <2>4 DEF Made
    <3>2. x.by \in Goroutines
      BY <3>1, RecordFields
    <3>3. QED
      BY <2>3, <3>1, <3>2
  <2>5. QED
    BY <2>2, <2>4 DEF Made
<1>2. Sends'
  BY DEF Sends, Fresh
<1>3. QED
  BY <1>1, <1>2 DEF OrderInv

\* A goroutine that logs, or looks at the next filter.
LEMMA LoopOrder ==
  ASSUME Inv, OrderInv, NEW g \in Goroutines,
         UNCHANGED <<wrote, channel, hand>>,
         NewRecord(g) \/ RangeEnds(g) \/ \E w \in Writers : RangeStep(g, w)
  PROVE  OrderInv'
<1>1. LoggerType
  BY DEF Inv
<1>2. \A h \in Goroutines \ {g} : /\ logged'[h] = logged[h] /\ pc'[h] = pc[h]
                                  /\ seen'[h] = seen[h] /\ to'[h] = to[h]
  BY <1>1 DEF LoggerType, NewRecord, RangeEnds, RangeStep
<1>3. ASSUME NEW w \in Writers
      PROVE  InOrder(w)' /\ \A x : Has(w, x)' <=> Has(w, x)
  BY KeptOrder DEF OrderInv
<1>4. ASSUME NEW w \in Writers, NEW x, Has(w, x)
      PROVE  /\ x \in Record /\ x.n <= logged'[x.by]
             /\ x.n = logged'[x.by] /\ pc'[x.by] # "idle" =>
                  /\ w \in seen'[x.by]
                  /\ ~(pc'[x.by] = "send" /\ to'[x.by] = w)
  <2>1. /\ x \in Record /\ x.n <= logged[x.by]
        /\ x.n = logged[x.by] /\ pc[x.by] # "idle" =>
             w \in seen[x.by] /\ ~(pc[x.by] = "send" /\ to[x.by] = w)
    BY <1>4 DEF OrderInv, Made
  <2>2. x.by \in Goroutines /\ x.n \in Nat
    BY <2>1, RecordFields
  <2>3. CASE x.by # g
    BY <1>2, <2>1, <2>2, <2>3
  <2>4. CASE x.by = g /\ NewRecord(g)
    <3>1. logged'[g] = logged[g] + 1 /\ logged[g] \in Nat
      BY <1>1, <2>4 DEF NewRecord, LoggerType
    <3>2. QED
      BY <2>1, <2>2, <2>4, <3>1
  <2>5. CASE x.by = g /\ RangeEnds(g)
    <3>1. pc'[g] = "idle" /\ logged' = logged
      BY <1>1, <2>5 DEF RangeEnds, LoggerType
    <3>2. QED
      BY <2>1, <2>5, <3>1
  <2>6. ASSUME x.by = g, NEW v \in Writers, RangeStep(g, v)
        PROVE  /\ x.n <= logged'[g]
               /\ x.n = logged'[g] =>
                    w \in seen'[g] /\ ~(pc'[g] = "send" /\ to'[g] = w)
    <3>1. /\ pc[g] = "range" /\ v \notin seen[g] /\ logged' = logged
          /\ seen'[g] = seen[g] \cup {v}
          /\ pc'[g] = "send" => to'[g] = v
      BY <1>1, <2>6 DEF RangeStep, LoggerType
    <3>2. QED
      BY <2>1, <2>6, <3>1
  <2>7. QED
    BY <2>1, <2>3, <2>4, <2>5, <2>6
<1>5. Sends'
  <2>1. ASSUME NEW h \in Goroutines, pc'[h] = "send"
        PROVE  to'[h] \in seen'[h]
    <3>1. CASE h # g
      BY <1>2, <2>1, <3>1 DEF OrderInv, Sends
    <3>2. CASE h = g
      <4>1. PICK v \in Writers : RangeStep(g, v)
        BY <1>1, <2>1, <3>2 DEF NewRecord, RangeEnds, LoggerType
      <4>2. QED
        BY <1>1, <2>1, <3>2, <4>1 DEF RangeStep, LoggerType
    <3>3. QED
      BY <3>1, <3>2
  <2>2. QED
    BY <2>1 DEF Sends
<1>6. QED
  BY <1>3, <1>4, <1>5 DEF OrderInv, Made

LEMMA SendOrder ==
  ASSUME Inv, OrderInv, NEW g \in Goroutines, LogWrite(g),
         NEW w, w = to[g], NEW r, r = [by |-> g, n |-> logged[g]]
  PROVE  OrderInv'
<1>1. LoggerType /\ w \in Writers /\ pc[g] = "send" /\ w \in seen[g]
  BY DEF Inv, LoggerType, LogWrite, OrderInv, Sends
<1>2. r \in Record /\ r.by = g /\ r.n = logged[g]
  <2>1. logged[g] \in 1 .. NRecords[g]
    BY <1>1, LogAssumption DEF Inv, MadeInv, LoggerType
  <2>2. QED
    BY <2>1, MakeRecord
<1>3. /\ channel' = [channel EXCEPT ![w] = Append(@, r)]
      /\ UNCHANGED <<wrote, hand, logged, seen>>
      /\ pc' = [pc EXCEPT ![g] = "range"] /\ to' = [to EXCEPT ![g] = "first"]
  BY DEF LogWrite
<1>4. channel'[w] = Append(channel[w], r)
      /\ \A v \in Writers \ {w} : channel'[v] = channel[v]
  BY <1>1, <1>3 DEF Inv, WriterType
<1>5. \A x : Has(w, x) => Before(x, r)
  <2>1. SUFFICES ASSUME NEW x, Has(w, x), x.by = g
                 PROVE  x.n < logged[g]
    BY <1>2 DEF Before
  <2>2. /\ x \in Record /\ x.n <= logged[x.by]
        /\ x.n = logged[x.by] /\ pc[x.by] # "idle" =>
             w \in seen[x.by] /\ ~(pc[x.by] = "send" /\ to[x.by] = w)
    BY <1>1, <2>1 DEF OrderInv, Made
  <2>3. x.n \in Nat /\ logged[g] \in Nat
    BY <1>1, <2>2, RecordFields DEF LoggerType
  <2>4. QED
    BY <1>1, <2>1, <2>2, <2>3
<1>6. InOrder(w)' /\ \A x : Has(w, x)' <=> Has(w, x) \/ x = r
  <2>1. InOrder(w) /\ wrote'[w] = wrote[w] /\ hand'[w] = hand[w]
    BY <1>1, <1>3 DEF OrderInv
  <2>2. QED
    BY <1>1, <1>2, <1>4, <1>5, <2>1, LogWriteOrder
<1>7. ASSUME NEW v \in Writers \ {w}
      PROVE  InOrder(v)' /\ \A x : Has(v, x)' <=> Has(v, x)
  BY <1>3, <1>4, KeptOrder DEF OrderInv
<1>8. /\ pc'[g] = "range" /\ \A h \in Goroutines \ {g} :
                                pc'[h] = pc[h] /\ to'[h] = to[h]
  BY <1>1, <1>3 DEF LoggerType
<1>9. ASSUME NEW v \in Writers, NEW x, Has(v, x)'
      PROVE  /\ x \in Record /\ x.n <= logged'[x.by]
             /\ x.n = logged'[x.by] /\ pc'[x.by] # "idle" =>
                  /\ v \in seen'[x.by]
                  /\ ~(pc'[x.by] = "send" /\ to'[x.by] = v)
  <2>1. CASE Has(v, x)
    <3>1. /\ x \in Record /\ x.n <= logged[x.by]
          /\ x.n = logged[x.by] /\ pc[x.by] # "idle" =>
               v \in seen[x.by] /\ ~(pc[x.by] = "send" /\ to[x.by] = v)
      BY <2>1 DEF OrderInv, Made
    <3>2. x.by \in Goroutines
      BY <3>1, RecordFields
    <3>3. QED
      BY <1>1, <1>3, <1>8, <3>1, <3>2
  <2>2. CASE v = w /\ x = r
    <3>1. logged[g] \in Nat
      BY <1>1 DEF LoggerType
    <3>2. QED
      BY <1>1, <1>2, <1>3, <1>8, <2>2, <3>1
  <2>3. Has(v, x) \/ (v = w /\ x = r)
    <3>1. CASE v = w
      BY <1>6, <1>9, <3>1
    <3>2. CASE v # w
      BY <1>7, <1>9, <3>2
    <3>3. QED
      BY <3>1, <3>2
  <2>4. QED
    BY <2>1, <2>2, <2>3
<1>10. Sends'
  BY <1>3, <1>8 DEF OrderInv, Sends
<1>11. ASSUME NEW v \in Writers
       PROVE  InOrder(v)' /\ Made(v)'
  <2>1. InOrder(v)'
    <3>1. CASE v = w
      BY <1>6, <3>1
    <3>2. CASE v # w
      BY <1>7, <3>2
    <3>3. QED
      BY <3>1, <3>2
  <2>2. QED
    BY <1>9, <2>1 DEF Made
<1>12. QED
  BY <1>10, <1>11 DEF OrderInv

\* A step of the writers leaves w's records as they are, or w stops.
Kept(w) ==
  /\ InOrder(w)' /\ \A x : Has(w, x)' => Has(w, x)
  /\ writer'[w] # "stopped" =>
       writer[w] # "stopped" /\ \A x : Has(w, x) => Has(w, x)'

LEMMA QuietKept ==
  ASSUME OrderInv, UNCHANGED <<wrote, channel, hand>>,
         \A w \in Writers : writer'[w] # "stopped" => writer[w] # "stopped"
  PROVE  \A w \in Writers : Kept(w)
BY KeptOrder DEF Kept, OrderInv

LEMMA OthersKept ==
  ASSUME Inv, OrderInv, NEW v \in Writers,
         \A w \in Writers \ {v} :
           /\ wrote'[w] = wrote[w] /\ channel'[w] = channel[w]
           /\ hand'[w] = hand[w] /\ writer'[w] = writer[w],
         Kept(v)
  PROVE  \A w \in Writers : Kept(w)
BY KeptOrder DEF Kept, OrderInv

LEMMA FileFailsKept ==
  ASSUME Inv, OrderInv, FileFails
  PROVE  Fresh \/ \A w \in Writers : Kept(w)
<1>1. CASE phase = "loading"
  BY <1>1 DEF FileFails, ProcessEnds
<1>2. CASE phase # "loading"
  <2>1. /\ writer' = [writer EXCEPT !["file"] = "stopped"]
        /\ hand' = [hand EXCEPT !["file"] = NoRecord]
        /\ UNCHANGED <<channel, wrote>>
    BY <1>2 DEF FileFails
  <2>2. /\ writer'["file"] = "stopped" /\ hand'["file"] = NoRecord
        /\ \A w \in Writers \ {"file"} :
             writer'[w] = writer[w] /\ hand'[w] = hand[w]
        /\ "file" \in Writers
    BY <2>1, WriterNames DEF Inv, WriterType
  <2>3. /\ wrote'["file"] = wrote["file"]
        /\ channel'["file"] \in {channel["file"], << >>}
        /\ InOrder("file")
    BY <2>1, <2>2 DEF OrderInv
  <2>4. Kept("file")
    BY <2>2, <2>3, LostOrder DEF Kept
  <2>5. QED
    BY <2>1, <2>2, <2>4, OthersKept
<1>3. QED
  BY <1>1, <1>2

LEMMA WritersKept ==
  ASSUME Inv, OrderInv,
         FileWriter \/ DiskError \/ Midnight \/ \E v \in Writers : Writer(v)
  PROVE  Fresh \/ \A w \in Writers : Kept(w)
<1>1. /\ writer \in [Writers ->
                     {"none", "take", "rotate", "open", "write", "stopped"}]
      /\ hand \in [Writers -> Record \cup {NoRecord}]
      /\ channel \in [Writers -> Seq(Record)]
      /\ wrote \in [Writers -> Seq(Record)]
  BY DEF Inv, WriterType
<1>2. ASSUME NEW v \in Writers, Take(v)
      PROVE  \A w \in Writers : Kept(w)
  <2>1. /\ wrote' = wrote
        /\ hand' = [hand EXCEPT ![v] = Head(channel[v])]
        /\ channel' = [channel EXCEPT ![v] = Tail(@)]
    BY <1>2 DEF Take
  <2>2. writer' = [writer EXCEPT ![v] =
                     IF v = "file" /\ Due THEN "rotate" ELSE "write"]
        /\ writer[v] = "take"
    BY <1>2 DEF Take
  <2>3. \A w \in Writers \ {v} :
           /\ wrote'[w] = wrote[w] /\ channel'[w] = channel[w]
           /\ hand'[w] = hand[w] /\ writer'[w] = writer[w]
    BY <1>1, <2>1, <2>2
  <2>4. InOrder(v)' /\ \A x : Has(v, x)' <=> Has(v, x)
    BY <1>2, TakeOrder DEF OrderInv
  <2>5. Kept(v)
    BY <2>2, <2>4 DEF Kept
  <2>6. QED
    BY <2>3, <2>5, OthersKept
<1>3. ASSUME NEW v \in Writers, writer[v] = "write", Written(v)
      PROVE  \A w \in Writers : Kept(w)
  <2>1. \A w \in Writers \ {v} :
           /\ wrote'[w] = wrote[w] /\ channel'[w] = channel[w]
           /\ hand'[w] = hand[w] /\ writer'[w] = writer[w]
    BY <1>1, <1>3 DEF Written
  <2>2. InOrder(v)' /\ \A x : Has(v, x)' <=> Has(v, x)
    BY <1>3, WrittenOrder DEF OrderInv
  <2>3. Kept(v)
    BY <1>3, <2>2 DEF Kept
  <2>4. QED
    BY <2>1, <2>3, OthersKept
<1>4. ASSUME NEW v \in Writers, WriterEnds(v)
      PROVE  \A w \in Writers : Kept(w)
  BY <1>1, <1>4, QuietKept DEF WriterEnds
<1>5. CASE \E v \in Writers : Writer(v)
  BY <1>2, <1>3, <1>4, <1>5 DEF Writer, PrintLine
<1>6. CASE WriteFile
  BY <1>3, <1>6, WriterNames DEF WriteFile
<1>7. CASE Rename \/ NothingToRename
  <2>1. /\ UNCHANGED <<wrote, channel, hand>> /\ writer["file"] = "rotate"
        /\ writer' = [writer EXCEPT !["file"] = "open"]
    BY <1>7 DEF Rename, NothingToRename
  <2>2. QED
    BY <1>1, <2>1, QuietKept
<1>8. CASE Open
  <2>1. /\ UNCHANGED <<wrote, channel, hand>> /\ writer["file"] = "open"
        /\ \/ writer' = [writer EXCEPT !["file"] = "take"]
           \/ writer' = [writer EXCEPT !["file"] = "write"]
    BY <1>8 DEF Open
  <2>2. QED
    BY <1>1, <2>1, QuietKept
<1>9. CASE NoFreeNumber \/ DiskError
  BY <1>9, FileFailsKept DEF NoFreeNumber, DiskError
<1>10. CASE Midnight
  BY <1>10, QuietKept DEF Midnight, writerVars
<1>11. QED
  BY <1>5, <1>6, <1>7, <1>8, <1>9, <1>10 DEF FileWriter

LEMMA OrderNext ==
  ASSUME Inv, OrderInv, [Next]_vars
  PROVE  OrderInv'
<1>1. ASSUME UNCHANGED loggerVars, \A w \in Writers : Kept(w)
      PROVE  OrderInv'
  BY <1>1, SameMade DEF Kept
<1>2. ASSUME UNCHANGED <<loggerVars, writerVars>>
      PROVE  OrderInv'
  BY <1>1, <1>2, QuietKept DEF writerVars
<1>3. CASE UNCHANGED vars
  BY <1>2, <1>3 DEF vars
<1>4. ASSUME NEW g \in Goroutines, Logger(g)
      PROVE  OrderInv'
  <2>1. CASE Log(g)
    BY <2>1, LoopOrder DEF Log, NewRecord, writerVars
  <2>2. CASE RangeEnds(g) \/ \E w \in Writers : RangeStep(g, w)
    BY <2>2, LoopOrder DEF RangeEnds, RangeStep, writerVars
  <2>3. CASE LogWrite(g)
    BY <2>3, SendOrder
  <2>4. CASE LogWritePanics(g) \/ RuntimeAbort(g)
    BY <2>4, FreshOrder DEF LogWritePanics, RuntimeAbort, ProcessEnds
  <2>5. QED
    BY <1>4, <2>1, <2>2, <2>3, <2>4 DEF Logger
<1>5. CASE FileWriter \/ DiskError \/ Midnight \/ \E v \in Writers : Writer(v)
  <2>1. Fresh \/ (UNCHANGED loggerVars /\ \A w \in Writers : Kept(w))
    <3>1. UNCHANGED loggerVars \/ Fresh
      BY <1>5 DEF FileWriter, DiskError, Midnight, Writer, Take, WriterEnds,
         PrintLine, Written, WriteFile, Rename, NothingToRename,
         NoFreeNumber, Open, FileFails, ProcessEnds
    <3>2. QED
      BY <1>5, <3>1, WritersKept
  <2>2. QED
    BY <1>1, <2>1, FreshOrder
<1>6. CASE MainStep \/ Kill \/ Restart
  <2>1. CASE LoadConfiguration \/ CrashfCloses \/ CrashfPanics
             \/ \E w \in Writers : Close(w)
    BY <1>2, <2>1 DEF LoadConfiguration, CrashfCloses, CrashfPanics, Close
  <2>2. CASE NewWriters
    <3>1. /\ UNCHANGED <<wrote, channel, hand, loggerVars>>
          /\ writer["file"] = "none"
          /\ writer' = [writer EXCEPT !["stdout"] = "take",
                                      !["file"] = "rotate"]
      BY <2>2 DEF NewWriters
    <3>2. \A w \in Writers : writer'[w] # "stopped" => writer[w] # "stopped"
      BY <3>1, WriterNames DEF Inv, WriterType, HandInv
    <3>3. QED
      BY <1>1, <3>1, <3>2, QuietKept
  <2>3. CASE BadConfiguration \/ Kill \/ Restart
    BY <2>3, FreshOrder DEF BadConfiguration, Kill, Restart, ProcessEnds
  <2>4. CASE Crashf
    BY <2>4, LoopOrder, LogAssumption DEF Crashf, NewRecord, writerVars
  <2>5. QED
    BY <1>6, <2>1, <2>2, <2>3, <2>4 DEF MainStep
<1>7. QED
  BY <1>3, <1>4, <1>5, <1>6 DEF Next

LEMMA OrderAlways == Spec => [](Inv /\ OrderInv)
<1>1. Init => OrderInv
  <2>1. SUFFICES ASSUME Init PROVE OrderInv
    OBVIOUS
  <2>2. Sends
    BY <2>1 DEF Init, Sends
  <2>3. ASSUME NEW w \in Writers
        PROVE  InOrder(w) /\ Made(w)
    <3>1. wrote[w] = << >> /\ channel[w] = << >> /\ hand[w] = NoRecord
      BY <2>1 DEF Init
    <3>2. QED
      BY <3>1, InNothing, NoRecordIsNone DEF InOrder, Made, Has
  <2>4. QED
    BY <2>2, <2>3 DEF OrderInv
<1>2. Inv /\ OrderInv /\ [Next]_vars => OrderInv'
  BY OrderNext
<1>3. QED
  BY <1>1, <1>2, InvAlways, PTL DEF Spec

\* Given(w) are the records w has, in order.
LEMMA GivenIs ==
  ASSUME Inv, NEW w \in Writers, InOrder(w)
  PROVE  Ordered(Given(w)) /\ \A x : In(x, Given(w)) <=> Has(w, x)
<1> DEFINE h == InHand(w)
           f == wrote[w] \o h
<1>1. /\ wrote[w] \in Seq(Record) /\ channel[w] \in Seq(Record)
      /\ hand[w] \in Record \cup {NoRecord} /\ NoRecord \notin Record
  BY Sequences
<1>2. /\ h \in Seq(Record) /\ Ordered(h)
      /\ \A x : In(x, h) <=> hand[w] \in Record /\ x = hand[w]
  <2>1. CASE hand[w] = NoRecord
    BY <1>1, <2>1, NoItems, InNothing DEF InHand
  <2>2. CASE hand[w] \in Record
    <3>1. h = <<hand[w]>>
      BY <1>1, <2>2 DEF InHand
    <3>2. Len(<<hand[w]>>) = 1 /\ <<hand[w]>>[1] = hand[w]
          /\ <<hand[w]>> \in Seq(Record)
      BY <2>2
    <3>3. QED
      BY <2>2, <3>1, <3>2 DEF In, Ordered
  <2>3. QED
    BY <1>1, <2>1, <2>2
<1> HIDE DEF h
<1>3. /\ f \in Seq(Record) /\ Ordered(f)
      /\ \A x : In(x, f) <=> In(x, wrote[w]) \/ In(x, h)
  BY <1>1, <1>2, InConcat DEF InOrder
<1> HIDE DEF f
<1>4. \A x, y : In(x, f) /\ In(y, channel[w]) => Before(x, y)
  BY <1>2, <1>3 DEF InOrder
<1>5. /\ Ordered(f \o channel[w])
      /\ \A x : In(x, f \o channel[w]) <=> In(x, f) \/ In(x, channel[w])
  BY <1>1, <1>3, <1>4, InConcat DEF InOrder
<1>6. Given(w) = f \o channel[w]
  BY DEF Given, f, h
<1>7. QED
  BY <1>2, <1>3, <1>5, <1>6 DEF Has

\* What one goroutine logs reaches each writer in its order and once.
THEOREM OrderAlwaysKept == Spec => []OrderKept
<1>1. Inv /\ OrderInv => OrderKept
  <2>1. SUFFICES ASSUME Inv, OrderInv, NEW w \in Writers,
                        NEW i \in 1 .. Len(Given(w)),
                        NEW j \in 1 .. Len(Given(w)), i < j,
                        Given(w)[i].by = Given(w)[j].by
                 PROVE  Given(w)[i].n < Given(w)[j].n
    BY DEF OrderKept
  <2>2. Ordered(Given(w))
    BY <2>1, GivenIs DEF OrderInv
  <2>3. QED
    BY <2>1, <2>2 DEF Ordered, Before
<1>2. QED
  BY <1>1, OrderAlways, PTL

------------------------------------------------------------------------------
(* A call that has returned has given its record to every filter.           *)

\* The loop has been at w, and has not still to send to it.
Sent(w, g) ==
  /\ w \in seen[g] /\ Accepts(w, g) /\ writer[w] # "stopped"
  /\ ~(pc[g] = "send" /\ to[g] = w)
  => Has(w, [by |-> g, n |-> logged[g]])

SentInv == \A g \in Goroutines, w \in Writers : Sent(w, g)

\* A loop that has ended was at all the filters, if they are the same still.
LoopInv ==
  /\ phase \in {"boot", "loading"} =>
       /\ filters \subseteq {"first"}
       /\ \A g \in Goroutines : seen[g] \subseteq {"first"}
  /\ phase = "serving" =>
       \A g \in Goroutines :
         pc[g] = "idle" /\ seen[g] \cap filters # {}
           => filters \subseteq seen[g]

LEMMA LoopNext ==
  ASSUME Inv, LoopInv, [Next]_vars
  PROVE  LoopInv'
<1>1. /\ pc \in [Goroutines -> {"idle", "range", "send"}]
      /\ seen \in [Goroutines -> SUBSET Writers]
  BY DEF Inv, LoggerType
<1>2. ASSUME UNCHANGED <<phase, filters, pc, seen>>
      PROVE  LoopInv'
  BY <1>2 DEF LoopInv
<1>3. ASSUME Fresh
      PROVE  LoopInv'
  BY <1>3 DEF Fresh, LoopInv
<1>4. CASE UNCHANGED vars
  BY <1>2, <1>4 DEF vars, loggerVars
<1>5. ASSUME NEW g \in Goroutines, Logger(g) \/ (g = Main /\ Crashf)
      PROVE  LoopInv'
  <2>1. CASE Log(g) \/ (g = Main /\ Crashf)
    <3>1. /\ filters' = filters /\ pc' = [pc EXCEPT ![g] = "range"]
          /\ seen' = [seen EXCEPT ![g] = {}]
          /\ \/ phase' = phase
             \/ phase = "serving" /\ phase' = "crashing"
      BY <2>1 DEF Log, Crashf, NewRecord
    <3>2. QED
      BY <1>1, <3>1 DEF LoopInv
  <2>2. CASE RangeEnds(g)
    BY <1>1, <2>2 DEF RangeEnds, LoopInv
  <2>3. CASE LogWrite(g)
    BY <1>1, <2>3 DEF LogWrite, LoopInv
  <2>4. CASE LogWritePanics(g) \/ RuntimeAbort(g)
    BY <1>3, <2>4 DEF LogWritePanics, RuntimeAbort, ProcessEnds
  <2>5. CASE \E w \in Writers : RangeStep(g, w)
    <3>1. PICK w \in Writers : RangeStep(g, w)
      BY <2>5
    <3>2. /\ w \in filters /\ UNCHANGED <<phase, filters>>
          /\ seen' = [seen EXCEPT ![g] = @ \cup {w}]
          /\ pc[g] = "range" /\ pc'[g] # "idle"
          /\ \A h \in Goroutines \ {g} : pc'[h] = pc[h]
      BY <1>1, <3>1 DEF RangeStep
    <3>3. /\ \A h \in Goroutines \ {g} : seen'[h] = seen[h]
          /\ seen'[g] = seen[g] \cup {w}
      BY <1>1, <3>2
    <3>4. QED
      BY <3>2, <3>3 DEF LoopInv
  <2>6. QED
    BY <1>5, <2>1, <2>2, <2>3, <2>4, <2>5 DEF Logger
<1>6. CASE FileWriter \/ DiskError \/ Midnight \/ \E v \in Writers : Writer(v)
  <2>1. CASE Open /\ phase = "loading"
    <3>1. /\ phase' = "serving" /\ filters' = {"stdout", "file"}
          /\ seen' = seen
      BY <2>1 DEF Open, loggerVars
    <3>2. \A g \in Goroutines : seen[g] \subseteq {"first"}
      BY <2>1 DEF LoopInv
    <3>3. QED
      BY <3>1, <3>2 DEF LoopInv
  <2>2. CASE ~(Open /\ phase = "loading")
    <3>1. Fresh \/ UNCHANGED <<phase, filters, pc, seen>>
      BY <1>6, <2>2 DEF FileWriter, DiskError, Midnight, Writer, Take,
         WriterEnds, PrintLine, Written, WriteFile, Rename, NothingToRename,
         NoFreeNumber, Open, FileFails, ProcessEnds, loggerVars
    <3>2. QED
      BY <1>2, <1>3, <3>1
  <2>3. QED
    BY <2>1, <2>2
<1>7. CASE MainStep \/ Kill \/ Restart
  <2>1. CASE LoadConfiguration \/ CrashfCloses \/ CrashfPanics
    <3>1. /\ UNCHANGED <<filters, pc, seen>> /\ phase' # "serving"
          /\ phase' = "loading" => phase = "boot"
          /\ phase' # "boot"
      BY <2>1
         DEF LoadConfiguration, CrashfCloses, CrashfPanics, loggerVars
    <3>2. QED
      BY <3>1 DEF LoopInv
  <2>2. CASE \E w \in Writers : Close(w)
    BY <2>2 DEF Close, LoopInv, loggerVars
  <2>3. CASE NewWriters
    BY <1>2, <2>3 DEF NewWriters, loggerVars
  <2>4. CASE BadConfiguration \/ Kill \/ Restart
    BY <1>3, <2>4 DEF BadConfiguration, Kill, Restart, ProcessEnds
  <2>5. CASE Crashf
    BY <1>5, <2>5, LogAssumption
  <2>6. QED
    BY <1>7, <2>1, <2>2, <2>3, <2>4, <2>5 DEF MainStep
<1>8. QED
  BY <1>4, <1>5, <1>6, <1>7 DEF Next

\* A goroutine that logs, or looks at the next filter.
LEMMA LoopSent ==
  ASSUME Inv, OrderInv, SentInv, NEW g \in Goroutines,
         UNCHANGED <<wrote, channel, hand, writer>>,
         NewRecord(g) \/ RangeEnds(g) \/ \E w \in Writers : RangeStep(g, w)
  PROVE  SentInv'
<1>1. LoggerType
  BY DEF Inv
<1>2. \A h \in Goroutines \ {g} : /\ logged'[h] = logged[h] /\ pc'[h] = pc[h]
                                  /\ seen'[h] = seen[h] /\ to'[h] = to[h]
  BY <1>1 DEF LoggerType, NewRecord, RangeEnds, RangeStep
<1>3. ASSUME NEW w \in Writers
      PROVE  writer'[w] = writer[w] /\ \A x : Has(w, x)' <=> Has(w, x)
  BY KeptOrder DEF OrderInv
<1>4. ASSUME NEW h \in Goroutines \ {g}, NEW w \in Writers
      PROVE  Sent(w, h)'
  <2>1. Sent(w, h)
    BY DEF SentInv
  <2>2. QED
    BY <1>2, <1>3, <2>1 DEF Sent, Accepts
<1>5. ASSUME NEW w \in Writers
      PROVE  Sent(w, g)'
  <2>1. CASE NewRecord(g)
    <3>1. seen'[g] = {}
      BY <1>1, <2>1 DEF NewRecord, LoggerType
    <3>2. QED
      BY <3>1 DEF Sent
  <2>2. CASE RangeEnds(g)
    <3>1. /\ pc[g] = "range" /\ seen'[g] = seen[g] /\ logged'[g] = logged[g]
      BY <2>2 DEF RangeEnds
    <3>2. Sent(w, g)
      BY DEF SentInv
    <3>3. QED
      BY <1>3, <3>1, <3>2 DEF Sent, Accepts
  <2>3. ASSUME NEW v \in Writers, RangeStep(g, v)
        PROVE  Sent(w, g)'
    <3>1. /\ pc[g] = "range" /\ logged'[g] = logged[g]
          /\ seen'[g] = seen[g] \cup {v}
          /\ Accepts(v, g) => pc'[g] = "send" /\ to'[g] = v
      BY <1>1, <2>3 DEF RangeStep, LoggerType
    <3>2. Sent(w, g)
      BY DEF SentInv
    <3>3. QED
      BY <1>3, <3>1, <3>2 DEF Sent, Accepts
  <2>4. QED
    BY <2>1, <2>2, <2>3
<1>6. QED
  BY <1>4, <1>5 DEF SentInv

LEMMA SendSent ==
  ASSUME Inv, OrderInv, SentInv, NEW g \in Goroutines, LogWrite(g),
         NEW w, w = to[g], NEW r, r = [by |-> g, n |-> logged[g]]
  PROVE  SentInv'
<1>1. /\ LoggerType /\ w \in Writers /\ pc[g] = "send"
      /\ channel[w] \in Seq(Record)
  BY DEF Inv, LoggerType, WriterType, LogWrite
<1>2. r \in Record
  <2>1. logged[g] \in 1 .. NRecords[g]
    BY <1>1, LogAssumption DEF Inv, MadeInv, LoggerType
  <2>2. QED
    BY <2>1, MakeRecord
<1>3. /\ channel' = [channel EXCEPT ![w] = Append(@, r)]
      /\ UNCHANGED <<wrote, hand, logged, seen, writer>>
      /\ pc' = [pc EXCEPT ![g] = "range"]
      /\ \A h \in Goroutines \ {g} : to'[h] = to[h]
  BY <1>1 DEF LogWrite, LoggerType
<1>4. channel'[w] = Append(channel[w], r)
      /\ \A v \in Writers \ {w} : channel'[v] = channel[v]
  BY <1>1, <1>3 DEF Inv, WriterType
<1>5. \A x : In(x, channel[w]) \/ x = r => In(x, channel'[w])
  <2> DEFINE s == channel[w]
             u == Append(s, r)
  <2>1. /\ Len(u) = Len(s) + 1 /\ Len(s) \in Nat /\ u[Len(u)] = r
        /\ \A i \in 1 .. Len(s) : u[i] = s[i]
    BY <1>1, <1>2, AppendProperties
  <2>2. channel'[w] = u
    BY <1>4
  <2> HIDE DEF u, s
  <2>3. Len(u) \in 1 .. Len(u) /\ \A i \in 1 .. Len(s) : i \in 1 .. Len(u)
    BY <2>1
  <2>4. \A x : In(x, s) \/ x = r => In(x, u)
    BY <2>1, <2>3 DEF In
  <2>5. QED
    BY <2>2, <2>4 DEF s
<1>6. ASSUME NEW v \in Writers
      PROVE  \A x : Has(v, x) => Has(v, x)'
  <2>1. /\ wrote'[v] = wrote[v] /\ hand'[v] = hand[v]
        /\ \A x : In(x, channel[v]) => In(x, channel'[v])
    BY <1>3, <1>4, <1>5
  <2>2. QED
    BY <2>1 DEF Has
<1>7. Has(w, r)'
  BY <1>5 DEF Has
<1>8. /\ pc'[g] = "range" /\ \A h \in Goroutines \ {g} : pc'[h] = pc[h]
  BY <1>1, <1>3 DEF LoggerType
<1>9. ASSUME NEW h \in Goroutines, NEW v \in Writers
      PROVE  Sent(v, h)'
  <2>1. Sent(v, h) /\ logged' = logged /\ seen' = seen /\ writer' = writer
    BY <1>3 DEF SentInv
  <2>2. CASE h = g /\ v = w
    BY <1>7, <2>1, <2>2 DEF Sent
  <2>3. CASE h = g /\ v # w
    BY <1>6, <2>1, <2>3 DEF Sent, Accepts
  <2>4. CASE h # g
    BY <1>3, <1>6, <1>8, <2>1, <2>4 DEF Sent, Accepts
  <2>5. QED
    BY <2>2, <2>3, <2>4
<1>10. QED
  BY <1>9 DEF SentInv

LEMMA SentNext ==
  ASSUME Inv, OrderInv, SentInv, [Next]_vars
  PROVE  SentInv'
<1>1. ASSUME UNCHANGED loggerVars, \A w \in Writers : Kept(w)
      PROVE  SentInv'
  <2>1. ASSUME NEW g \in Goroutines, NEW w \in Writers
        PROVE  Sent(w, g)'
    <3>1. Sent(w, g) /\ Kept(w)
      BY <1>1 DEF SentInv
    <3>2. QED
      BY <1>1, <3>1 DEF Sent, Kept, Accepts, loggerVars
  <2>2. QED
    BY <2>1 DEF SentInv
<1>2. ASSUME UNCHANGED <<loggerVars, writerVars>>
      PROVE  SentInv'
  BY <1>1, <1>2, QuietKept DEF writerVars
<1>3. ASSUME Fresh
      PROVE  SentInv'
  <2>1. \A g \in Goroutines : seen'[g] = {}
    BY <1>3 DEF Fresh
  <2>2. QED
    BY <2>1 DEF SentInv, Sent
<1>4. CASE UNCHANGED vars
  BY <1>2, <1>4 DEF vars
<1>5. ASSUME NEW g \in Goroutines, Logger(g) \/ (g = Main /\ Crashf)
      PROVE  SentInv'
  <2>1. CASE Log(g) \/ (g = Main /\ Crashf)
    BY <2>1, LoopSent DEF Log, Crashf, NewRecord, writerVars
  <2>2. CASE RangeEnds(g) \/ \E w \in Writers : RangeStep(g, w)
    BY <2>2, LoopSent DEF RangeEnds, RangeStep, writerVars
  <2>3. CASE LogWrite(g)
    BY <2>3, SendSent
  <2>4. CASE LogWritePanics(g) \/ RuntimeAbort(g)
    BY <1>3, <2>4 DEF LogWritePanics, RuntimeAbort, ProcessEnds
  <2>5. QED
    BY <1>5, <2>1, <2>2, <2>3, <2>4 DEF Logger
<1>6. CASE FileWriter \/ DiskError \/ Midnight \/ \E v \in Writers : Writer(v)
  <2>1. UNCHANGED loggerVars \/ Fresh
    BY <1>6 DEF FileWriter, DiskError, Midnight, Writer, Take, WriterEnds,
       PrintLine, Written, WriteFile, Rename, NothingToRename,
       NoFreeNumber, Open, FileFails, ProcessEnds
  <2>2. QED
    BY <1>1, <1>3, <1>6, <2>1, WritersKept
<1>7. CASE MainStep \/ Kill \/ Restart
  <2>1. CASE LoadConfiguration \/ CrashfCloses \/ CrashfPanics
             \/ \E w \in Writers : Close(w)
    BY <1>2, <2>1 DEF LoadConfiguration, CrashfCloses, CrashfPanics, Close
  <2>2. CASE NewWriters
    <3>1. /\ UNCHANGED <<wrote, channel, hand, loggerVars>>
          /\ writer["file"] = "none"
          /\ writer' = [writer EXCEPT !["stdout"] = "take",
                                      !["file"] = "rotate"]
      BY <2>2 DEF NewWriters
    <3>2. \A w \in Writers : writer'[w] # "stopped" => writer[w] # "stopped"
      BY <3>1, WriterNames DEF Inv, WriterType, HandInv
    <3>3. QED
      BY <1>1, <3>1, <3>2, QuietKept
  <2>3. CASE BadConfiguration \/ Kill \/ Restart
    BY <1>3, <2>3 DEF BadConfiguration, Kill, Restart, ProcessEnds
  <2>4. CASE Crashf
    BY <1>5, <2>4, LogAssumption
  <2>5. QED
    BY <1>7, <2>1, <2>2, <2>3, <2>4 DEF MainStep
<1>8. QED
  BY <1>4, <1>5, <1>6, <1>7 DEF Next

\* A call that has returned has given its record to every filter whose level
\* accepts it (the loop at the end of intLogf).
THEOREM AlwaysLoggedEverywhere == Spec => []LoggedEverywhere
<1>1. Init => SentInv /\ LoopInv
  <2>1. SUFFICES ASSUME Init PROVE SentInv /\ LoopInv
    OBVIOUS
  <2>2. /\ \A g \in Goroutines : seen[g] = {}
        /\ phase = "boot" /\ filters = {"first"}
    BY <2>1 DEF Init
  <2>3. QED
    BY <2>2 DEF SentInv, Sent, LoopInv
<1>2. Inv /\ OrderInv /\ SentInv /\ LoopInv /\ [Next]_vars
        => SentInv' /\ LoopInv'
  BY SentNext, LoopNext
<1>3. Inv /\ OrderInv /\ SentInv /\ LoopInv => LoggedEverywhere
  <2>1. SUFFICES ASSUME Inv, OrderInv, SentInv, LoopInv,
                        NEW g \in Goroutines, NEW w \in filters,
                        phase = "serving", pc[g] = "idle",
                        seen[g] \cap filters # {},
                        Accepts(w, g), writer[w] # "stopped"
                 PROVE  \E i \in 1 .. Len(Given(w)) :
                          Given(w)[i] = [by |-> g, n |-> logged[g]]
    BY DEF LoggedEverywhere
  <2>2. w \in Writers
    BY <2>1 DEF Inv, MainType
  <2>3. w \in seen[g]
    BY <2>1 DEF LoopInv
  <2>4. Has(w, [by |-> g, n |-> logged[g]])
    BY <2>1, <2>2, <2>3 DEF SentInv, Sent
  <2>5. QED
    BY <2>1, <2>2, <2>4, GivenIs DEF OrderInv, In
<1>4. QED
  BY <1>1, <1>2, <1>3, OrderAlways, PTL DEF Spec

------------------------------------------------------------------------------
(* Each writer is a RecordQueue.                                            *)

LEMMA ConsProperties ==
  ASSUME NEW S, NEW e \in S, NEW t \in Seq(S)
  PROVE  /\ <<e>> \o t # << >> /\ Head(<<e>> \o t) = e
         /\ Tail(<<e>> \o t) = t
<1> DEFINE u == <<e>> \o t
<1>1. <<e>> \in Seq(S) /\ Len(<<e>>) = 1 /\ <<e>>[1] = e /\ Len(t) \in Nat
  OBVIOUS
<1>2. /\ u \in Seq(S) /\ Len(u) = 1 + Len(t)
      /\ \A i \in 1 .. 1 + Len(t) : u[i] = IF i <= 1 THEN e ELSE t[i - 1]
  BY <1>1, ConcatProperties
<1> HIDE DEF u
<1>3. u # << >>
  BY <1>1, <1>2, EmptySeq
<1>4. Head(u) = e
  BY <1>1, <1>2, <1>3
<1>5. /\ Tail(u) \in Seq(S) /\ Len(Tail(u)) = Len(t)
      /\ \A i \in 1 .. Len(t) : Tail(u)[i] = u[i + 1]
  BY <1>1, <1>2, <1>3, HeadTailProperties
<1>6. \A i \in 1 .. Len(t) : Tail(u)[i] = t[i]
  BY <1>1, <1>2, <1>5
<1>7. Tail(u) = t
  BY <1>5, <1>6, SeqEqual
<1>8. QED
  BY <1>3, <1>4, <1>7 DEF u

LEMMA HeadTailCons ==
  ASSUME NEW S, NEW s \in Seq(S), s # << >>
  PROVE  <<Head(s)>> \o Tail(s) = s
<1> DEFINE e == Head(s)
           t == Tail(s)
           u == <<e>> \o t
<1>1. /\ e \in S /\ t \in Seq(S) /\ Len(t) = Len(s) - 1 /\ e = s[1]
      /\ \A i \in 1 .. Len(t) : t[i] = s[i + 1]
  BY HeadTailProperties
<1>2. Len(s) \in Nat \ {0}
  BY EmptySeq
<1> HIDE DEF e, t
<1>3. <<e>> \in Seq(S) /\ Len(<<e>>) = 1 /\ <<e>>[1] = e
  BY <1>1
<1>4. /\ u \in Seq(S) /\ Len(u) = 1 + Len(t)
      /\ \A i \in 1 .. 1 + Len(t) : u[i] = IF i <= 1 THEN e ELSE t[i - 1]
  BY <1>1, <1>3, ConcatProperties
<1> HIDE DEF u
<1>5. Len(u) = Len(s) /\ \A i \in 1 .. Len(u) : u[i] = s[i]
  BY <1>1, <1>2, <1>4
<1>6. u = s
  BY <1>4, <1>5, SeqEqual
<1>7. QED
  BY <1>6 DEF u, e, t

Broken(w) == writer[w] = "stopped"

\* A step of RecordQueue for writer w.
QueueStep(w) ==
  \/ \E r \in Record : /\ Pending(w)' = Append(Pending(w), r)
                       /\ wrote'[w] = wrote[w] /\ Broken(w)' = Broken(w)
  \/ /\ ~Broken(w) /\ Pending(w) # << >>
     /\ wrote'[w] = Append(wrote[w], Head(Pending(w)))
     /\ Pending(w)' = Tail(Pending(w)) /\ Broken(w)' = Broken(w)
  \/ /\ ~Broken(w) /\ Broken(w)' = TRUE /\ wrote'[w] = wrote[w]
     /\ \/ Pending(w) # << >> /\ Pending(w)' = Tail(Pending(w))
        \/ Pending(w)' = Pending(w)
  \/ Pending(w)' = << >> /\ Broken(w)' = FALSE /\ wrote'[w] = wrote[w]
  \/ /\ Pending(w)' = Pending(w) /\ wrote'[w] = wrote[w]
     /\ Broken(w)' = Broken(w)

LEMMA PendingIs ==
  ASSUME Inv, NEW w \in Writers
  PROVE  /\ InHand(w) \in Seq(Record) /\ channel[w] \in Seq(Record)
         /\ hand[w] = NoRecord => Pending(w) = channel[w]
         /\ hand[w] \in Record => /\ Pending(w) = <<hand[w]>> \o channel[w]
                                  /\ Pending(w) # << >>
                                  /\ Head(Pending(w)) = hand[w]
                                  /\ Tail(Pending(w)) = channel[w]
<1>1. /\ channel[w] \in Seq(Record) /\ NoRecord \notin Record
      /\ hand[w] \in Record \cup {NoRecord}
  BY Sequences
<1>2. CASE hand[w] = NoRecord
  <2>1. InHand(w) = << >>
    BY <1>2 DEF InHand
  <2>2. Pending(w) = channel[w]
    BY <1>1, <2>1, ConcatEmptySeq DEF Pending
  <2>3. QED
    BY <1>1, <1>2, <2>1, <2>2, NoItems
<1>3. CASE hand[w] \in Record
  <2>1. InHand(w) = <<hand[w]>>
    BY <1>1, <1>3 DEF InHand
  <2>2. Pending(w) = <<hand[w]>> \o channel[w]
    BY <2>1 DEF Pending
  <2>3. <<hand[w]>> \in Seq(Record)
    BY <1>3
  <2>4. QED
    BY <1>1, <1>3, <2>1, <2>2, <2>3, ConsProperties
<1>4. QED
  BY <1>1, <1>2, <1>3

\* Nothing happens to w.
LEMMA SameStep ==
  ASSUME NEW w \in Writers, channel'[w] = channel[w], hand'[w] = hand[w],
         wrote'[w] = wrote[w], Broken(w)' <=> Broken(w)
  PROVE  QueueStep(w)
<1>1. Pending(w)' = Pending(w)
  BY DEF Pending, InHand
<1>2. Broken(w)' = Broken(w)
  BY Zenon DEF Broken
<1>3. QED
  BY <1>1, <1>2 DEF QueueStep

LEMMA FreshStep ==
  ASSUME Inv, NEW w \in Writers, Fresh
  PROVE  QueueStep(w)
<1>1. /\ channel'[w] = << >> /\ hand'[w] = NoRecord
      /\ wrote'[w] = wrote[w] /\ writer'[w] # "stopped"
  BY DEF Fresh
<1>2. InHand(w)' = << >>
  BY <1>1 DEF InHand
<1>3. << >> \o << >> = << >>
  BY NoItems, ConcatEmptySeq
<1>4. Pending(w)' = << >>
  BY <1>1, <1>2, <1>3 DEF Pending
<1>5. Broken(w)' = FALSE
  BY <1>1, Zenon DEF Broken
<1>6. QED
  BY <1>1, <1>4, <1>5 DEF QueueStep

LEMMA GiveStep ==
  ASSUME Inv, NEW w \in Writers, NEW r \in Record,
         channel'[w] = Append(channel[w], r), hand'[w] = hand[w],
         wrote'[w] = wrote[w], writer'[w] = writer[w]
  PROVE  QueueStep(w)
<1> DEFINE h == InHand(w)
           c == channel[w]
<1>1. h \in Seq(Record) /\ c \in Seq(Record)
  BY PendingIs
<1>2. InHand(w)' = h
  BY DEF InHand
<1>3. Pending(w) = h \o c /\ Pending(w)' = h \o Append(c, r)
  BY <1>2 DEF Pending
<1> HIDE DEF h, c
<1>4. /\ Append(c, r) = c \o <<r>> /\ <<r>> \in Seq(Record)
      /\ h \o c \in Seq(Record)
  BY <1>1, AppendIsConcat, ConcatProperties
<1>5. h \o Append(c, r) = (h \o c) \o <<r>>
  BY <1>1, <1>4, ConcatAssociative
<1>6. Append(h \o c, r) = (h \o c) \o <<r>>
  BY <1>4, AppendIsConcat
<1>7. Broken(w)' = Broken(w)
  BY Zenon DEF Broken
<1>8. Pending(w)' = Append(Pending(w), r)
  BY <1>3, <1>5, <1>6
<1>9. QED
  BY <1>7, <1>8 DEF QueueStep

LEMMA TakeStep ==
  ASSUME Inv, NEW w \in Writers, Take(w)
  PROVE  QueueStep(w)
<1> DEFINE h == Head(channel[w])
           t == Tail(channel[w])
<1>1. /\ channel[w] \in Seq(Record) /\ channel[w] # << >>
      /\ writer[w] = "take" /\ hand[w] = NoRecord
  BY Sequences DEF Take, Inv, HandInv
<1>2. h \in Record /\ h # NoRecord
  BY <1>1, HeadTailProperties, NoRecordIsNone
<1>3. /\ channel'[w] = t /\ hand'[w] = h /\ wrote'[w] = wrote[w]
      /\ writer'[w] # "stopped"
  BY DEF Take, Inv, WriterType
<1>4. <<h>> \o t = channel[w]
  BY <1>1, HeadTailCons
<1> HIDE DEF h, t
<1>5. InHand(w)' = <<h>>
  BY <1>2, <1>3 DEF InHand
<1>6. Pending(w)' = <<h>> \o t
  BY <1>3, <1>5 DEF Pending
<1>7. Pending(w)' = Pending(w)
  BY <1>1, <1>4, <1>6, PendingIs
<1>8. Broken(w)' = Broken(w)
  BY <1>1, <1>3, Zenon DEF Broken
<1>9. QED
  BY <1>3, <1>7, <1>8 DEF QueueStep

\* The record in hand is written, or lost with a writer that fails.
LEMMA HandStep ==
  ASSUME Inv, NEW w \in Writers, hand[w] \in Record, hand'[w] = NoRecord,
         channel'[w] = channel[w], ~Broken(w),
         \/ wrote'[w] = Append(wrote[w], hand[w]) /\ ~Broken(w)'
         \/ wrote'[w] = wrote[w] /\ Broken(w)'
  PROVE  QueueStep(w)
<1>1. /\ Pending(w) # << >> /\ Head(Pending(w)) = hand[w]
      /\ Tail(Pending(w)) = channel[w] /\ channel[w] \in Seq(Record)
  BY PendingIs
<1>2. InHand(w)' = << >>
  BY DEF InHand
<1>3. Pending(w)' = << >> \o channel[w]
  BY <1>2 DEF Pending
<1>4. Pending(w)' = Tail(Pending(w))
  BY <1>1, <1>3, ConcatEmptySeq
<1>5. CASE wrote'[w] = Append(wrote[w], hand[w]) /\ ~Broken(w)'
  <2>1. Broken(w)' = Broken(w)
    BY <1>5, Zenon DEF Broken
  <2>2. QED
    BY <1>1, <1>4, <1>5, <2>1 DEF QueueStep
<1>6. CASE wrote'[w] = wrote[w] /\ Broken(w)'
  <2>1. Broken(w)' = TRUE
    BY <1>6, Zenon DEF Broken
  <2>2. QED
    BY <1>1, <1>4, <1>6, <2>1 DEF QueueStep
<1>7. QED
  BY <1>5, <1>6

LEMMA WriterSteps ==
  ASSUME Inv, NEW w \in Writers,
         FileWriter \/ DiskError \/ \E v \in Writers : Writer(v)
  PROVE  QueueStep(w)
<1>1. /\ writer \in [Writers ->
                     {"none", "take", "rotate", "open", "write", "stopped"}]
      /\ hand \in [Writers -> Record \cup {NoRecord}]
      /\ channel \in [Writers -> Seq(Record)]
      /\ wrote \in [Writers -> Seq(Record)] /\ "file" \in Writers
  BY WriterNames DEF Inv, WriterType
<1>2. ASSUME NEW v \in Writers, Take(v)
      PROVE  QueueStep(w)
  <2>1. CASE w = v
    BY <1>2, <2>1, TakeStep
  <2>2. CASE w # v
    <3>1. /\ channel'[w] = channel[w] /\ hand'[w] = hand[w]
          /\ wrote'[w] = wrote[w] /\ writer'[w] = writer[w]
      BY <1>1, <1>2, <2>2 DEF Take
    <3>2. QED
      BY <3>1, SameStep DEF Broken
  <2>3. QED
    BY <2>1, <2>2
<1>3. ASSUME NEW v \in Writers, writer[v] = "write", Written(v)
      PROVE  QueueStep(w)
  <2>1. CASE w = v
    <3>1. /\ hand[w] \in Record /\ hand'[w] = NoRecord
          /\ wrote'[w] = Append(wrote[w], hand[w])
          /\ channel'[w] = channel[w] /\ writer'[w] = "take"
          /\ writer[w] = "write"
      BY <1>1, <1>3, <2>1 DEF Written, Inv, HandInv
    <3>2. QED
      BY <3>1, HandStep DEF Broken
  <2>2. CASE w # v
    <3>1. /\ channel'[w] = channel[w] /\ hand'[w] = hand[w]
          /\ wrote'[w] = wrote[w] /\ writer'[w] = writer[w]
      BY <1>1, <1>3, <2>2 DEF Written
    <3>2. QED
      BY <3>1, SameStep DEF Broken
  <2>3. QED
    BY <2>1, <2>2
<1>4. ASSUME NEW v \in Writers, WriterEnds(v)
      PROVE  QueueStep(w)
  <2>1. /\ channel'[w] = channel[w] /\ hand'[w] = hand[w]
        /\ wrote'[w] = wrote[w] /\ writer[v] = "take"
        /\ writer'[v] = "stopped" /\ (w # v => writer'[w] = writer[w])
    BY <1>1, <1>4 DEF WriterEnds
  <2>2. CASE w # v
    BY <2>1, <2>2, SameStep DEF Broken
  <2>3. CASE w = v
    <3>1. ~Broken(w) /\ Broken(w)' = TRUE
      BY <2>1, <2>3, Zenon DEF Broken
    <3>2. Pending(w)' = Pending(w)
      BY <2>1 DEF Pending, InHand
    <3>3. QED
      BY <2>1, <3>1, <3>2 DEF QueueStep
  <2>4. QED
    BY <2>2, <2>3
<1>5. ASSUME FileFails, writer["file"] \in {"rotate", "open", "write"}
      PROVE  QueueStep(w)
  <2>1. CASE phase = "loading"
    BY <1>5, <2>1, FreshStep DEF FileFails, ProcessEnds
  <2>2. CASE phase # "loading"
    <3>1. /\ writer' = [writer EXCEPT !["file"] = "stopped"]
          /\ hand' = [hand EXCEPT !["file"] = NoRecord]
          /\ UNCHANGED <<channel, wrote>>
      BY <1>5, <2>2 DEF FileFails
    <3>2. hand["file"] \in Record
      BY <1>1, <1>5, <2>2 DEF Inv, HandInv
    <3>3. CASE w = "file"
      <4>1. /\ writer'[w] = "stopped" /\ hand'[w] = NoRecord
            /\ channel'[w] = channel[w] /\ wrote'[w] = wrote[w]
        BY <1>1, <3>1, <3>3
      <4>2. ~Broken(w) /\ Broken(w)'
        BY <1>5, <3>3, <4>1 DEF Broken
      <4>3. QED
        BY <3>2, <3>3, <4>1, <4>2, HandStep
    <3>4. CASE w # "file"
      <4>1. /\ writer'[w] = writer[w] /\ hand'[w] = hand[w]
            /\ channel'[w] = channel[w] /\ wrote'[w] = wrote[w]
        BY <1>1, <3>1, <3>4
      <4>2. QED
        BY <4>1, SameStep DEF Broken
    <3>5. QED
      BY <3>3, <3>4
  <2>3. QED
    BY <2>1, <2>2
<1>6. CASE Rename \/ NothingToRename \/ Open
  <2>1. /\ UNCHANGED <<channel, hand, wrote>>
        /\ writer["file"] \in {"rotate", "open"}
        /\ \/ writer' = [writer EXCEPT !["file"] = "open"]
           \/ writer' = [writer EXCEPT !["file"] = "take"]
           \/ writer' = [writer EXCEPT !["file"] = "write"]
    BY <1>6 DEF Rename, NothingToRename, Open
  <2>2. writer'[w] = "stopped" <=> writer[w] = "stopped"
    BY <1>1, <2>1
  <2>3. QED
    BY <2>1, <2>2, SameStep DEF Broken
<1>7. QED
  BY <1>2, <1>3, <1>4, <1>5, <1>6, WriterNames
     DEF FileWriter, Writer, PrintLine, WriteFile, NoFreeNumber, DiskError

LEMMA QueueNext ==
  ASSUME Inv, NEW w \in Writers, [Next]_vars
  PROVE  QueueStep(w)
<1>1. ASSUME UNCHANGED <<channel, hand, wrote, writer>>
      PROVE  QueueStep(w)
  BY <1>1, SameStep DEF Broken
<1>2. ASSUME NEW g \in Goroutines, LogWrite(g), NEW v, v = to[g],
             NEW r, r = [by |-> g, n |-> logged[g]]
      PROVE  QueueStep(w)
  <2>1. v \in Writers /\ r \in Record
    <3>1. logged[g] \in 1 .. NRecords[g]
      BY <1>2, LogAssumption DEF LogWrite, Inv, MadeInv, LoggerType
    <3>2. QED
      BY <1>2, <3>1, MakeRecord DEF Inv, LoggerType
  <2>2. /\ channel' = [channel EXCEPT ![v] = Append(@, r)]
        /\ UNCHANGED <<hand, wrote, writer>>
    BY <1>2 DEF LogWrite
  <2>3. CASE w = v
    <3>1. channel'[w] = Append(channel[w], r)
      BY <2>1, <2>2, <2>3 DEF Inv, WriterType
    <3>2. QED
      BY <2>1, <2>2, <3>1, GiveStep
  <2>4. CASE w # v
    <3>1. channel'[w] = channel[w]
      BY <2>1, <2>2, <2>4 DEF Inv, WriterType
    <3>2. QED
      BY <2>2, <3>1, SameStep DEF Broken
  <2>5. QED
    BY <2>3, <2>4
<1>3. CASE NewWriters
  <2>1. /\ UNCHANGED <<channel, hand, wrote>>
        /\ writer["file"] = "none" /\ writer["stdout"] = "none"
        /\ writer' = [writer EXCEPT !["stdout"] = "take",
                                    !["file"] = "rotate"]
    BY <1>3 DEF NewWriters, Inv, HandInv
  <2>2. writer'[w] = "stopped" <=> writer[w] = "stopped"
    BY <2>1 DEF Inv, WriterType
  <2>3. QED
    BY <2>1, <2>2, SameStep DEF Broken
<1>4. ASSUME NEW g \in Goroutines, Logger(g)
      PROVE  QueueStep(w)
  <2>1. CASE LogWrite(g)
    BY <1>2, <2>1
  <2>2. CASE LogWritePanics(g) \/ RuntimeAbort(g)
    BY <2>2, FreshStep DEF LogWritePanics, RuntimeAbort, ProcessEnds
  <2>3. CASE Log(g) \/ RangeEnds(g) \/ \E v \in Writers : RangeStep(g, v)
    BY <1>1, <2>3 DEF Log, NewRecord, RangeEnds, RangeStep, writerVars
  <2>4. QED
    BY <1>4, <2>1, <2>2, <2>3 DEF Logger
<1>5. CASE BadConfiguration \/ Kill \/ Restart
  BY <1>5, FreshStep DEF BadConfiguration, Kill, Restart, ProcessEnds
<1>6. CASE LoadConfiguration \/ CrashfCloses \/ CrashfPanics \/ Crashf
           \/ \E v \in Writers : Close(v)
  BY <1>1, <1>6 DEF LoadConfiguration, CrashfCloses, CrashfPanics, Crashf,
     NewRecord, Close, writerVars
<1>7. CASE UNCHANGED vars \/ Midnight
  BY <1>1, <1>7 DEF vars, Midnight, writerVars
<1>8. CASE FileWriter \/ DiskError \/ \E v \in Writers : Writer(v)
  BY <1>8, WriterSteps
<1>9. QED
  BY <1>3, <1>4, <1>5, <1>6, <1>7, <1>8 DEF Next, MainStep

\* Whatever the goroutines, the disk and main() do, each writer delivers what
\* it was given in order and once, until it breaks.
THEOREM WritersKeepPromise == Spec => WritersAreQueues
<1>1. Init => FirstQueue!Init /\ StdoutQueue!Init /\ FileQueue!Init
  <2>1. SUFFICES ASSUME Init
                 PROVE  FirstQueue!Init /\ StdoutQueue!Init /\ FileQueue!Init
    OBVIOUS
  <2>2. << >> \o << >> = << >>
    BY NoItems, ConcatEmptySeq
  <2>3. ASSUME NEW w \in Writers
        PROVE  /\ Pending(w) = << >> /\ wrote[w] = << >>
               /\ writer[w] # "stopped"
    BY <2>1, <2>2 DEF Init, Pending, InHand
  <2>4. /\ (writer["first"] = "stopped") = FALSE
        /\ (writer["stdout"] = "stopped") = FALSE
        /\ (writer["file"] = "stopped") = FALSE
    BY <2>3, WriterNames, Zenon
  <2>5. QED
    BY <2>3, <2>4, WriterNames
       DEF FirstQueue!Init, StdoutQueue!Init, FileQueue!Init
<1>2. ASSUME Inv, [Next]_vars
      PROVE  /\ [FirstQueue!Next]_FirstQueue!vars
             /\ [StdoutQueue!Next]_StdoutQueue!vars
             /\ [FileQueue!Next]_FileQueue!vars
  <2>1. QueueStep("first") /\ QueueStep("stdout") /\ QueueStep("file")
    BY <1>2, QueueNext, WriterNames
  <2>2. [FirstQueue!Next]_FirstQueue!vars
    BY <2>1 DEF QueueStep, Broken, FirstQueue!Next, FirstQueue!Give,
       FirstQueue!Deliver, FirstQueue!Break, FirstQueue!Restart,
       FirstQueue!vars
  <2>3. [StdoutQueue!Next]_StdoutQueue!vars
    BY <2>1 DEF QueueStep, Broken, StdoutQueue!Next, StdoutQueue!Give,
       StdoutQueue!Deliver, StdoutQueue!Break, StdoutQueue!Restart,
       StdoutQueue!vars
  <2>4. [FileQueue!Next]_FileQueue!vars
    BY <2>1 DEF QueueStep, Broken, FileQueue!Next, FileQueue!Give,
       FileQueue!Deliver, FileQueue!Break, FileQueue!Restart,
       FileQueue!vars
  <2>5. QED
    BY <2>2, <2>3, <2>4
<1>3. QED
  BY <1>1, <1>2, InvAlways, PTL DEF Spec, WritersAreQueues,
     FirstQueue!Spec, StdoutQueue!Spec, FileQueue!Spec

------------------------------------------------------------------------------
(* Induction and recursion, over numbers.                                  *)

LEMMA LessIsWellFounded ==
  IsWellFoundedOn({ss \in Nat \X Nat : ss[1] < ss[2]}, Nat)
BY NatLessThanWellFounded DEF OpToRel

\* A set of numbers has a least one.
LEMMA Least ==
  ASSUME NEW T, T \subseteq Nat, T # {}
  PROVE  \E x \in T : \A y \in T : x =< y
<1> DEFINE R == {ss \in Nat \X Nat : ss[1] < ss[2]}
<1>1. IsWellFoundedOn(R, Nat)
  BY LessIsWellFounded
<1>2. ASSUME NEW x \in Nat, NEW y \in Nat, y < x PROVE <<y, x>> \in R
  BY <1>2
<1> HIDE DEF R
<1>3. PICK x \in T : \A y \in T : ~(<<y, x>> \in R)
  BY <1>1, WFMin
<1>4. ASSUME NEW y \in T PROVE x =< y
  <2>1. x \in Nat /\ y \in Nat
    OBVIOUS
  <2>2. ~(y < x)
    BY <1>2, <1>3, <2>1
  <2>3. QED
    BY <2>1, <2>2
<1>5. QED
  BY <1>4

\* Induction, as what a set of numbers has.
LEMMA Induction ==
  ASSUME NEW T, 0 \in T, \A m \in T : m \in Nat => m + 1 \in T
  PROVE  Nat \subseteq T
<1> SUFFICES ASSUME Nat \ T # {} PROVE FALSE
  OBVIOUS
<1>1. PICK m \in Nat \ T : \A y \in Nat \ T : m =< y
  BY Least
<1>2. m # 0 /\ m - 1 \in Nat /\ m - 1 \notin Nat \ T
  BY <1>1
<1>3. (m - 1) + 1 \in T
  BY <1>2
<1>4. (m - 1) + 1 = m
  BY <1>1
<1>5. QED
  BY <1>1, <1>3, <1>4

\* The first m values of a function that is defined by F from the value before.
RecursionTo(m, S, v, F) ==
  \E g \in [0 .. m -> S] :
     g[0] = v /\ \A k \in 1 .. m : g[k] = F[k][g[k - 1]]

\* There is a function so defined.
LEMMA Recursion ==
  ASSUME NEW n \in Nat, NEW S, NEW v \in S, NEW F \in [1 .. n -> [S -> S]]
  PROVE  RecursionTo(n, S, v, F)
<1> DEFINE T == {m \in Nat : m =< n => RecursionTo(m, S, v, F)}
<1>1. RecursionTo(0, S, v, F)
  <2> DEFINE g == [k \in 0 .. 0 |-> v]
  <2>1. g \in [0 .. 0 -> S] /\ g[0] = v
    OBVIOUS
  <2>2. \A k : k \notin 1 .. 0
    OBVIOUS
  <2> HIDE DEF g
  <2>3. QED
    BY <2>1, <2>2 DEF RecursionTo
<1>2. ASSUME NEW m \in Nat, m + 1 =< n, RecursionTo(m, S, v, F)
      PROVE  RecursionTo(m + 1, S, v, F)
  <2>1. PICK g \in [0 .. m -> S] :
               g[0] = v /\ \A k \in 1 .. m : g[k] = F[k][g[k - 1]]
    BY <1>2 DEF RecursionTo
  <2> DEFINE h == [k \in 0 .. m + 1 |-> IF k = m + 1 THEN F[k][g[m]] ELSE g[k]]
  <2>2. F[m + 1][g[m]] \in S
    BY <1>2, <2>1
  <2>3. h \in [0 .. m + 1 -> S]
    BY <1>2, <2>2
  <2>4. ASSUME NEW k \in 1 .. m + 1 PROVE h[k] = F[k][h[k - 1]]
    <3>1. CASE k = m + 1
      BY <1>2, <3>1
    <3>2. CASE k # m + 1
      <4>1. k \in 1 .. m /\ k \in 0 .. m /\ k - 1 \in 0 .. m
        BY <1>2, <3>2
      <4>2. h[k] = g[k] /\ h[k - 1] = g[k - 1]
        BY <1>2, <4>1
      <4>3. QED
        BY <2>1, <4>1, <4>2
    <3>3. QED
      BY <3>1, <3>2
  <2>5. h[0] = v
    BY <1>2, <2>1
  <2>6. QED
    <3> HIDE DEF h
    <3>1. QED
      BY <2>3, <2>4, <2>5 DEF RecursionTo
<1>3. \A m \in T : m \in Nat => m + 1 \in T
  BY <1>2
<1>4. 0 \in T
  BY <1>1
<1>5. n \in T
  <2> HIDE DEF T
  <2>1. QED
    BY <1>3, <1>4, Induction
<1>6. QED
  BY <1>5

------------------------------------------------------------------------------
(* The files joined.                                                       *)

Disks == [0 .. MaxNumber -> Seq(Record)]

\* Numbered, of any disk.
Joins(d) ==
  CHOOSE g : g = [k \in 0 .. MaxNumber |->
                    IF k = 0 THEN << >> ELSE g[k - 1] \o d[k]]

LEMMA JoinsAre ==
  ASSUME NEW d \in Disks
  PROVE  /\ Joins(d) \in [0 .. MaxNumber -> Seq(Record)]
         /\ Joins(d)[0] = << >>
         /\ \A k \in 1 .. MaxNumber : Joins(d)[k] = Joins(d)[k - 1] \o d[k]
<1> DEFINE n == MaxNumber
           S == Seq(Record)
           F == [k \in 1 .. n |-> [s \in S |-> s \o d[k]]]
<1>1. n \in Nat /\ << >> \in S
  BY LogAssumption, NoItems
<1>2. F \in [1 .. n -> [S -> S]]
  <2>1. ASSUME NEW k \in 1 .. n, NEW s \in S PROVE s \o d[k] \in S
    <3>1. d[k] \in Seq(Record)
      BY <1>1 DEF Disks
    <3>2. QED
      BY <3>1, ConcatProperties
  <2>2. QED
    BY <2>1
<1>3. RecursionTo(n, S, << >>, F)
  <2> HIDE DEF n, S, F
  <2>1. QED
    BY <1>1, <1>2, Recursion
<1>4. PICK g \in [0 .. n -> S] :
             g[0] = << >> /\ \A k \in 1 .. n : g[k] = F[k][g[k - 1]]
  <2> HIDE DEF n, S, F
  <2>1. QED
    BY <1>3 DEF RecursionTo
<1>5. ASSUME NEW k \in 1 .. n PROVE g[k] = g[k - 1] \o d[k]
  <2>1. k - 1 \in 0 .. n
    BY <1>1
  <2>2. g[k - 1] \in S
    BY <1>4, <2>1
  <2>3. g[k] = F[k][g[k - 1]]
    BY <1>4
  <2>4. QED
    BY <2>2, <2>3
<1>6. g = [k \in 0 .. n |-> IF k = 0 THEN << >> ELSE g[k - 1] \o d[k]]
  <2>1. ASSUME NEW k \in 0 .. n
        PROVE  g[k] = IF k = 0 THEN << >> ELSE g[k - 1] \o d[k]
    <3>1. k # 0 => k \in 1 .. n
      BY <1>1
    <3>2. QED
      BY <1>4, <1>5, <3>1
  <2>2. QED
    BY <1>4, <2>1
<1>7. Joins(d) = [k \in 0 .. n |->
                    IF k = 0 THEN << >> ELSE Joins(d)[k - 1] \o d[k]]
  BY <1>6 DEF Joins
<1>8. Joins(d)[0] = << >>
  BY <1>1, <1>7
<1>9. ASSUME NEW k \in 1 .. n PROVE Joins(d)[k] = Joins(d)[k - 1] \o d[k]
  <2>1. k \in 0 .. n /\ k # 0
    BY <1>1
  <2> HIDE DEF n
  <2>2. QED
    BY <1>7, <2>1
<1>10. ASSUME NEW k \in 0 .. n PROVE Joins(d)[k] \in S
  <2> DEFINE T == {k1 \in Nat : k1 =< n => Joins(d)[k1] \in S}
  <2>1. 0 \in T
    BY <1>1, <1>8
  <2>2. ASSUME NEW m \in T, m \in Nat PROVE m + 1 \in T
    <3>1. ASSUME m + 1 =< n PROVE Joins(d)[m + 1] \in S
      <4>1. m + 1 \in 1 .. n /\ (m + 1) - 1 = m
        BY <1>1, <2>2, <3>1
      <4>2. Joins(d)[m] \in S /\ d[m + 1] \in S
        BY <1>1, <2>2, <4>1 DEF Disks
      <4>3. Joins(d)[m + 1] = Joins(d)[m] \o d[m + 1]
        BY <1>9, <4>1
      <4>4. QED
        BY <4>2, <4>3, ConcatProperties
    <3>2. QED
      BY <2>2, <3>1
  <2>3. Nat \subseteq T
    <3> HIDE DEF T
    <3>1. QED
      BY <2>1, <2>2, Induction
  <2>4. QED
    BY <1>1, <2>3
<1>11. Joins(d) \in [0 .. n -> S]
  <2> DEFINE J == Joins(d)
             E(j) == [k \in 0 .. n |->
                        IF k = 0 THEN << >> ELSE j[k - 1] \o d[k]]
  <2>1. J = E(J) /\ \A k \in 0 .. n : J[k] \in S
    BY <1>7, <1>10
  <2>2. J = [k \in 0 .. n |-> J[k]]
    <3> HIDE DEF J, S, n
    <3>1. QED
      BY <2>1
  <2>3. QED
    <3> HIDE DEF J, S, n, E
    <3>1. J \in [0 .. n -> S]
      BY <2>1, <2>2
    <3>2. QED
      BY <3>1 DEF J
<1>12. QED
  BY <1>8, <1>9, <1>11

LEMMA NumberedJoins == Numbered = Joins(disk) /\ Numbered' = Joins(disk')
BY DEF Numbered, Joins

\* The files up to m, joined, are not changed by what is in the others.
LEMMA JoinsAgree ==
  ASSUME NEW d \in Disks, NEW e \in Disks, NEW m \in 0 .. MaxNumber,
         \A k \in 1 .. m : e[k] = d[k]
  PROVE  Joins(e)[m] = Joins(d)[m]
<1> DEFINE T == {i \in Nat : i =< m => Joins(e)[i] = Joins(d)[i]}
<1>1. MaxNumber \in Nat /\ m \in Nat
  BY LogAssumption
<1>2. 0 \in T
  BY JoinsAre
<1>3. ASSUME NEW i \in T, i \in Nat PROVE i + 1 \in T
  <2>1. ASSUME i + 1 =< m PROVE Joins(e)[i + 1] = Joins(d)[i + 1]
    <3>1. i + 1 \in 1 .. m /\ i + 1 \in 1 .. MaxNumber /\ (i + 1) - 1 = i
      BY <1>1, <1>3, <2>1
    <3>2. Joins(e)[i] = Joins(d)[i] /\ e[i + 1] = d[i + 1]
      BY <1>1, <1>3, <2>1, <3>1
    <3>3. /\ Joins(e)[i + 1] = Joins(e)[i] \o e[i + 1]
          /\ Joins(d)[i + 1] = Joins(d)[i] \o d[i + 1]
      BY <3>1, JoinsAre
    <3>4. QED
      BY <3>2, <3>3
  <2>2. QED
    BY <1>3, <2>1
<1>4. Nat \subseteq T
  <2> HIDE DEF T
  <2>1. QED
    BY <1>2, <1>3, Induction
<1>5. QED
  BY <1>1, <1>4

\* Empty files add nothing.
LEMMA JoinsStop ==
  ASSUME NEW d \in Disks, NEW m \in 0 .. MaxNumber,
         \A k \in m + 1 .. MaxNumber : d[k] = << >>
  PROVE  Joins(d)[MaxNumber] = Joins(d)[m]
<1> DEFINE T == {i \in Nat : m =< i /\ i =< MaxNumber
                               => Joins(d)[i] = Joins(d)[m]}
<1>1. MaxNumber \in Nat /\ m \in Nat
  BY LogAssumption
<1>2. 0 \in T
  BY <1>1
<1>3. ASSUME NEW i \in T, i \in Nat PROVE i + 1 \in T
  <2>1. ASSUME m =< i, i + 1 =< MaxNumber
        PROVE  Joins(d)[i + 1] = Joins(d)[m]
    <3>1. /\ i + 1 \in 1 .. MaxNumber /\ i + 1 \in m + 1 .. MaxNumber
          /\ (i + 1) - 1 = i /\ i =< MaxNumber
      BY <1>1, <1>3, <2>1
    <3>2. Joins(d)[i] = Joins(d)[m] /\ d[i + 1] = << >>
      BY <1>3, <2>1, <3>1
    <3>3. Joins(d)[i + 1] = Joins(d)[i] \o d[i + 1]
      BY <3>1, JoinsAre
    <3>4. Joins(d)[m] \in Seq(Record)
      BY JoinsAre
    <3>5. QED
      BY <3>2, <3>3, <3>4, ConcatEmptySeq
  <2>2. m =< i + 1 => m =< i \/ m = i + 1
    BY <1>1, <1>3
  <2>3. QED
    BY <1>3, <2>1, <2>2
<1>4. Nat \subseteq T
  <2> HIDE DEF T
  <2>1. QED
    BY <1>2, <1>3, Induction
<1>5. MaxNumber \in T
  BY <1>1, <1>4
<1>6. QED
  BY <1>1, <1>5

\* Renaming keeps the order of the records, if the new number is the last.
LEMMA RenameJoins ==
  ASSUME NEW d \in Disks, NEW k \in 1 .. MaxNumber,
         \A j \in k .. MaxNumber : d[j] = << >>,
         NEW e, e = [d EXCEPT ![k] = d[0], ![0] = << >>]
  PROVE  /\ e \in Disks
         /\ Joins(e)[MaxNumber] \o e[0] = Joins(d)[MaxNumber] \o d[0]
<1>1. MaxNumber \in Nat /\ 0 \in 0 .. MaxNumber /\ k \in 0 .. MaxNumber
  BY LogAssumption
<1>2. d[0] \in Seq(Record) /\ e \in Disks /\ e[0] = << >> /\ e[k] = d[0]
  BY <1>1, NoItems DEF Disks
<1>3. /\ \A j \in k + 1 .. MaxNumber : e[j] = << >>
      /\ \A j \in 1 .. k - 1 : e[j] = d[j]
  BY <1>1 DEF Disks
<1>4. Joins(e)[MaxNumber] = Joins(e)[k]
  BY <1>1, <1>2, <1>3, JoinsStop
<1>5. Joins(e)[k] = Joins(e)[k - 1] \o d[0]
  BY <1>2, JoinsAre
<1>6. k - 1 \in 0 .. MaxNumber
  BY <1>1
<1>7. Joins(e)[k - 1] = Joins(d)[k - 1]
  BY <1>2, <1>3, <1>6, JoinsAgree
<1>8. Joins(d)[MaxNumber] = Joins(d)[k - 1]
  <2>1. (k - 1) + 1 = k
    BY <1>1
  <2>2. QED
    BY <1>6, <2>1, JoinsStop
<1>9. Joins(e)[k - 1] \o d[0] \in Seq(Record)
  BY <1>2, <1>6, JoinsAre, ConcatProperties
<1>10. QED
  BY <1>2, <1>4, <1>5, <1>7, <1>8, <1>9, ConcatEmptySeq

LEMMA AppendToLast ==
  ASSUME NEW s \in Seq(Record), NEW t \in Seq(Record), NEW r \in Record
  PROVE  s \o Append(t, r) = Append(s \o t, r)
<1>1. Append(t, r) = t \o << r >> /\ << r >> \in Seq(Record)
      /\ s \o t \in Seq(Record)
  BY AppendIsConcat, ConcatProperties
<1>2. s \o Append(t, r) = (s \o t) \o << r >>
  BY <1>1, ConcatAssociative
<1>3. Append(s \o t, r) = (s \o t) \o << r >>
  BY <1>1, AppendIsConcat
<1>4. QED
  BY <1>2, <1>3

\* A record that is written comes behind all the others.
LEMMA WriteJoins ==
  ASSUME NEW d \in Disks, NEW r \in Record,
         NEW e, e = [d EXCEPT ![0] = Append(d[0], r)]
  PROVE  /\ e \in Disks
         /\ Joins(e)[MaxNumber] \o e[0] = Append(Joins(d)[MaxNumber] \o d[0], r)
<1>1. MaxNumber \in Nat /\ 0 \in 0 .. MaxNumber /\ MaxNumber \in 0 .. MaxNumber
  BY LogAssumption
<1>2. d[0] \in Seq(Record) /\ Append(d[0], r) \in Seq(Record)
  BY <1>1, AppendProperties DEF Disks
<1>3. e \in Disks /\ e[0] = Append(d[0], r)
      /\ \A j \in 1 .. MaxNumber : e[j] = d[j]
  BY <1>1, <1>2 DEF Disks
<1>4. Joins(e)[MaxNumber] = Joins(d)[MaxNumber]
  BY <1>1, <1>3, JoinsAgree
<1> DEFINE J == Joins(d)[MaxNumber]
<1>5. J \in Seq(Record)
  BY <1>1, JoinsAre
<1>6. J \o Append(d[0], r) = Append(J \o d[0], r)
  <2> HIDE DEF J
  <2>1. QED
    BY <1>2, <1>5, AppendToLast
<1>7. QED
  BY <1>3, <1>4, <1>6

------------------------------------------------------------------------------
(* The lengths of the files.                                               *)

\* The sums that BytesOf adds up.
Sums(s) ==
  CHOOSE g : g = [i \in 0 .. Len(s) |->
                    IF i = 0 THEN 0 ELSE g[i - 1] + Bytes[s[i].by]]

LEMMA BytesAreSums == \A s : BytesOf(s) = Sums(s)[Len(s)]
BY DEF BytesOf, Sums

LEMMA RecordBytes ==
  ASSUME NEW s \in Seq(Record), NEW i \in 1 .. Len(s)
  PROVE  s[i] \in Record /\ Bytes[s[i].by] \in Nat
<1>1. s[i] \in Record
  BY ElementOfSeq
<1>2. s[i].by \in Goroutines
  BY <1>1, RecordFields
<1>3. QED
  BY <1>1, <1>2, LogAssumption

LEMMA SumsAre ==
  ASSUME NEW s \in Seq(Record)
  PROVE  /\ \A i \in 0 .. Len(s) : Sums(s)[i] \in Nat
         /\ Sums(s)[0] = 0
         /\ \A i \in 1 .. Len(s) :
              Sums(s)[i] = Sums(s)[i - 1] + Bytes[s[i].by]
<1> DEFINE n == Len(s)
           b == [i \in 1 .. n |-> Bytes[s[i].by]]
           F == [i \in 1 .. n |-> [v \in Nat |-> v + b[i]]]
<1>1. n \in Nat
  BY LenProperties
<1>2. \A i \in 1 .. n : b[i] = Bytes[s[i].by] /\ b[i] \in Nat
  BY RecordBytes
<1> HIDE DEF b, n
<1>3. F \in [1 .. n -> [Nat -> Nat]]
  BY <1>1, <1>2
<1>4. RecursionTo(n, Nat, 0, F)
  <2> HIDE DEF F
  <2>1. QED
    BY <1>1, <1>3, Recursion
<1>5. PICK g \in [0 .. n -> Nat] :
             g[0] = 0 /\ \A i \in 1 .. n : g[i] = F[i][g[i - 1]]
  <2> HIDE DEF F
  <2>1. QED
    BY <1>4 DEF RecursionTo
<1>6. ASSUME NEW i \in 1 .. n PROVE g[i] = g[i - 1] + Bytes[s[i].by]
  <2>1. i - 1 \in 0 .. n
    BY <1>1
  <2>2. g[i - 1] \in Nat
    BY <1>5, <2>1
  <2>3. g[i] = F[i][g[i - 1]]
    BY <1>5
  <2>4. QED
    BY <1>2, <2>2, <2>3
<1>7. g = [i \in 0 .. n |-> IF i = 0 THEN 0 ELSE g[i - 1] + Bytes[s[i].by]]
  <2>1. ASSUME NEW i \in 0 .. n
        PROVE  g[i] = IF i = 0 THEN 0 ELSE g[i - 1] + Bytes[s[i].by]
    <3>1. i # 0 => i \in 1 .. n
      BY <1>1
    <3>2. QED
      BY <1>5, <1>6, <3>1
  <2>2. QED
    BY <1>5, <2>1
<1>8. Sums(s) = [i \in 0 .. n |->
                   IF i = 0 THEN 0 ELSE Sums(s)[i - 1] + Bytes[s[i].by]]
  BY <1>7 DEF Sums, n
<1>9. Sums(s)[0] = 0
  BY <1>1, <1>8
<1>10. ASSUME NEW i \in 1 .. n
       PROVE  Sums(s)[i] = Sums(s)[i - 1] + Bytes[s[i].by]
  <2>1. i \in 0 .. n /\ i # 0
    BY <1>1
  <2>2. QED
    BY <1>8, <2>1
<1>11. ASSUME NEW i \in 0 .. n PROVE Sums(s)[i] \in Nat
  <2> DEFINE T == {j \in Nat : j =< n => Sums(s)[j] \in Nat}
  <2>1. 0 \in T
    BY <1>9
  <2>2. ASSUME NEW j \in T, j \in Nat PROVE j + 1 \in T
    <3>1. ASSUME j + 1 =< n PROVE Sums(s)[j + 1] \in Nat
      <4>1. j + 1 \in 1 .. n /\ (j + 1) - 1 = j /\ j =< n
        BY <1>1, <2>2, <3>1
      <4>2. Sums(s)[j] \in Nat
        BY <2>2, <4>1
      <4>3. Sums(s)[j + 1] = Sums(s)[j] + Bytes[s[j + 1].by]
        BY <1>10, <4>1
      <4>4. Bytes[s[j + 1].by] \in Nat
        BY <1>2, <4>1
      <4>5. QED
        BY <4>2, <4>3, <4>4
    <3>2. QED
      BY <2>2, <3>1
  <2>3. Nat \subseteq T
    <3> HIDE DEF T
    <3>1. QED
      BY <2>1, <2>2, Induction
  <2>4. QED
    BY <1>1, <2>3
<1>12. QED
  BY <1>9, <1>10, <1>11 DEF n

LEMMA BytesOfNothing == BytesOf(<< >>) = 0
BY NoItems, SumsAre, BytesAreSums

LEMMA BytesOfSome == ASSUME NEW s \in Seq(Record) PROVE BytesOf(s) \in Nat
<1>1. Len(s) \in Nat /\ Len(s) \in 0 .. Len(s)
  BY LenProperties
<1>2. QED
  BY <1>1, SumsAre, BytesAreSums

LEMMA BytesOfAppend ==
  ASSUME NEW s \in Seq(Record), NEW r \in Record
  PROVE  BytesOf(Append(s, r)) = BytesOf(s) + Bytes[r.by]
<1> DEFINE a == Append(s, r)
           n == Len(s)
           T == {i \in Nat : i =< n => Sums(a)[i] = Sums(s)[i]}
<1>1. /\ a \in Seq(Record) /\ n \in Nat /\ Len(a) = n + 1
      /\ a[n + 1] = r /\ \A i \in 1 .. n : a[i] = s[i]
  BY AppendProperties, LenProperties
<1> HIDE DEF a, n
<1>2. 0 \in T
  BY <1>1, SumsAre
<1>3. ASSUME NEW i \in T, i \in Nat PROVE i + 1 \in T
  <2>1. ASSUME i + 1 =< n PROVE Sums(a)[i + 1] = Sums(s)[i + 1]
    <3>1. /\ i + 1 \in 1 .. n /\ i + 1 \in 1 .. Len(a) /\ (i + 1) - 1 = i
          /\ i =< n
      BY <1>1, <1>3, <2>1
    <3>2. Sums(a)[i] = Sums(s)[i] /\ a[i + 1] = s[i + 1]
      BY <1>1, <1>3, <3>1
    <3>3. Sums(a)[i + 1] = Sums(a)[i] + Bytes[a[i + 1].by]
      BY <1>1, <3>1, SumsAre
    <3>4. Sums(s)[i + 1] = Sums(s)[i] + Bytes[s[i + 1].by]
      BY <3>1, SumsAre DEF n
    <3>5. QED
      BY <3>2, <3>3, <3>4
  <2>2. QED
    BY <1>3, <2>1
<1>4. Nat \subseteq T
  <2> HIDE DEF T
  <2>1. QED
    BY <1>2, <1>3, Induction
<1>5. Sums(a)[n] = Sums(s)[n]
  BY <1>1, <1>4
<1>6. Sums(a)[n + 1] = Sums(a)[n] + Bytes[r.by]
  <2>1. n + 1 \in 1 .. Len(a) /\ (n + 1) - 1 = n
    BY <1>1
  <2>2. Sums(a)[n + 1] = Sums(a)[(n + 1) - 1] + Bytes[a[n + 1].by]
    BY <1>1, <2>1, SumsAre
  <2>3. QED
    BY <1>1, <2>1, <2>2
<1>7. BytesOf(a) = Sums(a)[n + 1] /\ BytesOf(s) = Sums(s)[n]
  BY <1>1, BytesAreSums DEF n
<1>8. QED
  BY <1>5, <1>6, <1>7 DEF a

\* FileLimit, of the records s.
WithinLimit(s) ==
  /\ MaxLines > 0 => Len(s) <= MaxLines
  /\ MaxSize > 0 /\ s # << >> => BytesOf(SubSeq(s, 1, Len(s) - 1)) < MaxSize

LEMMA AppendWithinLimit ==
  ASSUME NEW s \in Seq(Record), NEW r \in Record,
         MaxLines > 0 => Len(s) < MaxLines,
         MaxSize > 0 => BytesOf(s) < MaxSize
  PROVE  WithinLimit(Append(s, r))
<1> DEFINE a == Append(s, r)
<1>1. /\ a \in Seq(Record) /\ Len(s) \in Nat /\ Len(a) = Len(s) + 1
      /\ \A i \in 1 .. Len(s) : a[i] = s[i]
  BY AppendProperties, LenProperties
<1>2. SubSeq(a, 1, Len(a) - 1) = s
  <2>1. /\ SubSeq(a, 1, Len(s)) \in Seq(Record)
        /\ Len(SubSeq(a, 1, Len(s))) = Len(s)
        /\ \A i \in 1 .. Len(s) : SubSeq(a, 1, Len(s))[i] = s[i]
    <3>1. \A i \in 1 .. Len(s) : a[i] \in Record
      BY <1>1, ElementOfSeq
    <3> HIDE DEF a
    <3>2. QED
      BY <1>1, <3>1, SubSeqProperties
  <2>2. SubSeq(a, 1, Len(s)) = s
    <3> DEFINE t == SubSeq(a, 1, Len(s))
    <3> HIDE DEF t
    <3>1. QED
      BY <2>1, SeqEqual DEF t
  <2>3. Len(a) - 1 = Len(s)
    BY <1>1
  <2>4. QED
    BY <2>2, <2>3
<1>3. MaxLines > 0 => Len(a) <= MaxLines
  BY <1>1, LogAssumption
<1> HIDE DEF a
<1>4. WithinLimit(a)
  BY <1>2, <1>3 DEF WithinLimit
<1>5. QED
  BY <1>4 DEF a

------------------------------------------------------------------------------
(* What the files have.                                                    *)

\* The numbered files are the first numbers, the others are empty, and all
\* that was written is in them and the current file.
FilesInv ==
  /\ \A k \in 0 .. MaxNumber : k \notin files => disk[k] = << >>
  /\ \A j, k \in 1 .. MaxNumber : j < k /\ k \in files => j \in files
  /\ writer["file"] \in {"take", "write"} => 0 \in files
  /\ DiskHolds

\* With rotation no file is beyond the limit, and while one is open its
\* lines and bytes are counted.
LimitInv ==
  /\ \A k \in files : WithinLimit(disk[k])
  /\ writer["file"] = "open" => 0 \notin files
  /\ writer["file"] \in {"take", "write"} =>
       lines = Len(disk[0]) /\ size = BytesOf(disk[0])
  /\ writer["file"] = "write" =>
       (MaxLines > 0 => lines < MaxLines) /\ (MaxSize > 0 => size < MaxSize)

DiskInv == FilesInv /\ (Rotate => LimitInv)

\* A step that leaves the files alone.
FilesSame ==
  /\ UNCHANGED <<files, disk>> /\ wrote'["file"] = wrote["file"]
  /\ writer'["file"] \in {"take", "write"} =>
       writer["file"] \in {"take", "write"} /\ UNCHANGED <<lines, size>>
  /\ writer'["file"] = "write" => writer["file"] = "write" \/ ~Due
  /\ writer'["file"] = "open" =>
       writer["file"] = "open" \/ ~Rotate \/ 0 \notin files

LEMMA FilesSameKeep ==
  ASSUME Inv, DiskInv, FilesSame
  PROVE  DiskInv'
<1>1. DiskHolds'
  BY NumberedJoins DEF FilesSame, DiskInv, FilesInv, DiskHolds
<1>2. FilesInv'
  BY <1>1 DEF FilesSame, DiskInv, FilesInv
<1>3. ~Due => /\ MaxLines > 0 => lines < MaxLines
              /\ MaxSize > 0 => size < MaxSize
  BY LogAssumption DEF Due, Inv, DiskType
<1>4. ASSUME Rotate PROVE LimitInv'
  <2>1. LimitInv
    BY <1>4 DEF DiskInv
  <2>2. \A k \in files : WithinLimit(disk[k])
    BY <2>1 DEF LimitInv
  <2>3. (\A k \in files : WithinLimit(disk[k]))'
    <3>1. disk' = disk /\ files' = files
      BY DEF FilesSame
    <3>2. \A k \in files' : WithinLimit(disk'[k])
      BY <2>2, <3>1, Zenon
    <3>3. QED
      BY <3>2
  <2>4. (writer["file"] \in {"take", "write"} =>
           lines = Len(disk[0]) /\ size = BytesOf(disk[0]))'
    BY <2>1 DEF FilesSame, LimitInv, BytesOf
  <2>5. (writer["file"] = "write" =>
           (MaxLines > 0 => lines < MaxLines)
             /\ (MaxSize > 0 => size < MaxSize))'
    <3>1. writer["file"] = "write" => /\ MaxLines > 0 => lines < MaxLines
                                      /\ MaxSize > 0 => size < MaxSize
      BY <2>1 DEF LimitInv
    <3>2. writer'["file"] = "write" =>
            /\ lines' = lines /\ size' = size
            /\ writer["file"] = "write" \/ ~Due
      BY DEF FilesSame
    <3>3. QED
      BY <1>3, <3>1, <3>2
  <2>6. (writer["file"] = "open" => 0 \notin files)'
    BY <1>4, <2>1 DEF FilesSame, LimitInv
  <2>7. QED
    BY <2>3, <2>4, <2>5, <2>6 DEF LimitInv
<1>5. QED
  BY <1>2, <1>4 DEF DiskInv

LEMMA WriteFileKeeps ==
  ASSUME Inv, DiskInv, WriteFile
  PROVE  DiskInv'
<1> DEFINE r == hand["file"]
<1>1. /\ writer["file"] = "write" /\ r \in Record /\ disk \in Disks
      /\ lines \in Nat /\ size \in Nat /\ wrote \in [Writers -> Seq(Record)]
      /\ writer \in [Writers -> {"none", "take", "rotate", "open", "write",
                                 "stopped"}]
      /\ "file" \in Writers /\ 0 \in 0 .. MaxNumber /\ disk[0] \in Seq(Record)
  BY WriterNames, LogAssumption
  DEF WriteFile, Inv, HandInv, DiskType, WriterType, Disks
<1>2. /\ disk' = [disk EXCEPT ![0] = Append(disk[0], r)]
      /\ wrote'["file"] = Append(wrote["file"], r)
      /\ writer'["file"] = "take" /\ files' = files
      /\ lines' = lines + 1 /\ size' = size + Bytes[r.by]
  BY <1>1 DEF WriteFile, Written
<1>3. 0 \in files
  BY <1>1 DEF DiskInv, FilesInv
<1> HIDE DEF r
<1>4. disk'[0] = Append(disk[0], r)
      /\ \A k \in 1 .. MaxNumber : disk'[k] = disk[k]
  BY <1>1, <1>2 DEF Disks
<1>5. DiskHolds'
  <2>1. Joins(disk)[MaxNumber] \o disk[0] = wrote["file"]
    BY NumberedJoins DEF DiskInv, FilesInv, DiskHolds
  <2>2. Joins(disk')[MaxNumber] \o disk'[0] = Append(wrote["file"], r)
    BY <1>1, <1>2, <2>1, WriteJoins
  <2>3. QED
    BY <1>2, <2>2, NumberedJoins DEF DiskHolds
<1>6. FilesInv'
  <2>1. \A k \in 0 .. MaxNumber : k # 0 => k \in 1 .. MaxNumber
    BY LogAssumption
  <2>2. QED
    BY <1>2, <1>3, <1>4, <1>5, <2>1 DEF DiskInv, FilesInv
<1>7. ASSUME Rotate PROVE LimitInv'
  <2>1. LimitInv
    BY <1>7 DEF DiskInv
  <2>2. /\ lines = Len(disk[0]) /\ size = BytesOf(disk[0])
        /\ MaxLines > 0 => lines < MaxLines
        /\ MaxSize > 0 => size < MaxSize
    BY <1>1, <2>1 DEF LimitInv
  <2>3. WithinLimit(Append(disk[0], r))
    BY <1>1, <2>2, AppendWithinLimit
  <2>4. ASSUME NEW k \in files PROVE WithinLimit(disk'[k])
    <3>1. k \in 0 .. MaxNumber
      BY DEF Inv, DiskType
    <3>2. k # 0 => k \in 1 .. MaxNumber
      BY <3>1, LogAssumption
    <3>3. WithinLimit(disk[k])
      BY <2>1 DEF LimitInv
    <3>4. QED
      BY <1>4, <2>3, <3>2, <3>3
  <2>5. lines' = Len(disk'[0])
    BY <1>1, <1>2, <1>4, <2>2, AppendProperties
  <2>6. size' = BytesOf(disk'[0])
    BY <1>1, <1>2, <1>4, <2>2, BytesOfAppend
  <2>7. (\A k \in files : WithinLimit(disk[k]))'
    BY <1>2, <2>4 DEF WithinLimit, BytesOf
  <2>8. (lines = Len(disk[0]) /\ size = BytesOf(disk[0]))'
    BY <2>5, <2>6 DEF BytesOf
  <2>9. QED
    BY <1>2, <2>7, <2>8 DEF LimitInv
<1>8. QED
  BY <1>6, <1>7 DEF DiskInv

LEMMA RenameKeeps ==
  ASSUME Inv, DiskInv, Rename
  PROVE  DiskInv'
<1>1. PICK k \in FreeNumbers :
        /\ \A j \in FreeNumbers : k <= j
        /\ files' = (files \ {0}) \cup {k}
        /\ disk' = [disk EXCEPT ![k] = disk[0], ![0] = << >>]
  BY DEF Rename
<1>2. /\ 0 \in files /\ Rotate /\ wrote' = wrote /\ disk \in Disks
      /\ writer'["file"] = "open" /\ files \subseteq 0 .. MaxNumber
  BY WriterNames DEF Rename, Inv, DiskType, WriterType, Disks
<1>3. k \in 1 .. MaxNumber /\ k \notin files /\ k # 0
      /\ \A j \in 1 .. MaxNumber : j < k => j \in files
  BY <1>1, LogAssumption DEF FreeNumbers
<1>4. \A j \in k .. MaxNumber : j \notin files
  <2>1. ASSUME NEW j \in k .. MaxNumber, j \in files PROVE FALSE
    <3>1. j # k /\ j \in 1 .. MaxNumber /\ k < j
      BY <1>3, <2>1, LogAssumption
    <3>2. QED
      BY <1>3, <2>1, <3>1 DEF DiskInv, FilesInv
  <2>2. QED
    BY <2>1
<1>5. \A j \in k .. MaxNumber : disk[j] = << >>
  <2>1. \A j \in k .. MaxNumber : j \in 0 .. MaxNumber
    BY <1>3, LogAssumption
  <2>2. QED
    BY <1>4, <2>1 DEF DiskInv, FilesInv
<1>6. disk'[k] = disk[0] /\ disk'[0] = << >>
      /\ \A j \in 0 .. MaxNumber : j # k /\ j # 0 => disk'[j] = disk[j]
  BY <1>1, <1>2, <1>3, LogAssumption DEF Disks
<1>7. DiskHolds'
  <2>1. Joins(disk)[MaxNumber] \o disk[0] = wrote["file"]
    BY NumberedJoins DEF DiskInv, FilesInv, DiskHolds
  <2>2. Joins(disk')[MaxNumber] \o disk'[0] = wrote["file"]
    BY <1>1, <1>2, <1>3, <1>5, <2>1, RenameJoins
  <2>3. QED
    BY <1>2, <2>2, NumberedJoins DEF DiskHolds
<1>8. FilesInv'
  <2>1. ASSUME NEW j \in 0 .. MaxNumber, j \notin files' PROVE disk'[j] = << >>
    <3>1. j = 0 \/ (j # k /\ j # 0 /\ j \notin files)
      BY <1>1, <2>1
    <3>2. QED
      BY <1>6, <3>1 DEF DiskInv, FilesInv
  <2>2. ASSUME NEW i \in 1 .. MaxNumber, NEW j \in 1 .. MaxNumber,
               i < j, j \in files'
        PROVE  i \in files'
    <3>1. i # 0 /\ (j = k \/ j \in files)
      BY <1>1, <2>2
    <3>2. i \in files
      <4>1. j \in files => i \in files
        BY <2>2 DEF DiskInv, FilesInv
      <4>2. QED
        BY <1>3, <2>2, <3>1, <4>1
    <3>3. QED
      BY <1>1, <3>1, <3>2
  <2>3. QED
    BY <1>2, <1>7, <2>1, <2>2 DEF FilesInv
<1>9. LimitInv'
  <2>1. \A j \in files : WithinLimit(disk[j])
    BY <1>2 DEF DiskInv, LimitInv
  <2>2. ASSUME NEW j \in files' PROVE WithinLimit(disk'[j])
    <3>1. j = k \/ (j \in files /\ j # 0 /\ j # k)
      BY <1>1, <1>3
    <3>2. disk'[j] = disk[0] \/ (j \in files /\ disk'[j] = disk[j])
      BY <1>2, <1>6, <3>1
    <3>3. QED
      BY <1>2, <2>1, <3>2
  <2>3. 0 \notin files'
    BY <1>1, <1>3
  <2>4. QED
    BY <1>2, <2>2, <2>3 DEF LimitInv
<1>10. QED
  BY <1>8, <1>9 DEF DiskInv

LEMMA OpenKeeps ==
  ASSUME Inv, DiskInv, Open
  PROVE  DiskInv'
<1>1. /\ writer["file"] = "open" /\ files' = files \cup {0}
      /\ lines' = 0 /\ size' = 0 /\ disk' = disk /\ wrote' = wrote
      /\ writer'["file"] \in {"take", "write"}
  BY WriterNames DEF Open, Inv, WriterType
<1>2. DiskHolds'
  BY <1>1, NumberedJoins DEF DiskInv, FilesInv, DiskHolds
<1>3. FilesInv'
  <2>1. \A j \in 1 .. MaxNumber : j \in files' <=> j \in files
    BY <1>1
  <2>2. QED
    BY <1>1, <1>2, <2>1 DEF DiskInv, FilesInv
<1>4. ASSUME Rotate PROVE LimitInv'
  <2>1. 0 \notin files /\ 0 \in 0 .. MaxNumber /\ disk[0] = << >>
    BY <1>1, <1>4, LogAssumption DEF DiskInv, FilesInv, LimitInv
  <2>2. \A j \in files : WithinLimit(disk[j])
    BY <1>4 DEF DiskInv, LimitInv
  <2>3. WithinLimit(<< >>)
    BY NoItems, LogAssumption DEF WithinLimit
  <2>4. ASSUME NEW j \in files' PROVE WithinLimit(disk'[j])
    BY <1>1, <2>1, <2>2, <2>3
  <2>5. lines' = Len(disk'[0]) /\ size' = BytesOf(disk'[0])
    BY <1>1, <2>1, NoItems, BytesOfNothing
  <2>6. QED
    BY <1>1, <2>4, <2>5, LogAssumption DEF LimitInv
<1>5. QED
  BY <1>3, <1>4 DEF DiskInv

LEMMA FreshSame == ASSUME Fresh PROVE FilesSame
BY WriterNames DEF Fresh, FilesSame

LEMMA LoggerSame ==
  ASSUME Inv, NEW g \in Goroutines, Logger(g)
  PROVE  FilesSame
<1>1. CASE LogWritePanics(g) \/ RuntimeAbort(g)
  BY <1>1, FreshSame DEF LogWritePanics, RuntimeAbort, ProcessEnds
<1>2. CASE \/ Log(g) \/ RangeEnds(g) \/ LogWrite(g)
           \/ \E w \in Writers : RangeStep(g, w)
  BY <1>2 DEF Log, NewRecord, RangeEnds, LogWrite, RangeStep, diskVars,
     writerVars, FilesSame
<1>3. QED
  BY <1>1, <1>2 DEF Logger

LEMMA WriterSame ==
  ASSUME Inv, NEW w \in Writers, Writer(w)
  PROVE  FilesSame
<1>1. /\ wrote \in [Writers -> Seq(Record)] /\ "file" \in Writers
      /\ writer \in [Writers -> {"none", "take", "rotate", "open", "write",
                                 "stopped"}]
  BY WriterNames DEF Inv, WriterType
<1>2. CASE Take(w)
  BY <1>1, <1>2 DEF Take, diskVars, FilesSame
<1>3. CASE WriterEnds(w)
  BY <1>1, <1>3 DEF WriterEnds, diskVars, FilesSame
<1>4. CASE PrintLine(w)
  BY <1>1, <1>4, WriterNames DEF PrintLine, Written, diskVars, FilesSame
<1>5. QED
  BY <1>2, <1>3, <1>4 DEF Writer

LEMMA FileFailsSame == ASSUME Inv, FileFails PROVE FilesSame
<1>1. CASE ProcessEnds
  BY <1>1, FreshSame DEF ProcessEnds
<1>2. CASE ~ProcessEnds
  BY <1>2, WriterNames DEF FileFails, diskVars, FilesSame, Inv, WriterType
<1>3. QED
  BY <1>1, <1>2

LEMMA FileWriterKeeps ==
  ASSUME Inv, DiskInv, FileWriter \/ DiskError \/ Midnight
  PROVE  DiskInv'
<1>1. CASE NothingToRename
  BY <1>1, FilesSameKeep, WriterNames
  DEF NothingToRename, diskVars, FilesSame, Inv, WriterType
<1>2. CASE Midnight
  BY <1>2, FilesSameKeep DEF Midnight, writerVars, FilesSame
<1>3. CASE NoFreeNumber \/ DiskError
  BY <1>3, FileFailsSame, FilesSameKeep DEF NoFreeNumber, DiskError
<1>4. QED
  BY <1>1, <1>2, <1>3, WriteFileKeeps, RenameKeeps, OpenKeeps DEF FileWriter

LEMMA MainSame ==
  ASSUME Inv, MainStep \/ Kill \/ Restart
  PROVE  FilesSame
<1>1. CASE Kill \/ Restart \/ BadConfiguration
  BY <1>1, FreshSame DEF Kill, Restart, BadConfiguration, ProcessEnds
<1>2. CASE NewWriters
  BY <1>2, WriterNames DEF NewWriters, diskVars, FilesSame, Inv, WriterType
<1>3. CASE LoadConfiguration \/ Crashf \/ CrashfCloses \/ CrashfPanics
             \/ \E w \in Writers : Close(w)
  BY <1>3 DEF LoadConfiguration, Crashf, NewRecord, CrashfCloses,
     CrashfPanics, Close, diskVars, writerVars, FilesSame
<1>4. QED
  BY <1>1, <1>2, <1>3 DEF MainStep

LEMMA DiskNext == ASSUME Inv, DiskInv, [Next]_vars PROVE DiskInv'
<1>1. CASE UNCHANGED vars
  BY <1>1, FilesSameKeep DEF vars, writerVars, diskVars, FilesSame
<1>2. QED
  BY <1>1, LoggerSame, WriterSame, FileWriterKeeps, MainSame, FilesSameKeep
  DEF Next

LEMMA DiskInit == ASSUME Init PROVE DiskInv
<1>1. /\ files = {} /\ disk = [k \in 0 .. MaxNumber |-> << >>]
      /\ wrote["file"] = << >> /\ writer["file"] = "none"
  BY WriterNames DEF Init
<1>2. MaxNumber \in Nat /\ 0 \in 0 .. MaxNumber /\ disk \in Disks
  BY <1>1, LogAssumption, NoItems DEF Disks
<1>3. Joins(disk)[MaxNumber] = << >>
  <2>1. Joins(disk)[MaxNumber] = Joins(disk)[0]
    <3>1. \A k \in 0 + 1 .. MaxNumber : disk[k] = << >>
      BY <1>1
    <3>2. QED
      BY <1>2, <3>1, JoinsStop
  <2>2. QED
    BY <1>2, <2>1, JoinsAre
<1>4. DiskHolds
  BY <1>1, <1>2, <1>3, NumberedJoins, NoItems, ConcatEmptySeq DEF DiskHolds
<1>5. QED
  BY <1>1, <1>4 DEF DiskInv, FilesInv, LimitInv

LEMMA DiskAlways == Spec => [](Inv /\ DiskInv)
<1>1. Init => Inv /\ DiskInv
  BY InitInv, DiskInit
<1>2. Inv /\ DiskInv /\ [Next]_vars => (Inv /\ DiskInv)'
  BY NextInv, DiskNext
<1>3. QED
  BY <1>1, <1>2, PTL DEF Spec

\* No record written is ever lost, replaced or put out of its order, by any
\* number of rotations, failures, kills and restarts (intRotate).
THEOREM DiskAlwaysHolds == Spec => []DiskHolds
<1>1. Inv /\ DiskInv => DiskHolds
  BY DEF DiskInv, FilesInv
<1>2. QED
  BY <1>1, DiskAlways, PTL

\* With rotation no file grows beyond its limits, also when it was opened by
\* an earlier process (the test before each write, and intRotate).
THEOREM FilesStayWithinLimit == Spec => []FileLimit
<1>1. Inv /\ DiskInv => FileLimit
  <2> SUFFICES ASSUME Inv, DiskInv, NEW k \in files, Rotate
               PROVE  WithinLimit(disk[k])
    BY DEF FileLimit, WithinLimit
  <2>1. QED
    BY DEF DiskInv, LimitInv
<1>2. QED
  BY <1>1, DiskAlways, PTL
==============================================================================
