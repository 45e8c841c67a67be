------------------------- MODULE NumberBindingProofs -------------------------
(***************************************************************************)
(* Theorems about NumberBinding for any number of access numbers, lookups  *)
(* and commands, whatever bind.txt holds.                                  *)
(***************************************************************************)
EXTENDS NumberBinding, SequenceTheorems, TLAPS

------------------------------------------------------------------------------
(* Every variable stays in its range, and the lines behind a command are   *)
(* bindings.                                                               *)

LinesRead(c) ==
  /\ line[c] >= 1
  /\ cpc[c] = "new" => file[c] = << >> /\ line[c] = 1
  /\ \A i \in 1 .. Len(file[c]) : i < line[c] => file[c][i] \in Binding
  /\ cpc[c] \in {"dial", "hget", "hset"} => line[c] > Len(file[c])

Inv == TypeOK /\ \A c \in Commands : LinesRead(c)

\* A statement makes rows of rows.
LEMMA WrittenTyped ==
  ASSUME NEW t \in SUBSET Row, NEW s \in Statement
  PROVE  Written(t, s) \in SUBSET Row
<1>1. s.row \in Row /\ s.row.number \in Numbers
  BY DEF Statement, Row
<1>2. Updated(t, s.row) \subseteq Row
  BY <1>1 DEF Updated, Row
<1>3. QED
  BY <1>1, <1>2 DEF Written

LEMMA StatementTyped ==
  ASSUME TypeOK, NEW c \in Commands, cpc[c] = "write"
  PROVE  /\ StatementOf(c) \in Statement
         /\ BindingOf(c) \in Binding
<1>1. /\ BindingOf(c) \in Binding /\ line[c] \in Nat /\ lost[c] \in Nat
      /\ mode[c] \in Mode /\ insertFlag[c] \in BOOLEAN
  BY BindingAssumption DEF TypeOK, BindingOf
<1>2. StatementOf(c).row \in Row
  BY <1>1 DEF StatementOf, Row, Binding
<1>3. QED
  BY <1>1, <1>2 DEF StatementOf, Statement

LEMMA DoneTyped ==
  ASSUME TypeOK, NEW s \in Statement, Done(s)
  PROVE  table' \subseteq Row /\ testTable' \subseteq Row
<1>1. table \in SUBSET Row /\ testTable \in SUBSET Row
  BY DEF TypeOK
<1>2. Written(table, s) \in SUBSET Row /\ Written(testTable, s) \in SUBSET Row
  BY <1>1, WrittenTyped
<1>3. QED
  BY <1>1, <1>2 DEF Done

\* The numbers of a file of bindings are a sequence of access numbers.
LEMMA NbrsOfTyped ==
  ASSUME NEW f \in Seq(Binding \cup {BadLine}),
         \A i \in 1 .. Len(f) : f[i] \in Binding
  PROVE  /\ NbrsOf(f) \in Seq(Nbrs)
         /\ Len(NbrsOf(f)) = Len(f)
         /\ \A i \in 1 .. Len(f) : NbrsOf(f)[i] = f[i].nbr
<1>1. Len(f) \in Nat
  OBVIOUS
<1>2. \A i \in 1 .. Len(f) : f[i].nbr \in Nbrs
  BY DEF Binding
<1>3. QED
  BY <1>1, <1>2 DEF NbrsOf

LEMMA FilesAreSeqs ==
  \A f \in Files \cup {<< >>} : f \in Seq(Binding \cup {BadLine})
BY BindingAssumption, EmptySeq

LEMMA InitInv == Init => Inv
<1> SUFFICES ASSUME Init PROVE Inv
  OBVIOUS
<1> USE BindingAssumption
<1>1. table \subseteq Row
  BY DEF Init, Row, Binding
<1>2. entry \in AppInfo
  <2>1. CASE entry \in [rest : {"plain", "escaped"}, nbrs : {OldNbrs}]
    <3>1. \A s \in {OldNbrs} : s \in Seq(Nbrs)
      OBVIOUS
    <3>2. QED
      BY <2>1, <3>1 DEF AppInfo, Rest
  <2>2. CASE entry = NoEntry
    BY <2>2, EmptySeq DEF NoEntry, AppInfo, Rest
  <2>3. QED
    BY <2>1, <2>2 DEF Init
<1>3. NoInfo \in AppInfo
  BY EmptySeq DEF NoInfo, AppInfo, Rest
<1>4. (CHOOSE n \in Nbrs : TRUE) \in Nbrs
  OBVIOUS
<1>5. TypeOK
  <2>1. lost \in [Commands -> 0 .. MaxTries]
    BY BindingAssumption DEF Init
  <2>2. late \subseteq Statement /\ testTable \subseteq Row
    BY DEF Init
  <2>3. \A c \in Commands : cpc[c] \notin {"select", "write"}
    BY DEF Init
  <2>4. QED
    BY <1>1, <1>2, <1>3, <1>4, <2>1, <2>2, <2>3
    DEF Init, TypeOK, LookupPc, CommandPc, Mode
<1>6. \A c \in Commands : LinesRead(c)
  BY DEF Init, LinesRead
<1>7. QED
  BY <1>5, <1>6 DEF Inv

ServerStep == Start \/ Kill \/ MapThrow \/ \E g \in Lookups : LookupStep(g)

\* The server changes neither the tables nor the entry, and leaves the
\* commands alone.
LEMMA ServerLeaves ==
  ASSUME ServerStep
  PROVE  UNCHANGED <<tableVars, entry, commandVars, historyVars>>
BY DEF ServerStep, Start, Kill, MapThrow, Crash, LookupStep, Begin, ReadMap,
       Query, QueryFails, FillRow, FillEnds, Reread

LEMMA ServerStepInv ==
  ASSUME Inv, ServerStep
  PROVE  Inv'
<1> USE DEF Inv, LookupPc, tableVars, commandVars, historyVars
<1>1. CASE Start
  <2>1. PICK rows \in SUBSET table : number2nbr' \in Loaded(rows)
    BY <1>1 DEF Start
  <2>2. number2nbr' \in [Nbrs -> Numbers \cup {Unbound}]
    BY <2>1 DEF Loaded
  <2>3. QED
    BY <1>1, <2>2 DEF Start, TypeOK, LinesRead
<1>2. CASE Crash
  BY <1>2 DEF Crash, TypeOK, LinesRead
<1>3. CASE \E g \in Lookups : LookupStep(g)
  <2>1. PICK g \in Lookups : LookupStep(g)
    BY <1>3
  <2> USE DEF At, Goto
  <2>2. CASE \E n \in Nbrs : Begin(g, n)
    BY <2>2 DEF Begin, TypeOK, LinesRead
  <2>3. CASE ReadMap(g)
    BY <2>3 DEF ReadMap, TypeOK, LinesRead
  <2>4. CASE Query(g)
    BY <2>4 DEF Query, TypeOK, LinesRead
  <2>5. CASE QueryFails(g)
    BY <2>5 DEF QueryFails, TypeOK, LinesRead
  <2>6. CASE FillRow(g)
    <3>1. PICK r \in unread[g] :
            /\ number2nbr' = [number2nbr EXCEPT ![r.nbr] = r.number]
            /\ unread' = [unread EXCEPT ![g] = @ \ {r}]
      BY <2>6 DEF FillRow
    <3>2. r.nbr \in Nbrs /\ r.number \in Numbers
      BY <3>1 DEF TypeOK, Row
    <3>3. QED
      BY <2>6, <3>1, <3>2 DEF FillRow, TypeOK, LinesRead
  <2>7. CASE FillEnds(g)
    BY <2>7 DEF FillEnds, TypeOK, LinesRead
  <2>8. CASE Reread(g)
    BY <2>8 DEF Reread, TypeOK, LinesRead
  <2>9. QED
    BY <2>1, <2>2, <2>3, <2>4, <2>5, <2>6, <2>7, <2>8 DEF LookupStep
<1>4. QED
  BY <1>1, <1>2, <1>3 DEF ServerStep, Kill, MapThrow

LEMMA CommandStepInv ==
  ASSUME Inv, NEW c \in Commands, CommandStep(c)
  PROVE  Inv'
<1> USE DEF Inv, CommandPc, CommandTo, NextLine, tableVars, serverVars,
            historyVars
<1>1. CASE Run(c)
  <2>1. PICK f \in Files : file' = [file EXCEPT ![c] = f]
    BY <1>1 DEF Run
  <2>2. f \in Seq(Binding \cup {BadLine})
    BY <2>1, FilesAreSeqs
  <2>3. TypeOK'
    <3>1. PICK m \in Modes : mode' = [mode EXCEPT ![c] = m]
      BY <1>1 DEF Run
    <3>2. mode' \in [Commands -> Mode]
      BY <3>1, BindingAssumption DEF TypeOK
    <3>3. QED
      BY <1>1, <2>1, <3>2 DEF Run, TypeOK
  <2>4. \A d \in Commands : LinesRead(d)'
    BY <1>1, <2>1, <2>2 DEF Run, TypeOK, LinesRead
  <2>5. QED
    BY <2>3, <2>4
<1>2. CASE Interrupt(c)
  BY <1>2 DEF Interrupt, TypeOK, LinesRead
<1>3. CASE ReadLine(c)
  <2>1. file[c] \in Seq(Binding \cup {BadLine})
    BY FilesAreSeqs DEF TypeOK
  <2>2. cpc[c] = "line" /\ line[c] \in Nat
    BY <1>3 DEF ReadLine, TypeOK
  <2>3. line[c] \in 1 .. Len(file[c]) /\ file[c][line[c]] # BadLine
          => file[c][line[c]] \in Binding
    BY <2>1
  <2>4. line[c] > Len(file[c]) \/ line[c] \in 1 .. Len(file[c])
    <3>1. Len(file[c]) \in Nat
      BY <2>1
    <3>2. line[c] >= 1
      BY DEF LinesRead
    <3>3. QED
      BY <2>2, <3>1, <3>2
  <2>5. TypeOK'
    BY <1>3, <2>2, <2>3, <2>4 DEF ReadLine, TypeOK
  <2>6. \A d \in Commands : LinesRead(d)'
    BY <1>3, <2>2, <2>4 DEF ReadLine, TypeOK, LinesRead
  <2>7. QED
    BY <2>5, <2>6
<1>4. CASE Select(c)
  <2>1. PICK ok \in BOOLEAN :
          insertFlag' =
            [insertFlag EXCEPT ![c] =
               ~ok \/ ~(RowsOf(table, BindingOf(c).nbr) # {})]
    BY <1>4 DEF Select
  <2>2. insertFlag' \in [Commands -> BOOLEAN]
    BY <2>1, Zenon DEF TypeOK
  <2>3. /\ cpc[c] = "select"
        /\ cpc' = [cpc EXCEPT ![c] = "write"]
        /\ UNCHANGED <<tableVars, entry, serverVars, file, mode, line, lost,
                       appInfo, dropped, overtaken>>
        /\ doubled' = doubled \/ doubled' = doubled \cup {BindingOf(c).nbr}
    BY <1>4 DEF Select
  <2>4. BindingOf(c).nbr \in Nbrs
    BY <2>3 DEF TypeOK, BindingOf, Binding
  <2>5. TypeOK'
    BY <2>2, <2>3, <2>4 DEF TypeOK
  <2>6. \A d \in Commands : LinesRead(d)'
    BY <2>3 DEF TypeOK, LinesRead
  <2>7. QED
    BY <2>5, <2>6
<1>5. CASE AnswerLost(c) \/ Write(c) \/ WriteFails(c)
  <2>1. cpc[c] = "write"
    BY <1>5 DEF AnswerLost, Write, WriteFails
  <2>2. /\ StatementOf(c) \in Statement
        /\ BindingOf(c) \in Binding /\ BindingOf(c).nbr \in Nbrs
        /\ line[c] \in 1 .. Len(file[c]) /\ file[c][line[c]] \in Binding
    BY <2>1, StatementTyped DEF TypeOK, Binding
  <2>3. CASE AnswerLost(c)
    <3>1. lost' \in [Commands -> 0 .. MaxTries]
      BY <2>3, BindingAssumption DEF AnswerLost, TypeOK
    <3>2. late' \subseteq Statement /\ doubled' \subseteq Nbrs
      BY <2>2, <2>3 DEF AnswerLost, TypeOK
    <3>3. QED
      BY <2>3, <3>1, <3>2 DEF AnswerLost, TypeOK, LinesRead
  <2>4. CASE Write(c) \/ WriteFails(c)
    <3>1. table' \subseteq Row /\ testTable' \subseteq Row
      BY <2>2, <2>4, DoneTyped DEF Write, WriteFails, TypeOK
    <3>2. dropped' \subseteq Nbrs
      BY <2>2, <2>4 DEF Write, WriteFails, TypeOK
    <3>3. lost' \in [Commands -> 0 .. MaxTries]
      BY <2>4, BindingAssumption DEF Write, WriteFails, TypeOK
    <3>4. /\ cpc' = [cpc EXCEPT ![c] = "line"]
          /\ line' = [line EXCEPT ![c] = @ + 1]
          /\ UNCHANGED <<late, entry, serverVars, file, mode, insertFlag,
                         appInfo, doubled, overtaken>>
      BY <2>4 DEF Write, WriteFails, tableVars
    <3>5. TypeOK'
      BY <2>2, <3>1, <3>2, <3>3, <3>4 DEF TypeOK
    <3>6. \A d \in Commands : LinesRead(d)'
      BY <2>1, <2>2, <3>4 DEF TypeOK, LinesRead
    <3>7. QED
      BY <3>5, <3>6
  <2>5. QED
    BY <1>5, <2>3, <2>4
<1>6. CASE Dial(c)
  <2>1. /\ cpc[c] = "dial"
        /\ \/ cpc' = [cpc EXCEPT ![c] = "hget"]
           \/ cpc' = [cpc EXCEPT ![c] = "ended"]
        /\ UNCHANGED <<tableVars, entry, serverVars, file, mode, line,
                       insertFlag, lost, appInfo, historyVars>>
    BY <1>6 DEF Dial
  <2>2. TypeOK'
    BY <2>1 DEF TypeOK
  <2>3. \A d \in Commands : LinesRead(d)'
    BY <2>1 DEF TypeOK, LinesRead
  <2>4. QED
    BY <2>2, <2>3
<1>7. CASE HGet(c)
  <2>1. /\ cpc[c] = "hget"
        /\ \/ cpc' = [cpc EXCEPT ![c] = "ended"]
           \/ cpc' = [cpc EXCEPT ![c] = "hset"]
        /\ appInfo' = appInfo \/ appInfo' = [appInfo EXCEPT ![c] = entry]
        /\ UNCHANGED <<tableVars, entry, serverVars, file, mode, line,
                       insertFlag, lost, historyVars>>
    BY <1>7 DEF HGet
  <2>2. /\ appInfo' \in [Commands -> AppInfo]
        /\ cpc' \in [Commands -> CommandPc]
        /\ \A d \in Commands :
             cpc'[d] \in {"select", "write"} => cpc'[d] = cpc[d]
    <3>1. entry \in AppInfo /\ appInfo \in [Commands -> AppInfo]
      BY DEF TypeOK
    <3>2. appInfo' \in [Commands -> AppInfo]
      BY <2>1, <3>1
    <3>3. cpc \in [Commands -> CommandPc]
      BY DEF TypeOK
    <3>4. /\ cpc' \in [Commands -> CommandPc]
          /\ \A d \in Commands :
               cpc'[d] \in {"select", "write"} => cpc'[d] = cpc[d]
      BY <2>1, <3>3
    <3>5. QED
      BY <3>2, <3>4
  <2>3. UNCHANGED <<tableVars, entry, serverVars, file, mode, line, insertFlag,
                    lost, historyVars>>
    BY <2>1
  <2>4. TypeOK'
    BY <2>2, <2>3 DEF TypeOK
  <2>5. \A d \in Commands : LinesRead(d)'
    BY <2>1 DEF TypeOK, LinesRead
  <2>6. QED
    BY <2>4, <2>5
<1>8. CASE HGetFails(c)
  <2>1. NoInfo \in AppInfo
    BY EmptySeq DEF NoInfo, AppInfo, Rest
  <2>2. appInfo' \in [Commands -> AppInfo]
    BY <1>8, <2>1 DEF HGetFails, TypeOK
  <2>3. /\ cpc[c] = "hget" /\ cpc' = [cpc EXCEPT ![c] = "hset"]
        /\ overtaken' = overtaken \cup {c}
        /\ UNCHANGED <<tableVars, entry, serverVars, file, mode, line,
                       insertFlag, lost, doubled, dropped>>
    BY <1>8 DEF HGetFails
  <2>4. TypeOK'
    BY <2>2, <2>3 DEF TypeOK
  <2>5. \A d \in Commands : LinesRead(d)'
    BY <2>3 DEF TypeOK, LinesRead
  <2>6. QED
    BY <2>4, <2>5
<1>9. CASE HSet(c)
  <2>1. file[c] \in Seq(Binding \cup {BadLine})
    BY FilesAreSeqs DEF TypeOK
  <2>2. NbrsOf(file[c]) \in Seq(Nbrs)
    <3>1. \A i \in 1 .. Len(file[c]) : file[c][i] \in Binding
      BY <1>9, <2>1 DEF HSet, TypeOK, LinesRead
    <3>2. QED
      BY <2>1, <3>1, NbrsOfTyped
  <2>3. appInfo[c] \in AppInfo
    BY DEF TypeOK
  <2>4. appInfo[c].nbrs \o NbrsOf(file[c]) \in Seq(Nbrs)
    BY <2>2, <2>3, ConcatProperties DEF AppInfo
  <2>5. entry' \in AppInfo
    BY <1>9, <2>3, <2>4 DEF HSet, AppInfo, Rest
  <2>6. QED
    BY <1>9, <2>5 DEF HSet, TypeOK, LinesRead
<1>10. CASE HSetFails(c)
  BY <1>10 DEF HSetFails, TypeOK, LinesRead
<1>11. QED
  BY <1>1, <1>2, <1>3, <1>4, <1>5, <1>6, <1>7, <1>8, <1>9, <1>10
  DEF CommandStep

LEMMA LateWriteInv ==
  ASSUME Inv, NEW s \in late, LateWrite(s)
  PROVE  Inv'
<1>1. table' \subseteq Row /\ testTable' \subseteq Row
  BY DoneTyped DEF Inv, TypeOK, LateWrite
<1>2. QED
  BY <1>1
  DEF Inv, TypeOK, LinesRead, LateWrite, serverVars, commandVars, historyVars

LEMMA StutterInv == Inv /\ UNCHANGED vars => Inv'
BY DEF Inv, TypeOK, LinesRead, vars, tableVars, serverVars, commandVars,
       historyVars

LEMMA NextInv == Inv /\ [Next]_vars => Inv'
BY ServerStepInv, CommandStepInv, LateWriteInv, StutterInv
DEF Next, ServerStep

LEMMA InvAlways == Spec => []Inv
BY InitInv, NextInv, PTL DEF Spec

\* Every variable of NumberBinding stays in its range; a command that is
\* about to bind is at a line that is a binding.
THEOREM BindingTypeCorrect == Spec => []TypeOK
<1>1. Inv => TypeOK
  BY DEF Inv
<1>2. QED
  BY <1>1, InvAlways, PTL

------------------------------------------------------------------------------
(* What a step does to the table: nothing, or a statement.                 *)

CommandWrites(c) ==
  /\ cpc[c] = "write" /\ mode[c] = "live"
  /\ table' = Written(table, StatementOf(c))

LEMMA CommandStepTable ==
  ASSUME Inv, NEW c \in Commands, CommandStep(c)
  PROVE  /\ table' = table \/ CommandWrites(c)
         /\ UNCHANGED serverVars
<1>1. Write(c) => table' = table \/ CommandWrites(c)
  BY DEF Write, Done, StatementOf, CommandWrites, Inv, TypeOK, Mode
<1>2. Write(c) \/ UNCHANGED table
  BY DEF CommandStep, Run, Interrupt, ReadLine, Select, AnswerLost,
         WriteFails, Dial, HGet, HGetFails, HSet, HSetFails, tableVars
<1>3. UNCHANGED serverVars
  BY DEF CommandStep, Run, Interrupt, ReadLine, Select, AnswerLost, Write,
         WriteFails, Dial, HGet, HGetFails, HSet, HSetFails
<1>4. QED
  BY <1>1, <1>2, <1>3

LEMMA LateWriteTable ==
  ASSUME Inv, NEW s \in late, LateWrite(s)
  PROVE  /\ s \in Statement
         /\ \/ table' = table
            \/ s.mode = "live" /\ table' = Written(table, s)
BY DEF Inv, TypeOK, LateWrite, Done, Statement, Mode

\* Only Run and what ends a line touch the line, and only its own command.
LEMMA OtherCommands ==
  ASSUME Inv, NEW c \in Commands, CommandStep(c),
         NEW d \in Commands, d # c
  PROVE  /\ cpc'[d] = cpc[d] /\ file'[d] = file[d] /\ mode'[d] = mode[d]
         /\ line'[d] = line[d] /\ insertFlag'[d] = insertFlag[d]
         /\ appInfo'[d] = appInfo[d]
BY DEF CommandStep, Run, Interrupt, ReadLine, Select, AnswerLost, Write,
       WriteFails, Dial, HGet, HGetFails, HSet, HSetFails, CommandTo,
       NextLine, Inv, TypeOK

------------------------------------------------------------------------------
(* What a row says was asked for, and so is all that is made of rows.      *)

AllAsked(rows) == \A r \in rows : r.number \in Asked(r.nbr)

AskedInv ==
  /\ AllAsked(table)
  /\ \A s \in late : s.mode = "live" => s.row.number \in Asked(s.row.nbr)
  /\ \A g \in Lookups : AllAsked(unread[g])
  /\ \A n \in Nbrs : number2nbr[n] \in Asked(n) \cup {Unbound}
  /\ \A g \in Lookups : found[g] \in Asked(nbr[g]) \cup {Unbound}

\* A command keeps its file and goes forward in it.
LEMMA FilesGrow ==
  ASSUME Inv, NEW c \in Commands, CommandStep(c), NEW d \in Commands
  PROVE  /\ (file'[d] = file[d] /\ mode'[d] = mode[d]) \/ file[d] = << >>
         /\ line'[d] >= line[d]
<1>1. line[d] \in Nat
  BY DEF Inv, TypeOK
<1>2. CASE Run(c)
  <2>1. /\ line' = line
        /\ \E f \in Files : file' = [file EXCEPT ![c] = f]
        /\ \E m \in Modes : mode' = [mode EXCEPT ![c] = m]
    BY <1>2 DEF Run
  <2>2. file[c] = << >>
    BY <1>2 DEF Run, Inv, LinesRead
  <2>3. QED
    BY <1>1, <2>1, <2>2 DEF Inv, TypeOK
<1>3. CASE Write(c) \/ WriteFails(c)
  <2>1. /\ UNCHANGED <<file, mode>>
        /\ line' = [line EXCEPT ![c] = @ + 1]
    BY <1>3 DEF Write, WriteFails, NextLine
  <2>2. QED
    BY <1>1, <2>1 DEF Inv, TypeOK
<1>4. CASE UNCHANGED <<file, mode, line>>
  BY <1>1, <1>4
<1>5. Run(c) \/ Write(c) \/ WriteFails(c) \/ UNCHANGED <<file, mode, line>>
  BY DEF CommandStep, Interrupt, ReadLine, Select, AnswerLost, Dial, HGet,
         HGetFails, HSet, HSetFails
<1>6. QED
  BY <1>2, <1>3, <1>4, <1>5

LEMMA AskedGrows ==
  ASSUME Inv, NEW c \in Commands, CommandStep(c), NEW n
  PROVE  Asked(n) \subseteq Asked(n)'
<1> SUFFICES ASSUME NEW x \in Asked(n)
             PROVE  x \in Asked(n)'
  OBVIOUS
<1>1. CASE [nbr |-> n, number |-> x] \in Old
  BY <1>1 DEF Asked
<1>2. CASE ~([nbr |-> n, number |-> x] \in Old)
  <2>1. PICK d \in Commands : \E i \in 1 .. Len(file[d]) :
          /\ mode[d] = "live"
          /\ i <= line[d] /\ file[d][i] = [nbr |-> n, number |-> x]
    BY <1>2 DEF Asked
  <2>2. PICK i \in 1 .. Len(file[d]) :
          /\ mode[d] = "live"
          /\ i <= line[d] /\ file[d][i] = [nbr |-> n, number |-> x]
    BY <2>1
  <2>3. file[d] # << >>
    BY <2>2, EmptySeq
  <2>4. /\ file'[d] = file[d] /\ mode'[d] = mode[d]
        /\ line'[d] >= line[d]
    BY <2>3, FilesGrow
  <2>5. line[d] \in Nat /\ line'[d] \in Nat
    BY CommandStepInv DEF Inv, TypeOK
  <2>6. i \in 1 .. Len(file'[d]) /\ i <= line'[d] /\ mode'[d] = "live"
        /\ file'[d][i] = [nbr |-> n, number |-> x]
    BY <2>2, <2>4, <2>5
  <2>7. x \in Numbers
    BY <1>2 DEF Asked
  <2>8. QED
    BY <2>6, <2>7 DEF Asked
<1>3. QED
  BY <1>1, <1>2

\* The line a command is at is asked for, so the rows it makes are.
LEMMA StatementAsked ==
  ASSUME Inv, NEW c \in Commands, cpc[c] = "write", mode[c] = "live"
  PROVE  StatementOf(c).row.number \in Asked(StatementOf(c).row.nbr)
<1> DEFINE b == BindingOf(c)
<1>1. /\ b \in Binding /\ b = file[c][line[c]]
      /\ line[c] \in 1 .. Len(file[c])
      /\ line[c] \in Nat
  BY DEF Inv, TypeOK, BindingOf
<1>2. b = [nbr |-> b.nbr, number |-> b.number] /\ b.number \in Numbers
  BY <1>1 DEF Binding
<1>3. \E i \in 1 .. Len(file[c]) :
        i <= line[c] /\ file[c][i] = [nbr |-> b.nbr, number |-> b.number]
  BY <1>1, <1>2
<1>4. b.number \in Asked(b.nbr)
  BY <1>2, <1>3 DEF Asked
<1>5. QED
  BY <1>4 DEF StatementOf

LEMMA WrittenAsked ==
  ASSUME NEW s \in Statement, s.row.number \in Asked(s.row.nbr),
         NEW t \in SUBSET Row, AllAsked(t)
  PROVE  AllAsked(Written(t, s))
<1>1. AllAsked(Updated(t, s.row))
  BY DEF AllAsked, Updated, Row
<1>2. QED
  BY <1>1 DEF Written, AllAsked

LEMMA InitAsked == Init => AskedInv
<1> SUFFICES ASSUME Init PROVE AskedInv
  OBVIOUS
<1>1. \A b \in Old : b = [nbr |-> b.nbr, number |-> b.number]
                     /\ b.number \in Numbers
  BY BindingAssumption DEF Binding
<1>2. \A b \in Old : b.number \in Asked(b.nbr)
  BY <1>1 DEF Asked
<1>3. AllAsked(table)
  BY <1>2 DEF Init, AllAsked
<1>4. QED
  BY <1>3 DEF Init, AskedInv, AllAsked

LEMMA ServerStepAsked ==
  ASSUME Inv, AskedInv, ServerStep
  PROVE  AskedInv'
<1>1. UNCHANGED <<table, late, file, mode, line>>
  BY ServerLeaves DEF tableVars, commandVars
<1>2. \A n : Asked(n)' = Asked(n)
  BY <1>1 DEF Asked
<1>3. /\ AllAsked(table)'
      /\ (\A s \in late : s.mode = "live" => s.row.number \in Asked(s.row.nbr))'
  BY <1>1, <1>2 DEF AskedInv, AllAsked
<1>4. CASE Start
  <2>1. PICK rows \in SUBSET table : number2nbr' \in Loaded(rows)
    BY <1>4 DEF Start
  <2>2. AllAsked(rows)
    BY <2>1 DEF AskedInv, AllAsked
  <2>3. \A n \in Nbrs : number2nbr'[n] \in Asked(n) \cup {Unbound}
    <3>1. TAKE n \in Nbrs
    <3>2. CASE RowsOf(rows, n) = {}
      BY <2>1, <3>2 DEF Loaded
    <3>3. CASE RowsOf(rows, n) # {}
      BY <2>1, <2>2, <3>3 DEF Loaded, AllAsked, RowsOf
    <3>4. QED
      BY <3>2, <3>3
  <2>4. QED
    BY <1>2, <1>3, <1>4, <2>3 DEF Start, AskedInv, AllAsked
<1>5. CASE Crash
  BY <1>2, <1>3, <1>5 DEF Crash, AskedInv, AllAsked
<1>6. CASE \E g \in Lookups : LookupStep(g)
  <2>1. PICK g \in Lookups : LookupStep(g)
    BY <1>6
  <2> USE DEF AskedInv, AllAsked, Inv, TypeOK
  <2>2. CASE \E n \in Nbrs : Begin(g, n)
    BY <1>2, <1>3, <2>2 DEF Begin
  <2>3. CASE ReadMap(g)
    BY <1>2, <1>3, <2>3 DEF ReadMap
  <2>4. CASE Query(g)
    BY <1>2, <1>3, <2>4 DEF Query
  <2>5. CASE QueryFails(g)
    BY <1>2, <1>3, <2>5 DEF QueryFails
  <2>6. CASE FillRow(g)
    <3>1. PICK r \in unread[g] :
            /\ number2nbr' = [number2nbr EXCEPT ![r.nbr] = r.number]
            /\ unread' = [unread EXCEPT ![g] = @ \ {r}]
      BY <2>6 DEF FillRow
    <3>2. r.number \in Asked(r.nbr)
      BY <3>1
    <3>3. \A n \in Nbrs : number2nbr'[n] \in Asked(n) \cup {Unbound}
      BY <3>1, <3>2
    <3>4. \A h \in Lookups : AllAsked(unread'[h])
      BY <3>1
    <3>5. QED
      BY <1>2, <1>3, <2>6, <3>3, <3>4 DEF FillRow
  <2>7. CASE FillEnds(g)
    BY <1>2, <1>3, <2>7 DEF FillEnds
  <2>8. CASE Reread(g)
    BY <1>2, <1>3, <2>8 DEF Reread
  <2>9. QED
    BY <2>1, <2>2, <2>3, <2>4, <2>5, <2>6, <2>7, <2>8 DEF LookupStep
<1>7. QED
  BY <1>4, <1>5, <1>6 DEF ServerStep, Kill, MapThrow

LEMMA CommandStepAsked ==
  ASSUME Inv, AskedInv, NEW c \in Commands, CommandStep(c)
  PROVE  AskedInv'
<1>1. UNCHANGED serverVars
  BY CommandStepTable
<1>2. \A n : Asked(n) \subseteq Asked(n)'
  BY AskedGrows
<1>3. AllAsked(table')
  <2>1. CASE table' = table
    BY <2>1 DEF AskedInv
  <2>2. CASE CommandWrites(c)
    BY <2>2, StatementTyped, StatementAsked, WrittenAsked
    DEF CommandWrites, AskedInv, Inv, TypeOK
  <2>3. QED
    BY <2>1, <2>2, CommandStepTable
<1>4. \A r \in table' : r.number \in Asked(r.nbr)'
  BY <1>2, <1>3 DEF AllAsked
<1>5. \A s \in late' : s.mode = "live" => s.row.number \in Asked(s.row.nbr)
  <2>1. CASE late' = late
    BY <2>1 DEF AskedInv
  <2>2. CASE AnswerLost(c)
    <3>1. cpc[c] = "write" /\ late' = late \cup {StatementOf(c)}
      BY <2>2 DEF AnswerLost
    <3>2. StatementOf(c).mode = mode[c]
      BY DEF StatementOf
    <3>3. QED
      BY <3>1, <3>2, StatementAsked DEF AskedInv
  <2>3. QED
    BY <2>1, <2>2
    DEF CommandStep, Run, Interrupt, ReadLine, Select, Write, WriteFails,
        Dial, HGet, HGetFails, HSet, HSetFails, tableVars
<1>6. QED
  BY <1>1, <1>2, <1>4, <1>5 DEF AskedInv, AllAsked, serverVars

LEMMA LateWriteAsked ==
  ASSUME Inv, AskedInv, NEW s \in late, LateWrite(s)
  PROVE  AskedInv'
<1>1. UNCHANGED <<serverVars, file, mode, line>> /\ late' \subseteq late
  BY DEF LateWrite, commandVars
<1>2. \A n : Asked(n)' = Asked(n)
  BY <1>1 DEF Asked
<1>3. AllAsked(table')
  BY LateWriteTable, WrittenAsked DEF AskedInv, Inv, TypeOK
<1>4. QED
  BY <1>1, <1>2, <1>3 DEF AskedInv, AllAsked, serverVars

LEMMA NextAsked == Inv /\ AskedInv /\ [Next]_vars => AskedInv'
<1>1. Inv /\ AskedInv /\ UNCHANGED vars => AskedInv'
  <2> SUFFICES ASSUME Inv, AskedInv, UNCHANGED vars PROVE AskedInv'
    OBVIOUS
  <2>1. \A n : Asked(n)' = Asked(n)
    BY DEF Asked, vars, commandVars
  <2>2. QED
    BY <2>1 DEF AskedInv, AllAsked, vars, tableVars, serverVars
<1>2. QED
  BY <1>1, ServerStepAsked, CommandStepAsked, LateWriteAsked
  DEF Next, ServerStep

\* A caller never gets the menu of a 400 number that was not bound to the
\* access number dialled, at first or by an operator, whatever the order in
\* which goroutines fill number2nbr and commands change the table.
THEOREM CachedWasAsked == Spec => []CacheIsAsked
<1>1. AskedInv => CacheIsAsked
  BY DEF AskedInv, CacheIsAsked
<1>2. QED
  BY <1>1, InitAsked, NextAsked, InvAlways, PTL DEF Spec

------------------------------------------------------------------------------
(* A number that was bound when a lookup began is found by it.             *)

HasRow(rows, n) == \E r \in rows : r.nbr = n

FoundInv(g) ==
  /\ ~up => pc[g] = "idle"
  /\ known[g] = TRUE =>
       /\ pc[g] \in {"read", "query"} => HasRow(table, nbr[g])
       /\ pc[g] = "fill" =>
            HasRow(unread[g], nbr[g]) \/ number2nbr[nbr[g]] # Unbound
       /\ pc[g] = "reread" => number2nbr[nbr[g]] # Unbound
       /\ pc[g] = "returned" => found[g] # Unbound

\* No statement takes a number out of the table.
LEMMA WrittenKeeps ==
  ASSUME NEW t \in SUBSET Row, NEW s, NEW n, HasRow(t, n)
  PROVE  HasRow(Written(t, s), n)
<1>1. PICK r \in t : r.nbr = n
  BY DEF HasRow
<1>2. HasRow(Updated(t, s.row), n)
  <2> DEFINE u == IF r.nbr = s.row.nbr THEN [r EXCEPT !.number = s.row.number]
                                       ELSE r
  <2>1. u \in Updated(t, s.row)
    BY <1>1 DEF Updated
  <2>2. u.nbr = n
    BY <1>1 DEF Row
  <2>3. QED
    BY <2>1, <2>2 DEF HasRow
<1>3. QED
  BY <1>1, <1>2 DEF Written, HasRow

LEMMA RowsStay ==
  ASSUME Inv,
         \/ \E c \in Commands : CommandStep(c)
         \/ \E s \in late : LateWrite(s),
         NEW n, HasRow(table, n)
  PROVE  HasRow(table', n)
<1>1. table' = table \/ \E s : table' = Written(table, s)
  BY CommandStepTable, LateWriteTable DEF CommandWrites
<1>2. QED
  BY <1>1, WrittenKeeps DEF Inv, TypeOK

LEMMA LookupStepFound ==
  ASSUME "cut" \notin Broken, Inv, \A g \in Lookups : FoundInv(g),
         NEW g \in Lookups, LookupStep(g)
  PROVE  \A h \in Lookups : FoundInv(h)'
<1> USE DEF Inv, TypeOK, At, Goto, tableVars
<1>1. ASSUME NEW h \in Lookups, h # g
      PROVE  FoundInv(h)'
  <2>1. /\ UNCHANGED <<table, up>>
        /\ pc'[h] = pc[h] /\ nbr'[h] = nbr[h] /\ unread'[h] = unread[h]
        /\ found'[h] = found[h] /\ known'[h] = known[h]
    BY <1>1
    DEF LookupStep, Begin, ReadMap, Query, QueryFails, FillRow, FillEnds,
        Reread
  <2>2. number2nbr'[nbr[h]] = number2nbr[nbr[h]]
        \/ number2nbr'[nbr[h]] # Unbound
    <3>1. CASE number2nbr' = number2nbr
      BY <3>1
    <3>2. CASE FillRow(g)
      <4>1. PICK r \in unread[g] :
              number2nbr' = [number2nbr EXCEPT ![r.nbr] = r.number]
        BY <3>2 DEF FillRow
      <4>2. r.number # Unbound
        BY <4>1, BindingAssumption DEF Row
      <4>3. QED
        BY <4>1, <4>2
    <3>3. QED
      BY <3>1, <3>2
      DEF LookupStep, Begin, ReadMap, Query, QueryFails, FillEnds, Reread
  <2>3. QED
    BY <1>1, <2>1, <2>2 DEF FoundInv, HasRow
<1>2. FoundInv(g)'
  <2>1. CASE \E n \in Nbrs : Begin(g, n)
    <3>1. PICK n \in Nbrs : Begin(g, n)
      BY <2>1
    <3>2. /\ pc'[g] = "read" /\ nbr'[g] = n
          /\ up /\ UNCHANGED <<up, table>>
      BY <3>1 DEF Begin
    <3>3. known'[g] = TRUE => HasRow(table, n)
      <4>1. known'[g] = (RowsOf(table, n) # {})
        BY <3>1, Zenon DEF Begin
      <4>2. RowsOf(table, n) # {} => HasRow(table, n)
        BY DEF RowsOf, HasRow
      <4>3. QED
        BY <4>1, <4>2
    <3>4. QED
      BY <3>2, <3>3 DEF FoundInv
  <2>2. CASE ReadMap(g)
    BY <2>2 DEF ReadMap, FoundInv, HasRow
  <2>3. CASE Query(g)
    BY <2>3 DEF Query, FoundInv, HasRow
  <2>4. CASE QueryFails(g)
    BY <2>4 DEF QueryFails, FoundInv
  <2>5. CASE FillRow(g)
    <3>1. PICK r \in unread[g] :
            /\ number2nbr' = [number2nbr EXCEPT ![r.nbr] = r.number]
            /\ unread' = [unread EXCEPT ![g] = @ \ {r}]
      BY <2>5 DEF FillRow
    <3>2. r.number # Unbound /\ r.nbr \in Nbrs
      BY <3>1, BindingAssumption DEF Row
    <3>3. HasRow(unread[g], nbr[g]) =>
            HasRow(unread'[g], nbr[g]) \/ number2nbr'[nbr[g]] # Unbound
      BY <3>1, <3>2 DEF HasRow
    <3>4. number2nbr[nbr[g]] # Unbound => number2nbr'[nbr[g]] # Unbound
      BY <3>1, <3>2
    <3>5. QED
      BY <2>5, <3>3, <3>4 DEF FillRow, FoundInv
  <2>6. CASE FillEnds(g)
    BY <2>6 DEF FillEnds, FoundInv, HasRow
  <2>7. CASE Reread(g)
    BY <2>7 DEF Reread, FoundInv
  <2>8. QED
    BY <2>1, <2>2, <2>3, <2>4, <2>5, <2>6, <2>7 DEF LookupStep
<1>3. QED
  BY <1>1, <1>2

LEMMA NextFound ==
  ASSUME "cut" \notin Broken, Inv, \A g \in Lookups : FoundInv(g),
         [Next]_vars
  PROVE  \A g \in Lookups : FoundInv(g)'
<1>1. CASE Start
  BY <1>1 DEF Start, FoundInv
<1>2. CASE Crash
  BY <1>2 DEF Crash, FoundInv
<1>3. CASE \E g \in Lookups : LookupStep(g)
  BY <1>3, LookupStepFound
<1>4. CASE \/ \E c \in Commands : CommandStep(c)
           \/ \E s \in late : LateWrite(s)
  <2>1. UNCHANGED serverVars
    BY <1>4, CommandStepTable DEF LateWrite
  <2>2. \A n : HasRow(table, n) => HasRow(table', n)
    BY <1>4, RowsStay
  <2>3. QED
    BY <2>1, <2>2 DEF FoundInv, HasRow, serverVars
<1>5. CASE UNCHANGED vars
  BY <1>5 DEF FoundInv, HasRow, vars, tableVars, serverVars
<1>6. QED
  BY <1>1, <1>2, <1>3, <1>4, <1>5 DEF Next, Kill, MapThrow

\* changeBindNumber finds a number that was in the table when the call came,
\* whatever other goroutines do to number2nbr meanwhile, unless its query
\* fails (and as long as no failure cuts the reading of rows short).
THEOREM BoundIsFound ==
  ASSUME "cut" \notin Broken
  PROVE  Spec => []FoundIfBound
<1>1. Init => \A g \in Lookups : FoundInv(g)
  BY DEF Init, FoundInv
<1>2. Inv /\ (\A g \in Lookups : FoundInv(g)) /\ [Next]_vars
        => (\A g \in Lookups : FoundInv(g))'
  BY NextFound
<1>3. (\A g \in Lookups : FoundInv(g)) => FoundIfBound
  BY DEF FoundInv, FoundIfBound
<1>4. QED
  BY <1>1, <1>2, <1>3, InvAlways, PTL DEF Spec
------------------------------------------------------------------------------
(* A number that a command inserts where none was found has no row, and    *)
(* one that it updates has one.                                            *)

\* Of a number that was not doubled there is one row, or one command that is
\* about to insert it; what MySQL may still do is no insert of it.
Lone(n) ==
  /\ \A r, s \in RowsOf(table, n) : r = s
  /\ \A c, d \in Commands : Inserts(c, n) /\ Inserts(d, n) => c = d
  /\ \A c \in Commands : Inserts(c, n) => ~HasRow(table, n)
  /\ \A s \in late : s.mode = "live" /\ s.insert => s.row.nbr # n

RowInv ==
  /\ \A n \in Nbrs \ doubled : Lone(n)
  /\ \A c \in Commands :
       cpc[c] = "write" =>
         insertFlag[c] = TRUE \/ HasRow(table, BindingOf(c).nbr)

\* An UPDATE leaves the number of rows alone, and so does an INSERT of
\* another number.
LEMMA WrittenLone ==
  ASSUME NEW t \in SUBSET Row, NEW s \in Statement, NEW n,
         \A q, r \in RowsOf(t, n) : q = r,
         s.insert => s.row.nbr # n
  PROVE  /\ \A q, r \in RowsOf(Written(t, s), n) : q = r
         /\ HasRow(Written(t, s), n) => HasRow(t, n)
<1>1. CASE s.insert = TRUE
  BY <1>1 DEF Written, RowsOf, HasRow
<1>2. CASE s.insert = FALSE
  <2> DEFINE U(r) == IF r.nbr = s.row.nbr
                       THEN [r EXCEPT !.number = s.row.number] ELSE r
  <2>1. Written(t, s) = {U(r) : r \in t}
    BY <1>2 DEF Written, Updated
  <2>2. \A r \in t : U(r).nbr = r.nbr
    BY DEF Row
  <2> HIDE DEF U
  <2>3. \A v \in RowsOf(Written(t, s), n) :
          \E r \in RowsOf(t, n) : v = U(r)
    BY <2>1, <2>2 DEF RowsOf
  <2>4. QED
    BY <2>1, <2>2, <2>3 DEF HasRow
<1>3. QED
  BY <1>1, <1>2 DEF Statement

\* A step that lets no command insert n keeps n lone, unless it writes.
LEMMA StaysLone ==
  ASSUME NEW n, Lone(n), \A c \in Commands : Inserts(c, n)' => Inserts(c, n),
         table' = table, late' = late
  PROVE  Lone(n)'
BY DEF Lone, RowsOf, HasRow

\* Which commands are about to insert after a step.
LEMMA InsertsAfter ==
  ASSUME Inv, NEW c \in Commands, CommandStep(c), NEW d \in Commands, NEW n,
         Inserts(d, n)'
  PROVE  Inserts(d, n) \/ (d = c /\ Select(c))
<1>1. CASE d # c
  <2>1. Inserts(d, n)' = Inserts(d, n)
    BY <1>1, OtherCommands DEF Inserts, BindingOf
  <2>2. QED
    BY <2>1
<1>2. CASE d = c /\ AnswerLost(c)
  BY <1>2 DEF AnswerLost, Inserts, BindingOf
<1>3. CASE d = c /\ ~AnswerLost(c) /\ ~Select(c)
  <2>1. cpc'[c] # "write"
    BY <1>3
    DEF CommandStep, Run, Interrupt, ReadLine, Write, WriteFails, Dial,
        HGet, HGetFails, HSet, HSetFails, CommandTo, NextLine, Inv, TypeOK
  <2>2. QED
    BY <1>3, <2>1 DEF Inserts
<1>4. QED
  BY <1>1, <1>2, <1>3

LEMMA SelectLone ==
  ASSUME Inv, RowInv, NEW c \in Commands, Select(c)
  PROVE  /\ doubled \subseteq doubled'
         /\ \A n \in Nbrs \ doubled' : Lone(n)'
         /\ insertFlag'[c] = TRUE \/ HasRow(table, BindingOf(c).nbr)
<1> DEFINE m == BindingOf(c).nbr
           isBound == RowsOf(table, m) # {}
           other == \E d \in Commands \ {c} : Inserts(d, m)
<1>1. PICK ok \in BOOLEAN :
        insertFlag' = [insertFlag EXCEPT ![c] = ~ok \/ ~isBound]
  BY DEF Select
<1>2. insertFlag'[c] = (~ok \/ ~isBound)
  BY <1>1, Zenon DEF Inv, TypeOK
<1>3. isBound <=> HasRow(table, m)
  BY DEF RowsOf, HasRow
<1>4. /\ doubled' = IF mode[c] = "live" /\ insertFlag'[c] /\ (isBound \/ other)
                      THEN doubled \cup {m} ELSE doubled
      /\ UNCHANGED <<table, late, file, mode, line>>
      /\ CommandStep(c)
  BY DEF Select, tableVars, CommandStep
<1>5. ASSUME NEW n \in Nbrs \ doubled'
      PROVE  Lone(n)'
  <2>1. Lone(n)
    BY <1>4 DEF RowInv
  <2>2. CASE Inserts(c, n)' /\ ~Inserts(c, n)
    <3>1. n = m /\ mode[c] = "live" /\ insertFlag'[c]
      BY <1>4, <2>2 DEF Inserts, BindingOf
    <3>2. ~isBound /\ ~other
      BY <1>4, <3>1
    <3>3. \A d \in Commands : Inserts(d, n)' => d = c
      BY <1>4, <3>1, <3>2, InsertsAfter
    <3> HIDE DEF m, isBound, other
    <3>4. ~HasRow(table, n)
      BY <1>3, <3>1, <3>2
    <3>5. QED
      BY <1>4, <2>1, <3>3, <3>4 DEF Lone, RowsOf, HasRow
  <2>3. CASE Inserts(c, n)' => Inserts(c, n)
    <3>1. \A d \in Commands : Inserts(d, n)' => Inserts(d, n)
      BY <1>4, <2>3, InsertsAfter
    <3>2. QED
      BY <1>4, <2>1, <3>1, StaysLone
  <2>4. QED
    BY <2>2, <2>3
<1> HIDE DEF m, isBound, other
<1>6. QED
  BY <1>2, <1>3, <1>4, <1>5 DEF m

LEMMA WriteLone ==
  ASSUME Inv, RowInv, NEW c \in Commands, CommandWrites(c), Write(c),
         NEW n \in Nbrs \ doubled, CommandStep(c)
  PROVE  Lone(n)'
<1>1. /\ cpc[c] = "write" /\ table' = Written(table, StatementOf(c))
      /\ table \in SUBSET Row /\ late' = late
  BY DEF CommandWrites, Inv, TypeOK, Write
<1>2. StatementOf(c) \in Statement
  BY <1>1, StatementTyped DEF Inv
<1>3. Lone(n)
  BY DEF RowInv
<1>4. \A d \in Commands : Inserts(d, n)' => Inserts(d, n) /\ d # c
  <2>1. ~Select(c)
    BY <1>1 DEF Select
  <2>2. ~Inserts(c, n)'
    BY DEF Write, NextLine, CommandTo, Inserts, Inv, TypeOK
  <2>3. QED
    BY <2>1, <2>2, InsertsAfter
<1> DEFINE s == StatementOf(c)
<1>5. s.insert = insertFlag[c] /\ s.row.nbr = BindingOf(c).nbr
  BY DEF StatementOf
<1>6. CASE s.insert /\ s.row.nbr = n
  <2>1. Inserts(c, n)
    BY <1>5, <1>6 DEF CommandWrites, Inserts
  <2>2. /\ ~HasRow(table, n)
        /\ \A d \in Commands : ~Inserts(d, n)'
    BY <1>3, <1>4, <2>1 DEF Lone
  <2>3. \A q, r \in RowsOf(table', n) : q = r
    BY <1>1, <1>6, <2>2 DEF Written, RowsOf, HasRow
  <2>4. QED
    BY <1>1, <1>3, <2>2, <2>3 DEF Lone
<1>7. CASE ~(s.insert /\ s.row.nbr = n)
  <2> HIDE DEF s
  <2>1. /\ \A q, r \in RowsOf(table', n) : q = r
        /\ HasRow(table', n) => HasRow(table, n)
    <3>1. \A q, r \in RowsOf(table, n) : q = r
      BY <1>3 DEF Lone
    <3>2. QED
      BY <1>1, <1>2, <1>7, <3>1, WrittenLone DEF s
  <2>2. QED
    BY <1>1, <1>3, <1>4, <2>1 DEF Lone
<1>8. QED
  BY <1>6, <1>7

LEMMA CommandStepRows ==
  ASSUME Inv, RowInv, NEW c \in Commands, CommandStep(c)
  PROVE  RowInv'
<1>1. \A n \in Nbrs \ doubled' : Lone(n)'
  <2>1. CASE Select(c)
    BY <2>1, SelectLone
  <2>2. CASE AnswerLost(c)
    <3> SUFFICES ASSUME NEW n \in Nbrs \ doubled'
                 PROVE  Lone(n)'
      OBVIOUS
    <3>1. /\ table' = table /\ late' = late \cup {StatementOf(c)}
          /\ doubled' = IF mode[c] = "live" /\ insertFlag[c]
                          THEN doubled \cup {BindingOf(c).nbr} ELSE doubled
          /\ cpc[c] = "write"
      BY <2>2 DEF AnswerLost
    <3>2. Lone(n)
      BY <3>1 DEF RowInv
    <3>3. \A d \in Commands : Inserts(d, n)' => Inserts(d, n)
      BY <3>1, InsertsAfter DEF Select
    <3>4. StatementOf(c).mode = "live" /\ StatementOf(c).insert
            => StatementOf(c).row.nbr # n
      BY <3>1 DEF StatementOf
    <3>5. QED
      BY <3>1, <3>2, <3>3, <3>4 DEF Lone, RowsOf, HasRow
  <2>3. CASE Write(c)
    <3>1. doubled' = doubled /\ late' = late /\ ~Select(c)
      BY <2>3 DEF Write, Select
    <3>2. CASE table' = table
      BY <3>1, <3>2, InsertsAfter, StaysLone DEF RowInv
    <3>3. CASE CommandWrites(c)
      BY <2>3, <3>1, <3>3, WriteLone
    <3>4. QED
      BY <3>2, <3>3, CommandStepTable
  <2>4. CASE ~Select(c) /\ ~AnswerLost(c) /\ ~Write(c)
    <3>1. doubled' = doubled /\ table' = table /\ late' = late
      BY <2>4
      DEF CommandStep, Run, Interrupt, ReadLine, WriteFails, Dial, HGet,
          HGetFails, HSet, HSetFails, tableVars, historyVars
    <3>2. QED
      BY <2>4, <3>1, InsertsAfter, StaysLone DEF RowInv
  <2>5. QED
    BY <2>1, <2>2, <2>3, <2>4
<1>2. ASSUME NEW d \in Commands, cpc'[d] = "write"
      PROVE  insertFlag'[d] = TRUE \/ HasRow(table', (BindingOf(d))'.nbr)
  <2>1. CASE d # c
    <3>1. insertFlag[d] = TRUE \/ HasRow(table, BindingOf(d).nbr)
      BY <1>2, <2>1, OtherCommands DEF RowInv
    <3>2. (BindingOf(d))' = BindingOf(d)
      BY <2>1, OtherCommands DEF BindingOf
    <3>3. QED
      BY <2>1, <3>1, <3>2, OtherCommands, RowsStay
  <2>2. CASE d = c
    <3>1. Select(c) \/ AnswerLost(c)
      BY <1>2, <2>2
      DEF CommandStep, Run, Interrupt, ReadLine, Write, WriteFails, Dial,
          HGet, HGetFails, HSet, HSetFails, CommandTo, NextLine, Inv, TypeOK
    <3>2. /\ table' = table /\ (BindingOf(c))' = BindingOf(c)
      BY <3>1 DEF Select, AnswerLost, BindingOf, tableVars
    <3>3. CASE Select(c)
      BY <2>2, <3>2, <3>3, SelectLone
    <3>4. CASE AnswerLost(c)
      BY <2>2, <3>2, <3>4 DEF AnswerLost, RowInv
    <3>5. QED
      BY <3>1, <3>3, <3>4
  <2>3. QED
    BY <2>1, <2>2
<1>3. QED
  BY <1>1, <1>2 DEF RowInv

LEMMA LateWriteRows ==
  ASSUME Inv, RowInv, NEW s \in late, LateWrite(s)
  PROVE  RowInv'
<1>1. UNCHANGED <<commandVars, historyVars>> /\ late' \subseteq late
  BY DEF LateWrite
<1>2. /\ \A c \in Commands : (BindingOf(c))' = BindingOf(c)
      /\ \A c \in Commands : \A n : Inserts(c, n)' = Inserts(c, n)
  BY <1>1 DEF BindingOf, Inserts, commandVars
<1>3. ASSUME NEW n \in Nbrs \ doubled
      PROVE  Lone(n)'
  <2>1. Lone(n)
    BY DEF RowInv
  <2>2. /\ \A q, r \in RowsOf(table', n) : q = r
        /\ HasRow(table', n) => HasRow(table, n)
    <3>1. CASE table' = table
      BY <2>1, <3>1 DEF Lone
    <3>2. CASE s.mode = "live" /\ table' = Written(table, s)
      BY <2>1, <3>2, LateWriteTable, WrittenLone DEF Lone, Inv, TypeOK
    <3>3. QED
      BY <3>1, <3>2, LateWriteTable
  <2>3. QED
    BY <1>1, <1>2, <2>1, <2>2 DEF Lone
<1>4. \A n : HasRow(table, n) => HasRow(table', n)
  BY RowsStay
<1>5. QED
  BY <1>1, <1>2, <1>3, <1>4 DEF RowInv, commandVars, historyVars

LEMMA InitRows == Init => RowInv
<1> SUFFICES ASSUME Init PROVE RowInv
  OBVIOUS
<1>1. \A r, s \in table : r.nbr = s.nbr => r = s
  BY BindingAssumption DEF Init
<1>2. late = {} /\ \A c \in Commands : cpc[c] = "new"
  BY DEF Init
<1>3. QED
  BY <1>1, <1>2 DEF RowInv, Lone, RowsOf, Inserts

LEMMA NextRows == Inv /\ RowInv /\ [Next]_vars => RowInv'
<1> SUFFICES ASSUME Inv, RowInv, [Next]_vars PROVE RowInv'
  OBVIOUS
<1>1. CASE UNCHANGED <<tableVars, commandVars, historyVars>>
  BY <1>1
  DEF RowInv, Lone, RowsOf, HasRow, Inserts, BindingOf, tableVars,
      commandVars, historyVars
<1>2. CASE \E c \in Commands : CommandStep(c)
  BY <1>2, CommandStepRows
<1>3. CASE \E s \in late : LateWrite(s)
  BY <1>3, LateWriteRows
<1>4. QED
  BY <1>1, <1>2, <1>3, ServerLeaves DEF Next, ServerStep, vars

LEMMA RowsAlways == Spec => []RowInv
BY InitRows, NextRows, InvAlways, PTL DEF Spec

\* The table has one row for an access number, however many commands write,
\* wherever they are interrupted and whatever fails, but for the numbers that
\* BindNewNumber inserted beside a row, or beside another insert that may be
\* done.
THEOREM OneRowKept == Spec => []OneRowPerNumber
<1>1. Inv /\ RowInv => OneRowPerNumber
  BY DEF Inv, TypeOK, Row, RowInv, Lone, RowsOf, OneRowPerNumber
<1>2. QED
  BY <1>1, RowsAlways, InvAlways, PTL

------------------------------------------------------------------------------
(* What an answered statement leaves in the table.                         *)

NumbersFor(t, n) == {r.number : r \in RowsOf(t, n)}

WroteIt(c) ==
  Write(c) /\ mode[c] = "live" =>
    LET b     == BindingOf(c)
        bound == NumbersFor(table', b.nbr)
    IN  /\ b.number \in bound
        /\ \/ insertFlag[c] /\ b.nbr \in doubled
           \/ bound = {b.number}

LEMMA WriteSays ==
  ASSUME Inv, RowInv, NEW c \in Commands
  PROVE  WroteIt(c)
<1> SUFFICES ASSUME Write(c), mode[c] = "live"
             PROVE  LET b     == BindingOf(c)
                        bound == NumbersFor(table', b.nbr)
                    IN  /\ b.number \in bound
                        /\ \/ insertFlag[c] /\ b.nbr \in doubled
                           \/ bound = {b.number}
  BY DEF WroteIt
<1> DEFINE b == BindingOf(c)
           s == StatementOf(c)
<1>1. /\ cpc[c] = "write" /\ table' = Written(table, s)
      /\ table \in SUBSET Row
  BY DEF Write, Done, StatementOf, Inv, TypeOK
<1>2. /\ b \in Binding /\ b.nbr \in Nbrs
      /\ s.insert = insertFlag[c]
      /\ s.row.nbr = b.nbr /\ s.row.number = b.number
      /\ insertFlag[c] \in BOOLEAN
  BY <1>1, StatementTyped DEF Inv, TypeOK, Binding, StatementOf
<1> HIDE DEF b, s
<1>3. CASE insertFlag[c] = TRUE
  <2>1. table' = table \cup {s.row}
    BY <1>1, <1>2, <1>3 DEF Written
  <2>2. s.row \in RowsOf(table', b.nbr)
    BY <1>2, <2>1 DEF RowsOf
  <2>3. b.number \in NumbersFor(table', b.nbr)
    BY <1>2, <2>2 DEF NumbersFor
  <2>4. b.nbr \notin doubled => NumbersFor(table', b.nbr) = {b.number}
    <3> SUFFICES ASSUME b.nbr \notin doubled
                 PROVE  NumbersFor(table', b.nbr) = {b.number}
      OBVIOUS
    <3>1. Inserts(c, b.nbr)
      BY <1>1, <1>3 DEF Inserts, b
    <3>2. ~HasRow(table, b.nbr)
      BY <1>2, <3>1 DEF RowInv, Lone
    <3>3. RowsOf(table', b.nbr) = {s.row}
      BY <2>1, <2>2, <3>2 DEF RowsOf, HasRow
    <3>4. QED
      BY <1>2, <3>3 DEF NumbersFor
  <2>5. QED
    BY <1>3, <2>3, <2>4 DEF b
<1>4. CASE insertFlag[c] = FALSE
  <2> DEFINE U(r) == IF r.nbr = b.nbr THEN [r EXCEPT !.number = b.number]
                                      ELSE r
  <2>1. table' = {U(r) : r \in table}
    BY <1>1, <1>2, <1>4 DEF Written, Updated
  <2>2. \A r \in table : /\ U(r).nbr = r.nbr
                         /\ r.nbr = b.nbr => U(r).number = b.number
    BY <1>1 DEF Row
  <2>3. PICK q \in table : q.nbr = b.nbr
    BY <1>1, <1>4 DEF RowInv, HasRow, b
  <2> HIDE DEF U
  <2>4. \A r \in RowsOf(table', b.nbr) : r.number = b.number
    BY <2>1, <2>2 DEF RowsOf
  <2>5. U(q) \in RowsOf(table', b.nbr)
    BY <2>1, <2>2, <2>3 DEF RowsOf
  <2>6. NumbersFor(table', b.nbr) = {b.number}
    BY <2>4, <2>5 DEF NumbersFor
  <2>7. QED
    BY <2>6 DEF b
<1>5. QED
  BY <1>2, <1>3, <1>4

\* When MySQL answers that the statement of a line is done, the table has the
\* binding of that line, and no other binding of its number unless it was
\* inserted beside one: the rows commands leave do not depend on what else
\* commands, late statements and failures did to the number before.
THEOREM BoundStaysWritten == Spec => BoundAsWritten
<1>1. Inv /\ RowInv => \A c \in Commands : WroteIt(c)
  BY WriteSays
<1>2. Inv /\ RowInv =>
        [\A c \in Commands :
           Write(c) /\ mode[c] = "live" =>
             LET b     == BindingOf(c)
                 bound == {r.number : r \in RowsOf(table', b.nbr)}
             IN  /\ b.number \in bound
                 /\ \/ insertFlag[c] /\ b.nbr \in doubled
                    \/ bound = {b.number}]_vars
  BY <1>1 DEF WroteIt, NumbersFor
<1>3. QED
  BY <1>2, RowsAlways, InvAlways, PTL DEF Spec, BoundAsWritten

------------------------------------------------------------------------------
(* The platform knows only access numbers that have a row, or that a       *)
(* command went on from.                                                   *)

Served(n) == n \in dropped \/ HasRow(table, n)

AllServed(s) == \A i \in 1 .. Len(s) : Served(s[i])

\* The numbers a command got from Redis, and those of the lines behind it.
CommandServed(c) ==
  /\ AllServed(appInfo[c].nbrs)
  /\ \A i \in 1 .. Len(file[c]) : i < line[c] => Served(file[c][i].nbr)

RoutedInv ==
  /\ AllServed(entry.nbrs)
  /\ \A c \in Commands : CommandServed(c)

LEMMA ServedConcat ==
  ASSUME NEW s \in Seq(Nbrs), NEW t \in Seq(Nbrs), AllServed(s), AllServed(t)
  PROVE  AllServed(s \o t)
<1> SUFFICES ASSUME NEW i \in 1 .. Len(s \o t)
             PROVE  Served((s \o t)[i])
  BY DEF AllServed
<1>1. Len(s) \in Nat /\ Len(t) \in Nat /\ Len(s \o t) = Len(s) + Len(t)
  BY ConcatProperties
<1>2. CASE i <= Len(s)
  BY <1>1, <1>2 DEF AllServed
<1>3. CASE i > Len(s)
  <2>1. (s \o t)[i] = t[i - Len(s)] /\ i - Len(s) \in 1 .. Len(t)
    BY <1>1, <1>3
  <2>2. QED
    BY <2>1 DEF AllServed
<1>4. QED
  BY <1>1, <1>2, <1>3

\* The number of the line that was just done has a row, or was dropped.
LEMMA LineServed ==
  ASSUME Inv, RowInv, NEW c \in Commands, Write(c) \/ WriteFails(c),
         NEW n, n = BindingOf(c).nbr
  PROVE  Served(n)'
<1>0. (BindingOf(c).nbr \in dropped' \/ HasRow(table', BindingOf(c).nbr))
        => Served(n)'
  BY DEF Served
<1>1. CASE WriteFails(c)
  BY <1>0, <1>1 DEF WriteFails
<1>2. CASE Write(c) /\ mode[c] = "debug"
  BY <1>0, <1>2 DEF Write
<1>3. CASE Write(c) /\ mode[c] = "live"
  <2>1. BindingOf(c).number \in NumbersFor(table', BindingOf(c).nbr)
    BY <1>3, WriteSays DEF WroteIt
  <2>2. HasRow(table', BindingOf(c).nbr)
    BY <2>1 DEF NumbersFor, RowsOf, HasRow
  <2>3. QED
    BY <1>0, <2>2
<1>4. QED
  BY <1>1, <1>2, <1>3 DEF Inv, TypeOK, Mode

\* A command's file is all bindings when it comes to Redis.
LEMMA LinesDone ==
  ASSUME Inv, NEW c \in Commands, cpc[c] = "hset"
  PROVE  /\ file[c] \in Seq(Binding \cup {BadLine})
         /\ \A i \in 1 .. Len(file[c]) :
              i < line[c] /\ file[c][i] \in Binding
<1>1. file[c] \in Seq(Binding \cup {BadLine})
  BY FilesAreSeqs DEF Inv, TypeOK
<1>2. line[c] > Len(file[c]) /\ line[c] \in Nat /\ Len(file[c]) \in Nat
  BY <1>1 DEF Inv, LinesRead, TypeOK
<1>3. \A i \in 1 .. Len(file[c]) : i < line[c]
  BY <1>2
<1>4. QED
  BY <1>1, <1>3 DEF Inv, LinesRead

LEMMA CommandStepRouted ==
  ASSUME Inv, RowInv, RoutedInv, NEW c \in Commands, CommandStep(c)
  PROVE  RoutedInv'
<1> USE DEF CommandTo
<1>1. \A n : Served(n) => Served(n)'
  <2>1. dropped \subseteq dropped'
    BY DEF CommandStep, Run, Interrupt, ReadLine, Select, AnswerLost, Write,
           WriteFails, Dial, HGet, HGetFails, HSet, HSetFails, historyVars
  <2>2. QED
    BY <2>1, RowsStay DEF Served
<1>2. entry \in AppInfo /\ \A d \in Commands : appInfo[d] \in AppInfo
  BY DEF Inv, TypeOK
<1>3. AllServed(entry.nbrs)'
  <2>1. CASE entry' = entry
    BY <1>1, <2>1 DEF AllServed, RoutedInv
  <2>2. CASE HSet(c)
    <3>1. /\ file[c] \in Seq(Binding \cup {BadLine})
          /\ \A i \in 1 .. Len(file[c]) :
               file[c][i] \in Binding /\ Served(file[c][i].nbr)
      BY <2>2, LinesDone DEF HSet, RoutedInv, CommandServed
    <3>2. NbrsOf(file[c]) \in Seq(Nbrs) /\ AllServed(NbrsOf(file[c]))
      BY <3>1, NbrsOfTyped DEF AllServed
    <3>3. appInfo[c].nbrs \in Seq(Nbrs) /\ AllServed(appInfo[c].nbrs)
      BY <1>2 DEF AppInfo, RoutedInv, CommandServed
    <3>4. AllServed(appInfo[c].nbrs \o NbrsOf(file[c]))
      BY <3>2, <3>3, ServedConcat
    <3>5. /\ entry'.nbrs = appInfo[c].nbrs \o NbrsOf(file[c])
          /\ table' = table /\ dropped' = dropped
      BY <2>2 DEF HSet, tableVars
    <3>6. QED
      BY <1>1, <3>4, <3>5 DEF AllServed
  <2>3. QED
    BY <2>1, <2>2
    DEF CommandStep, Run, Interrupt, ReadLine, Select, AnswerLost, Write,
        WriteFails, Dial, HGet, HGetFails, HSetFails
<1>4. ASSUME NEW d \in Commands, d # c
      PROVE  CommandServed(d)'
  <2>1. CommandServed(d)
    BY DEF RoutedInv
  <2>2. QED
    BY <1>1, <1>4, <2>1, OtherCommands DEF CommandServed, AllServed
<1>5. CommandServed(c)'
  <2>1. CommandServed(c)
    BY DEF RoutedInv
  <2>2. AllServed(appInfo[c].nbrs)'
    <3>1. CASE appInfo' = appInfo
      BY <1>1, <2>1, <3>1 DEF AllServed, CommandServed
    <3>2. CASE HGet(c) /\ appInfo' = [appInfo EXCEPT ![c] = entry]
      BY <1>1, <3>2 DEF AllServed, RoutedInv, Inv, TypeOK
    <3>3. CASE HGetFails(c)
      <4>1. appInfo'[c].nbrs = << >>
        BY <3>3 DEF HGetFails, NoInfo, Inv, TypeOK
      <4>2. QED
        BY <4>1, EmptySeq DEF AllServed
    <3>4. QED
      BY <3>1, <3>2, <3>3
      DEF CommandStep, Run, Interrupt, ReadLine, Select, AnswerLost, Write,
          WriteFails, Dial, HGet, HSet, HSetFails
  <2>3. ASSUME NEW i \in 1 .. Len(file'[c]), i < line'[c]
        PROVE  Served(file[c][i].nbr)'
    <3>1. CASE Run(c)
      <4>1. line'[c] = 1
        BY <3>1 DEF Run, Inv, LinesRead
      <4>2. QED
        BY <2>3, <4>1
    <3>2. CASE Write(c) \/ WriteFails(c)
      <4>1. file' = file /\ line'[c] = line[c] + 1 /\ line[c] \in Nat
        BY <3>2 DEF Write, WriteFails, NextLine, Inv, TypeOK
      <4>2. i < line[c] \/ i = line[c]
        BY <2>3, <4>1
      <4>3. CASE i < line[c]
        BY <1>1, <2>1, <2>3, <4>1, <4>3 DEF CommandServed
      <4>4. CASE i = line[c]
        <5>1. \A n : n = BindingOf(c).nbr => Served(n)'
          BY <3>2, LineServed
        <5>2. file'[c][i].nbr = BindingOf(c).nbr
          BY <4>1, <4>4 DEF BindingOf
        <5>3. QED
          BY <5>1, <5>2 DEF Served
      <4>5. QED
        BY <4>2, <4>3, <4>4
    <3>3. CASE UNCHANGED <<file, line>>
      BY <1>1, <2>1, <2>3, <3>3 DEF CommandServed
    <3>4. QED
      BY <3>1, <3>2, <3>3
      DEF CommandStep, Interrupt, ReadLine, Select, AnswerLost, Dial, HGet,
          HGetFails, HSet, HSetFails
  <2>4. QED
    BY <2>2, <2>3 DEF CommandServed
<1>6. QED
  BY <1>3, <1>4, <1>5 DEF RoutedInv

LEMMA InitRouted == Init => RoutedInv
<1> SUFFICES ASSUME Init PROVE RoutedInv
  OBVIOUS
<1>1. AllServed(<< >>)
  BY EmptySeq DEF AllServed
<1>2. AllServed(OldNbrs)
  <2>1. ASSUME NEW i \in 1 .. Len(OldNbrs)
        PROVE  HasRow(table, OldNbrs[i])
    <3>1. PICK b \in Old : b.nbr = OldNbrs[i]
      BY BindingAssumption
    <3>2. [nbr |-> b.nbr, number |-> b.number, by |-> NoCommand,
           line |-> 0, try |-> 0] \in table
      BY <3>1 DEF Init
    <3>3. QED
      BY <3>1, <3>2 DEF HasRow
  <2>2. QED
    BY <2>1 DEF AllServed, Served
<1>3. entry.nbrs = OldNbrs \/ entry.nbrs = << >>
  BY DEF Init, NoEntry
<1>4. \A c \in Commands : CommandServed(c)
  BY <1>1, EmptySeq DEF Init, CommandServed, NoInfo
<1>5. QED
  BY <1>1, <1>2, <1>3, <1>4 DEF RoutedInv

\* The platform sends no call for an access number that is not in the table,
\* whatever several commands do at once, wherever they are interrupted and
\* whatever fails; but for the numbers a command went on from though it could
\* not bind them, or bound them in the test table.
THEOREM RoutedStaysBound == Spec => []RoutedIsBound
<1>1. Inv /\ RowInv /\ RoutedInv /\ [Next]_vars => RoutedInv'
  <2> SUFFICES ASSUME Inv, RowInv, RoutedInv, [Next]_vars PROVE RoutedInv'
    OBVIOUS
  <2>1. CASE UNCHANGED <<tableVars, entry, commandVars, historyVars>>
    BY <2>1
    DEF RoutedInv, AllServed, CommandServed, Served, HasRow, tableVars,
        commandVars, historyVars
  <2>2. CASE \E c \in Commands : CommandStep(c)
    BY <2>2, CommandStepRouted
  <2>3. CASE \E s \in late : LateWrite(s)
    <3>1. UNCHANGED <<entry, commandVars, dropped>>
      BY <2>3 DEF LateWrite, historyVars
    <3>2. \A n : HasRow(table, n) => HasRow(table', n)
      BY <2>3, RowsStay
    <3>3. QED
      BY <3>1, <3>2
      DEF RoutedInv, AllServed, CommandServed, Served, commandVars
  <2>4. QED
    BY <2>1, <2>2, <2>3, ServerLeaves DEF Next, ServerStep, vars
<1>2. RoutedInv => RoutedIsBound
  BY DEF RoutedInv, RoutedIsBound, AllServed, Served, HasRow, RowsOf
<1>3. QED
  BY <1>1, <1>2, InitRouted, RowsAlways, InvAlways, PTL DEF Spec

------------------------------------------------------------------------------
(* Redis keeps its numbers.                                                *)

\* The entry a command has read is still the one in Redis when it writes
\* it back, unless the command was overtaken.
EntryInv ==
  \A c \in Commands \ overtaken : cpc[c] = "hset" => appInfo[c] = entry

LEMMA CommandStepEntry ==
  ASSUME Inv, EntryInv, NEW c \in Commands, CommandStep(c)
  PROVE  EntryInv'
<1> USE DEF CommandTo, NextLine
<1>0. overtaken \subseteq overtaken'
  BY DEF CommandStep, Run, Interrupt, ReadLine, Select, AnswerLost, Write,
         WriteFails, Dial, HGet, HGetFails, HSet, HSetFails, historyVars
<1> SUFFICES ASSUME NEW d \in Commands \ overtaken', cpc'[d] = "hset"
             PROVE  appInfo'[d] = entry'
  BY DEF EntryInv
<1>1. CASE d # c
  <2>1. cpc[d] = "hset" /\ appInfo'[d] = appInfo[d] /\ appInfo[d] = entry
    BY <1>0, <1>1, OtherCommands DEF EntryInv
  <2>2. ~HSet(c)
    BY <1>1, <2>1 DEF HSet
  <2>3. entry' = entry
    BY <2>2
    DEF CommandStep, Run, Interrupt, ReadLine, Select, AnswerLost, Write,
        WriteFails, Dial, HGet, HGetFails, HSetFails
  <2>4. QED
    BY <2>1, <2>3
<1>2. CASE d = c
  <2>1. HGet(c)
    BY <1>2
    DEF CommandStep, Run, Interrupt, ReadLine, Select, AnswerLost, Write,
        WriteFails, Dial, HGetFails, HSet, HSetFails, Inv, TypeOK
  <2>2. QED
    BY <1>2, <2>1 DEF HGet, Inv, TypeOK
<1>3. QED
  BY <1>1, <1>2

Keeps ==
  /\ \A i \in 1 .. Len(entry.nbrs) :
       \E j \in 1 .. Len(entry'.nbrs) : entry'.nbrs[j] = entry.nbrs[i]
  /\ entry.rest # "blank" => entry'.rest # "blank"

LEMMA HSetKeeps ==
  ASSUME Inv, EntryInv, NEW c \in Commands \ overtaken, HSet(c)
  PROVE  Keeps
<1>1. appInfo[c] = entry /\ entry \in AppInfo
  BY DEF HSet, EntryInv, Inv, TypeOK
<1>2. /\ entry'.nbrs = entry.nbrs \o NbrsOf(file[c])
      /\ entry'.rest = IF entry.rest = "escaped" THEN "raw" ELSE entry.rest
  BY <1>1 DEF HSet
<1>3. entry.nbrs \in Seq(Nbrs) /\ NbrsOf(file[c]) \in Seq(Nbrs)
  BY <1>1, LinesDone, NbrsOfTyped DEF HSet, AppInfo
<1> DEFINE s == entry.nbrs
           u == NbrsOf(file[c])
<1> HIDE DEF u
<1>4. Len(s \o u) = Len(s) + Len(u)
  BY <1>3, ConcatProperties DEF u
<1>5. Len(s) \in Nat /\ Len(u) \in Nat /\ entry'.nbrs = s \o u
  BY <1>2, <1>3 DEF u
<1>6. \A i \in 1 .. Len(s) : i \in 1 .. Len(s \o u)
  BY <1>4, <1>5
<1>7. \A i \in 1 .. Len(s) : (s \o u)[i] = s[i]
  <2>1. \A i \in 1 .. Len(s) + Len(u) :
          (s \o u)[i] = IF i <= Len(s) THEN s[i] ELSE u[i - Len(s)]
    BY <1>3, ConcatProperties DEF u
  <2>2. \A i \in 1 .. Len(s) : i \in 1 .. Len(s) + Len(u) /\ i <= Len(s)
    BY <1>5
  <2>3. QED
    BY <2>1, <2>2
<1>8. ASSUME NEW i \in 1 .. Len(s)
      PROVE  \E j \in 1 .. Len(entry'.nbrs) : entry'.nbrs[j] = s[i]
  <2>1. i \in 1 .. Len(entry'.nbrs) /\ entry'.nbrs[i] = s[i]
    BY <1>5, <1>6, <1>7
  <2>2. QED
    BY <2>1
<1>9. entry.rest # "blank" => entry'.rest # "blank"
  BY <1>2
<1>10. QED
  BY <1>8, <1>9 DEF Keeps

\* No command drops a number from the entry, or blanks it, wherever it is
\* interrupted and whatever its writing does to the other fields; but one
\* whose HGET failed, or that another command overtook between its HGET and
\* its HSET.
THEOREM EntryKeeps == Spec => EntryKeepsNumbers
<1>1. Init => EntryInv
  BY DEF Init, EntryInv
<1>2. Inv /\ EntryInv /\ [Next]_vars => EntryInv'
  <2>1. Inv /\ EntryInv /\ UNCHANGED <<entry, commandVars, historyVars>>
          => EntryInv'
    BY DEF EntryInv, commandVars, historyVars
  <2>2. ServerStep \/ (\E s \in late : LateWrite(s)) \/ UNCHANGED vars
          => UNCHANGED <<entry, commandVars, historyVars>>
    BY ServerLeaves DEF LateWrite, vars
  <2>3. QED
    BY <2>1, <2>2, CommandStepEntry DEF Next, ServerStep
<1>3. Inv /\ EntryInv /\ [Next]_vars =>
        [(\E c \in overtaken : HSet(c)) \/ Keeps]_vars
  <2> SUFFICES ASSUME Inv, EntryInv, [Next]_vars
               PROVE  [(\E c \in overtaken : HSet(c)) \/ Keeps]_vars
    OBVIOUS
  <2>1. CASE entry' = entry
    BY <2>1 DEF Keeps
  <2>2. ASSUME NEW c \in Commands, CommandStep(c)
        PROVE  (\E d \in overtaken : HSet(d)) \/ Keeps
    <3>1. entry' = entry \/ HSet(c)
      BY <2>2
      DEF CommandStep, Run, Interrupt, ReadLine, Select, AnswerLost, Write,
          WriteFails, Dial, HGet, HGetFails, HSetFails
    <3>2. QED
      BY <2>1, <3>1, HSetKeeps DEF Keeps
  <2>3. ServerStep \/ (\E s \in late : LateWrite(s)) \/ UNCHANGED vars
          => entry' = entry
    BY ServerLeaves DEF LateWrite, vars
  <2>4. QED
    BY <2>1, <2>2, <2>3 DEF Next, ServerStep
<1>4. QED
  BY <1>1, <1>2, <1>3, InvAlways, PTL DEF Spec, EntryKeepsNumbers, Keeps
==============================================================================
