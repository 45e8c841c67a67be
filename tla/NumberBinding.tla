---------------------------- MODULE NumberBinding ----------------------------
(***************************************************************************)
(* Access numbers and the 400 numbers they are bound to.  Three places     *)
(* keep them: the table tb_ipcc_lianjia_number_appid, the map number2nbr   *)
(* of the server, filled from the table, and the Redis entry of the        *)
(* application, from which the platform knows which access numbers are     *)
(* the application's.                                                      *)
(*                                                                         *)
(* Two programs work on them at once: the server, whose inCallProc         *)
(* goroutines look numbers up (changeBindNumber), and the command          *)
(* "lianjiaPro -b", run by an operator, which binds the numbers listed in  *)
(* bind.txt in the table and then adds them to the Redis entry.            *)
(*                                                                         *)
(* bind.txt is the sequence of lines ReadString yields: a binding, or a    *)
(* line without a comma.  A command is run once; any number of commands    *)
(* may run at once.                                                        *)
(***************************************************************************)
EXTENDS Naturals, Sequences

CONSTANTS
  Nbrs, Numbers,         \* access numbers, 400 numbers
  Unbound,               \* what number2nbr yields for a missing key
  Old,                   \* the bindings in the table at first
  OldNbrs,               \* the access numbers in the Redis entry at first
  Commands, NoCommand,   \* the runs of "-b", and who made the first rows
  Files, BadLine,        \* the contents bind.txt may have
  MaxTries,              \* how often database/sql sends a statement: 3
  Lookups,               \* goroutines of inCallProc
  Modes,                 \* the option debug of app.conf, read by each command
  Broken                 \* the calls that may fail, see FaultKind

(* query : the server's query of the table.                                *)
(* cut   : the connection, while the rows of that query are read.          *)
(* select, write      : the two statements of BindNewNumber.               *)
(* lost  : the answer to the second of them, which may be done all the     *)
(*         same.                                                           *)
(* dial, hget, hset   : the connection to Redis and its two commands.      *)
FaultKind ==
  {"query", "cut", "select", "write", "lost", "dial", "hget", "hset"}

Binding == [nbr : Nbrs, number : Numbers]

\* A command in debug mode binds in the test table.
Mode == {"live", "debug"}

ASSUME BindingAssumption ==
  /\ Unbound \notin Numbers
  /\ NoCommand \notin Commands
  /\ BadLine \notin Binding
  /\ Old \subseteq Binding
  /\ \A a, b \in Old : a.nbr = b.nbr => a = b
  /\ OldNbrs \in Seq(Nbrs)
  /\ \A i \in 1 .. Len(OldNbrs) : \E b \in Old : b.nbr = OldNbrs[i]
  /\ Nbrs # {}
  /\ Files \subseteq Seq(Binding \cup {BadLine})
  /\ MaxTries \in Nat \ {0}
  /\ Modes \subseteq Mode
  /\ Broken \subseteq FaultKind

VARIABLES
  table,       \* the rows of the table, with the line and the try that
               \* made each
  testTable,   \* the rows of the test table
  late,        \* the statements without an answer MySQL may still do
  entry,       \* the Redis entry
  up,          \* the server is running
  number2nbr,
  pc,          \* pc[g]: where lookup g is
  nbr,         \* nbr[g]: the access number it looks up
  unread,      \* unread[g]: the rows of its query it has not read yet
  found,       \* found[g]: its bindNumber
  known,       \* known[g]: the number was in the table when it began
  cpc,         \* cpc[c]: where command c is
  file,        \* file[c]: its bind.txt
  mode,        \* mode[c]: the option debug when it started
  line,        \* line[c]: the line it is at
  insertFlag,
  lost,        \* lost[c]: how many tries of its statement had no answer
  appInfo,     \* appInfo[c]: the entry it got from Redis
  doubled,     \* history: the numbers that were inserted in spite of a row,
               \* or of another insert that may be done
  dropped,     \* history: those a command went on from without a binding
  overtaken    \* history: the commands that will write back an entry
               \* without what others wrote since

tableVars   == <<table, testTable, late>>
serverVars  == <<up, number2nbr, pc, nbr, unread, found, known>>
commandVars == <<cpc, file, mode, line, insertFlag, lost, appInfo>>
historyVars == <<doubled, dropped, overtaken>>
vars        == <<tableVars, entry, serverVars, commandVars, historyVars>>

Row == [nbr : Nbrs, number : Numbers,
        by : Commands \cup {NoCommand}, line : Nat, try : Nat]

\* An INSERT of a row, or an UPDATE of those of its number.
Statement == [mode : Mode, insert : BOOLEAN, row : Row]

\* The entry's other fields.  escaped: one of them, say the callback's URL,
\* holds an & or <, escaped; raw: it was written back unescaped, and does
\* not parse any more; blank: they are all empty; missing: there is no entry.
Rest    == {"plain", "escaped", "raw", "blank", "missing"}
AppInfo == [rest : Rest, nbrs : Seq(Nbrs)]
NoInfo  == [rest |-> "blank", nbrs |-> << >>]
NoEntry == [rest |-> "missing", nbrs |-> << >>]

LookupPc  == {"idle", "read", "query", "fill", "reread", "returned"}
CommandPc == {"new", "line", "select", "write", "dial", "hget", "hset",
              "ended", "panicked"}

RowsOf(t, n) == {r \in t : r.nbr = n}

TypeOK ==
  /\ table \subseteq Row
  /\ testTable \subseteq Row
  /\ late \subseteq Statement
  /\ entry \in AppInfo
  /\ up \in BOOLEAN
  /\ number2nbr \in [Nbrs -> Numbers \cup {Unbound}]
  /\ pc \in [Lookups -> LookupPc]
  /\ nbr \in [Lookups -> Nbrs]
  /\ unread \in [Lookups -> SUBSET Row]
  /\ found \in [Lookups -> Numbers \cup {Unbound}]
  /\ known \in [Lookups -> BOOLEAN]
  /\ cpc \in [Commands -> CommandPc]
  /\ file \in [Commands -> Files \cup {<< >>}]
  /\ mode \in [Commands -> Mode]
  /\ line \in [Commands -> Nat]
  /\ \A c \in Commands :
       cpc[c] \in {"select", "write"} =>
         line[c] \in 1 .. Len(file[c]) /\ file[c][line[c]] \in Binding
  /\ insertFlag \in [Commands -> BOOLEAN]
  /\ lost \in [Commands -> 0 .. MaxTries]
  /\ appInfo \in [Commands -> AppInfo]
  /\ doubled \subseteq Nbrs
  /\ dropped \subseteq Nbrs
  /\ overtaken \subseteq Commands

Init ==
  /\ table = {[nbr |-> b.nbr, number |-> b.number,
               by |-> NoCommand, line |-> 0, try |-> 0] : b \in Old}
  /\ testTable = {}
  /\ late = {}
  /\ entry \in [rest : {"plain", "escaped"}, nbrs : {OldNbrs}] \cup {NoEntry}
  /\ up = FALSE
  /\ number2nbr = [n \in Nbrs |-> Unbound]
  /\ pc = [g \in Lookups |-> "idle"]
  /\ nbr = [g \in Lookups |-> CHOOSE n \in Nbrs : TRUE]
  /\ unread = [g \in Lookups |-> {}]
  /\ found = [g \in Lookups |-> Unbound]
  /\ known = [g \in Lookups |-> FALSE]
  /\ cpc = [c \in Commands |-> "new"]
  /\ file = [c \in Commands |-> << >>]
  /\ mode = [c \in Commands |-> "live"]
  /\ line = [c \in Commands |-> 1]
  /\ insertFlag = [c \in Commands |-> FALSE]
  /\ lost = [c \in Commands |-> 0]
  /\ appInfo = [c \in Commands |-> NoInfo]
  /\ doubled = {}
  /\ dropped = {}
  /\ overtaken = {}

------------------------------------------------------------------------------
(* The server.                                                             *)

\* What a map filled from a set of rows may hold: of several rows for a
\* number the one that was read last.
Loaded(rows) ==
  {t \in [Nbrs -> Numbers \cup {Unbound}] :
     \A n \in Nbrs :
       IF RowsOf(rows, n) = {}
         THEN t[n] = Unbound
         ELSE \E r \in RowsOf(rows, n) : t[n] = r.number}

\* Start fills a new map before it serves.  When its query fails the program
\* ends: nothing happens.
Start ==
  /\ ~up
  /\ up' = TRUE
  /\ \E rows \in IF "cut" \in Broken THEN SUBSET table ELSE {table} :
       number2nbr' \in Loaded(rows)
  /\ UNCHANGED <<tableVars, entry, pc, nbr, unread, found, known,
                 commandVars, historyVars>>

Crash ==
  /\ up' = FALSE
  /\ number2nbr' = [n \in Nbrs |-> Unbound]
  /\ pc' = [g \in Lookups |-> "idle"]
  /\ unread' = [g \in Lookups |-> {}]
  /\ found' = [g \in Lookups |-> Unbound]
  /\ known' = [g \in Lookups |-> FALSE]
  /\ UNCHANGED <<tableVars, entry, nbr, commandVars, historyVars>>

Kill == up /\ Crash

\* A map without a lock: the runtime may end the process when one goroutine
\* stores while another uses it.
Stores(g)  == pc[g] = "fill" /\ unread[g] # {}
Touches(g) == pc[g] \in {"read", "reread"} \/ Stores(g)
MapThrow ==
  /\ \E g, h \in Lookups : g # h /\ Stores(g) /\ Touches(h)
  /\ Crash

At(g, p)   == up /\ pc[g] = p
Goto(g, p) == pc' = [pc EXCEPT ![g] = p]

Begin(g, n) ==
  /\ up
  /\ pc[g] \in {"idle", "returned"}
  /\ Goto(g, "read")
  /\ nbr' = [nbr EXCEPT ![g] = n]
  /\ found' = [found EXCEPT ![g] = Unbound]
  /\ known' = [known EXCEPT ![g] = RowsOf(table, n) # {}]
  /\ UNCHANGED <<tableVars, entry, up, number2nbr, unread, commandVars,
                 historyVars>>

ReadMap(g) ==
  /\ At(g, "read")
  /\ found' = [found EXCEPT ![g] = number2nbr[nbr[g]]]
  /\ Goto(g, IF number2nbr[nbr[g]] = Unbound THEN "query" ELSE "returned")
  /\ UNCHANGED <<tableVars, entry, up, number2nbr, nbr, unread, known,
                 commandVars, historyVars>>

Query(g) ==
  /\ At(g, "query")
  /\ unread' = [unread EXCEPT ![g] = table]
  /\ Goto(g, "fill")
  /\ UNCHANGED <<tableVars, entry, up, number2nbr, nbr, found, known,
                 commandVars, historyVars>>

\* changeBindNumber returns the error: the caller hears an announcement.
QueryFails(g) ==
  /\ At(g, "query")
  /\ "query" \in Broken
  /\ Goto(g, "idle")
  /\ UNCHANGED <<tableVars, entry, up, number2nbr, nbr, unread, found,
                 known, commandVars, historyVars>>

FillRow(g) ==
  /\ At(g, "fill")
  /\ \E r \in unread[g] :
       /\ number2nbr' = [number2nbr EXCEPT ![r.nbr] = r.number]
       /\ unread' = [unread EXCEPT ![g] = @ \ {r}]
  /\ UNCHANGED <<tableVars, entry, up, pc, nbr, found, known, commandVars,
                 historyVars>>

\* Next yields no more rows: they are all read, or reading them failed,
\* which the code does not tell apart.
FillEnds(g) ==
  /\ At(g, "fill")
  /\ unread[g] = {} \/ "cut" \in Broken
  /\ unread' = [unread EXCEPT ![g] = {}]
  /\ Goto(g, "reread")
  /\ UNCHANGED <<tableVars, entry, up, number2nbr, nbr, found, known,
                 commandVars, historyVars>>

\* A mutant of Reread: the first reading is returned.
RereadForgotten(g) ==
  /\ At(g, "reread")
  /\ Goto(g, "returned")
  /\ UNCHANGED <<tableVars, entry, up, number2nbr, nbr, unread, found,
                 known, commandVars, historyVars>>

Reread(g) ==
  /\ At(g, "reread")
  /\ found' = [found EXCEPT ![g] = number2nbr[nbr[g]]]
  /\ Goto(g, "returned")
  /\ UNCHANGED <<tableVars, entry, up, number2nbr, nbr, unread, known,
                 commandVars, historyVars>>

LookupStep(g) ==
  \/ \E n \in Nbrs : Begin(g, n)
  \/ ReadMap(g) \/ Query(g)    \/ QueryFails(g)
  \/ FillRow(g) \/ FillEnds(g) \/ Reread(g)

------------------------------------------------------------------------------
(* The command "lianjiaPro -b".                                            *)

CommandTo(c, p) == cpc' = [cpc EXCEPT ![c] = p]
NextLine(c)     == /\ CommandTo(c, "line")
                   /\ line' = [line EXCEPT ![c] = @ + 1]
                   /\ lost' = [lost EXCEPT ![c] = 0]

Run(c) ==
  /\ cpc[c] = "new"
  /\ \E f \in Files : file' = [file EXCEPT ![c] = f]
  /\ \E m \in Modes : mode' = [mode EXCEPT ![c] = m]
  /\ CommandTo(c, "line")
  /\ UNCHANGED <<tableVars, entry, serverVars, line, insertFlag, lost,
                 appInfo, historyVars>>

\* Killed by the operator.
Interrupt(c) ==
  /\ cpc[c] \notin {"new", "ended", "panicked"}
  /\ CommandTo(c, "panicked")
  /\ UNCHANGED <<tableVars, entry, serverVars, file, mode, line, insertFlag,
                 lost, appInfo, historyVars>>

\* A mutant of ReadLine: it does not see that a line has no comma.
ReadLineUnchecked(c) ==
  /\ cpc[c] = "line"
  /\ CommandTo(c, IF line[c] > Len(file[c]) THEN "dial" ELSE "select")
  /\ UNCHANGED <<tableVars, entry, serverVars, file, mode, line, insertFlag,
                 lost, appInfo, historyVars>>

\* A line without a comma has no bindInfo[1]: the program ends here.
ReadLine(c) ==
  /\ cpc[c] = "line"
  /\ CommandTo(c, IF line[c] > Len(file[c])        THEN "dial"
                  ELSE IF file[c][line[c]] = BadLine THEN "panicked"
                                                     ELSE "select")
  /\ UNCHANGED <<tableVars, entry, serverVars, file, mode, line, insertFlag,
                 lost, appInfo, historyVars>>

\* The binding command c is making.
BindingOf(c) == file[c][line[c]]

\* Command c is about to insert number n in the table.
Inserts(c, n) ==
  /\ cpc[c] = "write" /\ mode[c] = "live" /\ insertFlag[c]
  /\ BindingOf(c).nbr = n

\* Mutants of Select: it does not look for the number; it takes a query that
\* failed for one that found it.
SelectSkipped(c) ==
  /\ cpc[c] = "select"
  /\ insertFlag' = [insertFlag EXCEPT ![c] = TRUE]
  /\ CommandTo(c, "write")
  /\ UNCHANGED <<tableVars, entry, serverVars, file, mode, line, lost,
                 appInfo, historyVars>>

SelectFailsAsFound(c) ==
  /\ cpc[c] = "select"
  /\ \E ok \in BOOLEAN :
       /\ ok \/ "select" \in Broken
       /\ insertFlag' =
            [insertFlag EXCEPT ![c] =
               ok /\ RowsOf(table, BindingOf(c).nbr) = {}]
  /\ CommandTo(c, "write")
  /\ UNCHANGED <<tableVars, entry, serverVars, file, mode, line, lost,
                 appInfo, historyVars>>

\* Any error counts as "not bound yet", that of a failed query too.
Select(c) ==
  LET wanted  == BindingOf(c).nbr
      isBound == RowsOf(table, wanted) # {}
      other   == \E d \in Commands \ {c} : Inserts(d, wanted)
  IN
  /\ cpc[c] = "select"
  /\ \E ok \in BOOLEAN :
       /\ ok \/ "select" \in Broken
       /\ insertFlag' = [insertFlag EXCEPT ![c] = ~ok \/ ~isBound]
  /\ CommandTo(c, "write")
  /\ doubled' =
       IF mode[c] = "live" /\ insertFlag'[c] /\ (isBound \/ other)
         THEN doubled \cup {wanted} ELSE doubled
  /\ UNCHANGED <<tableVars, entry, serverVars, file, mode, line, lost,
                 appInfo, dropped, overtaken>>

Updated(t, b) ==
  {IF r.nbr = b.nbr THEN [r EXCEPT !.number = b.number] ELSE r : r \in t}

StatementOf(c) ==
  [mode   |-> mode[c],
   insert |-> insertFlag[c],
   row    |-> [nbr |-> BindingOf(c).nbr, number |-> BindingOf(c).number,
               by |-> c, line |-> line[c], try |-> lost[c]]]

\* Table t after statement s.
Written(t, s) == IF s.insert THEN t \cup {s.row} ELSE Updated(t, s.row)

\* A mutant of Done: the option debug is forgotten.
DoneInTable(s) == table' = Written(table, s) /\ UNCHANGED testTable

\* MySQL does statement s.
Done(s) ==
  IF s.mode = "debug"
    THEN testTable' = Written(testTable, s) /\ UNCHANGED table
    ELSE table' = Written(table, s) /\ UNCHANGED testTable

\* stmt.Exec.  database/sql sends the statement again while its answer is
\* lost and MaxTries are not used up.
AnswerLost(c) ==
  /\ cpc[c] = "write"
  /\ "lost" \in Broken
  /\ lost[c] < MaxTries
  /\ late' = late \cup {StatementOf(c)}
  /\ lost' = [lost EXCEPT ![c] = @ + 1]
  /\ doubled' = IF mode[c] = "live" /\ insertFlag[c]
                  THEN doubled \cup {BindingOf(c).nbr} ELSE doubled
  /\ UNCHANGED <<table, testTable, entry, serverVars, cpc, file, mode, line,
                 insertFlag, appInfo, dropped, overtaken>>

Write(c) ==
  /\ cpc[c] = "write"
  /\ lost[c] < MaxTries
  /\ Done(StatementOf(c))
  /\ NextLine(c)
  /\ dropped' = IF mode[c] = "debug"
                  THEN dropped \cup {BindingOf(c).nbr} ELSE dropped
  /\ UNCHANGED <<late, entry, serverVars, file, mode, insertFlag, appInfo,
                 doubled, overtaken>>

\* The statement is refused, or no try was answered: the error is reported,
\* and the next line is read.
WriteFails(c) ==
  /\ cpc[c] = "write"
  /\ "write" \in Broken \/ lost[c] = MaxTries
  /\ NextLine(c)
  /\ dropped' = dropped \cup {BindingOf(c).nbr}
  /\ UNCHANGED <<tableVars, entry, serverVars, file, mode, insertFlag,
                 appInfo, doubled, overtaken>>

\* MySQL does a statement nobody waits for any more.
LateWrite(s) ==
  /\ s \in late
  /\ Done(s)
  /\ late' = late \ {s}
  /\ UNCHANGED <<entry, serverVars, commandVars, historyVars>>

\* readBindNumber does not look at the error of AddNbr.
Dial(c) ==
  /\ cpc[c] = "dial"
  /\ \/ CommandTo(c, "hget")
     \/ "dial" \in Broken /\ CommandTo(c, "ended")
  /\ UNCHANGED <<tableVars, entry, serverVars, file, mode, line, insertFlag,
                 lost, appInfo, historyVars>>

HGet(c) ==
  /\ cpc[c] = "hget"
  /\ IF entry.rest \in {"raw", "missing"}
       THEN CommandTo(c, "ended") /\ UNCHANGED appInfo
       ELSE /\ CommandTo(c, "hset")
            /\ appInfo' = [appInfo EXCEPT ![c] = entry]
  /\ UNCHANGED <<tableVars, entry, serverVars, file, mode, line, insertFlag,
                 lost, historyVars>>

\* getAppInfoFromRedis reports a failed HGET, but returns no error.
HGetFails(c) ==
  /\ cpc[c] = "hget"
  /\ "hget" \in Broken
  /\ CommandTo(c, "hset")
  /\ appInfo' = [appInfo EXCEPT ![c] = NoInfo]
  /\ overtaken' = overtaken \cup {c}
  /\ UNCHANGED <<tableVars, entry, serverVars, file, mode, line, insertFlag,
                 lost, doubled, dropped>>

\* A mutant of NbrsOf: the other column of the line is taken.
NumbersOf(f) == [i \in 1 .. Len(f) |-> f[i].number]

NbrsOf(f) == [i \in 1 .. Len(f) |-> f[i].nbr]

\* A mutant of HSet: the numbers replace those in the entry.
HSetReplaces(c) ==
  /\ cpc[c] = "hset"
  /\ entry' = [appInfo[c] EXCEPT !.nbrs = NbrsOf(file[c])]
  /\ CommandTo(c, "ended")
  /\ UNCHANGED <<tableVars, serverVars, file, mode, line, insertFlag, lost,
                 appInfo, historyVars>>

\* The entry is written without escaping its fields.
HSet(c) ==
  /\ cpc[c] = "hset"
  /\ entry' = [rest |-> IF appInfo[c].rest = "escaped" THEN "raw"
                                                       ELSE appInfo[c].rest,
               nbrs |-> appInfo[c].nbrs \o NbrsOf(file[c])]
  /\ CommandTo(c, "ended")
  /\ overtaken' = overtaken \cup {d \in Commands \ {c} : cpc[d] = "hset"}
  /\ UNCHANGED <<tableVars, serverVars, file, mode, line, insertFlag, lost,
                 appInfo, doubled, dropped>>

\* A command that was carried out, even late, and whose reply is lost ends
\* differently, but leaves the same behind as HSet.
HSetFails(c) ==
  /\ cpc[c] = "hset"
  /\ "hset" \in Broken
  /\ CommandTo(c, "panicked")
  /\ UNCHANGED <<tableVars, entry, serverVars, file, mode, line, insertFlag,
                 lost, appInfo, historyVars>>

CommandStep(c) ==
  \/ Run(c)        \/ Interrupt(c)  \/ ReadLine(c) \/ Select(c)
  \/ AnswerLost(c) \/ Write(c)      \/ WriteFails(c)
  \/ Dial(c)       \/ HGet(c)       \/ HGetFails(c)
  \/ HSet(c)       \/ HSetFails(c)

------------------------------------------------------------------------------
Next ==
  \/ Start \/ Kill \/ MapThrow
  \/ \E g \in Lookups : LookupStep(g)
  \/ \E c \in Commands : CommandStep(c)
  \/ \E s \in late : LateWrite(s)

Spec == Init /\ [][Next]_vars

------------------------------------------------------------------------------
(* Properties, whatever the interleaving of lookups and commands.          *)

\* The 400 numbers access number n was bound to at first, or by a line some
\* command has come to that is not in debug mode.
Asked(n) ==
  {x \in Numbers :
     \/ [nbr |-> n, number |-> x] \in Old
     \/ \E c \in Commands : \E i \in 1 .. Len(file[c]) :
          /\ mode[c] = "live"
          /\ i <= line[c]
          /\ file[c][i] = [nbr |-> n, number |-> x]}

\* A caller never gets the menu of a 400 number that was not bound to the
\* access number dialled: not while tables and cache are changed and filled
\* by several at once, not from the test table.  (The number may be an
\* earlier one: what number2nbr holds is not read again until a restart.)
CacheIsAsked ==
  /\ \A n \in Nbrs : number2nbr[n] \in Asked(n) \cup {Unbound}
  /\ \A g \in Lookups :
       pc[g] = "returned" => found[g] \in Asked(nbr[g]) \cup {Unbound}

\* changeBindNumber finds a number that was bound before the call came: an
\* unknown number is never cached as unknown, and however many goroutines
\* fill the map, each finds its own number in it.  Needs reads that are not
\* cut off.
FoundIfBound ==
  \A g \in Lookups :
    pc[g] = "returned" /\ known[g] => found[g] # Unbound

\* The platform knows only access numbers that are in the table: a command
\* adds its numbers to Redis last, so wherever it is interrupted or ends, no
\* call comes in for a number the server cannot look up; unless a command
\* reported that it could not bind the number, and went on, or bound it in
\* debug mode.
RoutedIsBound ==
  \A i \in 1 .. Len(entry.nbrs) :
    entry.nbrs[i] \in dropped \/ RowsOf(table, entry.nbrs[i]) # {}

\* The table has one row for an access number, so that what a lookup finds
\* does not depend on the order of the rows; but for the numbers that were
\* inserted though a failing SELECT hid their row, while another command was
\* about to insert them, or by a try whose answer was lost.
OneRowPerNumber ==
  \A r, s \in table : r.nbr = s.nbr => r = s \/ r.nbr \in doubled

\* When MySQL answers that the statement of a line is done, the table has the
\* binding of that line, also if the SELECT before it failed or others wrote
\* in between; and no other binding of the number, unless it was inserted
\* beside one.
BoundAsWritten ==
  [][\A c \in Commands :
       Write(c) /\ mode[c] = "live" =>
         LET b     == BindingOf(c)
             bound == {r.number : r \in RowsOf(table', b.nbr)}
         IN  /\ b.number \in bound
             /\ \/ insertFlag[c] /\ b.nbr \in doubled
                \/ bound = {b.number}]_vars

\* No command takes an access number out of the Redis entry, or empties the
\* other fields of the application; but one whose HGET failed, or that wrote
\* the entry back after another had changed it.
EntryKeepsNumbers ==
  [][\/ \E c \in overtaken : HSet(c)
     \/ /\ \A i \in 1 .. Len(entry.nbrs) :
             \E j \in 1 .. Len(entry'.nbrs) : entry'.nbrs[j] = entry.nbrs[i]
        /\ entry.rest # "blank" => entry'.rest # "blank"]_vars
==============================================================================
