----------------------------- MODULE MysqlConn -----------------------------
(***************************************************************************)
(* A connection of go-sql-driver/mysql, with the server at its other end   *)
(* and database/sql above it, as sqlClient uses them: Bill2Sql prepares an *)
(* insert and executes it ("bill"), the lookups prepare a query, read a    *)
(* row and close ("lookup"), GetbindNumber reads a text query ("load").    *)
(*                                                                         *)
(* A call of the driver writes one command and reads the packets of its    *)
(* answer; todo lists the reading and writing the call has still to do.    *)
(* The connection may break at any time: a read or a write then fails with *)
(* ErrBadConn, database/sql drops the connection, opens another and tries  *)
(* again, up to MaxTries times.                                            *)
(*                                                                         *)
(* Left out, because sqlClient's DSN and statements do not use them:       *)
(* TLS, clear passwords, LOCAL INFILE, strict mode, statements longer      *)
(* than a packet, transactions; and what the fields of a packet hold.      *)
(***************************************************************************)
EXTENDS Naturals, Sequences

CONSTANTS
  NJobs, Kinds,      \* how many calls of sqlClient; Kinds[j], what j may be
  MaxTries,          \* of database/sql: 3
  MaxBreaks,         \* bound: how often a connection breaks
  SequenceSize,      \* of the sequence numbers: 256 in the code
  MaxRows,           \* bound: rows in an answer
  BigRows,           \* "yes": rows of 2^24 - 1 bytes and more are answered
  MoreResults,       \* "yes": a query may be answered by several results
  AllowOldPasswords  \* of the DSN, FALSE by default

ASSUME MysqlAssumption ==
  /\ NJobs \in Nat
  /\ Kinds \in [1 .. NJobs -> SUBSET {"bill", "lookup", "load"}]
  /\ MaxTries \in Nat \ {0} /\ MaxBreaks \in Nat
  /\ SequenceSize \in Nat \ {0, 1} /\ MaxRows \in Nat
  /\ BigRows \in {"yes", "no"} /\ MoreResults \in {"yes", "no"}
  /\ AllowOldPasswords \in BOOLEAN

Job == 1 .. NJobs

VARIABLES
  \* mysqlConn
  open,        \* netConn is not nil
  sequence,
  buffer,      \* the packets received and not read
  status,      \* mc.status has statusMoreResultsExists
  todo,        \* what the call in progress has still to do
  unread,      \* rows.mc is not nil, of the rows in use
  \* the network and the server
  link, toServer, toClient,
  executed,    \* executed[j]: the inserts of job j that the server has done
  late,        \* late[j]: inserts it still has from a dropped connection
  \* database/sql and sqlClient
  job, kind, doing, pooled, prepared, stage, tries, outcome,
  \* history
  attempts,    \* attempts[j]: the inserts written for job j
  lost,        \* lost[j]: those of them that got no answer
  cmd,         \* the number of the command in progress
  overrun,     \* the driver reads on after the error that ended an answer
  breaks

connVars   == <<open, sequence, buffer, status, todo, unread>>
netVars    == <<link, toServer, toClient, breaks>>
serverVars == <<executed, late>>
sqlVars    == <<job, kind, doing, pooled, prepared, stage, tries, outcome>>
histVars   == <<attempts, lost, cmd, overrun>>
vars == <<connVars, netVars, serverVars, sqlVars, histVars>>

-----------------------------------------------------------------------------
(* The server's answers: sequences of packets.  A payload of 2^24 - 1 bytes *)
(* or more goes into several packets, all but the last one full.            *)

PacketKind == {"init", "oldAuth", "otherAuth", "ok", "err", "eof", "columns",
               "def", "row", "prepared", "empty"}

Packet(k) == [kind |-> k, more |-> FALSE, full |-> FALSE, defs |-> 0]
Ok(more)  == [Packet("ok") EXCEPT !.more = more]
Eof(more) == [Packet("eof") EXCEPT !.more = more]
FullRow   == [Packet("row") EXCEPT !.full = TRUE]

RowLists ==
  {[i \in 1 .. n |-> Packet("row")] : n \in 0 .. MaxRows}
    \cup IF BigRows = "yes"
           THEN {<<FullRow, Packet("row")>>, <<FullRow, Packet("empty")>>}
           ELSE {}

ResultSets ==
  {<<Packet("columns"), Packet("def"), Eof(FALSE)>> \o rs \o <<Eof(FALSE)>> :
     rs \in RowLists}

\* The server may fail in the middle of the rows.
FailedSets ==
  {<<Packet("columns"), Packet("def"), Eof(FALSE)>> \o rs
     \o <<Packet("err")>> :
     rs \in RowLists}

\* A query may be answered by several results, each announcing the next.
SeveralResults ==
  {a \o b : a \in {<<Ok(TRUE)>>,
                   <<Packet("columns"), Packet("def"), Eof(TRUE),
                     Packet("row"), Eof(TRUE)>>},
            b \in {<<Ok(FALSE)>>, <<Packet("err")>>,
                   <<Packet("columns"), Packet("def"), Eof(FALSE),
                     Packet("row"), Eof(FALSE)>>}}

QueryReplies ==
  {<<Packet("err")>>} \cup ResultSets \cup FailedSets
    \cup IF MoreResults = "yes" THEN SeveralResults ELSE {}

\* Servers that know INSERT ... RETURNING answer an insert with rows.
RowsOfExec ==
  IF MoreResults = "yes"
    THEN {<<Packet("columns"), Packet("def"), Eof(FALSE), Packet("row"),
            Eof(FALSE)>>}
    ELSE {}

\* Replies[c]: what the server may answer to a command c.
Replies == [
  auth    |-> {<<Ok(FALSE)>>, <<Packet("err")>>, <<Packet("oldAuth")>>,
               <<Packet("otherAuth")>>},
  oldAuth |-> {<<Ok(FALSE)>>, <<Packet("err")>>},
  var     |-> {<<Packet("columns"), Packet("def"), Eof(FALSE),
                 Packet("row"), Eof(FALSE)>>},
  charset |-> {<<Ok(FALSE)>>, <<Packet("err")>>},
  prepare |-> {<<Packet("err")>>}
                \cup {<<[Packet("prepared") EXCEPT !.defs = 1],
                        Packet("def"), Eof(FALSE)>>,
                      <<[Packet("prepared") EXCEPT !.defs = 2],
                        Packet("def"), Eof(FALSE),
                        Packet("def"), Eof(FALSE)>>},
  exec    |-> {<<Ok(FALSE)>>, <<Packet("err")>>} \cup RowsOfExec,
  query   |-> QueryReplies,
  stmtClose |-> {<<>>}]

Command == DOMAIN Replies

Sent(p, c, s) == [kind |-> p.kind, more |-> p.more, full |-> p.full,
                  defs |-> p.defs, cmd |-> c, seq |-> s % SequenceSize]

-----------------------------------------------------------------------------
Phase == {"none", "open", "prepare", "exec", "query", "rows", "next",
          "read", "close", "closeStmt"}
ReadTask == {"init", "authResult", "varHeader", "varRow", "execHeader",
             "queryHeader", "moreHeader", "columns", "eof", "row",
             "prepared", "discard"}
WriteTask == Command \ {"stmtClose"}
Task == ReadTask \cup WriteTask

TypeOK ==
  /\ open \in BOOLEAN /\ sequence \in 0 .. SequenceSize - 1
  /\ status \in BOOLEAN /\ unread \in BOOLEAN
  /\ todo \in Seq(Task)
  /\ \A s \in {buffer, toClient} :
       s \in Seq([kind : PacketKind, more : BOOLEAN, full : BOOLEAN,
                  defs : 0 .. 2, cmd : Nat, seq : 0 .. SequenceSize - 1])
  /\ link \in {"up", "cut"}
  /\ toServer \in Seq([command : Command, cmd : Nat, seq : Nat])
  /\ executed \in [Job -> Nat] /\ late \in [Job -> Nat]
  /\ job \in 0 .. NJobs /\ kind \in {"none", "bill", "lookup", "load"}
  /\ doing \in Phase /\ stage \in {"prepare", "exec"}
  /\ pooled \in BOOLEAN /\ prepared \in BOOLEAN
  /\ tries \in 0 .. MaxTries - 1
  /\ outcome \in [Job -> {"none", "ok", "failed"}]
  /\ attempts \in [Job -> Nat] /\ lost \in [Job -> Nat]
  /\ cmd \in Nat /\ overrun \in BOOLEAN
  /\ breaks \in 0 .. MaxBreaks

Init ==
  /\ open = FALSE /\ sequence = 0 /\ buffer = <<>> /\ status = FALSE
  /\ todo = <<>> /\ unread = FALSE
  /\ link = "cut" /\ toServer = <<>> /\ toClient = <<>> /\ breaks = 0
  /\ executed = [j \in Job |-> 0] /\ late = [j \in Job |-> 0]
  /\ job = 0 /\ kind = "none" /\ doing = "none" /\ pooled = FALSE
  /\ prepared = FALSE /\ stage = "prepare" /\ tries = 0
  /\ outcome = [j \in Job |-> "none"]
  /\ attempts = [j \in Job |-> 0] /\ lost = [j \in Job |-> 0]
  /\ cmd = 0 /\ overrun = FALSE

-----------------------------------------------------------------------------
(* What a call of the driver returns, and what database/sql and sqlClient   *)
(* do then.                                                                 *)

Exec == {i \in 1 .. Len(toServer) : toServer[i].command = "exec"}
InFlight == IF Exec = {} THEN 0 ELSE 1

\* The connection is given up.  What the server has got of it, it may do yet.
Drop ==
  /\ open' = FALSE /\ pooled' = FALSE /\ prepared' = FALSE
  /\ unread' = FALSE /\ status' = FALSE /\ buffer' = <<>> /\ sequence' = 0
  /\ link' = "cut" /\ toServer' = <<>> /\ toClient' = <<>>
  /\ late' = [late EXCEPT ![job] = @ + InFlight]
  /\ UNCHANGED <<executed, breaks>>

\* mc.Close in readPacket.
CloseConn ==
  /\ open' = FALSE /\ link' = "cut" /\ buffer' = <<>> /\ toClient' = <<>>
  /\ UNCHANGED <<sequence, status, toServer, breaks, serverVars>>

\* Rows are in use no more when Close has returned, whatever it returned.
InUse == doing # "close"

EndJob == kind' = "none" /\ doing' = "none" /\ stage' = "prepare" /\ tries' = 0

\* The call of sqlClient has its outcome; its statement is closed yet.
Finish(o) ==
  /\ outcome' = [outcome EXCEPT ![job] =
                   IF @ = "none" THEN o ELSE @]
  /\ IF prepared THEN doing' = "closeStmt" /\ UNCHANGED <<kind, stage, tries>>
                 ELSE EndJob

Succeeds ==
  /\ \/ /\ doing = "open" /\ doing' = "none" /\ pooled' = TRUE
        /\ UNCHANGED <<prepared, kind, stage, tries, outcome>>
     \/ /\ doing = "prepare" /\ doing' = "none" /\ prepared' = TRUE
        /\ stage' = IF kind = "bill" THEN "exec" ELSE stage
        /\ tries' = IF kind = "bill" /\ stage = "prepare" THEN 0 ELSE tries
        /\ UNCHANGED <<pooled, kind, outcome>>
     \/ /\ doing \in {"exec", "close"} /\ Finish("ok")
        /\ UNCHANGED <<pooled, prepared>>
     \/ /\ doing \in {"query", "next"}
        /\ doing' = IF doing = "next" /\ kind = "lookup" THEN "read"
                                                         ELSE "rows"
        /\ UNCHANGED <<pooled, prepared, kind, stage, tries, outcome>>
  /\ UNCHANGED job

\* The end of the rows, or an error in them: the rows are closed next.
RowsEnd(o) ==
  /\ doing' = "rows"
  /\ outcome' = [outcome EXCEPT ![job] = o]
  /\ UNCHANGED <<job, pooled, prepared, kind, stage, tries>>

\* A mutant of Refused: the error of the server is forgotten.
RefusedForgotten == Succeeds

\* An error that is not ErrBadConn.
Refused ==
  /\ \/ doing = "next" /\ RowsEnd("failed")
     \/ /\ doing \in {"open", "prepare", "exec", "query", "close"}
        /\ Finish("failed") /\ UNCHANGED <<job, pooled, prepared>>

\* A mutant of TryAgain: one try more.
TryOnceMore ==
  /\ IF tries + 1 <= MaxTries
       THEN /\ tries' = tries + 1 /\ doing' = "none"
            /\ UNCHANGED <<kind, stage, outcome>>
       ELSE /\ outcome' = [outcome EXCEPT ![job] = "failed"]
            /\ EndJob
  /\ UNCHANGED job

\* A mutant of TryAgain: nobody looks at the last error.
TryAgainUnheeded ==
  /\ IF tries + 1 < MaxTries
       THEN /\ tries' = tries + 1 /\ doing' = "none"
            /\ UNCHANGED <<kind, stage, outcome>>
       ELSE /\ outcome' = [outcome EXCEPT ![job] = "ok"]
            /\ EndJob
  /\ UNCHANGED job

\* ErrBadConn: another connection is tried, MaxTries in all.  Rows are not
\* read again, and what failed to read them stays in the pool.
TryAgain ==
  /\ IF tries + 1 < MaxTries
       THEN /\ tries' = tries + 1 /\ doing' = "none"
            /\ UNCHANGED <<kind, stage, outcome>>
       ELSE /\ outcome' = [outcome EXCEPT ![job] = "failed"]
            /\ EndJob
  /\ UNCHANGED job

Unanswered ==
  lost' = IF doing = "exec" THEN [lost EXCEPT ![job] = @ + 1] ELSE lost

Broken ==
  \/ /\ doing \in {"open", "prepare", "exec", "query"}
     /\ Drop /\ TryAgain
  \/ /\ doing = "next" /\ CloseConn /\ UNCHANGED unread /\ RowsEnd("failed")
  \/ /\ doing = "close" /\ CloseConn /\ unread' = FALSE
     /\ Finish("failed") /\ UNCHANGED <<job, pooled, prepared>>

ReturnsBad ==
  /\ Broken /\ todo' = <<>> /\ Unanswered
  /\ UNCHANGED <<attempts, cmd, overrun>>

-----------------------------------------------------------------------------
(* Writing: writeCommandPacket and its like, writeAuthPacket,               *)
(* writeExecutePacket.                                                      *)

Writing == todo # <<>> /\ Head(todo) \in WriteTask

IsAuth(c) == c \in {"auth", "oldAuth"}

\* Commands start at sequence number 0.
FirstSeq(c) == IF IsAuth(c) THEN sequence ELSE 0

BufferIsBusy == buffer # <<>>

\* The packet is on its way, or lost if the connection is broken.
WritePacket ==
  /\ Writing /\ ~BufferIsBusy
  /\ LET c == Head(todo)
     IN  /\ sequence' = (FirstSeq(c) + 1) % SequenceSize
         /\ cmd' = cmd + 1
         /\ toServer' =
              IF link = "cut" THEN toServer
              ELSE Append(toServer, [command |-> c, cmd |-> cmd + 1,
                                     seq |-> FirstSeq(c)])
         /\ attempts' = IF c = "exec" THEN [attempts EXCEPT ![job] = @ + 1]
                                      ELSE attempts
  /\ todo' = Tail(todo)
  /\ UNCHANGED <<open, buffer, status, unread, link, toClient, breaks,
                 serverVars, sqlVars, lost, overrun>>

\* A write that fails, or that finds packets of an earlier answer unread,
\* returns ErrBadConn.
WriteFails ==
  /\ Writing /\ (link = "cut" \/ BufferIsBusy)
  /\ ReturnsBad

-----------------------------------------------------------------------------
(* Reading.                                                                 *)

Reading == todo # <<>> /\ Head(todo) \in ReadTask

\* fill: some of the packets that have come.
Receive ==
  /\ Reading /\ buffer = <<>>
  /\ \E n \in 1 .. Len(toClient) :
       /\ buffer' = SubSeq(toClient, 1, n)
       /\ toClient' = SubSeq(toClient, n + 1, Len(toClient))
  /\ UNCHANGED <<open, sequence, status, todo, unread, link, toServer, breaks,
                 serverVars, sqlVars, histVars>>

\* readPacket: the connection has ended, or a packet is empty.
ReadFails ==
  /\ Reading
  /\ \/ buffer = <<>> /\ toClient = <<>> /\ link = "cut"
     \/ buffer # <<>> /\ Head(buffer).kind = "empty"
  /\ ReturnsBad

InSync(p) == p.seq = sequence

\* A packet out of order is an error; its body stays in the buffer.
OutOfSync ==
  /\ Reading /\ buffer # <<>> /\ Head(buffer).kind # "empty"
  /\ ~InSync(Head(buffer))
  /\ todo' = <<>>
  /\ IF doing = "open" THEN Drop /\ Refused
     ELSE /\ Refused /\ unread' = (unread /\ InUse)
          /\ UNCHANGED <<open, sequence, buffer, status, netVars, serverVars>>
  /\ Unanswered
  /\ UNCHANGED <<attempts, cmd, overrun>>

\* The payload goes on in the next packet.
ReadPart ==
  /\ Reading /\ buffer # <<>> /\ InSync(Head(buffer)) /\ Head(buffer).full
  /\ buffer' = Tail(buffer)
  /\ sequence' = (sequence + 1) % SequenceSize
  /\ UNCHANGED <<open, status, todo, unread, netVars, serverVars, sqlVars,
                 histVars>>

Discard(more) == IF more THEN <<"moreHeader", "discard">> ELSE <<>>

\* A mutant of AfterEof: the results that follow are left unread.
AfterEofOnly(p, rest) == IF rest = <<"discard">> THEN <<>> ELSE rest

\* readUntilEOF has found the end.
AfterEof(p, rest) == IF rest = <<"discard">> THEN Discard(p.more) ELSE rest

\* A mutant of Definitions: one list too many is read.
DefinitionsAndOne(p) == [i \in 1 .. p.defs + 1 |-> "eof"]

\* The parameters and the columns of a statement, where it has them.
Definitions(p) == [i \in 1 .. p.defs |-> "eof"]

\* GoesOn(t, p, rest, new): task t of the call has read packet p, the call
\* had the tasks rest to do after it, and has new to do now.
GoesOn(t, p, rest, new) ==
  \/ t = "init" /\ p.kind = "init" /\ new = rest
  \/ t = "authResult" /\ p.kind = "ok" /\ new = rest
  \/ t = "authResult" /\ p.kind = "oldAuth" /\ AllowOldPasswords
     /\ new = <<"oldAuth", "authResult">> \o rest
  \/ t = "varHeader" /\ p.kind = "columns"
     /\ new = <<"eof", "varRow", "eof">> \o rest
  \/ t = "varRow" /\ p.kind = "row" /\ new = rest
  \/ t \in {"execHeader", "queryHeader", "moreHeader"}
     /\ p.kind = "ok" /\ new = Discard(p.more)
  \/ t = "execHeader" /\ p.kind = "columns" /\ new = <<"eof", "eof">>
  \/ t = "queryHeader" /\ p.kind = "columns" /\ new = <<"columns">>
  \/ t = "moreHeader" /\ p.kind = "columns"
     /\ new = <<"eof", "eof", "discard">>
  \/ t = "columns" /\ p.kind = "def" /\ new = <<"columns">>
  \/ t = "columns" /\ p.kind = "eof" /\ new = <<>>
  \/ t = "eof" /\ p.kind # "eof" /\ new = <<"eof">> \o rest
  \/ t = "eof" /\ p.kind = "eof" /\ new = AfterEof(p, rest)
  \/ t = "row" /\ p.kind = "row" /\ new = <<>>
  \/ t = "row" /\ p.kind = "eof" /\ new = Discard(p.more)
  \/ t = "prepared" /\ p.kind = "prepared"
     /\ new = Definitions(p)

\* rows.mc: the rows of a query are unread from the end of the columns on,
\* until a row cannot be read or the last result is discarded.
UnreadAfter(t, p) ==
  IF t = "columns" THEN p.kind = "eof"
  ELSE t = "row" /\ p.kind = "row"

\* The next task of the call reads a packet.
Read ==
  /\ Reading /\ buffer # <<>>
  /\ LET t == Head(todo)
         p == Head(buffer)
     IN  /\ InSync(p) /\ ~p.full /\ p.kind # "empty"
         /\ GoesOn(t, p, Tail(todo), todo')
         /\ status' = IF t \in {"execHeader", "queryHeader", "moreHeader",
                                "eof", "row"}
                         /\ p.kind \in {"ok", "eof"}
                        THEN p.more ELSE status
         /\ overrun' = (overrun \/ (t = "eof" /\ p.kind = "err"))
         /\ IF todo' = <<>>
              THEN /\ unread' = UnreadAfter(t, p)
                   /\ IF doing = "next" /\ ~unread' THEN RowsEnd("ok")
                                                    ELSE Succeeds
              ELSE UNCHANGED <<unread, sqlVars>>
  /\ buffer' = Tail(buffer)
  /\ sequence' = (sequence + 1) % SequenceSize
  /\ UNCHANGED <<open, netVars, serverVars, attempts, lost, cmd>>

\* The error of the server, or a way to authenticate that is not allowed.
Errors == {"err", "otherAuth"}
            \cup IF AllowOldPasswords THEN {} ELSE {"oldAuth"}

\* handleErrorPacket: the call returns the error of the server.  An error in
\* a later result leaves the rows as they are.
ReadError ==
  /\ Reading /\ buffer # <<>>
  /\ LET t == Head(todo)
         p == Head(buffer)
     IN  /\ InSync(p) /\ t # "eof" /\ p.kind \in Errors
         /\ todo' = <<>>
         /\ overrun' = (overrun \/ (doing = "next" /\ t # "row"))
         /\ IF doing = "open" THEN Drop
            ELSE /\ unread' = (unread /\ t # "row" /\ InUse)
                 /\ buffer' = Tail(buffer)
                 /\ sequence' = (sequence + 1) % SequenceSize
                 /\ UNCHANGED <<open, status, netVars, serverVars>>
         /\ Refused
  /\ UNCHANGED <<attempts, lost, cmd>>

-----------------------------------------------------------------------------
(* database/sql, as sqlClient calls it.                                     *)

Call(what, tasks) ==
  /\ doing' = what /\ todo' = tasks
  /\ UNCHANGED <<job, kind, pooled, prepared, stage, tries, outcome, histVars>>

Start ==
  /\ kind = "none" /\ job < NJobs
  /\ job' = job + 1 /\ kind' \in Kinds[job']
  /\ UNCHANGED <<doing, pooled, prepared, stage, tries, outcome, connVars,
                 netVars, serverVars, histVars>>

Ready == kind # "none" /\ doing = "none"

\* MySQLDriver.Open: the handshake, getSystemVar, handleParams.
Open ==
  /\ Ready /\ ~pooled
  /\ Call("open", <<"init", "auth", "authResult", "var", "varHeader",
                    "charset", "execHeader">>)
  /\ open' = TRUE /\ link' = "up" /\ sequence' = 0 /\ buffer' = <<>>
  /\ \E k \in {"init", "err"} : toClient' = <<Sent(Packet(k), cmd, 0)>>
  /\ UNCHANGED <<status, unread, toServer, breaks, serverVars>>

\* Nobody answers the call.
OpenFails ==
  /\ Ready /\ ~pooled
  /\ outcome' = [outcome EXCEPT ![job] = "failed"] /\ EndJob
  /\ UNCHANGED <<job, pooled, prepared, connVars, netVars, serverVars,
                 histVars>>

\* Prepare, Query, stmt.Exec and stmt.Query of a connection that is open.
Ask ==
  /\ Ready /\ pooled /\ open
  /\ \/ kind # "load" /\ ~prepared
        /\ Call("prepare", <<"prepare", "prepared">>)
     \/ kind = "bill" /\ prepared /\ Call("exec", <<"exec", "execHeader">>)
     \/ kind = "lookup" /\ prepared
        /\ Call("query", <<"query", "queryHeader">>)
     \/ kind = "load" /\ Call("query", <<"query", "queryHeader">>)
  /\ UNCHANGED <<open, sequence, buffer, status, unread, netVars, serverVars>>

\* netConn is nil: ErrBadConn at once.
AskClosed ==
  /\ Ready /\ pooled /\ ~open
  /\ Drop /\ TryAgain
  /\ UNCHANGED <<todo, histVars>>

\* rows.Next.  A lookup reads one row, a load all of them.
NextRow ==
  /\ doing = "rows" /\ unread /\ open /\ outcome[job] = "none"
  /\ Call("next", <<"row">>)
  /\ UNCHANGED <<open, sequence, buffer, status, unread, netVars, serverVars>>

\* A mutant of Drains: what is left stays unread.
NeverDrains == FALSE

\* rows.Close reads what is left, unless there is nothing or no connection.
Drains == unread /\ open

CloseRows ==
  /\ \/ doing = "read"
     \/ doing = "rows" /\ (outcome[job] # "none" \/ ~unread \/ ~open)
  /\ IF Drains
       THEN /\ Call("close", <<"eof", "discard">>)
            /\ UNCHANGED <<unread>>
       ELSE /\ Finish("ok") /\ unread' = FALSE
            /\ UNCHANGED <<todo, job, pooled, prepared, histVars>>
  /\ UNCHANGED <<open, sequence, buffer, status, netVars, serverVars>>

\* stmt.Close, which has no answer and whose error nobody looks at.
CloseStmt ==
  /\ doing = "closeStmt" /\ EndJob /\ prepared' = FALSE
  /\ IF open /\ ~BufferIsBusy
       THEN /\ sequence' = 1
            /\ toServer' = IF link = "cut" THEN toServer
                           ELSE Append(toServer, [command |-> "stmtClose",
                                                  cmd |-> cmd, seq |-> 0])
       ELSE UNCHANGED <<sequence, toServer>>
  /\ UNCHANGED <<job, pooled, outcome, open, buffer, status, todo, unread,
                 link, toClient, breaks, serverVars, histVars>>

-----------------------------------------------------------------------------
(* The server and the network.                                              *)

\* The server does the next command and answers.  Its answer to a broken
\* connection is lost.
Serve ==
  /\ toServer # <<>>
  /\ LET c == Head(toServer)
     IN  \E reply \in Replies[c.command] :
           /\ toClient' =
                IF link = "cut" THEN toClient
                ELSE toClient \o [i \in 1 .. Len(reply) |->
                                    Sent(reply[i], c.cmd, c.seq + i)]
           /\ executed' =
                IF c.command = "exec" /\ reply[1].kind # "err"
                  THEN [executed EXCEPT ![job] = @ + 1] ELSE executed
  /\ toServer' = Tail(toServer)
  /\ UNCHANGED <<link, breaks, late, connVars, sqlVars, histVars>>

\* It does, or does not do, an insert of a connection that was dropped.
ServeLate(j) ==
  /\ late[j] > 0
  /\ late' = [late EXCEPT ![j] = @ - 1]
  /\ executed' \in {executed, [executed EXCEPT ![j] = @ + 1]}
  /\ UNCHANGED <<connVars, netVars, sqlVars, histVars>>

\* The connection breaks, and what was on its way arrives in part.
Break ==
  /\ link = "up" /\ breaks < MaxBreaks
  /\ link' = "cut" /\ breaks' = breaks + 1
  /\ \E n \in 0 .. Len(toServer) : toServer' = SubSeq(toServer, 1, n)
  /\ \E n \in 0 .. Len(toClient) : toClient' = SubSeq(toClient, 1, n)
  /\ UNCHANGED <<connVars, serverVars, sqlVars, histVars>>

\* The server ends a connection that is idle for too long, or is killed, with
\* an error nobody asked for, numbered 0.
Kill ==
  /\ link = "up" /\ breaks < MaxBreaks
  /\ open /\ todo = <<>> /\ ~unread /\ toServer = <<>>
  /\ toClient' = Append(toClient, Sent(Packet("err"), 0, 0))
  /\ link' = "cut" /\ breaks' = breaks + 1
  /\ UNCHANGED <<toServer, connVars, serverVars, sqlVars, histVars>>

-----------------------------------------------------------------------------
Driver == WritePacket \/ WriteFails \/ Receive \/ ReadFails \/ OutOfSync
            \/ ReadPart \/ Read \/ ReadError

Sql == Start \/ Open \/ OpenFails \/ Ask \/ AskClosed \/ NextRow
         \/ CloseRows \/ CloseStmt

Next == Driver \/ Sql \/ Serve \/ Break \/ Kill \/ \E j \in Job : ServeLate(j)

Spec == Init /\ [][Next]_vars

\* The server answers and the goroutine of the call is run.
FairSpec == Spec /\ WF_vars(Serve) /\ WF_vars(Driver)

-----------------------------------------------------------------------------
(* Properties.                                                              *)

\* The packet a call reads next is one of the answer to its own command, or
\* its number gives it away (the sequence numbers in readPacket).
AnswersMatch ==
  /\ Reading /\ buffer # <<>> /\ InSync(Head(buffer))
  /\ Head(todo) # "init"
  => Head(buffer).cmd = cmd

\* A connection that no call and no rows use has no answer left in it, nor
\* one on its way: only an error that nobody asked for can be in the way of
\* the next command (Rows.Close, discardResults, the calls' error paths).
NothingLeft ==
  /\ todo = <<>> /\ ~unread /\ open
  => /\ \A i \in 1 .. Len(buffer) : buffer[i].cmd = 0
     /\ \A i \in 1 .. Len(toClient) : toClient[i].cmd = 0
     /\ \A i \in 1 .. Len(toServer) : toServer[i].command = "stmtClose"

\* A bill that is reported stored is stored; one that is not, or is stored
\* more than once, had a try whose answer was lost (ErrBadConn in
\* writePacket and readPacket, which database/sql tries again).
StoredAsReported ==
  \A j \in Job :
    /\ outcome[j] = "ok" /\ attempts[j] > 0 => executed[j] > 0
    /\ outcome[j] = "failed" => executed[j] + late[j] <= lost[j]
    /\ executed[j] + late[j] <= lost[j] + 1

\* A call returns, unless it reads on after the error that ended the answer.
CallReturns == todo # <<>> ~> todo = <<>> \/ overrun

\* packets.go:728: readUntilEOF reads "until EOF-Packet or an Error appears".
\* So no call waits for packets that nobody will send.
NeverWaitsForNothing ==
  /\ Reading /\ buffer = <<>> /\ link = "up"
  => toClient # <<>> \/ toServer # <<>>

Inserts == INSTANCE RetriedInsert WITH
  stored  <- executed,
  outcome <- [j \in Job |-> IF attempts[j] = 0 THEN "none" ELSE outcome[j]],
  doubt   <- [j \in Job |-> late[j] + IF j = job THEN InFlight ELSE 0]

\* The inserts of the bills, with the tries of database/sql, do what
\* RetriedInsert promises.
BillsAreRetried == Inserts!Spec
=============================================================================
