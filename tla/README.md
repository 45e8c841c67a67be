# Lianjia call server: TLA+ models, checks and proofs

The repository is a Go server that connects callers with agents. A telephony
platform (IPCC) notifies it of what happens to a call; the server answers with
requests (accept, collect digits, transfer, announce, hang up), asks the
customer's number service which agent a number belongs to, keeps a record of
every call in progress, and at the end stores a bill in MySQL and posts it to
the customer. These modules model that server, check it with TLC and prove its
billing properties with TLAPS. A second program, the command `-b`, binds access
numbers to the customer's 400 numbers while the server looks them up; it and the
server's cache are modelled, checked and proved about in the same way. So are
the vendored libraries: the log (log4go) every goroutine blocks on, the MySQL
connection the bills go through (go-sql-driver), and the pool of connections of
redigo, which the repository carries but the program does not use: it dials its
one Redis connection itself (`conf/conf.go:306`).

All source paths below are relative to `src/src/` unless they begin with `src/`.

## 1. Inventory

| Part | State | Operations | Works with |
|---|---|---|---|
| `callManager/callManager.go` | `CallList`, a plain map from call id to `CallInfo`, without a lock | `InNewCall`, `FindCall`, `Update*`, `SetCallDtmf`, `CallInfoSoundReady`, `DelCall` | every goroutine of `server` |
| `server/server.go`, handlers | none of their own; one goroutine per notification | `eventProc` and `inCallProc`, `inCallProcByMobile`, `dtmfProc`, `callStatProc`, `callPlayVoiceDone`, `endCallProc` | `callManager`, `ipccRequest`, `ljClient` |
| `server/server.go`, billing | a local copy of the call, the retry counter | `billMsgProc`, `chargeCalculate` | `callManager`, `sqlClient`, `ljClient` |
| IPCC platform (outside) | the state of each call | notifications; carries requests out | `ipcc` (formats), `ipccRequest` |
| `ljClient/ljClient.go` | none | `GetServiceNum`, `PostBill`, `encodeSign` | the customer's server |
| `sqlClient/sqlClient.go`, bills | table of bills | `Bill2Sql`; `backUpBillTable` (started by nothing) | MySQL |
| Access numbers | cache `number2nbr` in the server, binding table, Redis entry | `changeBindNumber`, `GetbindNumber`, `BindNewNumber`, `readBindNumber`, `AddNbr` | MySQL, Redis |
| `sqlClient`, voice files and menus | tables that are only read | `GetMainMenu`, `GetIvrVoiceName` | `server` |
| `conf/conf.go` | configuration, read once | line parser, getters | everybody |
| `lianjiaPro/main.go` | none | picks the mode: server, download server, `-b` binding | all |
| `src/statics.go`, `src/redis.go` | none | separate scripts | MySQL, Redis |
| log4go | the map `Global` of filters; per writer a channel and a goroutine; the log files | `intLogf`, `LogWrite`, the loops of the writers, `intRotate`, `LoadConfiguration`, `Close`, `Crashf` | every goroutine; the disk |
| go-sql-driver/mysql | `mysqlConn`: connection, buffer, sequence number, status; `mysqlRows` | handshake, `Prepare`, `Exec`, `Query`, `Next`, `Close`, each a dialogue of packets | database/sql with its retries; the server |
| redigo | `Pool`: `active`, `idle`, `closed`, a condition; `conn`: `pending`, `err`; `pooledConnection.state` | `Get`, `put`, `release`, `Close` of both, `Send`, `Do`, `Receive` | Redis. The program dials without the pool (`conf/conf.go:306`) |
| redisx.ConnMux | a connection shared by goroutines | - | reached by nothing |

### What is hard about it

* **Goroutines of one call.** `eventProc` acknowledges a notification, *then*
  starts a goroutine for it (`server/server.go:592-618`). Nothing orders the
  goroutines of one call, so the platform's next notification may overtake the
  previous one, and the end of a call may be handled before its beginning.
* **Lost updates.** An `Update*` function copies the record out of the map,
  changes the copy and stores the whole copy back
  (`callManager/callManager.go:217-283`). Two of them at once lose one's fields,
  and a late one brings back a record that `DelCall` removed.
* **Unlocked map.** The Go runtime may end the process when it sees concurrent
  use of `CallList`.
* **Panics.** Three error paths dereference nil or index an empty slice, in
  goroutines nobody recovers: the whole process ends, with every call in it.
* **Long waits and retries.** `billMsgProc` waits for a recording without a
  limit, then posts up to six times over half an hour, working on a copy taken
  before.
* **Requests whose outcome is unknown.** A lost reply looks like a refusal.
* **Three copies of a binding.** Table, cache and Redis entry are changed by two
  programs without locks or transactions; a command may stop between any two.
* **The log.** Every handler logs through a channel of 32 records. The loop over
  the filters is not ordered and its sends block; the writer's goroutine returns
  on any error of the disk and leaves the channel to fill up.
* **Packets.** An answer of MySQL is read by whoever reads next. Rows closed
  early, errors among the rows, further results and errors nobody asked for must
  not be taken for the answer of the next command. A broken connection means
  that an insert is sent again.
* **The pool's mutex** is left while a connection is tested, dialled or closed;
  each way a connection becomes free must wake one of those who wait.
* **Restart.** Nothing of `CallList` survives; notifications that arrive while
  the process is down are lost, later ones concern calls it does not know.

### What makes each part correct

* `callManager`: the first result of a call is kept; a bill does not pass before
  the recording of an answered call is known; a record is removed exactly when
  billing is over.
* handlers: the record says what happened to the call (who ended it, whether an
  agent answered, why not).
* billing: one bill per call, stored a second time only when the answer to the
  insert was lost; what is posted is what was stored; nothing is
  posted before it is stored, nor again after the customer confirmed it; a call
  is forgotten only when its bill is settled.
* access numbers: a caller gets a 400 number that was bound to the number he
  dialled; a bound number is found; the platform knows only numbers the table
  has; the table has one row for a number; no number is lost. The last three do
  not hold of the code in every case; the properties say which cases those are.
* charge: the rounding of minutes agrees wherever it is computed.
* log: the lines of a goroutine come out in order and once; no rotation replaces
  an old file; who logs gets on while the writers live.
* MySQL connection: a call reads only its own answer and leaves nothing behind;
  an insert is repeated only when the answer to an earlier one was lost.
* pool: connections are counted, with one user at a time, handed out as clean as
  new ones; nobody waits while one is free.

The hazards, each at its line with the properties that cover it, are in
`PROJECT.json`.

## 2. Modules

    CallManager   IpccPlatform          Billing (abstract)
          \         /                      ^
          LianjiaServer  ---- B == INSTANCE Billing
            /        \
      MCServer     LianjiaServerProofs (TLAPS)
                       |
                   GoroutineLines
                       |
                   CallSound
                       |
                   SerialProofs (TLAPS)

              NumberBinding
              /          \
      MCBinding      NumberBindingProofs (TLAPS)

              LogWriters  ---- three INSTANCEs of RecordQueue (abstract)
              /        \
          MCLog      LogWritersProofs (TLAPS)

              MysqlConn  ---- Inserts == INSTANCE RetriedInsert (abstract)
              /       \
          MCMysql    MysqlConnProofs (TLAPS)

              RedisPool
              /       \
          MCPool     RedisPoolProofs (TLAPS)

| Module | Models | Role |
|---|---|---|
| `CallManager` | `callManager.go` | what each operation makes of a record; no variables |
| `IpccPlatform` | the platform, from `ipccRequest.go`, `ipcc.go` and `eventProc` | the states of a call, how requests, the parties and timers move it |
| `LianjiaServer` | `server.go`, with what it uses of `ljClient.go`, `sqlClient.go`, `main.go` | the composition: goroutines, list of calls, billing, crashes |
| `Billing` | nothing line by line | what the server promises about bills |
| `MCServer` | - | the two calls `m` (virtual mobile number) and `f` (fixed line) |
| `LianjiaServerProofs` | - | theorems and proofs |
| `GoroutineLines` | - | the lines of the goroutines: what is left to do at each, which line follows; lemmas |
| `CallSound` | - | what a record says at each line, and that every step keeps it; lemmas |
| `SerialProofs` | - | theorems about calls whose goroutines did not overlap |
| `NumberBinding` | `changeBindNumber` and `Start` of `server.go`, `GetbindNumber` and `BindNewNumber` of `sqlClient.go`, `readBindNumber` of `main.go`, `AddNbr` of `conf.go` | the server's cache and the `-b` commands, over table and Redis entry |
| `MCBinding` | - | two access numbers, two 400 numbers, two sets of contents of `bind.txt` |
| `NumberBindingProofs` | - | theorems and proofs |
| `LogWriters` | `log4go.go`, `wrapper.go`, `filelog.go`, `termlog.go`, `config.go`, as `main.go` uses them | loggers, writers, files, `main()` |
| `RecordQueue` | nothing line by line | what one writer promises those who log |
| `MCLog` | - | `main()` and one goroutine, of different levels |
| `LogWritersProofs` | - | theorems and proofs |
| `MysqlConn` | `packets.go`, `connection.go`, `buffer.go`, `statement.go`, `rows.go`, `driver.go` | one connection, the server behind it, database/sql before it |
| `RetriedInsert` | nothing line by line | what storing a bill promises when inserts are tried again |
| `MCMysql` | - | any call of `sqlClient`, and then a bill |
| `MysqlConnProofs` | - | theorems and proofs |
| `RedisPool` | `pool.go`, `commandinfo.go` and what they use of `conn.go` | users, pool and connections |
| `MCPool` | - | three settings of the pool, two users |
| `RedisPoolProofs` | - | theorems and proofs |

The libraries are modelled each by itself. They share no state with the server;
what `LianjiaServer` and `NumberBinding` assume of them is in their actions. An
insert or update is what `RetriedInsert` promises and `BillsAreRetried` checks of the
connection: tries whose answer is lost (`InsertLost`, `AnswerLost`), each of which MySQL
may still do, even after the program has gone on (`LateInsert`, `LateWrite`), at most
`MaxTries` in all, and at the end one that is answered (`Bill2Sql`, `Write`) or a failure
(`Bill2SqlPanics`, `WriteFails`). Logging is no step, since it blocks nobody as long as
the writers live (`LogReturns`). The Redis connection of `AddNbr` is the steps
`Dial`, `HGet` and `HSet` of `NumberBinding`.

`NumberBinding` and `LianjiaServer` meet in `changeBindNumber`: the latter knows
of it only whether it found a number (`ChangeBindNumber`, fault `bind`). The two
share no other state, so each is checked by itself.

### How state corresponds to code

| Variable | Code |
|---|---|
| `callList[c]` | `CallList[callId]`; `NoCall` for a missing key |
| `todo[c][h]` | the statements goroutine `h` of call `c` still has to execute |
| `val[c][h]` | the local `info` of an `Update*` function between copy and store |
| `billPc[c]`, `billCall[c]`, `tries[c]` | where `billMsgProc` is, its `call`, its loop variable `i` |
| `acked[c]` | the result of the last `PostBill` |
| `rows[c]` | the rows of the call in the bill table |
| `lost[c]`, `doubt[c]` | how many inserts of the call had no answer; those of them MySQL may still do (neither known to the code) |
| `received[c]` | the bills the customer's server got (not known to the code) |
| `up`, `kills` | whether the process runs; how often it was killed |
| `phase[c]` | the call's state on the platform |
| `overlapped` | history: the calls of which a goroutine was started while another one was running |
| `endedBy[c]`, `talked` | history: who released the caller's leg, which calls an agent answered |

A record keeps the fields on which decisions or properties depend. Time stamps
are unset or set, a recording is unset or a URL, duration, charge and bill time
are one field (they are always written together). The results are the code's
own; those which the code treats alike are cut down by `Reasons`. `TP_TIMEOUT`
is missing because it is never stored: `GetServiceNum` never returns the error
`TimeOut`.

`NumberBinding`:

| Variable | Code |
|---|---|
| `table`, `testTable` | `tb_ipcc_lianjia_number_appid` and `..._test`; the fields `by`, `line` and `try` keep equal rows apart, which a table without a unique key does |
| `late` | the statements without an answer that MySQL may still do |
| `entry` | the field of the application in the Redis hash `AppHash`: its `NBR` list, and of the other fields whether they are plain, escaped, broken or blank |
| `number2nbr`, `up` | the server's map; whether the server runs |
| `pc`, `nbr`, `unread`, `found` | a goroutine in `changeBindNumber`: where it is, its argument, the rows `sqlRow.Next` has still to yield, `bindNumber` |
| `cpc`, `file`, `mode`, `line`, `insertFlag`, `lost`, `appInfo` | a `-b` command: where it is, its `bind.txt`, the option `debug` it read at its start, the line it is at, the locals of `BindNewNumber` and `AddNbr`; `lost` counts the tries of a statement that had no answer |
| `known` | history: the number had a row when the lookup began |
| `doubled` | history: the numbers inserted in spite of a row, or of another insert that may be done |
| `dropped` | history: the numbers a command went on from without a binding, because the statement failed or was made in debug mode |
| `overtaken` | history: the commands that hold an entry which is not the one in Redis any more, or the empty one of a failed HGET |

`LogWriters`:

| Variable | Code |
|---|---|
| `filters`, `closed` | the keys of the map `Global`; the channels `Close` has closed |
| `pc`, `seen`, `to` | a goroutine in `intLogf`: where it is, the filters its loop has reached, the one it sends to |
| `channel`, `writer`, `hand` | of each writer its channel, where its goroutine is, the record it took |
| `files`, `disk` | the log files by number (0 the current one) and the records in them |
| `lines`, `size`, `midnight` | `maxlines_curlines`, `maxsize_cursize`, whether the day is not `daily_opendate` |
| `logged`, `wrote` | history: how many records a goroutine made; what each writer wrote |

`MysqlConn`:

| Variable | Code |
|---|---|
| `open`, `sequence`, `buffer`, `status`, `unread` | of `mysqlConn`: `netConn` is not nil, `sequence`, `buf`, `status`; `rows.mc` is not nil, of the rows in use |
| `todo` | the reads and writes the call of the driver has still to do |
| `link`, `toServer`, `toClient`, `late` | the TCP connection, what is on its way in it, inserts a dropped one left with the server |
| `job`, `kind`, `doing`, `pooled`, `prepared`, `stage`, `tries` | database/sql: the call of `sqlClient` in progress, where it is, whether there is a connection and a statement, the retry counter |
| `executed` | inserts done by the server |
| `attempts`, `lost`, `cmd`, `overrun` | history: inserts written, inserts without an answer, the number of the command, a call that reads on after an error |

`RedisPool`:

| Variable | Code |
|---|---|
| `pool`, `active`, `idle`, `closed` | the settings and fields of `Pool` |
| `at`, `has` | a goroutine: between which two sections of the mutex it is, its connection |
| `closing` | connections `Pool.Close` has taken off the list and has still to close |
| `pending`, `err`, `stream` | `conn.pending`, `conn.err`, the replies that will be read |
| `state`, `special` | `pooledConnection.state`, and what the server has the connection in |
| `exists`, `broken` | connections dialled and not closed; those the network has ended |
| `refused` | history: connections on which the server refused a user's UNWATCH |

### How actions correspond to code

* A **notification** is an action of the platform and of the server together
  (`InCallNotified` ... `BillNotified`): the platform's state changes and
  `eventProc` starts the goroutine, whose whole program becomes `todo[c][h]`.
  `InCallProc`, `DtmfProc`, `CallStatFailed`, `EndCallProc` etc. are those programs,
  call for call, in the order of the source. What the notification says (a complete extension or
  not, a recording or not, which status) is an argument.
* A **goroutine step** executes the head of `todo[c][h]`. `CopyOut` and
  `StoreBack` are the two halves of every update; `InNewCall`, `FindCall` and
  `ExtCheck` access the list once. `SendRequest` is a request to the platform
  with its three failures: refused, lost, carried out with its reply lost.
  `GetServiceNum` continues with one of the code's branches;
  `GetServiceNumPanics` is the failed lookup. Early returns replace the rest of
  the program.
* **`billMsgProc`** has its own program counter: `BillCopyOut`,
  `BillStoreBack` (`UpdateCallBill`), `WaitForSound`, `BillFind`, any number of
  `InsertLost` up to `MaxTries` and then `Bill2Sql` or `Bill2SqlPanics`, `PostBill` (up
  to `PostTries` = 6), `DelCall`. `LateInsert` is MySQL alone, at any time.
* **The process ends** by `Kill` (from outside), by `MapThrow` (the runtime saw
  concurrent use of the map; it may, it need not), or by one of the panics
  `GetServiceNumPanics`, `Bill2SqlPanics`, `ParseBillPanics`. `Start` is a
  restart with an empty list; a notification while `~up` is lost.

* **A lookup** (`NumberBinding`) reads the map (`ReadMap`), and if it found
  nothing queries the table (`Query`), stores the rows one by one (`FillRow`, in
  any order), and reads the map again (`Reread`). `FillEnds` may come early when
  the connection is cut, which the code does not notice.
* **A command** goes through `bind.txt` line by line (`ReadLine`), with one step
  for the SELECT and one for each try of the INSERT or UPDATE of each line (`Select`,
  `AnswerLost`, `Write`, `WriteFails`; `LateWrite` is MySQL alone), then connects to Redis (`Dial`), reads the entry (`HGet`,
  `HGetFails`) and writes it back (`HSet`, `HSetFails`). `Interrupt` stops it
  anywhere; a line without a comma makes it panic.

* **Logging** (`LogWriters`) is `Log`, which makes the record, then a `RangeStep` per
  filter in any order, with a `LogWrite` that waits for room where the level is
  accepted, then `RangeEnds`. A writer's goroutine is `Take`, then `PrintLine`, or
  for the file `Rename` or `NothingToRename`, `Open` and `WriteFile`; `DiskError` and
  `NoFreeNumber` make it return. `main()` is `LoadConfiguration`, a `Close` for each old
  filter, `NewWriters`, `Open`; at the end `Crashf`, `CrashfCloses`, `CrashfPanics`.
* **A call of the driver** (`MysqlConn`) gets its list of reads and writes from `Open`,
  `Ask`, `NextRow` or `CloseRows`; `WritePacket`, `Receive`, `ReadPart` and `Read` do them one by
  one, and `ReadError`, `ReadFails`, `WriteFails`, `OutOfSync` are its error returns. `GoesOn`
  says what each read does with each packet. `Serve` answers with any of `Replies`.
  `Broken` and `TryAgain` are database/sql's treatment of `ErrBadConn`.
* **Get** (`RedisPool`) is `Prune`/`PruneClose`, then `TakeIdle` with `TestPasses` or
  `TestFails`, or `GetDials` with `DialOk` or `DialFails`, or `CondWait`, `Exhausted`,
  `GetOnClosed`. **Close** of a connection is `Close`, `Unsubscribe`, `Drain`, `Flush`,
  `Put` or `PutTooMany` or `PutForced`, `ConnClose`. `PoolClose` and `PoolCloses` are
  `Pool.Close`.

### Abstractions to know of

* `bind.txt` is the sequence of lines `ReadString` yields (so a last line without
  a newline is none), each a binding or a line without a comma.
* The command to write the Redis entry may be carried out and its reply lost;
  the command then ends differently, but leaves the same behind.
* The platform notifies each thing once, so a call has at most one goroutine of
  each kind. Repeated delivery is left to a variant of the platform (plan).
* A torn copy of a record (the struct copied while another goroutine writes it)
  is not modelled: the map hands out copies, and stores are of whole values.
* State reports concern the agent's leg (`dir` = 0); the handler's default branch
  would store OTHER for one of the caller's leg.
* Status 5 of `callStatProc`, for which the code does nothing, changes nothing
  on the platform either.
* The test record that `CallInit` inserts is left out; no notification names it.
* `callPlayVoiceDone` runs in the goroutine of the HTTP request, not in one of
  its own; both are goroutines that interleave with the rest.

## 3. Constants and bounds

| Constant | Meaning | Values checked |
|---|---|---|
| `Calls`, `Mobile` | the calls; those to virtual mobile numbers | one or two calls, one of each kind |
| `Faulty` | collaborators that may fail, `FaultKind` | per run, every kind in some run |
| `MaxThreads` | goroutines of one call that may be running when the next notification starts one more | 0 (one after the other), 1 (pairwise overlap) |
| `MaxKills` | kills from outside | 0, 1 |
| `MaxTries` | how often database/sql sends a statement | 2 (3 in database/sql) |
| `Reasons` | results considered of those treated alike | one or two of `LookupReason` and of `StatReason` |

Two calls are enough to see one call's panic or map abort end another's billing;
otherwise calls share nothing but the map. Pairwise overlap shows every lost
update, since one needs two goroutines. A second kill meets the same states as
the first. Two tries show an insert that is sent again, one that is answered after
one that was not, and one none of whose tries was. `PostTries` is the code's own 6. The
proofs do without any of these bounds.

Of `NumberBinding`:

| Constant | Meaning | Values checked |
|---|---|---|
| `Nbrs`, `Numbers` | access numbers, 400 numbers | two of each; `n` is bound to `x` at first |
| `Files` | the contents `bind.txt` may have | `bind_lookups`: nothing; a binding of `n` to `y`; a new number and then that; a new number and then a line without a comma. `bind_commands`: a new number to `x`; the same number to `y` and a line without a comma; `n` to `y` |
| `Commands` | the runs of `-b`, all of which may run at once | one; two in `bind_commands` |
| `Lookups` | goroutines in `changeBindNumber` | two; none in `bind_commands` |
| `Modes` | the option `debug` of `app.conf`, which every command reads at its start | live and debug |
| `MaxTries` | how often database/sql sends a statement | 2 (3 in database/sql) |
| `Broken` | the calls that may fail, `FaultKind` | the query of the server and lost answers in `bind_lookups`, all failures of a command in `bind_commands` |

Two numbers show a lookup of one disturbed by the row of the other, two commands
one that goes on where another was interrupted or reads what another is about to
write, two lookups the interference of goroutines. Every
kind of change of a row occurs: first binding, rebinding to another number,
the same again. Reads that are cut off (`cut`) are in no run: with them `FoundIfBound`
fails, and that `CacheIsAsked` holds with them is proved.

Of `LogWriters`, in the run `log_rotated`:

| Constant | Code | Value |
|---|---|---|
| `Goroutines`, `NRecords` | those who log | `main()` once, at a high level, and another twice, below the level of the consoles |
| `LogBufferLength` | 32 | 1, so that a goroutine blocks on its second record |
| `MaxLines`, `MaxSize` | of a file | 2 and 3; `main()`'s record fills a file by its bytes |
| `MaxNumber` | 999 | 1: the second rotation finds no free number |
| `Rotate`, `Daily`, `DiskFails` | options; faults | on; one midnight at a time, any number of failures |

Three records fill a file, rotate it and need a second rotation. That no
number is free is met after one; a search among several free numbers is
`FreeNumbers`' least element whatever their count, which the mutant of `DiskHolds`
breaks with one number as well. The proofs have no bounds.

Of `MysqlConn`:

| Constant | Code | `mysql_retry` | `mysql_row_error` |
|---|---|---|---|
| `NJobs`, `Kinds` | calls of `sqlClient` | any call, then a bill | any call |
| `MaxTries` | 3 in database/sql | 2 | 2 |
| `MaxBreaks` | - | 2 | 1 |
| `SequenceSize` | 256 | 4 | 4 |
| `MaxRows` | rows of an answer | 1 | 2 |
| `BigRows`, `MoreResults` | rows of 2^24 - 1 bytes and more; several results | yes, yes | yes, no |

The second call finds whatever the first left on the connection. One retry shows
the repeated insert, two breaks a retry that fails like the first try. Sequence numbers
wrap within one answer when there are four of them, so an old packet may carry
the number that is expected; with 256 this needs an answer of that length.

Of `RedisPool`, in the run `redis_pool`: two users, two connections, and three settings
of the pool: one connection that is waited for, tested when borrowed and pruned when idle too
long; one that is neither kept nor waited for; two of which one may be idle. One user
gets a connection twice and sends WATCH, UNWATCH, MULTI, EXEC or DISCARD,
SUBSCRIBE (three of them on the pool of the first settings, which is what it takes to leave a watch, one
on that of two connections); the other gets one and sends nothing (`MaxGets`, `MaxSends`). One connection breaks (`MaxBreaks`).
MONITOR, which differs from SUBSCRIBE in the model by its flag alone, and UNSUBSCRIBE by the user are in
the module but not in the run. A waiter, one who has what he waits for, and one who takes it from under
him are all there with two users, since a user who closes may get again.

## 4. Runs

`tlc -config X.cfg M`, with the module `MCServer`, `MCBinding`, `MCLog`, `MCMysql` or `MCPool`.
Deadlock is not checked where the system really stops: finitely many calls are
made, so the server stops when all are billed, a `-b` command ends, the calls of
`sqlClient` and the uses of the pool are bounded. `log_rotated` may be restarted
for ever and is checked for deadlock.

| Run | Bounds | Properties | Shows |
|---|---|---|---|
| `two_calls` | both calls, serial; faults request, record, bind, store, lost | `RowComplete`, `AnsweredMeansTalked`, `ReasonIsTrue` | when a call's goroutines do not overlap, every stored bill is complete and says what really happened, whatever is lost or ends the process, and whatever the other call does |
| `overlap` | the fixed-line call, pairwise overlap, one kill; faults post, request, detail, store, lost, lookup | `TypeOK`, `BillInv`, `BillsAgree`, `DeleteOnlyWhenSettled`, `KeepsBillingPromise`, `AnsweredMeansTalked`, `ReasonIsTrue`, `FirstResultStays` | whatever the interleaving, all rows and posts of a call are one bill, a row is added only once and once for each lost answer, and the server implements `Billing`; a call whose goroutines happened not to overlap has a true bill, and keeps its first result |
| `retired` | the fixed-line call, serial, `FairSpec`; faults request, post, lost, bind | `EveryRecordRetired` | every record is removed in the end |
| `bind_commands` | two commands at once, both modes; all faults of a command | `OneRowPerNumber`, `RoutedIsBound`, `BoundAsWritten`, `EntryKeepsNumbers` | wherever commands are interrupted, interleave or fail: a second row comes only from an insert beside a row or beside another insert; an answered statement leaves the binding of its line; the platform sends calls only for numbers in the table and those a command dropped; Redis loses numbers only to a command that was overtaken |
| `bind_lookups` | two lookups, one command; both modes; faults query, lost | `TypeOK`, `CacheIsAsked`, `FoundIfBound` | goroutines that fill the same map row by row disturb each other only by aborts of the runtime; what is bound in debug mode never reaches a caller |
| `log_rotated` | section 3, `FairSpec` | `TypeOK`, `OrderKept`, `LoggedEverywhere`, `DiskHolds`, `FileLimit`, `WritersAreQueues`, `LogReturns` | no record is reordered, doubled or left out between the call and the file, no old file is replaced, files keep their limits, each writer implements `RecordQueue`, and who logs gets on unless the writer has stopped |
| `mysql_retry` | section 3, `FairSpec` | `TypeOK`, `AnswersMatch`, `NothingLeft`, `StoredAsReported`, `BillsAreRetried`, `CallReturns` | a call reads only its own answer and leaves nothing for the next one; a bill is stored more than once, or stored and reported failed, only after a try whose answer was lost |
| `redis_pool` | section 3, `FairSpec` | `TypeOK`, `ActiveCounts`, `NotShared`, `IdleIsClean`, `NoWakeupLost`, `NoLeak`, `GetReturns`, `CloseReturns` | connections are counted, have one user, are handed out clean, none leaks and nobody waits for ever |

What a bill says (`RowComplete`, `AnsweredMeansTalked`, `ReasonIsTrue`, `FirstResultStays`)
is promised of the calls outside `overlapped` only, and that is a result in itself: of a call
whose goroutines did overlap each of the four fails, see below. Seen together, the runs
say that the unlocked read-copy-store damages *what* a bill says but never the
billing protocol itself. Nothing in the code keeps the goroutines of a call apart;
the condition is about what happened to a call, not about how the server is set up.

A bill may have several rows: `stmt.Exec` in `Bill2Sql` (`sqlClient.go:271`) goes through
database/sql, which sends the insert again when a connection breaks before the
answer came (`packets.go:120`), and MySQL may have done it, or do it later. `BillsAgree`
bounds their number by the lost answers, `Billing` has them too, and all rows
are equal. The key of the table is a number MySQL makes up (`sqlClient.go:25`), so nothing
refuses the second row.

`EveryRecordRetired` likewise fails with overlap: a goroutine that copied the
record before `DelCall` stores it back afterwards, and nobody removes it again;
and with the fault `record` `billMsgProc` waits for ever for a recording that
does not come. No comment of the code promises otherwise, so these are recorded
as hazards and not as findings.

The three history variables of `NumberBinding` name the cases in which the code
breaks what one would wish for, which no comment denies; the properties say that
there are no others. `doubled`: a SELECT that fails counts as "not bound yet"
(`sqlClient.go:338`), two commands may both find no row before either inserts, and an insert
whose answer is lost is sent again; the number then has two rows, and a lookup finds
either. `dropped`: a failed INSERT leaves a number in Redis that the table does
not have (`main.go:62`), and so does a command in debug mode, which binds in the test table only.
`overtaken`: a failed HGET empties the Redis entry (`conf.go:273`), and of two
commands that both read the entry before either writes it the second takes the first one's
numbers out. Further, a connection cut while rows are read makes a lookup find nothing
(`sqlClient.go:309`); an UPDATE of which a try is done late takes the table back to an
earlier binding, which `CacheIsAsked` allows, as it was asked for. A number bound to
another 400 number keeps the old one for callers until the server is restarted
(`server.go:128`); `CacheIsAsked` allows for that. The entry is written back
without escaping its fields (`conf.go:293`): if one holds an escaped `&` or `<`, it
does not parse after the first command, and later commands change the table but not Redis.

What the models of the libraries allow, because the code does it:

* `Close` and `Crashf` end the process, or the writers, without waiting for what is in
  the buffers: those records are lost, the reason of the crash among them
  (`RecordQueue`'s `Restart`). The comment at `log4go.go:160` offers `Close` to those who want
  all messages written.
* The day of a file is its number in the month (`filelog.go:97`): a file last used a
  month ago to the day is not rotated. The model has one midnight at a time.
* Without rotation a file is appended to for ever, although the comment at
  `filelog.go:220` says it is overwritten; `FileLimit` is about rotation.
* A row of exactly 2^24 - 1 bytes ends in an empty packet, which `readPacket` takes for
  a broken connection (`packets.go:41`): the row cannot be read.
* `ErrPktSync` is not `ErrBadConn`, so a call whose answer is preceded by the error of a server
  that ended the idle connection fails and is not tried again (`packets.go:50`).
* `pooledConnection.state` follows the commands sent: DISCARD outside a transaction clears
  the watch flag, though the server keeps the watch (`pool.go:368`). `IdleIsClean` is
  about users who send EXEC and DISCARD in a transaction only (`Legal`).
* For the same reason a watch stays on an idle connection after WATCH, SUBSCRIBE, UNWATCH: the server
  refuses the UNWATCH of a subscriber, `Do` and `Send` have cleared the flag by then, and `Close`
  undoes the subscription only. The next user's EXEC then fails when the watched key changes.
  This came out of the proof of `IdleIsClean`, which allows for it (`refused`); nothing in
  the repository says what `Close` does about a refused command.

### Disagreements between code and comments

Each of these runs looks at one property taken from a comment and ends in a
counterexample.

| Run | Property | What happens |
|---|---|---|
| `lookup_panics` | `LookupIsFollowedUp` | `ljClient.go:209` dereferences the missing response before testing the error: a number service that does not answer ends the process, the branches for that error are unreachable |
| `result_overwritten` | `ResultNotReplaced` | two goroutines both see no result; the second replaces the first one's |
| `no_record` | `AnsweredRowHasRecord` | `UpdateCallStartTime`, which copies and stores the record after the answer was stored, puts RING in the place of ANSWER; the result ANSWERED stays, but the bill no longer waits for the recording, and is stored before the goroutine of the call's end has set it |
| `mysql_row_error` | `NeverWaitsForNothing` | `packets.go:728` says that `readUntilEOF` reads until an EOF packet "or an Error appears"; an error packet is skipped like a row, and `Close` of rows the server failed in waits for packets that never come. The DSN sets no timeout |

Three more follow from the same model and have no run of their own:

* an unanswered call is stored and posted with an empty answer time, where
  `callManager.go:26` and the comment of the column at `sqlClient.go:34` ask for
  `0000-00-00 00:00:00`: nothing in the code sets it. No property takes a side: `AnsweredMeansTalked` speaks of the
  answer time of answered calls only;
* when the end of a call is handled before its beginning, its bill is stored without an
  end time, which `sqlClient.go:35` says is NOT NULL (`RowComplete` is about
  goroutines that did not overlap);
* a call to a mobile number, which has no extension, is billed as
  `NOEXT_USER_HANGUP` when the caller leaves early (`server.go:479`), which
  `server.go:35` explains as "hung up without dialling the extension".

## 5. Fairness

`FairSpec` of `LianjiaServer` is used by `retired` alone. It assumes weak fairness of

* `BillStep(c)` and `Step(c, h)`: the Go scheduler runs every goroutine that can
  run; the waits (one second, the retry delays) end. This excludes a request
  that never returns, which the HTTP client without a timeout would allow;
* `UserLeavesUnnotified` and `HangupNotified`: a caller does not stay on the line
  for ever;
* `UserEndNotified`, `BillNotified`: the platform reports the end of a call and
  its bill, which the code relies on (`billMsgProc` is the only way out of the list).

Nothing is assumed of `Kill`, `Start`, the agent or the digits. While the process
is down the list is empty, so the property does not need a restart.

`FairSpec` of `LogWriters` assumes weak fairness of each writer's goroutine, and strong
fairness of `LogWrite(g)`: the Go runtime serves the goroutines that wait to send on a
channel in the order they came, so none waits while others send again and
again. Nothing is assumed of the disk, of `main()` or of kills.

`FairSpec` of `MysqlConn` assumes that the goroutine of a call runs (`Driver`) and that the
server answers what it got (`Serve`). A connection may break, but need not: this is why a
call that waits for packets nobody will send is excluded from `CallReturns` by `overrun`, and found
by `mysql_row_error`.

`FairSpec` of `RedisPool` assumes that each goroutine in `Get` or `Close` runs and that a
user closes its connection in the end (`Close(u)` is a `CloseStep`). `sync.Cond` wakes those who wait in
some order; the model leaves the choice open and `GetReturns` holds since a bounded
number of `Get`s can come before one that waits. With unbounded ones a goroutine
that comes by could take the connection a waiter was woken for again and again, which
`pool.go:272` does not exclude.

## 6. What is proved

Five theorems of `LianjiaServerProofs`, four of `SerialProofs`, seven of
`NumberBindingProofs`, six of `LogWritersProofs`, six of `RedisPoolProofs` and five of
`MysqlConnProofs`.

### The server

`LianjiaServerProofs`, for every set of calls, every subset of faults, any
number of overlapping goroutines, tries and kills, under the three assumptions
`NoCallAssumption` (the missing-key value is not a record), `FaultyAssumption`
and `ServerAssumption` (constants are of their kind; TLC evaluates them in
every run):

| Theorem | Statement |
|---|---|
| `TypeCorrect` | `Spec => []TypeOK` |
| `BillsInOrder` | `Spec => []BillInv` |
| `BillsAlwaysAgree` | `Spec => []BillsAgree` |
| `DeletesOnlyWhenSettled` | `Spec => DeleteOnlyWhenSettled` |
| `ImplementsBilling` | `Spec => KeepsBillingPromise`, that is, `LianjiaServer` implements `Billing` |

The argument. `BillsAgree` is not inductive: that a post sends the stored row
depends on `billMsgProc`'s local copy, the number of rows on `billMsgProc` running once and on
the inserts MySQL may still do, and all of that on where it is. `BillInv` says this, by
program counter: before `Bill2Sql` there is no insert and nothing was sent; at
`Bill2Sql` rows and inserts in doubt together are no more than the lost answers, and
afterwards one more; after it the local copy *is* every row until the post is settled; rows,
inserts in doubt and posts never differ; a call that was not
billed by the platform has no `billMsgProc` and no row; a process that is down
has neither list nor goroutine. `Inv == TypeOK /\ BillInv` is
inductive, and `BillsAgree` follows from it. Its proof has one lemma per action for
types (`StepTyped`, `BillStepTyped`, `PlatformStepTyped`, `ProcessStepTyped`) and one per group of
actions for the bills (`...KeepsBills`); goroutine steps disturb only
`callList`, `todo` and `val`, which `BillInv` mentions only for a process that is down.

The refinement proof maps each step under `Inv`: `InNewCall` and a store-back to
`Register` or a stutter, `InsertLost` to `Lose`, `Bill2Sql` to `Store`, `LateInsert` to `Late`,
`PostBill` to `Send`, `DelCall` to
`Forget` (this is where `BillInv`'s "settled" is used), a `billMsgProc` that finds no record
to `GiveUp`, every end of the process to `Crash`, all else to a stutter.

### The server, where the goroutines of a call did not overlap

`SerialProofs`, under the same assumptions and no others, for any `MaxThreads`: the
goroutines of a call may overlap, and the properties speak of the calls of which they never did
(those outside `overlapped`), whatever the goroutines of other calls do meanwhile, with all faults,
kills and restarts. The runs `result_overwritten` and `no_record`
show what becomes of these properties for calls in `overlapped`.

| Theorem | Statement |
|---|---|
| `RowsComplete` | `Spec => []RowComplete` |
| `AnsweredOnlyIfTalked` | `Spec => []AnsweredMeansTalked` |
| `ReasonsAreTrue` | `Spec => []ReasonIsTrue` |
| `FirstResultsStay` | `Spec => FirstResultStays` |

What a bill says depends on all that happened to the call: the record is filled by
up to six goroutines, each at its own place, and read by a seventh. No invariant about the
record alone is inductive. `SerialInv` says, for each call that is not `overlapped`, at which *line* its only
goroutine is: `Lines` names the lines of each goroutine, `Code(c, h, l)` is what is left to
do at line `l`, `After` the lines that can come next, and `GoroutineLines` proves
that the first step of `Code(c, h, l)` leaves `Code` of one of them. `CallSound` says what the
record holds at a line, given the phase of the call at the platform, who ended it and whether
anyone talked (`Sound`), and has one lemma per step that changes any of the four. `Fresh` adds
that the record a goroutine has in hand is the one in the list: what overlapping
goroutines would break. A call that begins to overlap leaves the invariant, and steps of other calls do not
touch it (`OthersKeep`). `Bills` carries this over into `billMsgProc` and the stored row.
The four theorems then read their property off `Bills`, or off `Sound` at the line of the update.

### Access numbers

`NumberBindingProofs`, for every set of numbers and lookups, every finite set of
commands and every set of files, under `BindingAssumption` (the constants are of their kind, the
table has at first one row for a number, and Redis only numbers of the table):

| Theorem | Statement | Needs |
|---|---|---|
| `BindingTypeCorrect` | `Spec => []TypeOK` | - |
| `CachedWasAsked` | `Spec => []CacheIsAsked` | - |
| `BoundIsFound` | `Spec => []FoundIfBound` | no read is cut short |
| `RoutedStaysBound` | `Spec => []RoutedIsBound` | - |
| `OneRowKept` | `Spec => []OneRowPerNumber` | - |
| `BoundStaysWritten` | `Spec => BoundAsWritten` | - |
| `EntryKeeps` | `Spec => EntryKeepsNumbers` | - |

Only `BoundIsFound` has an ASSUME, without which the code breaks it; all failures and
interleavings of commands are in the others. `Inv` adds to the types that the lines behind a command are
bindings (`LinesRead`); on it rest the other invariants. `AskedInv`: every row of the
table, every row a goroutine has yet to store, every cached and every found number, and
every statement MySQL may still do was asked
for; steps of commands only add to what was asked (`AskedGrows`). `FoundInv`: until a
lookup has stored the row of its number, that row is still to come, and
afterwards the map has the number, since no statement removes a row (`RowsStay`) and
no store removes a number. `RowInv`: a number outside `doubled` is `Lone`, that is, it has
at most one row, at most one command is about to insert it, none is while it has a row, and no
insert of it may be done late; and a command that is about to update
a number finds a row of it. `WriteSays` reads off it what an answered statement leaves. `RoutedInv`:
the numbers in Redis, in the entry a command read, and of the lines behind a command all
have rows or were dropped (`Served`). `EntryInv`: a command between HGET and HSET has read the entry
that is there, unless it was overtaken.

### The log

`LogWritersProofs`, for any goroutines and records, any lengths of the buffers, limits and
numbers of files, with failures of the disk, kills and restarts, under `LogAssumption`:

| Theorem | Statement |
|---|---|
| `LogTyped` | `Spec => []TypeOK` |
| `OrderAlwaysKept` | `Spec => []OrderKept` |
| `AlwaysLoggedEverywhere` | `Spec => []LoggedEverywhere` |
| `WritersKeepPromise` | `Spec => WritersAreQueues`: each writer implements `RecordQueue` |
| `DiskAlwaysHolds` | `Spec => []DiskHolds` |
| `FilesStayWithinLimit` | `Spec => []FileLimit` |

`Inv` adds to the types which writer has a record in hand, where it is (`HandInv`), and that a
goroutine in `intLogf` has made a record (`MadeInv`). `OrderKept` is about three sequences joined;
`OrderInv` says the same of each and of every pair of them, and that the newest record of a goroutine
that has not returned is with a writer only if its loop was there and is not about to send to it
(`Made`): so the record a `LogWrite` appends is newer than all of that goroutine
the writer has. Every step of the writers keeps what each of them has (`Kept`), or the writer stops, or
the process ends. For `LoggedEverywhere`, `SentInv` says that a writer a loop has been
at has the record, and `LoopInv` that the filters of a serving process are those
of the loops that ended in it: `Open` brings the new ones in only while all loops were over the old one.
For the refinement `QueueStep` says of one writer what a step of `RecordQueue` is, and
`QueueNext` that every step is one for every writer.

`DiskHolds` speaks of all files joined and `FileLimit` of sums of bytes: recursive functions, whose
values only an induction gives. The library's induction theorems take an operator, which the provers cannot
instantiate; `WFMin` takes a set. So `Least` says that a set of numbers has a least one,
`Induction` that a set that has 0 and with each number the next one has them all, and
`Recursion` that a function defined from the value before exists, from which `JoinsAre` and
`SumsAre` get the equations of `Numbered` and of the sums of `BytesOf`. The lemmas behind them say what
each write does to both: the files joined do not depend on the files behind (`JoinsAgree`), empty files
add nothing (`JoinsStop`), a record appended adds its bytes (`BytesOfAppend`).

`DiskInv` is what the steps keep. Its first part, `FilesInv`: the numbered files
are the first numbers, without a gap, what is no file has no records, a writer that
writes has its file open, and all that was written is in the files. `intRotate` renames the
current file to the first free number; only as there is no gap does that put it behind all older
ones (`RenameJoins`). The second, `LimitInv`: with rotation no file is beyond the limit (`WithinLimit`), and while one
is open `lines` and `size` are its records and bytes, as the test before a write trusts,
also when it was opened with what an earlier process had left in it. Three steps touch the
files, with a lemma each (`WriteFileKeeps`, `RenameKeeps`, `OpenKeeps`); `FilesSame` says of all others that they do not.

### The pool

`RedisPoolProofs`, for any finite sets of users and connections, any settings and commands,
under `PoolAssumption`:

| Theorem | Statement |
|---|---|
| `PoolTyped` | `Spec => []TypeOK` |
| `NeverShared` | `Spec => []NotShared` |
| `NeverLeaks` | `Spec => []NoLeak` |
| `NeverTooMany` | `Spec => []ActiveCounts` |
| `NoSignalIsLost` | `Spec => []NoWakeupLost` |
| `IdleAlwaysClean` | `Spec => []IdleIsClean` |

`Inv` adds to the types who holds a connection where. `Held` is `NotShared`, `NoLeak` and that `closing`
has no idle connection: each step moves at most one connection from one holder to another.
`ActiveCounts` is inductive with it; its steps are lemmas on the cardinality of `At(Holding)` when one
goroutine moves. `NoWakeupLost` needs more (`Wakes`): only pools with a limit that wait have
waiters, and each of the places that lower `active` or lengthen `idle` wakes one of
those who wait, so the free connections never outnumber the woken.

`IdleIsClean` speaks of connections nobody uses; its invariant `CleanInv` says, for each place a
user can be, how its connection stands there (`Stands`). In use, the flags of
`pooledConnection` cover what the server has it in, but for a watch that was refused (`Marks`), and the
replies are as many as `conn` counts unless messages can come in between (`Used`). After
the first step of `Close` no transaction is left, and a watch only with an error among the
replies (`Subscribed`); when UNSUBSCRIBE and ECHO were sent the sentinel is the last
reply and that error is before it (`Drained`), so either the sentinel is read and everything before it
was too, or the error ends the draining and the flag of the subscription keeps the
connection from being put back (`Flushed`, `GivenBack`). Messages that come meanwhile break none of
this, since a connection they come to has a flag set (`PushStands`). `MarksCommand` is the lemma about the
eight kinds of commands.

### The MySQL connection

`MysqlConnProofs`, for any number of calls, tries, breaks and rows, any size of the
sequence numbers and every answer of the server, under `MysqlAssumption`:

| Theorem | Statement |
|---|---|
| `MysqlTyped` | `Spec => []TypeOK` |
| `AnswersAlwaysMatch` | `Spec => []AnswersMatch` |
| `NothingIsLeft` | `Spec => []NothingLeft` |
| `StoredIsAsReported` | `Spec => []StoredAsReported` |
| `ImplementsRetriedInsert` | `Spec => BillsAreRetried`: `MysqlConn` implements `RetriedInsert` |

`AnswersMatch` speaks of the next packet and `NothingLeft` of a connection at rest; neither says
what is further back or still to come, so neither is inductive. `ConnInv` says it. With `Arriving`,
what is received and not read followed by what is on its way, a connection is in one of four states:

* `Still`: nothing is on its way but closed statements, which have no answer;
* `Killed`: the only packet is the server's own error. It is numbered 0, and a call that reads
  expects 1 or more: the number gives it away;
* `Asked`: the command of the call is the last on its way, and `sequence` is its number and 1;
* `Answered`: the packets are of the command `cmd`, are numbered on from `sequence`, and fit what the
  call has still to do.

`Fits` is that fit, and where the work is. The values `todo` can have are the named scripts `ToInit`
to `ToRow`, and to each `At` gives the answers, or rests of answers, that can be left then (`DEDE`: two
lists with one entry each; `Rows`; `Columns`). Each of them is closed under cutting off, as a break
does (`RowsCutOff`), under reading a packet (`Reads`, `PartRead`) and has errors only at its end (`ErrorIsLast`);
`ReplyArrives` says each reply of `Replies` fits the call that waits for it. `ConnAlways` is the invariant,
with one lemma for each action.

`StoredAsReported` compares counters that change in different steps: a try is counted as lost when
the driver gives it up, and the server may do it before that or long after. `Doubts[j]`, the inserts of
job `j` that the server has got and neither done nor refused, closes the gap. Two invariants come on top of `ConnInv`:

* `JobInv`: a call of sqlClient is in progress for the job `job` alone, jobs after it have done nothing,
  only bills insert, and while a bill may still be tried nothing is reported of it;
* `BillInv`: the inserts done or in doubt are no more than the tries lost, and one more if the bill is
  reported stored or is being tried (`Trying`); when the answer to the insert has come (`Told`) that
  one is settled: done, or, if the answer is an error, not done and no longer in doubt.

`ConnInv` gives what makes these inductive: an insert is on its way only while the call that wrote it
waits for its answer (`FliesWhen`). Every step is one of four kinds (`BillStep`), and each is a step of `RetriedInsert`
or a stutter: `Quiet` changes nothing of the bills; `Attempts` writes an insert (`Try`, or a stutter when the
connection is broken); `Settles` is the server that does an insert (`Store`), or refuses or never gets it (`Never`);
`Reports` gives a call its outcome (`Report`). `NextOfBills` shows the kind of each step with the invariant, and
`NextRefines` the step of `RetriedInsert`; success is reported only with `executed[j] > 0`, which is the first part of `BillInv`.

## 7. What is only model-checked

Every invariant and every safety property of a passing run has a theorem. There remain:

* `EveryRecordRetired`, `LogReturns`, `CallReturns`, `GetReturns`, `CloseReturns`: liveness under
  fairness is out of the prover's reach.
* The counterexample runs.

## 8. What is not modelled

* Encoding: XML, HTTP headers, signatures, the bill's form parameters; of MySQL
  what fields hold (`utils.go`, `dsn.go`, `const.go`), of Redis `reply.go`, `scan.go`,
  `script.go`; of the log the pattern of a line.
* `chargeCalculate` (`server.go:499`): a pure function that rounds minutes up by one
  always, where `statics.go:156` rounds up only what is not whole. The two differ for whole minutes, and nobody compares them.
* A bill that is notified twice (`server.go:618`): two `billMsgProc` of one call. The platform's documents,
  which would say whether that happens, are not in the repository.
* A request that never returns (`ipccRequest.go:72`): the client has no timeout. A goroutine
  may stop at any step in the safety runs; a bound on the time is not in the code.
* The configuration parser, the `GET` page, the download server: read once or without state.
* `GetMainMenu`, `GetIvrVoiceName`: single reads that choose the file to play.
* `procHandle`, `eventProcByMobile` (and `Log2sql`, which only it calls), `backUpBillTable`,
  `UpdateDisplayNum`, `GetCallStatus`: called by nothing.
* `src/statics.go` (its `main` returns before the first query), `src/redis.go` (`main2` is called
  by nothing), `redisx.ConnMux`, the socket and XML writers of log4go, TLS, LOCAL INFILE and
  transactions of the MySQL driver: not used by the program.

## 9. Plan

Done: the server and its billing (1), access numbers (2), the log (3), the pool (4), and the MySQL
connection (5), each with its theorems. Left, in order of importance:

1. A platform that delivers notifications again, and what remains of `Billing`
   then.
2. `chargeCalculate`, `encodeSign` and the line parser of `conf.go` as pure modules,
   against reference definitions.
