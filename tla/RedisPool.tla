----------------------------- MODULE RedisPool -----------------------------
(***************************************************************************)
(* The pool of connections of redigo, and what it needs of a connection:   *)
(* Get takes an idle connection or dials one, waits when MaxActive are in  *)
(* use; Close of the connection undoes what its user left on it and puts   *)
(* it back.  A step is what happens between taking and leaving the pool's  *)
(* mutex, or between two such sections.                                    *)
(*                                                                         *)
(* A connection is seen as the replies its user has to read (stream), the  *)
(* number conn counts (pending), and the special states of the server's    *)
(* end (special) beside those pooledConnection keeps (state).              *)
(*                                                                         *)
(* Left out: what commands and replies say, timeouts of reads and writes   *)
(* (they end as any other failure of the connection does), and that a      *)
(* command waits in a buffer until the next Flush or Do: only messages can *)
(* overtake it there, and they may come before it is sent as well.         *)
(***************************************************************************)
EXTENDS Integers, Sequences, FiniteSets

CONSTANTS
  Users,           \* goroutines that use the pool
  Conns,           \* identities of connections
  NoConn,
  Pools,           \* the settings a Pool may have; maxActive 0 is no limit
  Commands,        \* the commands the users send
  MaxGets,         \* bound: MaxGets[u], how often u gets a connection
  MaxSends,        \* bound: MaxSends[p][u], how many commands u sends
  MaxBreaks        \* bound: how many connections break

Special == {"watch", "multi", "subscribe", "monitor"}

ASSUME PoolAssumption ==
  /\ IsFiniteSet(Users) /\ IsFiniteSet(Conns) /\ NoConn \notin Conns
  /\ Pools \subseteq [maxActive : Nat, maxIdle : Nat, wait : {"yes", "no"},
                      testOnBorrow : {"yes", "no"},
                      idleTimeout : {"yes", "no"}]
  /\ Commands \subseteq {"plain", "watch", "unwatch", "multi", "exec",
                         "subscribe", "unsubscribe", "monitor"}
  /\ MaxGets \in [Users -> Nat] /\ MaxSends \in [Pools -> [Users -> Nat]]
  /\ MaxBreaks \in Nat

VARIABLES
  \* Pool
  pool,        \* its settings
  active, idle, closed,
  \* the goroutines
  at,          \* at[u]: where u is
  has,         \* has[u]: the connection u holds
  gets, sends,
  closing,     \* the connections Pool.Close has still to close
  \* the connections
  exists,      \* dialled and not closed
  broken,      \* the network or the server has ended them
  err,         \* those with c.err set
  pending, stream, state, special,
  refused,     \* history: a user's UNWATCH was refused on them
  breaks

poolVars == <<pool, active, idle, closed>>
userVars == <<at, has, gets, sends, closing>>
connVars == <<exists, broken, err, pending, stream, state, special, refused,
              breaks>>
vars == <<poolVars, userVars, connVars>>

\* Where a goroutine holds a connection that active counts, or is about to.
Holding == {"test", "dial", "use", "unsub", "drain", "flush", "put"}
Place == Holding \cup {"out", "get", "prune", "waiting", "woken", "close"}

TypeOK ==
  /\ pool \in Pools /\ active \in Int /\ closed \in BOOLEAN
  /\ idle \in Seq(Conns)
  /\ at \in [Users -> Place] /\ has \in [Users -> Conns \cup {NoConn}]
  /\ gets \in [Users -> Nat] /\ sends \in [Users -> Nat]
  /\ \A u \in Users : gets[u] <= MaxGets[u] /\ sends[u] <= MaxSends[pool][u]
  /\ closing \subseteq Conns
  /\ exists \subseteq Conns /\ broken \subseteq Conns /\ err \subseteq Conns
  /\ pending \in [Conns -> Nat]
  /\ stream \in [Conns -> Seq({"reply", "error", "push", "echo"})]
  /\ state \in [Conns -> SUBSET Special]
  /\ special \in [Conns -> SUBSET Special]
  /\ refused \subseteq Conns /\ breaks \in 0 .. MaxBreaks

Init ==
  /\ pool \in Pools /\ active = 0 /\ idle = <<>> /\ closed = FALSE
  /\ at = [u \in Users |-> "out"] /\ has = [u \in Users |-> NoConn]
  /\ gets = [u \in Users |-> 0] /\ sends = [u \in Users |-> 0]
  /\ closing = {}
  /\ exists = {} /\ broken = {} /\ err = {} /\ refused = {} /\ breaks = 0
  /\ pending = [c \in Conns |-> 0] /\ stream = [c \in Conns |-> <<>>]
  /\ state = [c \in Conns |-> {}] /\ special = [c \in Conns |-> {}]

-----------------------------------------------------------------------------
(* get.                                                                     *)

Waiting == {u \in Users : at[u] = "waiting"}
Woken   == {u \in Users : at[u] = "woken"}

\* u goes to p; cond.Signal wakes one of those who wait, if any does.
GoesAndSignals(u, p) ==
  IF Waiting = {} THEN at' = [at EXCEPT ![u] = p]
  ELSE \E w \in Waiting : at' = [at EXCEPT ![u] = p, ![w] = "woken"]

Goes(u, p) == at' = [at EXCEPT ![u] = p]

StartGet(u) ==
  /\ at[u] = "out" /\ gets[u] < MaxGets[u]
  /\ gets' = [gets EXCEPT ![u] = @ + 1]
  /\ Goes(u, "get")
  /\ UNCHANGED <<has, sends, closing, poolVars, connVars>>

\* The oldest idle connection has been idle for too long.
Prune(u) ==
  /\ at[u] = "get" /\ pool.idleTimeout = "yes" /\ idle # <<>>
  /\ has' = [has EXCEPT ![u] = idle[Len(idle)]]
  /\ idle' = SubSeq(idle, 1, Len(idle) - 1)
  /\ active' = active - 1 /\ GoesAndSignals(u, "prune")
  /\ UNCHANGED <<pool, closed, gets, sends, closing, connVars>>

\* conn.Close.
Closed(c) ==
  /\ exists' = exists \ {c} /\ broken' = broken \ {c} /\ err' = err \ {c}
  /\ refused' = refused \ {c}
  /\ pending' = [pending EXCEPT ![c] = 0]
  /\ stream' = [stream EXCEPT ![c] = <<>>]
  /\ state' = [state EXCEPT ![c] = {}] /\ special' = [special EXCEPT ![c] = {}]
  /\ UNCHANGED breaks

PruneClose(u) ==
  /\ at[u] = "prune" /\ Closed(has[u])
  /\ has' = [has EXCEPT ![u] = NoConn]
  /\ Goes(u, "get")
  /\ UNCHANGED <<gets, sends, closing, poolVars>>

InLoop(u) == at[u] \in {"get", "woken"}

Borrowed == IF pool.testOnBorrow = "yes" THEN "test" ELSE "use"

\* A mutant of TakeIdle: the connection stays in the list.
TakeIdleKeeps(u) ==
  /\ InLoop(u) /\ idle # <<>>
  /\ has' = [has EXCEPT ![u] = Head(idle)]
  /\ Goes(u, Borrowed)
  /\ UNCHANGED <<pool, idle, active, closed, gets, sends, closing, connVars>>

TakeIdle(u) ==
  /\ InLoop(u) /\ idle # <<>>
  /\ has' = [has EXCEPT ![u] = Head(idle)] /\ idle' = Tail(idle)
  /\ Goes(u, Borrowed)
  /\ UNCHANGED <<pool, active, closed, gets, sends, closing, connVars>>

\* TestOnBorrow asks the server for a PONG.
TestPasses(u) ==
  /\ at[u] = "test" /\ has[u] \notin broken
  /\ Goes(u, "use")
  /\ UNCHANGED <<has, gets, sends, closing, poolVars, connVars>>

HasSlot == pool.maxActive = 0 \/ active < pool.maxActive

\* The connection is closed and released.  In the same section the next
\* idle one is taken, or a new one dialled, or the pool found to be closed.
\* The loop looks at as many as were idle when it began: it may end while
\* there are others.
TestFails(u) ==
  /\ at[u] = "test" /\ has[u] \in broken
  /\ Closed(has[u])
  /\ \/ /\ idle # <<>>
        /\ has' = [has EXCEPT ![u] = Head(idle)] /\ idle' = Tail(idle)
        /\ active' = active - 1
        /\ GoesAndSignals(u, "test")
     \/ /\ has' = [has EXCEPT ![u] = NoConn] /\ UNCHANGED idle
        /\ \/ closed /\ active' = active - 1 /\ GoesAndSignals(u, "out")
           \/ ~closed /\ UNCHANGED active /\ GoesAndSignals(u, "dial")
  /\ UNCHANGED <<pool, closed, gets, sends, closing>>

GetOnClosed(u) ==
  /\ InLoop(u) /\ idle = <<>> /\ closed
  /\ Goes(u, "out")
  /\ UNCHANGED <<has, gets, sends, closing, poolVars, connVars>>

GetDials(u) ==
  /\ InLoop(u) /\ idle = <<>> /\ ~closed /\ HasSlot
  /\ active' = active + 1 /\ Goes(u, "dial")
  /\ UNCHANGED <<pool, idle, closed, has, gets, sends, closing, connVars>>

Exhausted(u) ==
  /\ InLoop(u) /\ idle = <<>> /\ ~closed /\ ~HasSlot /\ pool.wait = "no"
  /\ Goes(u, "out")
  /\ UNCHANGED <<has, gets, sends, closing, poolVars, connVars>>

CondWait(u) ==
  /\ InLoop(u) /\ idle = <<>> /\ ~closed /\ ~HasSlot /\ pool.wait = "yes"
  /\ Goes(u, "waiting")
  /\ UNCHANGED <<has, gets, sends, closing, poolVars, connVars>>

\* Which of the free identities the new connection gets does not matter.
DialOk(u) ==
  /\ at[u] = "dial" /\ Conns \ exists # {}
  /\ LET c == CHOOSE c \in Conns : c \notin exists
     IN  exists' = exists \cup {c} /\ has' = [has EXCEPT ![u] = c]
  /\ Goes(u, "use")
  /\ UNCHANGED <<gets, sends, closing, poolVars, broken, err, pending, stream,
                 state, special, refused, breaks>>

\* A mutant of DialFails: nobody is told of the free slot.
DialFailsSilently(u) ==
  /\ at[u] = "dial"
  /\ active' = active - 1 /\ Goes(u, "out")
  /\ UNCHANGED <<pool, idle, closed, has, gets, sends, closing, connVars>>

DialFails(u) ==
  /\ at[u] = "dial"
  /\ active' = active - 1 /\ GoesAndSignals(u, "out")
  /\ UNCHANGED <<pool, idle, closed, has, gets, sends, closing, connVars>>

-----------------------------------------------------------------------------
(* The user's commands: pooledConnection's Do, Send and Receive, and conn's. *)

Sets(cmd)   == {cmd} \cap Special
Clears(cmd) == CASE cmd = "unwatch" -> {"watch"}
                 [] cmd = "exec" -> {"watch", "multi"}
                 [] OTHER -> {}

\* The server's end: what a command does there, and what comes back.
Refuses(sp, cmd) ==
  \/ "subscribe" \in sp /\ cmd \notin {"subscribe", "unsubscribe"}
  \/ "multi" \in sp /\ cmd \in {"multi", "watch"}
  \/ "multi" \notin sp /\ cmd = "exec"

After(sp, cmd) ==
  IF Refuses(sp, cmd) THEN sp
  ELSE IF "multi" \in sp THEN IF cmd = "exec" THEN sp \ {"multi", "watch"}
                                             ELSE sp
  ELSE IF cmd = "unsubscribe" THEN sp \ {"subscribe"}
  ELSE (sp \ Clears(cmd)) \cup Sets(cmd)

Reply(sp, cmd) ==
  IF Refuses(sp, cmd) THEN "error"
  ELSE IF cmd = "echo" /\ "multi" \notin sp THEN "echo" ELSE "reply"

\* "exec" is EXEC or DISCARD, sent by users inside a transaction only;
\* subscriptions and MONITOR are not part of one.
Legal(c, cmd) ==
  /\ cmd = "exec" => "multi" \in special[c]
  /\ cmd \in {"subscribe", "monitor"} => "multi" \notin special[c]

\* The network fails the user now, if the connection is broken; n replies
\* are pending then.
Fatal(c, n) ==
  /\ c \in broken /\ err' = err \cup {c}
  /\ pending' = [pending EXCEPT ![c] = n]
  /\ UNCHANGED <<exists, broken, stream, special, breaks>>

Sent(c, cmd) ==
  /\ pending' = [pending EXCEPT ![c] = @ + 1]
  /\ stream' = [stream EXCEPT ![c] = Append(@, Reply(special[c], cmd))]
  /\ special' = [special EXCEPT ![c] = After(@, cmd)]
  /\ UNCHANGED <<exists, broken, err, breaks>>

\* A subscriber's UNWATCH, which pooledConnection takes for done.
MayRefuse(c, cmd) ==
  refused' = IF cmd = "unwatch" /\ Refuses(special[c], cmd)
               THEN refused \cup {c} ELSE refused

Send(u, cmd) ==
  LET c == has[u]
  IN  /\ at[u] = "use" /\ sends[u] < MaxSends[pool][u] /\ Legal(c, cmd)
      /\ sends' = [sends EXCEPT ![u] = @ + 1]
      /\ state' = [state EXCEPT ![c] = (@ \cup Sets(cmd)) \ Clears(cmd)]
      /\ MayRefuse(c, cmd)
      /\ Fatal(c, pending[c] + 1) \/ Sent(c, cmd)
      /\ UNCHANGED <<at, has, gets, closing, poolVars>>

\* Do reads as many replies as were pending, and one for its command.
Do(u, cmd) ==
  LET c == has[u]
      n == pending[c] + 1
      s == Append(stream[c], Reply(special[c], cmd))
  IN  /\ at[u] = "use" /\ sends[u] < MaxSends[pool][u] /\ Legal(c, cmd)
      /\ sends' = [sends EXCEPT ![u] = @ + 1]
      /\ state' = [state EXCEPT ![c] = (@ \cup Sets(cmd)) \ Clears(cmd)]
      /\ MayRefuse(c, cmd)
      /\ \/ Fatal(c, 0)
         \/ /\ c \notin broken /\ Len(s) >= n
            /\ pending' = [pending EXCEPT ![c] = 0]
            /\ stream' = [stream EXCEPT ![c] = SubSeq(s, n + 1, Len(s))]
            /\ special' = [special EXCEPT ![c] = After(@, cmd)]
            /\ UNCHANGED <<exists, broken, err, breaks>>
      /\ UNCHANGED <<at, has, gets, closing, poolVars>>

\* A mutant of OneLess: messages count too.
OneLessAlways(n) == n - 1

OneLess(n) == IF n > 0 THEN n - 1 ELSE 0

\* A reply read is one less pending, if any is.
Received(c) ==
  /\ c \notin broken /\ stream[c] # <<>>
  /\ stream' = [stream EXCEPT ![c] = Tail(@)]
  /\ pending' = [pending EXCEPT ![c] = OneLess(@)]
  /\ UNCHANGED <<exists, broken, err, special, breaks>>

Receive(u) ==
  LET c == has[u]
  IN  /\ at[u] = "use"
      /\ Fatal(c, pending[c]) \/ Received(c)
      /\ UNCHANGED <<at, has, gets, sends, closing, poolVars, state, refused>>

\* Somebody publishes a message to a subscriber; one is enough at a time.
Push(c) ==
  /\ c \in exists \ broken /\ special[c] \cap {"subscribe", "monitor"} # {}
  /\ \A i \in 1 .. Len(stream[c]) : stream[c][i] # "push"
  /\ stream' = [stream EXCEPT ![c] = Append(@, "push")]
  /\ UNCHANGED <<poolVars, userVars, exists, broken, err, pending, state,
                 special, refused, breaks>>

Break(c) ==
  /\ c \in exists \ broken /\ breaks < MaxBreaks
  /\ broken' = broken \cup {c} /\ breaks' = breaks + 1
  /\ UNCHANGED <<poolVars, userVars, exists, err, pending, stream, state,
                 special, refused>>

-----------------------------------------------------------------------------
(* pooledConnection.Close and put.                                          *)

\* A transaction is discarded, or else a watch undone.
Close(u) ==
  LET c == has[u]
      n == pending[c] + 1
  IN  /\ at[u] = "use"
      /\ CASE "multi" \in state[c] -> Fatal(c, n) \/ Sent(c, "exec")
           [] state[c] \cap {"multi", "watch"} = {"watch"} ->
                Fatal(c, n) \/ Sent(c, "unwatch")
           [] OTHER -> UNCHANGED <<exists, broken, err, pending, stream,
                                   special, breaks>>
      /\ state' = [state EXCEPT ![c] = @ \ {"multi", "watch"}]
      /\ Goes(u, IF "subscribe" \in state[c] THEN "unsub" ELSE "flush")
      /\ UNCHANGED <<has, gets, sends, closing, poolVars, refused>>

\* UNSUBSCRIBE, PUNSUBSCRIBE, and ECHO of the sentinel.
Unsubscribe(u) ==
  LET c == has[u]
      sp == special[c]
      left == After(sp, "unsubscribe")
  IN  /\ at[u] = "unsub"
      /\ \/ Fatal(c, pending[c] + 3)
         \/ /\ pending' = [pending EXCEPT ![c] = @ + 3]
            /\ stream' = [stream EXCEPT ![c] = @ \o
                 <<Reply(sp, "unsubscribe"), Reply(left, "unsubscribe"),
                   Reply(left, "echo")>>]
            /\ special' = [special EXCEPT ![c] = left]
            /\ UNCHANGED <<exists, broken, err, breaks>>
      /\ Goes(u, "drain")
      /\ UNCHANGED <<has, gets, sends, closing, poolVars, state, refused>>

\* A mutant of EndsDrain: an error does not end it.
EndsAtEchoOnly(item) == item = "echo"

\* A mutant of EndsDrain: the sentinel is not known again.
EndsAtErrorOnly(item) == item = "error"

EndsDrain(item) == item \in {"echo", "error"}

\* Replies are read up to the sentinel, or to an error.
Drain(u) ==
  LET c == has[u]
  IN  /\ at[u] = "drain"
      /\ \/ Fatal(c, pending[c]) /\ Goes(u, "flush") /\ UNCHANGED state
         \/ /\ Received(c)
            /\ Goes(u, IF EndsDrain(Head(stream[c])) THEN "flush"
                                                    ELSE "drain")
            /\ state' = IF Head(stream[c]) = "echo"
                          THEN [state EXCEPT ![c] = @ \ {"subscribe"}]
                          ELSE state
      /\ UNCHANGED <<has, gets, sends, closing, poolVars, refused>>

\* Do("") reads the replies that are pending.
Flush(u) ==
  LET c == has[u]
      n == pending[c]
  IN  /\ at[u] = "flush"
      /\ \/ n > 0 /\ Fatal(c, 0)
         \/ /\ n > 0 /\ c \notin broken /\ Len(stream[c]) >= n
            /\ pending' = [pending EXCEPT ![c] = 0]
            /\ stream' = [stream EXCEPT ![c] = SubSeq(@, n + 1, Len(@))]
            /\ UNCHANGED <<exists, broken, err, special, breaks>>
         \/ /\ n = 0
            /\ UNCHANGED <<exists, broken, err, pending, stream, special,
                           breaks>>
      /\ Goes(u, "put")
      /\ UNCHANGED <<has, gets, sends, closing, poolVars, state, refused>>

\* A mutant of KeepsConn: nobody looks whether the pool is closed.
KeepsAfterClose(c) == c \notin err /\ state[c] = {}

\* put's forceClose is pc.state # 0.
KeepsConn(c) == ~closed /\ c \notin err /\ state[c] = {}

\* A mutant of Put: a connection that comes back wakes nobody.
PutSilently(u) ==
  LET c == has[u]
  IN  /\ at[u] = "put" /\ KeepsConn(c) /\ Len(idle) < pool.maxIdle
      /\ idle' = <<c>> \o idle
      /\ has' = [has EXCEPT ![u] = NoConn]
      /\ Goes(u, "out")
      /\ UNCHANGED <<pool, active, closed, gets, sends, closing, connVars>>

Put(u) ==
  LET c == has[u]
  IN  /\ at[u] = "put" /\ KeepsConn(c) /\ Len(idle) < pool.maxIdle
      /\ idle' = <<c>> \o idle
      /\ has' = [has EXCEPT ![u] = NoConn]
      /\ GoesAndSignals(u, "out")
      /\ UNCHANGED <<pool, active, closed, gets, sends, closing, connVars>>

\* With MaxIdle others idle, the oldest of them goes.
PutTooMany(u) ==
  LET all == <<has[u]>> \o idle
  IN  /\ at[u] = "put" /\ KeepsConn(has[u]) /\ Len(idle) >= pool.maxIdle
      /\ idle' = SubSeq(all, 1, Len(all) - 1)
      /\ has' = [has EXCEPT ![u] = all[Len(all)]]
      /\ active' = active - 1 /\ GoesAndSignals(u, "close")
      /\ UNCHANGED <<pool, closed, gets, sends, closing, connVars>>

PutForced(u) ==
  /\ at[u] = "put" /\ ~KeepsConn(has[u])
  /\ active' = active - 1 /\ GoesAndSignals(u, "close")
  /\ UNCHANGED <<pool, idle, closed, has, gets, sends, closing, connVars>>

ConnClose(u) ==
  /\ at[u] = "close" /\ Closed(has[u])
  /\ has' = [has EXCEPT ![u] = NoConn]
  /\ Goes(u, "out")
  /\ UNCHANGED <<gets, sends, closing, poolVars>>

-----------------------------------------------------------------------------
(* Pool.Close.                                                              *)

\* A mutant of StillActive: the idle connections are not taken off.
StillActiveAll == active

StillActive == active - Len(idle)

PoolClose ==
  /\ ~closed /\ closed' = TRUE
  /\ closing' = {idle[i] : i \in 1 .. Len(idle)}
  /\ active' = StillActive /\ idle' = <<>> /\ UNCHANGED pool
  /\ at' = [u \in Users |-> IF at[u] = "waiting" THEN "woken" ELSE at[u]]
  /\ UNCHANGED <<has, gets, sends, connVars>>

PoolCloses(c) ==
  /\ c \in closing /\ Closed(c)
  /\ closing' = closing \ {c}
  /\ UNCHANGED <<at, has, gets, sends, poolVars>>

-----------------------------------------------------------------------------
GetStep(u) ==
  \/ Prune(u) \/ PruneClose(u) \/ TakeIdle(u) \/ TestPasses(u)
  \/ TestFails(u) \/ GetOnClosed(u) \/ GetDials(u) \/ Exhausted(u)
  \/ CondWait(u) \/ DialOk(u) \/ DialFails(u)

CloseStep(u) ==
  \/ Close(u) \/ Unsubscribe(u) \/ Drain(u) \/ Flush(u) \/ Put(u)
  \/ PutTooMany(u) \/ PutForced(u) \/ ConnClose(u)

Use(u) ==
  \/ StartGet(u) \/ Receive(u)
  \/ \E cmd \in Commands : Send(u, cmd) \/ Do(u, cmd)

Next ==
  \/ \E u \in Users : GetStep(u) \/ CloseStep(u) \/ Use(u)
  \/ \E c \in Conns : Push(c) \/ Break(c) \/ PoolCloses(c)
  \/ PoolClose

Spec == Init /\ [][Next]_vars

\* Goroutines run, and a user closes its connection in the end.
FairSpec ==
  Spec /\ \A u \in Users : WF_vars(GetStep(u)) /\ WF_vars(CloseStep(u))

-----------------------------------------------------------------------------
(* Properties.                                                              *)

At(places) == {u \in Users : at[u] \in places}

\* active counts the idle connections and those that are held, being tested
\* or being dialled; there are never more than MaxActive (get, put, release,
\* Pool.Close).
ActiveCounts ==
  /\ active = Len(idle) + Cardinality(At(Holding))
  /\ pool.maxActive > 0 => active <= pool.maxActive

\* No connection is in two hands, or in one and idle (get, put).
NotShared ==
  /\ \A u, v \in Users : u # v /\ has[u] # NoConn => has[u] # has[v]
  /\ \A i, j \in 1 .. Len(idle) : i # j => idle[i] # idle[j]
  /\ \A u \in Users, i \in 1 .. Len(idle) : has[u] # idle[i]
  /\ \A u \in Users : has[u] \notin closing

\* An idle connection is as a new one: no reply is left to read, and the
\* server has it in no transaction, watch or subscription
\* (pooledConnection.Close).  Only a watch may be left, when the server
\* refused the UNWATCH of a subscriber: Do and Send clear the flag of the
\* watch before anybody knows, and Close does not undo it then.
IdleIsClean ==
  \A i \in 1 .. Len(idle) :
    LET c == idle[i]
    IN  /\ pending[c] = 0 /\ stream[c] = <<>>
        /\ state[c] = {}
        /\ \/ special[c] = {}
           \/ special[c] = {"watch"} /\ c \in refused

\* Nobody waits while more connections are free than goroutines are awake
\* to take them: no wake-up is lost (cond.Wait, Signal, Broadcast).
NoWakeupLost ==
  Waiting # {} =>
    Len(idle) + pool.maxActive - active <= Cardinality(Woken)

\* Connections are closed when nobody has them: none leaks, after
\* Pool.Close too.
NoLeak ==
  /\ exists = {has[u] : u \in {v \in Users : has[v] # NoConn}}
               \cup {idle[i] : i \in 1 .. Len(idle)} \cup closing
  /\ closed => idle = <<>>

\* A Get that waits comes back, if connections are closed in the end.
GetReturns ==
  \A u \in Users :
    at[u] \in {"waiting", "woken"} ~> at[u] \notin {"waiting", "woken"}

\* Close of a connection comes back: the sentinel or an error always comes.
CloseReturns == \A u \in Users : at[u] = "drain" ~> at[u] = "out"
=============================================================================
