-------------------------- MODULE RedisPoolProofs --------------------------
(***************************************************************************)
(* Theorems about RedisPool for any number of goroutines, connections and  *)
(* commands, and for pools of any settings.                                *)
(***************************************************************************)
EXTENDS RedisPool, FiniteSetTheorems, SequenceTheorems, TLAPS

------------------------------------------------------------------------------
(* The list of idle connections.                                            *)

LEMMA PushedFront ==
  ASSUME NEW S, NEW s \in Seq(S), NEW c \in S
  PROVE  /\ <<c>> \o s \in Seq(S)
         /\ Len(<<c>> \o s) = Len(s) + 1
         /\ (<<c>> \o s)[1] = c
         /\ \A i \in 1 .. Len(s) : (<<c>> \o s)[i + 1] = s[i]
<1>1. <<c>> \in Seq(S) /\ Len(<<c>>) = 1 /\ <<c>>[1] = c /\ Len(s) \in Nat
  OBVIOUS
<1>2. QED
  BY <1>1, ConcatProperties

LEMMA PartOfSeq ==
  ASSUME NEW S, NEW s \in Seq(S), NEW m \in Nat \ {0}, NEW n \in Nat,
         n <= Len(s)
  PROVE  SubSeq(s, m, n) \in Seq(S)
<1>1. \A i \in m .. n : s[i] \in S
  OBVIOUS
<1>2. QED
  BY <1>1, SubSeqProperties

LEMMA DroppedLast ==
  ASSUME NEW S, NEW s \in Seq(S), s # << >>
  PROVE  LET t == SubSeq(s, 1, Len(s) - 1)
         IN  /\ t \in Seq(S) /\ Len(t) = Len(s) - 1
             /\ \A i \in 1 .. Len(t) : t[i] = s[i]
             /\ Len(s) \in Nat \ {0} /\ s[Len(s)] \in S
<1>1. Len(s) \in Nat \ {0} /\ s[Len(s)] \in S
  OBVIOUS
<1>2. \A i \in 1 .. Len(s) - 1 : s[i] \in S
  BY <1>1
<1> DEFINE n == Len(s) - 1
<1>3. n \in Int /\ n >= 0
  BY <1>1
<1> HIDE DEF n
<1>4. /\ SubSeq(s, 1, n) \in Seq(S)
      /\ Len(SubSeq(s, 1, n)) = IF 1 <= n THEN n - 1 + 1 ELSE 0
      /\ \A i \in 1 .. n - 1 + 1 : SubSeq(s, 1, n)[i] = s[1 + i - 1]
  BY <1>2, <1>3, SubSeqProperties DEF n
<1>5. Len(SubSeq(s, 1, n)) = n /\ \A i \in 1 .. n : SubSeq(s, 1, n)[i] = s[i]
  BY <1>3, <1>4
<1>6. QED
  BY <1>1, <1>4, <1>5 DEF n

LEMMA DroppedFirst ==
  ASSUME NEW S, NEW s \in Seq(S), s # << >>
  PROVE  /\ Tail(s) \in Seq(S) /\ Len(Tail(s)) = Len(s) - 1
         /\ \A i \in 1 .. Len(Tail(s)) : Tail(s)[i] = s[i + 1]
         /\ Head(s) = s[1] /\ Head(s) \in S /\ Len(s) \in Nat \ {0}
BY HeadTailProperties

------------------------------------------------------------------------------
(* Every variable stays in its range.                                       *)

\* Who holds a connection.
Owning == {"prune", "test", "use", "unsub", "drain", "flush", "put", "close"}

Inv ==
  /\ TypeOK
  /\ \A u \in Users : has[u] # NoConn <=> at[u] \in Owning
  /\ \A u \in Users : at[u] \in {"waiting", "woken"} => pool.maxActive > 0
  /\ closed => idle = << >>

\* What cond.Signal may do to the goroutines.
LEMMA Signalled ==
  ASSUME TypeOK, NEW u \in Users, NEW p \in Place, GoesAndSignals(u, p),
         at[u] # "waiting"
  PROVE  /\ at' \in [Users -> Place] /\ at'[u] = p
         /\ \A v \in Users \ {u} :
              at'[v] = at[v] \/ (at[v] = "waiting" /\ at'[v] = "woken")
<1>1. at \in [Users -> Place] /\ "woken" \in Place
  BY DEF TypeOK, Place
<1>2. CASE at' = [at EXCEPT ![u] = p]
  BY <1>1, <1>2
<1>3. ASSUME NEW w \in Waiting, at' = [at EXCEPT ![u] = p, ![w] = "woken"]
      PROVE  /\ at' \in [Users -> Place] /\ at'[u] = p
             /\ \A v \in Users \ {u} :
                  at'[v] = at[v] \/ (at[v] = "waiting" /\ at'[v] = "woken")
  <2>1. w \in Users /\ w # u /\ at[w] = "waiting"
    BY <1>3 DEF Waiting
  <2>2. QED
    BY <1>1, <1>3, <2>1
<1>4. QED
  BY <1>2, <1>3 DEF GoesAndSignals

Item == {"reply", "error", "push", "echo"}

\* The part of TypeOK about connections.
ConnType ==
  /\ exists \subseteq Conns /\ broken \subseteq Conns /\ err \subseteq Conns
  /\ pending \in [Conns -> Nat] /\ stream \in [Conns -> Seq(Item)]
  /\ state \in [Conns -> SUBSET Special]
  /\ special \in [Conns -> SUBSET Special]
  /\ refused \subseteq Conns /\ breaks \in 0 .. MaxBreaks

\* The part about goroutines and the pool.
UserType ==
  /\ pool \in Pools /\ active \in Int /\ closed \in BOOLEAN
  /\ idle \in Seq(Conns)
  /\ at \in [Users -> Place] /\ has \in [Users -> Conns \cup {NoConn}]
  /\ gets \in [Users -> Nat] /\ sends \in [Users -> Nat]
  /\ \A u \in Users : gets[u] <= MaxGets[u] /\ sends[u] <= MaxSends[pool][u]
  /\ closing \subseteq Conns

LEMMA TypeParts == TypeOK <=> UserType /\ ConnType
BY DEF TypeOK, UserType, ConnType, Item

LEMMA EmptyItems == << >> \in Seq(Item)
BY EmptySeq

LEMMA ClosedTyped ==
  ASSUME ConnType, NEW c \in Conns, Closed(c)
  PROVE  ConnType'
<1>1. /\ pending' = [pending EXCEPT ![c] = 0]
      /\ stream' = [stream EXCEPT ![c] = << >>]
      /\ state' = [state EXCEPT ![c] = {}]
      /\ special' = [special EXCEPT ![c] = {}]
      /\ exists' \subseteq exists /\ broken' \subseteq broken /\ err' \subseteq err
      /\ refused' \subseteq refused
      /\ breaks' = breaks
  BY DEF Closed
<1>2. stream' \in [Conns -> Seq(Item)]
  BY <1>1, EmptyItems DEF ConnType
<1>3. QED
  BY <1>1, <1>2 DEF ConnType

LEMMA FatalTyped ==
  ASSUME ConnType, NEW c \in Conns, NEW n \in Nat, Fatal(c, n),
         state' \in [Conns -> SUBSET Special], refused' \subseteq Conns
  PROVE  ConnType'
BY DEF ConnType, Fatal

\* The special states a command leads to are special states.
LEMMA AfterTyped ==
  ASSUME NEW sp \in SUBSET Special, NEW cmd
  PROVE  After(sp, cmd) \in SUBSET Special /\ Reply(sp, cmd) \in Item
<1>1. Sets(cmd) \subseteq Special
  BY DEF Sets
<1>2. Reply(sp, cmd) \in {"error", "echo", "reply"}
  BY Zenon DEF Reply
<1>3. \/ After(sp, cmd) = sp \/ After(sp, cmd) = sp \ {"multi", "watch"}
      \/ After(sp, cmd) = sp \ {"subscribe"}
      \/ After(sp, cmd) = (sp \ Clears(cmd)) \cup Sets(cmd)
  BY Zenon DEF After
<1>4. \A x \in After(sp, cmd) : x \in Special
  BY <1>1, <1>3
<1>5. After(sp, cmd) \in SUBSET Special
  BY <1>4
<1>6. QED
  BY <1>2, <1>5 DEF Item

LEMMA SentTyped ==
  ASSUME ConnType, NEW c \in Conns, NEW cmd, Sent(c, cmd),
         state' \in [Conns -> SUBSET Special], refused' \subseteq Conns
  PROVE  ConnType'
<1>1. /\ special[c] \in SUBSET Special /\ stream[c] \in Seq(Item)
      /\ pending[c] + 1 \in Nat
  BY DEF ConnType
<1>a. /\ After(special[c], cmd) \in SUBSET Special
      /\ Reply(special[c], cmd) \in Item
  BY <1>1, AfterTyped
<1>2. Append(stream[c], Reply(special[c], cmd)) \in Seq(Item)
  BY <1>1, <1>a, AppendProperties
<1>3. /\ pending' = [pending EXCEPT ![c] = pending[c] + 1]
      /\ stream' = [stream EXCEPT ![c] =
                      Append(stream[c], Reply(special[c], cmd))]
      /\ special' = [special EXCEPT ![c] = After(special[c], cmd)]
      /\ UNCHANGED <<exists, broken, err, breaks>>
  BY DEF Sent, ConnType
<1>4. QED
  BY <1>1, <1>a, <1>2, <1>3 DEF ConnType

LEMMA ReceivedTyped ==
  ASSUME ConnType, NEW c \in Conns, Received(c),
         state' \in [Conns -> SUBSET Special], refused' \subseteq Conns
  PROVE  ConnType'
<1>1. Tail(stream[c]) \in Seq(Item) /\ OneLess(pending[c]) \in Nat
  BY DEF Received, ConnType, OneLess
<1>2. /\ stream' = [stream EXCEPT ![c] = Tail(stream[c])]
      /\ pending' = [pending EXCEPT ![c] = OneLess(pending[c])]
      /\ UNCHANGED <<exists, broken, err, special, breaks>>
  BY DEF Received, ConnType
<1>3. QED
  BY <1>1, <1>2 DEF ConnType

------------------------------------------------------------------------------
(* How an operation moves the goroutines.                                   *)

\* u goes to p, and somebody who waited may be woken.
Moves(u, p) ==
  /\ at' \in [Users -> Place] /\ at'[u] = p
  /\ \A v \in Users \ {u} :
       at'[v] = at[v] \/ (at[v] = "waiting" /\ at'[v] = "woken")

LEMMA GoesMoves ==
  ASSUME TypeOK, NEW u \in Users, NEW p \in Place, Goes(u, p)
  PROVE  Moves(u, p)
BY DEF TypeOK, Goes, Moves

LEMMA SignalMoves ==
  ASSUME TypeOK, NEW u \in Users, NEW p \in Place, GoesAndSignals(u, p),
         at[u] # "waiting"
  PROVE  Moves(u, p)
BY Signalled DEF Moves

\* The rest of Inv, for a step that moves u to p and changes only what u has.
LEMMA OwnsStill ==
  ASSUME Inv, NEW u \in Users, NEW p \in Place, Moves(u, p),
         pool' = pool, has' \in [Users -> Conns \cup {NoConn}],
         \A v \in Users \ {u} : has'[v] = has[v],
         has'[u] # NoConn <=> p \in Owning,
         p = "waiting" => pool.maxActive > 0, p # "woken"
  PROVE  /\ \A v \in Users : has'[v] # NoConn <=> at'[v] \in Owning
         /\ \A v \in Users :
              at'[v] \in {"waiting", "woken"} => pool'.maxActive > 0
<1>1. ASSUME NEW v \in Users
      PROVE  /\ has'[v] # NoConn <=> at'[v] \in Owning
             /\ at'[v] \in {"waiting", "woken"} => pool'.maxActive > 0
  <2>1. CASE v = u
    BY <2>1 DEF Moves
  <2>2. CASE v # u
    <3>1. has'[v] = has[v] /\ (has[v] # NoConn <=> at[v] \in Owning)
      BY <2>2 DEF Inv
    <3>2. CASE at'[v] = at[v]
      BY <3>1, <3>2 DEF Inv
    <3>3. CASE at[v] = "waiting" /\ at'[v] = "woken"
      <4>1. "waiting" \notin Owning /\ "woken" \notin Owning
        BY DEF Owning
      <4>2. QED
        BY <3>1, <3>3, <4>1 DEF Inv
    <3>4. QED
      BY <2>2, <3>2, <3>3 DEF Moves
  <2>3. QED
    BY <2>1, <2>2
<1>2. QED
  BY <1>1

\* A step that leaves the connections as they are, or the goroutines.
LEMMA SameConns == ASSUME ConnType, UNCHANGED connVars PROVE ConnType'
BY DEF ConnType, connVars

LEMMA SamePool ==
  ASSUME Inv, UNCHANGED <<at, has, gets, closing, poolVars>>,
         sends' \in [Users -> Nat], \A u \in Users : sends'[u] <= MaxSends[pool][u],
         ConnType'
  PROVE  Inv'
<1>1. UserType
  BY TypeParts DEF Inv
<1>2. /\ UserType'
      /\ \A v \in Users : has'[v] # NoConn <=> at'[v] \in Owning
      /\ \A v \in Users :
           at'[v] \in {"waiting", "woken"} => pool'.maxActive > 0
      /\ closed' => idle' = << >>
  BY <1>1 DEF UserType, Inv, poolVars
<1>3. TypeOK' <=> UserType' /\ ConnType'
  BY DEF TypeOK, UserType, ConnType, Item
<1>4. QED
  BY <1>2, <1>3 DEF Inv

\* One that moves u to p.
LEMMA MovedInv ==
  ASSUME Inv, NEW u \in Users, NEW p \in Place, Moves(u, p),
         UNCHANGED <<pool, closed, sends, closing>>,
         has' \in [Users -> Conns \cup {NoConn}],
         \A v \in Users \ {u} : has'[v] = has[v],
         has'[u] # NoConn <=> p \in Owning,
         p = "waiting" => pool.maxActive > 0, p # "woken",
         gets' \in [Users -> Nat], \A v \in Users : gets'[v] <= MaxGets[v],
         active' \in Int, idle' \in Seq(Conns), closed => idle' = << >>,
         ConnType'
  PROVE  Inv'
<1>1. UserType
  BY TypeParts DEF Inv
<1>2. UserType' /\ (closed' => idle' = << >>)
  BY <1>1 DEF UserType, Moves
<1>3. TypeOK' <=> UserType' /\ ConnType'
  BY DEF TypeOK, UserType, ConnType, Item
<1>4. /\ \A v \in Users : has'[v] # NoConn <=> at'[v] \in Owning
      /\ \A v \in Users :
           at'[v] \in {"waiting", "woken"} => pool'.maxActive > 0
  BY OwnsStill
<1>5. QED
  BY <1>2, <1>3, <1>4 DEF Inv

------------------------------------------------------------------------------
(* The steps keep Inv.                                                      *)

LEMMA Typed ==
  ASSUME Inv
  PROVE  /\ TypeOK /\ UserType /\ ConnType
         /\ NoConn \notin Conns /\ pool \in Pools /\ active \in Int
         /\ idle \in Seq(Conns) /\ has \in [Users -> Conns \cup {NoConn}]
         /\ gets \in [Users -> Nat] /\ \A u \in Users : gets[u] <= MaxGets[u]
BY TypeParts, PoolAssumption DEF Inv, UserType

\* A goroutine has a connection, or has none, where it is.
LEMMA Has ==
  ASSUME Inv, NEW u \in Users
  PROVE  /\ at[u] \in Owning => has[u] \in Conns
         /\ at[u] \notin Owning => has[u] = NoConn
BY DEF Inv, TypeOK

LEMMA IdleEnds ==
  ASSUME Inv, idle # << >>
  PROVE  /\ idle[Len(idle)] \in Conns /\ Head(idle) \in Conns
         /\ SubSeq(idle, 1, Len(idle) - 1) \in Seq(Conns)
         /\ Tail(idle) \in Seq(Conns)
         /\ ~closed
<1>1. idle \in Seq(Conns) /\ ~closed
  BY Typed DEF Inv
<1>2. QED
  BY <1>1, DroppedLast, DroppedFirst

LEMMA GetStepInv ==
  ASSUME Inv, NEW u \in Users, GetStep(u)
  PROVE  Inv'
<1> USE Typed DEF Place, Holding, Owning
<1>1. CASE Prune(u)
  <2>1. Moves(u, "prune") /\ idle # << >>
    BY <1>1, SignalMoves DEF Prune
  <2>2. /\ idle[Len(idle)] \in Conns
        /\ SubSeq(idle, 1, Len(idle) - 1) \in Seq(Conns) /\ ~closed
    BY <2>1, IdleEnds
  <2>3. ConnType'
    BY <1>1, SameConns DEF Prune
  <2>4. QED
    BY <1>1, <2>1, <2>2, <2>3, MovedInv DEF Prune
<1>2. CASE PruneClose(u)
  <2>1. Moves(u, "get") /\ has[u] \in Conns
    BY <1>2, GoesMoves, Has DEF PruneClose
  <2>2. ConnType'
    BY <1>2, <2>1, ClosedTyped DEF PruneClose
  <2>3. QED
    BY <1>2, <2>1, <2>2, MovedInv DEF PruneClose, poolVars, Inv
<1>3. CASE TakeIdle(u)
  <2>1. Borrowed \in {"test", "use"} /\ idle # << >>
    BY <1>3 DEF Borrowed, TakeIdle
  <2>2. Moves(u, Borrowed)
    BY <1>3, <2>1, GoesMoves DEF TakeIdle
  <2>3. Head(idle) \in Conns /\ Tail(idle) \in Seq(Conns) /\ ~closed
    BY <2>1, IdleEnds
  <2>4. ConnType'
    BY <1>3, SameConns DEF TakeIdle
  <2>5. QED
    BY <1>3, <2>1, <2>2, <2>3, <2>4, MovedInv DEF TakeIdle
<1>4. CASE TestPasses(u)
  <2>1. Moves(u, "use") /\ ConnType' /\ has[u] \in Conns
    BY <1>4, GoesMoves, SameConns, Has DEF TestPasses
  <2>2. QED
    BY <1>4, <2>1, MovedInv DEF TestPasses, poolVars, Inv
<1>5. CASE TestFails(u)
  <2>1. ConnType' /\ at[u] # "waiting"
    BY <1>5, Has, ClosedTyped DEF TestFails
  <2>2. ASSUME idle # << >>, has' = [has EXCEPT ![u] = Head(idle)],
               idle' = Tail(idle), active' = active - 1,
               GoesAndSignals(u, "test")
        PROVE  Inv'
    <3>1. Moves(u, "test")
      BY <2>1, <2>2, SignalMoves
    <3>2. Head(idle) \in Conns /\ Tail(idle) \in Seq(Conns) /\ ~closed
      BY <2>2, IdleEnds
    <3>3. /\ UNCHANGED <<pool, closed, gets, sends, closing>>
          /\ active' \in Int /\ idle' \in Seq(Conns)
          /\ has' \in [Users -> Conns \cup {NoConn}]
          /\ \A v \in Users \ {u} : has'[v] = has[v]
          /\ has'[u] # NoConn
      BY <1>5, <2>2, <3>2 DEF TestFails
    <3>4. \A v \in Users : gets'[v] <= MaxGets[v]
      BY <3>3
    <3>5. QED
      BY <2>1, <3>1, <3>2, <3>3, <3>4, MovedInv
  <2>3. ASSUME NEW p \in {"out", "dial"}, has' = [has EXCEPT ![u] = NoConn],
               UNCHANGED idle, active' \in Int, GoesAndSignals(u, p)
        PROVE  Inv'
    <3>1. Moves(u, p)
      BY <2>1, <2>3, SignalMoves
    <3>2. QED
      BY <1>5, <2>1, <2>3, <3>1, MovedInv DEF TestFails, Inv
  <2>4. QED
    BY <1>5, <2>2, <2>3 DEF TestFails
<1>6. ASSUME NEW p \in {"out", "dial", "waiting"}, Goes(u, p), InLoop(u),
             p = "waiting" => pool.maxActive > 0, active' \in Int,
             UNCHANGED <<pool, idle, closed, has, gets, sends, closing,
                         connVars>>
      PROVE  Inv'
  <2>1. Moves(u, p) /\ ConnType' /\ has[u] = NoConn
    BY <1>6, GoesMoves, SameConns, Has DEF InLoop
  <2>2. QED
    BY <1>6, <2>1, MovedInv DEF Inv
<1>7. CASE GetOnClosed(u)
  BY <1>6, <1>7 DEF GetOnClosed, poolVars
<1>8. CASE GetDials(u)
  BY <1>6, <1>8 DEF GetDials
<1>9. CASE Exhausted(u)
  BY <1>6, <1>9 DEF Exhausted, poolVars
<1>10. CASE CondWait(u)
  <2>1. pool.maxActive > 0
    BY <1>10, PoolAssumption DEF CondWait, HasSlot
  <2>2. QED
    BY <1>6, <1>10, <2>1 DEF CondWait, poolVars
<1>11. CASE DialOk(u)
  <2> DEFINE c == CHOOSE c \in Conns : c \notin exists
  <2>1. c \in Conns
    BY <1>11 DEF DialOk
  <2>2. Moves(u, "use") /\ exists' = exists \cup {c}
        /\ has' = [has EXCEPT ![u] = c]
    BY <1>11, GoesMoves DEF DialOk
  <2> HIDE DEF c
  <2>3. ConnType'
    BY <1>11, <2>1, <2>2 DEF DialOk, ConnType
  <2>4. QED
    BY <1>11, <2>1, <2>2, <2>3, MovedInv DEF DialOk, poolVars, Inv
<1>12. CASE DialFails(u)
  <2>1. Moves(u, "out") /\ ConnType' /\ has[u] = NoConn
    BY <1>12, SignalMoves, SameConns, Has DEF DialFails
  <2>2. QED
    BY <1>12, <2>1, MovedInv DEF DialFails, Inv
<1>13. QED
  BY <1>1, <1>2, <1>3, <1>4, <1>5, <1>7, <1>8, <1>9, <1>10, <1>11, <1>12
     DEF GetStep

LEMMA FatalStill ==
  ASSUME Inv, NEW c \in Conns, NEW n \in Nat, Fatal(c, n)
  PROVE  /\ state' \in [Conns -> SUBSET Special] /\ refused' \subseteq Conns
         => ConnType'
BY Typed, FatalTyped

LEMMA PendingNat ==
  ASSUME Inv, NEW c \in Conns
  PROVE  /\ pending[c] \in Nat /\ pending[c] + 1 \in Nat
         /\ pending[c] + 3 \in Nat /\ 0 \in Nat
         /\ stream[c] \in Seq(Item) /\ special[c] \in SUBSET Special
         /\ state[c] \in SUBSET Special
         /\ state \in [Conns -> SUBSET Special]
BY Typed DEF ConnType

LEMMA CommandInv ==
  ASSUME Inv, NEW u \in Users, NEW cmd, Send(u, cmd) \/ Do(u, cmd)
  PROVE  Inv'
<1> DEFINE c == has[u]
<1>1. c \in Conns
  <2>1. at[u] \in Owning
    BY DEF Send, Do, Owning
  <2>2. QED
    BY <2>1, Has
<1>2. sends' \in [Users -> Nat] /\ \A v \in Users : sends'[v] <= MaxSends[pool][v]
  <2>1. /\ sends \in [Users -> Nat] /\ MaxSends[pool] \in [Users -> Nat]
        /\ \A v \in Users : sends[v] <= MaxSends[pool][v]
    BY Typed, PoolAssumption DEF UserType
  <2>2. sends[u] < MaxSends[pool][u] /\ sends' = [sends EXCEPT ![u] = @ + 1]
    BY DEF Send, Do
  <2>3. QED
    BY <2>1, <2>2
<1>3. state' \in [Conns -> SUBSET Special]
  <2>1. state' = [state EXCEPT ![c] = (@ \cup Sets(cmd)) \ Clears(cmd)]
    BY DEF Send, Do
  <2>2. (state[c] \cup Sets(cmd)) \ Clears(cmd) \in SUBSET Special
    BY <1>1, PendingNat DEF Sets
  <2>3. QED
    BY <1>1, <2>1, <2>2, PendingNat
<1>4. UNCHANGED <<at, has, gets, closing, poolVars>>
  BY DEF Send, Do
<1>8. refused' \subseteq Conns
  <2>1. MayRefuse(c, cmd) /\ refused \subseteq Conns
    BY Typed DEF Send, Do, ConnType
  <2>2. QED
    BY <1>1, <2>1 DEF MayRefuse
<1>5. CASE Send(u, cmd)
  <2>1. Fatal(c, pending[c] + 1) \/ Sent(c, cmd)
    BY <1>5 DEF Send
  <2>2. ConnType'
    BY <1>1, <1>3, <1>8, <2>1, PendingNat, FatalStill, SentTyped, Typed
  <2>3. QED
    BY <1>2, <1>4, <2>2, SamePool
<1>6. CASE Do(u, cmd)
  <2> DEFINE n == pending[c] + 1
             s == Append(stream[c], Reply(special[c], cmd))
  <2>1. \/ Fatal(c, 0)
        \/ /\ Len(s) >= n
           /\ pending' = [pending EXCEPT ![c] = 0]
           /\ stream' = [stream EXCEPT ![c] = SubSeq(s, n + 1, Len(s))]
           /\ special' = [special EXCEPT ![c] = After(@, cmd)]
           /\ UNCHANGED <<exists, broken, err, breaks>>
    BY <1>6 DEF Do
  <2>2. /\ s \in Seq(Item) /\ After(special[c], cmd) \in SUBSET Special
    <3>1. /\ After(special[c], cmd) \in SUBSET Special
          /\ Reply(special[c], cmd) \in Item /\ stream[c] \in Seq(Item)
      BY <1>1, PendingNat, AfterTyped
    <3>2. QED
      BY <3>1, AppendProperties
  <2>3. n + 1 \in Nat \ {0} /\ Len(s) \in Nat
    BY <1>1, <2>2, PendingNat
  <2>4. SubSeq(s, n + 1, Len(s)) \in Seq(Item)
    <3> HIDE DEF s, n
    <3>1. Len(s) <= Len(s)
      BY <2>3
    <3>2. QED
      BY <2>2, <2>3, <3>1, PartOfSeq
  <2> HIDE DEF s, n
  <2>5. CASE Fatal(c, 0)
    BY <1>1, <1>2, <1>3, <1>4, <1>8, <2>5, PendingNat, FatalStill, SamePool
  <2>6. CASE /\ pending' = [pending EXCEPT ![c] = 0]
             /\ stream' = [stream EXCEPT ![c] = SubSeq(s, n + 1, Len(s))]
             /\ special' = [special EXCEPT ![c] = After(@, cmd)]
             /\ UNCHANGED <<exists, broken, err, breaks>>
    <3>1. ConnType
      BY Typed
    <3>2. ConnType'
      BY <1>1, <1>3, <1>8, <2>2, <2>4, <2>6, <3>1 DEF ConnType
    <3>3. QED
      BY <1>2, <1>4, <3>2, SamePool
  <2>7. QED
    BY <2>1, <2>5, <2>6
<1>7. QED
  BY <1>5, <1>6

LEMMA UseInv ==
  ASSUME Inv, NEW u \in Users, Use(u)
  PROVE  Inv'
<1>1. CASE StartGet(u)
  <2>1. "get" \in Place /\ "get" \notin Owning /\ "out" \notin Owning
    BY DEF Place, Owning
  <2>2. Moves(u, "get") /\ ConnType' /\ has[u] = NoConn
    BY <1>1, <2>1, GoesMoves, SameConns, Has, Typed DEF StartGet
  <2>3. gets' \in [Users -> Nat] /\ \A v \in Users : gets'[v] <= MaxGets[v]
    BY <1>1, Typed, PoolAssumption DEF StartGet
  <2>4. QED
    BY <1>1, <2>1, <2>2, <2>3, MovedInv, Typed DEF StartGet, poolVars, Inv
<1>2. CASE Receive(u)
  <2>1. has[u] \in Conns
    BY <1>2, Has DEF Receive, Owning
  <2>2. state' \in [Conns -> SUBSET Special] /\ refused' \subseteq Conns
    BY <1>2, <2>1, Typed, PendingNat DEF Receive, ConnType
  <2>3. Fatal(has[u], pending[has[u]]) \/ Received(has[u])
    BY <1>2 DEF Receive
  <2>4. ConnType'
    BY <2>1, <2>2, <2>3, PendingNat, FatalStill, ReceivedTyped, Typed
  <2>5. sends' \in [Users -> Nat] /\ \A v \in Users : sends'[v] <= MaxSends[pool][v]
    BY <1>2, Typed DEF Receive, UserType
  <2>6. QED
    BY <1>2, <2>4, <2>5, SamePool DEF Receive
<1>3. QED
  BY <1>1, <1>2, CommandInv DEF Use

LEMMA NetworkInv ==
  ASSUME Inv, NEW c \in Conns, Push(c) \/ Break(c)
  PROVE  Inv'
<1>1. ConnType /\ UserType
  BY Typed
<1>2. CASE Push(c)
  <2>1. stream[c] \in Seq(Item) /\ "push" \in Item
    BY PendingNat DEF Item
  <2>2. Append(stream[c], "push") \in Seq(Item)
    BY <2>1, AppendProperties
  <2>3. ConnType'
    BY <1>1, <1>2, <2>2 DEF ConnType, Push
  <2>4. QED
    BY <1>1, <1>2, <2>3, SamePool DEF Push, userVars, UserType
<1>3. CASE Break(c)
  <2>1. ConnType'
    BY <1>1, <1>3, PoolAssumption DEF ConnType, Break
  <2>2. QED
    BY <1>1, <1>3, <2>1, SamePool DEF Break, userVars, UserType
<1>4. QED
  BY <1>2, <1>3

\* The steps of pooledConnection.Close before it puts the connection back.
LEMMA UndoInv ==
  ASSUME Inv, NEW u \in Users,
         Close(u) \/ Unsubscribe(u) \/ Drain(u) \/ Flush(u)
  PROVE  Inv'
<1> DEFINE c == has[u]
<1>1. c \in Conns
  <2>1. at[u] \in Owning
    BY DEF Close, Unsubscribe, Drain, Flush, Owning
  <2>2. QED
    BY <2>1, Has
<1>2. ASSUME NEW p \in {"unsub", "flush", "drain", "put"}, Goes(u, p),
             UNCHANGED <<has, gets, sends, closing, poolVars>>, ConnType'
      PROVE  Inv'
  <2>1. p \in Place /\ p \in Owning
    BY <1>2 DEF Place, Holding, Owning
  <2>2. Moves(u, p) /\ has[u] # NoConn
    BY <1>1, <1>2, <2>1, GoesMoves, Typed
  <2>3. QED
    BY <1>2, <2>1, <2>2, MovedInv, Typed DEF poolVars, Inv
<1>3. ConnType /\ refused' \subseteq Conns
  BY Typed DEF ConnType, Close, Unsubscribe, Drain, Flush
<1>4. CASE Close(u)
  <2>1. \/ Fatal(c, pending[c] + 1) \/ Sent(c, "exec") \/ Sent(c, "unwatch")
        \/ UNCHANGED <<exists, broken, err, pending, stream, special, breaks>>
    BY <1>4, Zenon DEF Close
  <2>2. state' = [state EXCEPT ![c] = @ \ {"multi", "watch"}]
    BY <1>4 DEF Close
  <2>3. state' \in [Conns -> SUBSET Special]
    BY <1>1, <2>2, PendingNat
  <2>4. ConnType'
    <3>1. CASE UNCHANGED <<exists, broken, err, pending, stream, special,
                           breaks>>
      BY <1>3, <2>3, <3>1 DEF ConnType
    <3>2. CASE Fatal(c, pending[c] + 1)
      BY <1>1, <2>3, <3>2, <1>3, PendingNat, FatalStill
    <3>3. QED
      BY <1>1, <1>3, <2>1, <2>3, <3>1, <3>2, SentTyped
  <2>5. QED
    BY <1>2, <1>4, <2>4 DEF Close
<1>5. CASE Unsubscribe(u)
  <2> DEFINE sp == special[c]
             left == After(sp, "unsubscribe")
             three == <<Reply(sp, "unsubscribe"), Reply(left, "unsubscribe"),
                        Reply(left, "echo")>>
  <2>1. sp \in SUBSET Special /\ left \in SUBSET Special
    BY <1>1, PendingNat, AfterTyped
  <2>2. /\ Reply(sp, "unsubscribe") \in Item
        /\ Reply(left, "unsubscribe") \in Item /\ Reply(left, "echo") \in Item
    BY <2>1, AfterTyped
  <2>3. three \in Seq(Item)
    BY <2>2
  <2>4. stream[c] \o three \in Seq(Item)
    <3> HIDE DEF three
    <3>1. QED
      BY <1>1, <2>3, PendingNat, ConcatProperties
  <2>5. \/ Fatal(c, pending[c] + 3)
        \/ /\ pending' = [pending EXCEPT ![c] = @ + 3]
           /\ stream' = [stream EXCEPT ![c] = @ \o three]
           /\ special' = [special EXCEPT ![c] = left]
           /\ UNCHANGED <<exists, broken, err, breaks>>
    BY <1>5 DEF Unsubscribe
  <2>6. state' \in [Conns -> SUBSET Special]
    BY <1>1, <1>5, PendingNat DEF Unsubscribe
  <2> HIDE DEF sp, left, three
  <2>7. ConnType'
    <3>1. CASE Fatal(c, pending[c] + 3)
      BY <1>1, <2>6, <3>1, <1>3, PendingNat, FatalStill
    <3>2. CASE /\ pending' = [pending EXCEPT ![c] = @ + 3]
               /\ stream' = [stream EXCEPT ![c] = @ \o three]
               /\ special' = [special EXCEPT ![c] = left]
               /\ UNCHANGED <<exists, broken, err, breaks>>
      BY <1>1, <1>3, <2>1, <2>4, <2>6, <3>2 DEF ConnType
    <3>3. QED
      BY <2>5, <3>1, <3>2
  <2>8. QED
    BY <1>2, <1>5, <2>7 DEF Unsubscribe
<1>6. CASE Drain(u)
  <2>1. state' \in [Conns -> SUBSET Special]
    <3>1. state[c] \ {"subscribe"} \in SUBSET Special
      BY <1>1, PendingNat
    <3>2. state' \in {state, [state EXCEPT ![c] = @ \ {"subscribe"}]}
      BY <1>6 DEF Drain
    <3>3. QED
      BY <1>1, <3>1, <3>2, PendingNat
  <2>2. ConnType'
    BY <1>1, <1>3, <1>6, <2>1, PendingNat, FatalStill, ReceivedTyped
       DEF Drain
  <2>3. QED
    BY <1>2, <1>6, <2>2 DEF Drain
<1>7. CASE Flush(u)
  <2> DEFINE n == pending[c]
  <2>1. state' \in [Conns -> SUBSET Special]
    BY <1>1, <1>7, PendingNat DEF Flush
  <2>2. \/ Fatal(c, 0)
        \/ /\ Len(stream[c]) >= n
           /\ pending' = [pending EXCEPT ![c] = 0]
           /\ stream' = [stream EXCEPT ![c] = SubSeq(@, n + 1, Len(@))]
           /\ UNCHANGED <<exists, broken, err, special, breaks>>
        \/ UNCHANGED <<exists, broken, err, pending, stream, special, breaks>>
    BY <1>7 DEF Flush
  <2>3. SubSeq(stream[c], n + 1, Len(stream[c])) \in Seq(Item)
    <3>1. n + 1 \in Nat \ {0} /\ Len(stream[c]) \in Nat
      BY <1>1, PendingNat
    <3>2. Len(stream[c]) <= Len(stream[c])
      BY <3>1
    <3> HIDE DEF n
    <3>3. QED
      BY <1>1, <3>1, <3>2, PendingNat, PartOfSeq
  <2> HIDE DEF n
  <2>4. ConnType'
    <3>1. CASE Fatal(c, 0)
      BY <1>1, <2>1, <3>1, <1>3, PendingNat, FatalStill
    <3>2. CASE /\ pending' = [pending EXCEPT ![c] = 0]
               /\ stream' = [stream EXCEPT ![c] = SubSeq(@, n + 1, Len(@))]
               /\ UNCHANGED <<exists, broken, err, special, breaks>>
      BY <1>1, <1>3, <2>1, <2>3, <3>2 DEF ConnType
    <3>3. CASE UNCHANGED <<exists, broken, err, pending, stream, special,
                           breaks>>
      BY <1>3, <2>1, <3>3 DEF ConnType
    <3>4. QED
      BY <2>2, <3>1, <3>2, <3>3
  <2>5. QED
    BY <1>2, <1>7, <2>4 DEF Flush
<1>8. QED
  BY <1>4, <1>5, <1>6, <1>7

LEMMA PutInv ==
  ASSUME Inv, NEW u \in Users,
         Put(u) \/ PutTooMany(u) \/ PutForced(u) \/ ConnClose(u)
  PROVE  Inv'
<1> USE Typed DEF Place, Holding, Owning
<1>1. has[u] \in Conns
  BY Has DEF Put, PutTooMany, PutForced, ConnClose
<1>2. /\ <<has[u]>> \o idle \in Seq(Conns)
      /\ Len(<<has[u]>> \o idle) = Len(idle) + 1
  BY <1>1, PushedFront
<1>3. CASE Put(u)
  <2>1. Moves(u, "out") /\ ConnType' /\ ~closed
    BY <1>3, SignalMoves, SameConns DEF Put, KeepsConn
  <2>2. idle' \in Seq(Conns) /\ has' = [has EXCEPT ![u] = NoConn]
    BY <1>2, <1>3 DEF Put
  <2>3. QED
    BY <1>3, <2>1, <2>2, MovedInv DEF Put
<1>4. CASE PutTooMany(u)
  <2> DEFINE all == <<has[u]>> \o idle
  <2>1. all \in Seq(Conns) /\ Len(all) = Len(idle) + 1 /\ Len(idle) \in Nat
    BY <1>2
  <2>2. /\ idle' = SubSeq(all, 1, Len(all) - 1)
        /\ has' = [has EXCEPT ![u] = all[Len(all)]]
    BY <1>4 DEF PutTooMany
  <2> HIDE DEF all
  <2>3. all # << >>
    BY <2>1
  <2>4. idle' \in Seq(Conns) /\ all[Len(all)] \in Conns
    BY <2>1, <2>2, <2>3, DroppedLast
  <2>5. Moves(u, "close") /\ ConnType' /\ ~closed
    BY <1>4, SignalMoves, SameConns DEF PutTooMany, KeepsConn
  <2>6. /\ UNCHANGED <<pool, closed, sends, closing, gets>>
        /\ active' \in Int /\ has' \in [Users -> Conns \cup {NoConn}]
        /\ \A v \in Users \ {u} : has'[v] = has[v]
        /\ has'[u] # NoConn
    BY <1>4, <2>2, <2>4 DEF PutTooMany
  <2>7. \A v \in Users : gets'[v] <= MaxGets[v]
    BY <2>6
  <2>8. QED
    BY <2>4, <2>5, <2>6, <2>7, MovedInv
<1>5. CASE PutForced(u)
  <2>1. Moves(u, "close") /\ ConnType'
    BY <1>5, SignalMoves, SameConns DEF PutForced
  <2>2. QED
    BY <1>1, <1>5, <2>1, MovedInv DEF PutForced, Inv
<1>6. CASE ConnClose(u)
  <2>1. Moves(u, "out") /\ ConnType'
    BY <1>1, <1>6, GoesMoves, ClosedTyped DEF ConnClose
  <2>2. QED
    BY <1>6, <2>1, MovedInv DEF ConnClose, poolVars, Inv
<1>7. QED
  BY <1>3, <1>4, <1>5, <1>6

LEMMA PoolCloseInv ==
  ASSUME Inv, PoolClose \/ \E c \in Conns : PoolCloses(c)
  PROVE  Inv'
<1> USE Typed
<1>1. TypeOK' <=> UserType' /\ ConnType'
  BY DEF TypeOK, UserType, ConnType, Item
<1>2. CASE PoolClose
  <2>1. /\ idle' = << >> /\ idle' \in Seq(Conns) /\ active' \in Int
    BY <1>2, EmptySeq DEF PoolClose, StillActive
  <2>2. \A i \in 1 .. Len(idle) : idle[i] \in Conns
    OBVIOUS
  <2>3. closing' \subseteq Conns
    BY <1>2, <2>2 DEF PoolClose
  <2>4. at' = [v \in Users |-> IF at[v] = "waiting" THEN "woken" ELSE at[v]]
    BY <1>2 DEF PoolClose
  <2>5. at' \in [Users -> Place]
    BY <2>4 DEF UserType, Place
  <2>6. /\ \A v \in Users : has'[v] # NoConn <=> at'[v] \in Owning
        /\ \A v \in Users :
             at'[v] \in {"waiting", "woken"} => pool'.maxActive > 0
    BY <1>2, <2>4 DEF PoolClose, Inv, Owning
  <2>7. UserType' /\ ConnType'
    BY <1>2, <2>1, <2>3, <2>5, SameConns DEF PoolClose, UserType
  <2>8. QED
    BY <1>1, <2>1, <2>6, <2>7 DEF Inv
<1>3. ASSUME NEW c \in Conns, PoolCloses(c)
      PROVE  Inv'
  <2>1. ConnType'
    BY <1>3, ClosedTyped DEF PoolCloses
  <2>2. UserType'
    BY <1>3 DEF PoolCloses, UserType, poolVars
  <2>3. QED
    BY <1>1, <1>3, <2>1, <2>2 DEF Inv, PoolCloses, poolVars
<1>4. QED
  BY <1>2, <1>3

LEMMA NextInv == ASSUME Inv, [Next]_vars PROVE Inv'
<1>1. CASE UNCHANGED vars
  BY <1>1 DEF vars, poolVars, userVars, connVars, Inv, TypeOK
<1>2. CASE \E u \in Users : GetStep(u) \/ CloseStep(u) \/ Use(u)
  BY <1>2, GetStepInv, UseInv, UndoInv, PutInv DEF CloseStep
<1>3. QED
  BY <1>1, <1>2, NetworkInv, PoolCloseInv DEF Next

LEMMA InitInv == ASSUME Init PROVE Inv
<1>1. UserType
  <2>1. "out" \in Place /\ idle \in Seq(Conns)
    BY EmptySeq DEF Init, Place
  <2>2. \A u \in Users : gets[u] <= MaxGets[u] /\ sends[u] <= MaxSends[pool][u]
    BY PoolAssumption DEF Init
  <2>3. /\ at \in [Users -> Place] /\ has \in [Users -> Conns \cup {NoConn}]
        /\ gets \in [Users -> Nat] /\ sends \in [Users -> Nat]
    BY <2>1 DEF Init
  <2>4. pool \in Pools /\ active \in Int /\ closing \subseteq Conns
    BY DEF Init
  <2>5. closed \in BOOLEAN
    BY Zenon DEF Init
  <2>6. QED
    BY <2>1, <2>2, <2>3, <2>4, <2>5 DEF UserType
<1>2. ConnType
  BY PoolAssumption, EmptyItems DEF Init, ConnType
<1>3. QED
  BY <1>1, <1>2, TypeParts DEF Init, Inv, Owning

LEMMA InvAlways == Spec => []Inv
<1>1. Init => Inv
  BY InitInv
<1>2. Inv /\ [Next]_vars => Inv'
  BY NextInv
<1>3. QED
  BY <1>1, <1>2, PTL DEF Spec

\* Every variable of the pool, its users and its connections stays in its
\* range.
THEOREM PoolTyped == Spec => []TypeOK
<1>1. Inv => TypeOK
  BY DEF Inv
<1>2. QED
  BY <1>1, InvAlways, PTL

------------------------------------------------------------------------------
(* Whose a connection is.                                                   *)

Member(c, s) == \E i \in 1 .. Len(s) : s[i] = c
Distinct(s) == \A i, j \in 1 .. Len(s) : i # j => s[i] # s[j]

LEMMA NoMembers == Distinct(<< >>) /\ \A c : ~Member(c, << >>)
BY EmptySeq DEF Distinct, Member

LEMMA TailMembers ==
  ASSUME NEW S, NEW s \in Seq(S), s # << >>, Distinct(s)
  PROVE  /\ Distinct(Tail(s)) /\ ~Member(Head(s), Tail(s))
         /\ \A c : Member(c, s) <=> c = Head(s) \/ Member(c, Tail(s))
<1> DEFINE t == Tail(s)
<1>1. /\ Len(t) = Len(s) - 1 /\ Head(s) = s[1] /\ Len(s) \in Nat \ {0}
      /\ \A i \in 1 .. Len(t) : t[i] = s[i + 1]
  BY DroppedFirst
<1> HIDE DEF t
<1>2. Distinct(t) /\ ~Member(Head(s), t)
  <2>1. \A i \in 1 .. Len(t) : i + 1 \in 1 .. Len(s) /\ i + 1 # 1
    BY <1>1
  <2>2. 1 \in 1 .. Len(s)
    BY <1>1
  <2>3. Distinct(t)
    BY <1>1, <2>1 DEF Distinct
  <2>4. ~Member(Head(s), t)
    BY <1>1, <2>1, <2>2 DEF Distinct, Member
  <2>5. QED
    BY <2>3, <2>4
<1>3. ASSUME NEW c
      PROVE  Member(c, s) <=> c = Head(s) \/ Member(c, t)
  <2>1. ASSUME Member(c, s) PROVE c = Head(s) \/ Member(c, t)
    <3>1. PICK i \in 1 .. Len(s) : s[i] = c
      BY <2>1 DEF Member
    <3>2. CASE i = 1
      BY <1>1, <3>1, <3>2
    <3>3. CASE i # 1
      <4>1. i - 1 \in 1 .. Len(t) /\ t[i - 1] = s[i]
        BY <1>1, <3>1, <3>3
      <4>2. QED
        BY <3>1, <4>1 DEF Member
    <3>4. QED
      BY <3>2, <3>3
  <2>2. ASSUME c = Head(s) PROVE Member(c, s)
    <3>1. 1 \in 1 .. Len(s) /\ s[1] = c
      BY <1>1, <2>2
    <3>2. QED
      BY <3>1 DEF Member
  <2>3. ASSUME Member(c, t) PROVE Member(c, s)
    <3>1. PICK i \in 1 .. Len(t) : t[i] = c
      BY <2>3 DEF Member
    <3>2. i + 1 \in 1 .. Len(s) /\ s[i + 1] = c
      BY <1>1, <3>1
    <3>3. QED
      BY <3>2 DEF Member
  <2>4. QED
    BY <2>1, <2>2, <2>3
<1>4. QED
  BY <1>2, <1>3 DEF t

LEMMA LastMembers ==
  ASSUME NEW S, NEW s \in Seq(S), s # << >>, Distinct(s)
  PROVE  LET t == SubSeq(s, 1, Len(s) - 1)
             l == s[Len(s)]
         IN  /\ Distinct(t) /\ ~Member(l, t)
             /\ \A c : Member(c, s) <=> c = l \/ Member(c, t)
<1> DEFINE t == SubSeq(s, 1, Len(s) - 1)
           l == s[Len(s)]
<1>1. /\ Len(t) = Len(s) - 1 /\ Len(s) \in Nat \ {0}
      /\ \A i \in 1 .. Len(t) : t[i] = s[i]
  BY DroppedLast
<1> HIDE DEF t
<1>2. Len(s) \in 1 .. Len(s)
  BY <1>1
<1>3. \A i \in 1 .. Len(t) : i \in 1 .. Len(s) /\ i # Len(s)
  BY <1>1
<1>4. \A i \in 1 .. Len(s) : i # Len(s) => i \in 1 .. Len(t)
  BY <1>1
<1>5. Distinct(t)
  BY <1>1, <1>3 DEF Distinct
<1>6. ~Member(l, t)
  BY <1>1, <1>2, <1>3 DEF Distinct, Member
<1>7. ASSUME NEW c
      PROVE  Member(c, s) <=> c = l \/ Member(c, t)
  BY <1>1, <1>2, <1>3, <1>4 DEF Member
<1>8. QED
  BY <1>5, <1>6, <1>7 DEF t

LEMMA FrontMembers ==
  ASSUME NEW S, NEW s \in Seq(S), NEW d \in S, Distinct(s), ~Member(d, s)
  PROVE  LET t == <<d>> \o s
         IN  /\ Distinct(t) /\ \A c : Member(c, t) <=> c = d \/ Member(c, s)
<1> DEFINE t == <<d>> \o s
<1>1. /\ t \in Seq(S) /\ Len(t) = Len(s) + 1 /\ t[1] = d /\ Len(s) \in Nat
      /\ \A i \in 1 .. Len(s) : t[i + 1] = s[i]
  BY PushedFront
<1> HIDE DEF t
<1>2. /\ \A i \in 1 .. Len(s) : i + 1 \in 1 .. Len(t)
      /\ 1 \in 1 .. Len(t)
  BY <1>1
<1>3. \A i \in 1 .. Len(t) :
        i = 1 \/ (i - 1 \in 1 .. Len(s) /\ t[i] = s[i - 1])
  <2>1. TAKE i \in 1 .. Len(t)
  <2>2. CASE i # 1
    <3>1. i - 1 \in 1 .. Len(s) /\ (i - 1) + 1 = i
      BY <1>1, <2>2
    <3>2. QED
      BY <1>1, <3>1
  <2>3. QED
    BY <2>2
<1>4. Distinct(t)
  <2>1. SUFFICES ASSUME NEW i \in 1 .. Len(t), NEW j \in 1 .. Len(t), i # j
                 PROVE  t[i] # t[j]
    BY DEF Distinct
  <2>2. CASE i = 1
    BY <1>1, <1>3, <2>1, <2>2 DEF Member
  <2>3. CASE j = 1
    BY <1>1, <1>3, <2>1, <2>3 DEF Member
  <2>4. CASE i # 1 /\ j # 1
    <3>1. /\ i - 1 \in 1 .. Len(s) /\ t[i] = s[i - 1]
          /\ j - 1 \in 1 .. Len(s) /\ t[j] = s[j - 1] /\ i - 1 # j - 1
      BY <1>3, <2>1, <2>4
    <3>2. QED
      BY <3>1 DEF Distinct
  <2>5. QED
    BY <2>2, <2>3, <2>4
<1>5. ASSUME NEW c
      PROVE  Member(c, t) <=> c = d \/ Member(c, s)
  <2>1. ASSUME Member(c, t) PROVE c = d \/ Member(c, s)
    <3>1. PICK i \in 1 .. Len(t) : t[i] = c
      BY <2>1 DEF Member
    <3>2. QED
      BY <1>1, <1>3, <3>1 DEF Member
  <2>2. ASSUME c = d PROVE Member(c, t)
    BY <1>1, <1>2, <2>2 DEF Member
  <2>3. ASSUME Member(c, s) PROVE Member(c, t)
    BY <1>1, <1>2, <2>3 DEF Member
  <2>4. QED
    BY <2>1, <2>2, <2>3
<1>6. QED
  BY <1>4, <1>5 DEF t

\* The connections that exist are those a goroutine has, the idle ones, and
\* those Pool.Close has still to close; each is only one of these, once.
Held ==
  /\ \A u, v \in Users : u # v /\ has[u] # NoConn => has[u] # has[v]
  /\ Distinct(idle)
  /\ \A u \in Users : ~Member(has[u], idle) /\ has[u] \notin closing
  /\ closing # {} => closed
  /\ \A c \in Conns : c \in exists <=>
       (\E u \in Users : has[u] = c) \/ Member(c, idle) \/ c \in closing

\* A goroutine's connection is closed; it takes none, or one that is idle.
LEMMA HeldCloses ==
  ASSUME Inv, Held, NEW u \in Users, has[u] \in Conns,
         exists' = exists \ {has[u]}, UNCHANGED <<closing, closed>>,
         \/ has' = [has EXCEPT ![u] = NoConn] /\ idle' = idle
         \/ /\ idle # << >> /\ idle' = Tail(idle)
            /\ has' = [has EXCEPT ![u] = Head(idle)]
  PROVE  Held'
<1> USE Typed
<1>1. CASE has' = [has EXCEPT ![u] = NoConn] /\ idle' = idle
  <2>1. /\ has'[u] = NoConn /\ \A v \in Users \ {u} : has'[v] = has[v]
    BY <1>1
  <2>2. ~Member(NoConn, idle) /\ NoConn \notin closing
    <3>1. \A i \in 1 .. Len(idle) : idle[i] \in Conns
      OBVIOUS
    <3>2. QED
      BY <3>1 DEF Member, UserType
  <2>3. QED
    BY <1>1, <2>1, <2>2 DEF Held
<1>2. CASE /\ idle # << >> /\ idle' = Tail(idle)
           /\ has' = [has EXCEPT ![u] = Head(idle)]
  <2> DEFINE h == Head(idle)
             t == Tail(idle)
  <2>1. /\ Distinct(t) /\ ~Member(h, t) /\ h \in Conns
        /\ \A c : Member(c, idle) <=> c = h \/ Member(c, t)
    BY <1>2, TailMembers, DroppedFirst DEF Held
  <2>2. closing = {}
    BY <1>2 DEF Held, Inv
  <2>3. /\ has'[u] = h /\ \A v \in Users \ {u} : has'[v] = has[v]
        /\ idle' = t
    BY <1>2
  <2> HIDE DEF h, t
  <2>4. \A v \in Users : has[v] # h
    BY <2>1 DEF Held
  <2>5. \A c \in Conns : c \in exists' <=>
          (\E v \in Users : has'[v] = c) \/ Member(c, t) \/ c \in closing
    <3>1. TAKE c \in Conns
    <3>2. CASE c = has[u]
      BY <2>1, <2>3, <2>4, <3>2 DEF Held
    <3>3. CASE c # has[u]
      BY <2>1, <2>3, <2>4, <3>3 DEF Held
    <3>4. QED
      BY <3>2, <3>3
  <2>6. QED
    BY <2>1, <2>2, <2>3, <2>4, <2>5 DEF Held
<1>3. QED
  BY <1>1, <1>2

\* A goroutine that has none takes an idle one off the list.
LEMMA HeldTakes ==
  ASSUME Inv, Held, NEW u \in Users, has[u] = NoConn, idle # << >>,
         UNCHANGED <<exists, closing, closed>>,
         NEW d, has' = [has EXCEPT ![u] = d],
         Distinct(idle'), ~Member(d, idle'),
         \A c : Member(c, idle) <=> c = d \/ Member(c, idle')
  PROVE  Held'
<1> USE Typed
<1>1. /\ has'[u] = d /\ \A v \in Users \ {u} : has'[v] = has[v]
  OBVIOUS
<1>2. closing = {}
  BY DEF Held, Inv
<1>3. \A v \in Users : has[v] # d
  BY DEF Held
<1>4. \A c \in Conns : c \in exists' <=>
        (\E v \in Users : has'[v] = c) \/ Member(c, idle') \/ c \in closing
  BY <1>1, <1>3 DEF Held
<1>5. QED
  BY <1>1, <1>2, <1>3, <1>4 DEF Held

\* It gives up what it has to the list, and may get the last one instead.
LEMMA HeldPuts ==
  ASSUME Inv, Held, NEW u \in Users, has[u] \in Conns, ~closed,
         UNCHANGED <<exists, closing, closed>>,
         \/ idle' = <<has[u]>> \o idle /\ has' = [has EXCEPT ![u] = NoConn]
         \/ LET all == <<has[u]>> \o idle
            IN  /\ idle' = SubSeq(all, 1, Len(all) - 1)
                /\ has' = [has EXCEPT ![u] = all[Len(all)]]
  PROVE  Held'
<1> USE Typed
<1> DEFINE c == has[u]
           all == <<c>> \o idle
<1>1. /\ all \in Seq(Conns) /\ Len(all) = Len(idle) + 1 /\ Len(idle) \in Nat
  BY PushedFront
<1>2. /\ Distinct(all) /\ \A d : Member(d, all) <=> d = c \/ Member(d, idle)
  BY FrontMembers DEF Held
<1> HIDE DEF all
<1>3. closing = {} /\ ~Member(NoConn, all)
  <2>1. \A i \in 1 .. Len(all) : all[i] \in Conns
    BY <1>1
  <2>2. QED
    BY <2>1 DEF Held, Member
<1>4. CASE idle' = all /\ has' = [has EXCEPT ![u] = NoConn]
  <2>1. has'[u] = NoConn /\ \A v \in Users \ {u} : has'[v] = has[v]
    BY <1>4
  <2>2. \A v \in Users \ {u} : has[v] # c
    BY DEF Held
  <2>3. \A d \in Conns : d \in exists' <=>
          (\E v \in Users : has'[v] = d) \/ Member(d, all) \/ d \in closing
    BY <1>2, <2>1 DEF Held
  <2>4. QED
    BY <1>2, <1>3, <1>4, <2>1, <2>2, <2>3 DEF Held
<1>5. CASE /\ idle' = SubSeq(all, 1, Len(all) - 1)
           /\ has' = [has EXCEPT ![u] = all[Len(all)]]
  <2> DEFINE l == all[Len(all)]
             t == SubSeq(all, 1, Len(all) - 1)
  <2>1. /\ Distinct(t) /\ ~Member(l, t)
        /\ \A d : Member(d, all) <=> d = l \/ Member(d, t)
    BY <1>1, <1>2, LastMembers
  <2>2. has'[u] = l /\ idle' = t /\ \A v \in Users \ {u} : has'[v] = has[v]
    BY <1>5
  <2> HIDE DEF l, t
  <2>3. l # NoConn
    BY <1>3, <2>1
  <2>4. \A v \in Users \ {u} : ~Member(has[v], all)
    BY <1>2 DEF Held
  <2>5. \A d \in Conns : d \in exists' <=>
          (\E v \in Users : has'[v] = d) \/ Member(d, t) \/ d \in closing
    BY <1>2, <2>1, <2>2 DEF Held
  <2>6. QED
    BY <1>3, <2>1, <2>2, <2>3, <2>4, <2>5 DEF Held
<1>6. QED
  BY <1>4, <1>5 DEF all

LEMMA HeldSame ==
  ASSUME Inv, Held, UNCHANGED <<has, idle, closing, closed, exists>>
  PROVE  Held'
BY DEF Held, Member, Distinct

LEMMA HeldGetStep ==
  ASSUME Inv, Held, NEW u \in Users, GetStep(u)
  PROVE  Held'
<1> USE Typed
<1>1. CASE Prune(u)
  <2> DEFINE l == idle[Len(idle)]
             t == SubSeq(idle, 1, Len(idle) - 1)
  <2>1. /\ Distinct(t) /\ ~Member(l, t)
        /\ \A c : Member(c, idle) <=> c = l \/ Member(c, t)
    BY <1>1, LastMembers DEF Held, Prune
  <2>2. has[u] = NoConn
    BY <1>1, Has DEF Prune, Owning
  <2>3. /\ idle # << >> /\ idle' = t /\ has' = [has EXCEPT ![u] = l]
        /\ UNCHANGED <<exists, closing, closed>>
    BY <1>1 DEF Prune, connVars
  <2> HIDE DEF l, t
  <2>4. QED
    BY <2>1, <2>2, <2>3, HeldTakes
<1>2. CASE PruneClose(u)
  <2>1. has[u] \in Conns
    BY <1>2, Has DEF PruneClose, Owning
  <2>2. QED
    BY <1>2, <2>1, HeldCloses DEF PruneClose, Closed, poolVars
<1>3. CASE TakeIdle(u)
  <2> DEFINE h == Head(idle)
             t == Tail(idle)
  <2>1. /\ Distinct(t) /\ ~Member(h, t)
        /\ \A c : Member(c, idle) <=> c = h \/ Member(c, t)
    BY <1>3, TailMembers DEF Held, TakeIdle
  <2>2. has[u] = NoConn
    BY <1>3, Has DEF TakeIdle, InLoop, Owning
  <2>3. /\ idle # << >> /\ idle' = t /\ has' = [has EXCEPT ![u] = h]
        /\ UNCHANGED <<exists, closing, closed>>
    BY <1>3 DEF TakeIdle, connVars
  <2> HIDE DEF h, t
  <2>4. QED
    BY <2>1, <2>2, <2>3, HeldTakes
<1>4. CASE TestFails(u)
  <2>1. has[u] \in Conns
    BY <1>4, Has DEF TestFails, Owning
  <2>2. /\ exists' = exists \ {has[u]} /\ UNCHANGED <<closing, closed>>
        /\ \/ has' = [has EXCEPT ![u] = NoConn] /\ idle' = idle
           \/ /\ idle # << >> /\ idle' = Tail(idle)
              /\ has' = [has EXCEPT ![u] = Head(idle)]
    BY <1>4 DEF TestFails, Closed
  <2>3. QED
    BY <2>1, <2>2, HeldCloses
<1>5. CASE \/ TestPasses(u) \/ GetOnClosed(u) \/ GetDials(u) \/ Exhausted(u)
           \/ CondWait(u) \/ DialFails(u)
  BY <1>5, HeldSame DEF TestPasses, GetOnClosed, GetDials, Exhausted,
     CondWait, DialFails, poolVars, connVars
<1>6. CASE DialOk(u)
  <2> DEFINE c == CHOOSE c \in Conns : c \notin exists
  <2>1. c \in Conns /\ c \notin exists
    BY <1>6 DEF DialOk
  <2>2. /\ exists' = exists \cup {c} /\ has' = [has EXCEPT ![u] = c]
        /\ UNCHANGED <<idle, closing, closed>>
    BY <1>6 DEF DialOk, poolVars
  <2> HIDE DEF c
  <2>3. has[u] = NoConn
    BY <1>6, Has DEF DialOk, Owning
  <2>4. has'[u] = c /\ \A v \in Users \ {u} : has'[v] = has[v]
    BY <2>2
  <2>5. /\ ~Member(c, idle) /\ c \notin closing
        /\ \A v \in Users : has[v] # c
    BY <2>1 DEF Held
  <2>6. \A d \in Conns : d \in exists' <=>
          (\E v \in Users : has'[v] = d) \/ Member(d, idle) \/ d \in closing
    BY <2>2, <2>3, <2>4 DEF Held
  <2>7. QED
    BY <2>2, <2>4, <2>5, <2>6 DEF Held
<1>7. QED
  BY <1>1, <1>2, <1>3, <1>4, <1>5, <1>6 DEF GetStep

LEMMA HeldCloseStep ==
  ASSUME Inv, Held, NEW u \in Users, CloseStep(u)
  PROVE  Held'
<1> USE Typed
<1>1. ASSUME NEW c, NEW n, Fatal(c, n) PROVE exists' = exists
  BY <1>1 DEF Fatal
<1>2. CASE Close(u)
  <2>1. exists' = exists
    <3>1. \/ \E n : Fatal(has[u], n)
          \/ Sent(has[u], "exec") \/ Sent(has[u], "unwatch")
          \/ UNCHANGED <<exists, broken, err, pending, stream, special,
                         breaks>>
      BY <1>2, Zenon DEF Close
    <3>2. QED
      BY <1>1, <3>1 DEF Sent
  <2>2. QED
    BY <1>2, <2>1, HeldSame DEF Close, poolVars
<1>3. CASE Unsubscribe(u) \/ Drain(u) \/ Flush(u)
  BY <1>1, <1>3, HeldSame DEF Unsubscribe, Drain, Received, Flush, poolVars
<1>4. CASE Put(u) \/ PutTooMany(u)
  <2>1. /\ has[u] \in Conns /\ ~closed
        /\ UNCHANGED <<exists, closing, closed>>
    BY <1>4, Has DEF Put, PutTooMany, KeepsConn, connVars, Owning
  <2>2. \/ idle' = <<has[u]>> \o idle /\ has' = [has EXCEPT ![u] = NoConn]
        \/ LET all == <<has[u]>> \o idle
           IN  /\ idle' = SubSeq(all, 1, Len(all) - 1)
               /\ has' = [has EXCEPT ![u] = all[Len(all)]]
    BY <1>4 DEF Put, PutTooMany
  <2>3. QED
    BY <2>1, <2>2, HeldPuts
<1>5. CASE PutForced(u)
  BY <1>5, HeldSame DEF PutForced, connVars
<1>6. CASE ConnClose(u)
  <2>1. has[u] \in Conns
    BY <1>6, Has DEF ConnClose, Owning
  <2>2. QED
    BY <1>6, <2>1, HeldCloses DEF ConnClose, Closed, poolVars
<1>7. QED
  BY <1>2, <1>3, <1>4, <1>5, <1>6 DEF CloseStep

LEMMA HeldPoolClose ==
  ASSUME Inv, Held, PoolClose \/ \E c \in Conns : PoolCloses(c)
  PROVE  Held'
<1> USE Typed
<1>1. CASE PoolClose
  <2>1. \A c : c \in closing' <=> Member(c, idle)
    BY <1>1 DEF PoolClose, Member
  <2>2. idle' = << >> /\ closing = {} /\ closed' /\ UNCHANGED <<has, exists>>
    BY <1>1, Zenon DEF PoolClose, Held, connVars
  <2>3. Distinct(idle') /\ \A c : ~Member(c, idle')
    BY <2>2, NoMembers
  <2>4. QED
    BY <2>1, <2>2, <2>3 DEF Held
<1>2. ASSUME NEW c \in Conns, PoolCloses(c)
      PROVE  Held'
  <2>1. /\ c \in closing /\ closing' = closing \ {c} /\ exists' = exists \ {c}
        /\ UNCHANGED <<has, idle, closed>>
    BY <1>2 DEF PoolCloses, Closed, poolVars
  <2>2. closed /\ idle = << >>
    BY <2>1 DEF Held, Inv
  <2>3. \A d : ~Member(d, idle)
    BY <2>2, NoMembers
  <2>4. QED
    BY <2>1, <2>2, <2>3 DEF Held
<1>3. QED
  BY <1>1, <1>2

LEMMA HeldNext == ASSUME Inv, Held, [Next]_vars PROVE Held'
<1>1. CASE UNCHANGED vars
  BY <1>1, HeldSame DEF vars, poolVars, userVars, connVars
<1>2. ASSUME NEW u \in Users, Use(u)
      PROVE  Held'
  BY <1>2, HeldSame DEF Use, StartGet, Receive, Send, Do, Fatal, Sent,
     Received, poolVars, connVars
<1>3. ASSUME NEW c \in Conns, Push(c) \/ Break(c)
      PROVE  Held'
  BY <1>3, HeldSame DEF Push, Break, userVars, poolVars
<1>4. QED
  BY <1>1, <1>2, <1>3, HeldGetStep, HeldCloseStep, HeldPoolClose DEF Next

LEMMA HeldAlways == Spec => [](Inv /\ Held)
<1>1. Init => Held
  <2>1. SUFFICES ASSUME Init PROVE Held
    OBVIOUS
  <2>2. Distinct(idle) /\ \A c : ~Member(c, idle)
    BY <2>1, NoMembers DEF Init
  <2>3. QED
    BY <2>1, <2>2, PoolAssumption DEF Init, Held
<1>2. Inv /\ Held /\ [Next]_vars => Held'
  BY HeldNext
<1>3. QED
  BY <1>1, <1>2, InvAlways, PTL DEF Spec

\* No two goroutines have the same connection, and none has one that is idle
\* too, or that Pool.Close closes.
THEOREM NeverShared == Spec => []NotShared
<1>1. Inv /\ Held => NotShared
  BY DEF Held, NotShared, Distinct, Member
<1>2. QED
  BY <1>1, HeldAlways, PTL

\* The open connections are those somebody has, the idle ones and those
\* Pool.Close is about to close.
THEOREM NeverLeaks == Spec => []NoLeak
<1>1. ASSUME Inv, Held
      PROVE  NoLeak
  <2> DEFINE had == {has[u] : u \in {v \in Users : has[v] # NoConn}}
             idles == {idle[i] : i \in 1 .. Len(idle)}
  <2>1. exists \subseteq Conns /\ closing \subseteq Conns
    BY <1>1, Typed DEF UserType, ConnType
  <2>2. had \subseteq Conns /\ idles \subseteq Conns
    BY <1>1, Typed
  <2>3. \A c \in Conns : c \in idles <=> Member(c, idle)
    BY DEF Member
  <2>4. \A c \in Conns : c \in had <=> \E u \in Users : has[u] = c
    BY <1>1, Typed
  <2> HIDE DEF had, idles
  <2>5. \A c \in Conns : c \in exists <=> c \in had \cup idles \cup closing
    BY <1>1, <2>3, <2>4 DEF Held
  <2>6. exists = had \cup idles \cup closing
    BY <2>1, <2>2, <2>5
  <2>7. QED
    BY <1>1, <2>6 DEF NoLeak, Inv, had, idles
<1>2. QED
  BY <1>1, HeldAlways, PTL

------------------------------------------------------------------------------
(* active counts what it should.                                            *)

LEMMA AddOne ==
  ASSUME NEW S \in SUBSET Users, NEW u \in Users \ S
  PROVE  /\ Cardinality(S) \in Nat
         /\ Cardinality(S \cup {u}) = Cardinality(S) + 1
<1>1. IsFiniteSet(S)
  BY PoolAssumption, FS_Subset
<1>2. QED
  BY <1>1, FS_AddElement, FS_CardinalityType

LEMMA TakeOne ==
  ASSUME NEW S \in SUBSET Users, NEW u \in S
  PROVE  /\ Cardinality(S) \in Nat
         /\ Cardinality(S \ {u}) = Cardinality(S) - 1
<1>1. IsFiniteSet(S)
  BY PoolAssumption, FS_Subset
<1>2. QED
  BY <1>1, FS_RemoveElement, FS_CardinalityType

LEMMA CountNat ==
  ASSUME NEW S \in SUBSET Users
  PROVE  Cardinality(S) \in Nat
<1>1. IsFiniteSet(S)
  BY PoolAssumption, FS_Subset
<1>2. QED
  BY <1>1, FS_CardinalityType

Holds == At(Holding)

\* A move changes the number of those who hold a connection by the mover.
LEMMA Counted ==
  ASSUME Inv, NEW u \in Users, NEW p \in Place, Moves(u, p)
  PROVE  /\ Cardinality(Holds) \in Nat
         /\ at[u] \in Holding /\ p \in Holding =>
              Cardinality(Holds)' = Cardinality(Holds)
         /\ at[u] \notin Holding /\ p \notin Holding =>
              Cardinality(Holds)' = Cardinality(Holds)
         /\ at[u] \notin Holding /\ p \in Holding =>
              Cardinality(Holds)' = Cardinality(Holds) + 1
         /\ at[u] \in Holding /\ p \notin Holding =>
              Cardinality(Holds)' = Cardinality(Holds) - 1
<1>1. "waiting" \notin Holding /\ "woken" \notin Holding
  BY DEF Holding
<1>2. \A v \in Users \ {u} : at'[v] \in Holding <=> at[v] \in Holding
  BY <1>1 DEF Moves
<1>3. at'[u] = p
  BY DEF Moves
<1>4. Holds \in SUBSET Users /\ Holds' \in SUBSET Users
  BY DEF Holds, At
<1>5. Holds = {v \in Users : at[v] \in Holding}
      /\ Holds' = {v \in Users : at'[v] \in Holding}
  BY DEF Holds, At
<1>6. Cardinality(Holds) \in Nat
  BY <1>4, CountNat
<1>7. ASSUME at[u] \in Holding <=> p \in Holding
      PROVE  Holds' = Holds
  BY <1>2, <1>3, <1>5, <1>7
<1>8. ASSUME at[u] \notin Holding, p \in Holding
      PROVE  Cardinality(Holds)' = Cardinality(Holds) + 1
  <2>1. u \in Users \ Holds /\ Holds' = Holds \cup {u}
    BY <1>2, <1>3, <1>5, <1>8
  <2>2. QED
    BY <1>4, <2>1, AddOne
<1>9. ASSUME at[u] \in Holding, p \notin Holding
      PROVE  Cardinality(Holds)' = Cardinality(Holds) - 1
  <2>1. u \in Holds /\ Holds' = Holds \ {u}
    BY <1>2, <1>3, <1>5, <1>9
  <2>2. QED
    BY <1>4, <2>1, TakeOne
<1>10. QED
  BY <1>6, <1>7, <1>8, <1>9

LEMMA CountSame ==
  ASSUME ActiveCounts, UNCHANGED <<pool, active, idle, at>>
  PROVE  ActiveCounts'
BY DEF ActiveCounts, At

\* How long the list is after each change.
LEMMA IdleLengths ==
  ASSUME Inv
  PROVE  /\ Len(idle) \in Nat
         /\ idle # << >> => /\ Len(SubSeq(idle, 1, Len(idle) - 1))
                                 = Len(idle) - 1
                            /\ Len(Tail(idle)) = Len(idle) - 1
         /\ \A c \in Conns :
              LET all == <<c>> \o idle
              IN  /\ Len(all) = Len(idle) + 1
                  /\ Len(SubSeq(all, 1, Len(all) - 1)) = Len(idle)
<1>1. idle \in Seq(Conns) /\ Len(idle) \in Nat
  BY Typed
<1>2. ASSUME idle # << >>
      PROVE  /\ Len(SubSeq(idle, 1, Len(idle) - 1)) = Len(idle) - 1
             /\ Len(Tail(idle)) = Len(idle) - 1
  BY <1>1, <1>2, DroppedLast, DroppedFirst
<1>3. ASSUME NEW c \in Conns
      PROVE  LET all == <<c>> \o idle
             IN  /\ Len(all) = Len(idle) + 1
                 /\ Len(SubSeq(all, 1, Len(all) - 1)) = Len(idle)
  <2> DEFINE all == <<c>> \o idle
  <2>1. all \in Seq(Conns) /\ Len(all) = Len(idle) + 1
    BY <1>1, PushedFront
  <2> HIDE DEF all
  <2>2. all # << >>
    BY <1>1, <2>1
  <2>3. Len(SubSeq(all, 1, Len(all) - 1)) = Len(all) - 1
    BY <2>1, <2>2, DroppedLast
  <2>4. QED
    BY <1>1, <2>1, <2>3 DEF all
<1>4. QED
  BY <1>1, <1>2, <1>3

\* The bound, as arithmetic on what has changed.
LEMMA CountKept ==
  ASSUME Inv, ActiveCounts, pool' = pool, active' \in Int,
         active' = Len(idle') + Cardinality(Holds'),
         active' <= active \/ (active' = active + 1 /\ HasSlot)
  PROVE  ActiveCounts'
<1>1. pool.maxActive \in Nat /\ active \in Int
  BY Typed, PoolAssumption
<1>2. pool.maxActive > 0 => active' <= pool.maxActive
  BY <1>1 DEF ActiveCounts, HasSlot
<1>3. QED
  BY <1>2 DEF ActiveCounts, Holds

LEMMA CountGetStep ==
  ASSUME Inv, ActiveCounts, NEW u \in Users, GetStep(u)
  PROVE  ActiveCounts'
<1> USE Typed DEF Place, Holding
<1>1. active = Len(idle) + Cardinality(Holds) /\ Len(idle) \in Nat
  BY IdleLengths DEF ActiveCounts, Holds
<1>2. CASE Prune(u)
  <2>1. Moves(u, "prune")
    BY <1>2, SignalMoves DEF Prune
  <2>2. Cardinality(Holds)' = Cardinality(Holds) /\ Cardinality(Holds) \in Nat
    BY <1>2, <2>1, Counted DEF Prune
  <2>3. Len(idle') = Len(idle) - 1 /\ active' = active - 1 /\ pool' = pool
    BY <1>2, IdleLengths DEF Prune
  <2>4. QED
    BY <1>1, <2>2, <2>3, CountKept
<1>3. ASSUME NEW p \in {"get", "out", "waiting"}, Moves(u, p),
             at[u] \notin Holding, UNCHANGED <<pool, idle, active>>
      PROVE  ActiveCounts'
  <2>1. Cardinality(Holds)' = Cardinality(Holds)
    BY <1>3, Counted
  <2>2. QED
    BY <1>1, <1>3, <2>1, CountKept
<1>4. CASE PruneClose(u)
  BY <1>3, <1>4, GoesMoves DEF PruneClose, poolVars
<1>5. CASE GetOnClosed(u) \/ Exhausted(u) \/ CondWait(u)
  BY <1>3, <1>5, GoesMoves DEF GetOnClosed, Exhausted, CondWait, InLoop,
     poolVars
<1>6. CASE TakeIdle(u)
  <2>1. Borrowed \in {"test", "use"}
    BY DEF Borrowed
  <2>2. Moves(u, Borrowed)
    BY <1>6, <2>1, GoesMoves DEF TakeIdle
  <2>3. /\ Cardinality(Holds)' = Cardinality(Holds) + 1
        /\ Cardinality(Holds) \in Nat
    BY <1>6, <2>1, <2>2, Counted DEF TakeIdle, InLoop
  <2>4. Len(idle') = Len(idle) - 1 /\ active' = active /\ pool' = pool
    BY <1>6, IdleLengths DEF TakeIdle
  <2>5. active \in Int /\ active' <= active
    BY <2>4
  <2>6. active' = Len(idle') + Cardinality(Holds')
    <3> DEFINE n == Cardinality(Holds)
    <3>1. n \in Nat /\ n' = n + 1 /\ active = Len(idle) + n
      BY <1>1, <2>3
    <3> HIDE DEF n
    <3>2. active' = Len(idle') + n'
      BY <1>1, <2>4, <2>5, <3>1
    <3>3. QED
      BY <3>2 DEF n
  <2>7. QED
    BY <2>4, <2>5, <2>6, CountKept
<1>7. ASSUME NEW p \in Holding, Moves(u, p), at[u] \in Holding,
             UNCHANGED <<pool, idle, active>>
      PROVE  ActiveCounts'
  <2>1. Cardinality(Holds)' = Cardinality(Holds)
    BY <1>7, Counted
  <2>2. QED
    BY <1>1, <1>7, <2>1, CountKept
<1>8. CASE TestPasses(u) \/ DialOk(u)
  BY <1>7, <1>8, GoesMoves DEF TestPasses, DialOk, poolVars
<1>9. CASE TestFails(u)
  <2>1. at[u] = "test" /\ pool' = pool
    BY <1>9 DEF TestFails
  <2>2. ASSUME idle # << >>, idle' = Tail(idle), active' = active - 1,
               GoesAndSignals(u, "test")
        PROVE  ActiveCounts'
    <3>1. Moves(u, "test")
      BY <2>1, <2>2, SignalMoves
    <3>2. /\ Cardinality(Holds)' = Cardinality(Holds)
          /\ Cardinality(Holds) \in Nat /\ Len(idle') = Len(idle) - 1
      BY <2>1, <2>2, <3>1, Counted, IdleLengths
    <3>3. QED
      BY <1>1, <2>1, <2>2, <3>2, CountKept
  <2>3. ASSUME UNCHANGED idle, active' = active - 1, GoesAndSignals(u, "out")
        PROVE  ActiveCounts'
    <3>1. Moves(u, "out")
      BY <2>1, <2>3, SignalMoves
    <3>2. /\ Cardinality(Holds)' = Cardinality(Holds) - 1
          /\ Cardinality(Holds) \in Nat
      BY <2>1, <3>1, Counted
    <3>3. QED
      BY <1>1, <2>1, <2>3, <3>2, CountKept
  <2>4. ASSUME UNCHANGED <<idle, active>>, GoesAndSignals(u, "dial")
        PROVE  ActiveCounts'
    BY <1>7, <2>1, <2>4, SignalMoves
  <2>5. QED
    BY <1>9, <2>2, <2>3, <2>4 DEF TestFails
<1>10. CASE GetDials(u)
  <2>1. Moves(u, "dial")
    BY <1>10, GoesMoves DEF GetDials
  <2>2. /\ Cardinality(Holds)' = Cardinality(Holds) + 1
        /\ Cardinality(Holds) \in Nat
    BY <1>10, <2>1, Counted DEF GetDials, InLoop
  <2>3. /\ active' = active + 1 /\ HasSlot /\ UNCHANGED <<pool, idle>>
    BY <1>10 DEF GetDials
  <2>4. QED
    BY <1>1, <2>2, <2>3, CountKept
<1>11. CASE DialFails(u)
  <2>1. Moves(u, "out")
    BY <1>11, SignalMoves DEF DialFails
  <2>2. /\ Cardinality(Holds)' = Cardinality(Holds) - 1
        /\ Cardinality(Holds) \in Nat
    BY <1>11, <2>1, Counted DEF DialFails
  <2>3. active' = active - 1 /\ UNCHANGED <<pool, idle>>
    BY <1>11 DEF DialFails
  <2>4. QED
    BY <1>1, <2>2, <2>3, CountKept
<1>12. QED
  BY <1>2, <1>4, <1>5, <1>6, <1>8, <1>9, <1>10, <1>11 DEF GetStep

LEMMA CountCloseStep ==
  ASSUME Inv, ActiveCounts, NEW u \in Users, CloseStep(u)
  PROVE  ActiveCounts'
<1> USE Typed DEF Place, Holding
<1>1. active = Len(idle) + Cardinality(Holds) /\ Len(idle) \in Nat
  BY IdleLengths DEF ActiveCounts, Holds
<1>2. CASE Close(u) \/ Unsubscribe(u) \/ Drain(u) \/ Flush(u)
  <2>1. PICK p \in {"unsub", "flush", "drain", "put"} : Goes(u, p)
    BY <1>2 DEF Close, Unsubscribe, Drain, Flush
  <2>2. at[u] \in Holding /\ UNCHANGED <<pool, idle, active>>
    BY <1>2 DEF Close, Unsubscribe, Drain, Flush, poolVars
  <2>3. Moves(u, p)
    BY <2>1, GoesMoves
  <2>4. Cardinality(Holds)' = Cardinality(Holds)
    BY <2>1, <2>2, <2>3, Counted
  <2>5. QED
    BY <1>1, <2>2, <2>4, CountKept
<1>3. CASE Put(u)
  <2>1. Moves(u, "out") /\ has[u] \in Conns
    BY <1>3, SignalMoves, Has DEF Put, Owning
  <2>2. /\ Cardinality(Holds)' = Cardinality(Holds) - 1
        /\ Cardinality(Holds) \in Nat
    BY <1>3, <2>1, Counted DEF Put
  <2>3. Len(idle') = Len(idle) + 1 /\ UNCHANGED <<pool, active>>
    <3>1. Len(<<has[u]>> \o idle) = Len(idle) + 1
      BY <2>1, IdleLengths
    <3>2. QED
      BY <1>3, <3>1 DEF Put
  <2>4. QED
    BY <1>1, <2>2, <2>3, CountKept
<1>4. CASE PutTooMany(u) \/ PutForced(u)
  <2>1. Moves(u, "close") /\ has[u] \in Conns /\ at[u] = "put"
    BY <1>4, SignalMoves, Has DEF PutTooMany, PutForced, Owning
  <2>2. /\ Cardinality(Holds)' = Cardinality(Holds) - 1
        /\ Cardinality(Holds) \in Nat
    BY <2>1, Counted
  <2>3. Len(idle') = Len(idle) /\ active' = active - 1 /\ pool' = pool
    <3> DEFINE all == <<has[u]>> \o idle
    <3>1. \/ idle' = SubSeq(all, 1, Len(all) - 1) \/ idle' = idle
      BY <1>4 DEF PutTooMany, PutForced
    <3>2. Len(SubSeq(all, 1, Len(all) - 1)) = Len(idle)
      BY <2>1, IdleLengths
    <3> HIDE DEF all
    <3>3. Len(idle') = Len(idle)
      BY <3>1, <3>2
    <3>4. QED
      BY <1>4, <3>3 DEF PutTooMany, PutForced
  <2>4. QED
    BY <1>1, <2>2, <2>3, CountKept
<1>5. CASE ConnClose(u)
  <2>1. Moves(u, "out") /\ UNCHANGED <<pool, idle, active>>
    BY <1>5, GoesMoves DEF ConnClose, poolVars
  <2>2. at[u] \notin Holding /\ "out" \notin Holding /\ "out" \in Place
    BY <1>5 DEF ConnClose
  <2>3. Cardinality(Holds)' = Cardinality(Holds)
    BY <2>1, <2>2, Counted
  <2>4. QED
    BY <1>1, <2>1, <2>3, CountKept
<1>6. QED
  BY <1>2, <1>3, <1>4, <1>5 DEF CloseStep

LEMMA CountPoolClose ==
  ASSUME Inv, ActiveCounts, PoolClose
  PROVE  ActiveCounts'
<1>1. active = Len(idle) + Cardinality(Holds) /\ Len(idle) \in Nat
  BY IdleLengths DEF ActiveCounts, Holds
<1>2. active' = active - Len(idle) /\ idle' = << >> /\ pool' = pool
  BY DEF PoolClose, StillActive
<1>3. at' = [u \in Users |-> IF at[u] = "waiting" THEN "woken" ELSE at[u]]
  BY DEF PoolClose
<1>4. Holds' = Holds /\ Cardinality(Holds) \in Nat
  <2>1. \A v \in Users : at'[v] \in Holding <=> at[v] \in Holding
    BY <1>3 DEF Holding
  <2>2. Holds \in SUBSET Users /\ Holds' = Holds
    BY <2>1 DEF Holds, At
  <2>3. QED
    BY <2>2, CountNat
<1>5. Len(idle') = 0
  BY <1>2
<1>6. QED
  BY <1>1, <1>2, <1>4, <1>5, CountKept, Typed

LEMMA CountNext == ASSUME Inv, ActiveCounts, [Next]_vars PROVE ActiveCounts'
<1>1. CASE UNCHANGED vars
  BY <1>1, CountSame DEF vars, poolVars, userVars
<1>2. ASSUME NEW u \in Users, Use(u)
      PROVE  ActiveCounts'
  <2>1. CASE StartGet(u)
    <3>1. "get" \in Place /\ "get" \notin Holding /\ "out" \notin Holding
      BY DEF Place, Holding
    <3>2. Moves(u, "get")
      BY <2>1, <3>1, GoesMoves, Typed DEF StartGet
    <3>3. Cardinality(Holds)' = Cardinality(Holds)
      BY <2>1, <3>1, <3>2, Counted DEF StartGet
    <3>4. active = Len(idle) + Cardinality(Holds)
      BY DEF ActiveCounts, Holds
    <3>5. QED
      BY <2>1, <3>3, <3>4, CountKept, Typed DEF StartGet, poolVars
  <2>2. CASE Receive(u) \/ \E cmd \in Commands : Send(u, cmd) \/ Do(u, cmd)
    BY <2>2, CountSame DEF Receive, Send, Do, poolVars
  <2>3. QED
    BY <1>2, <2>1, <2>2 DEF Use
<1>3. ASSUME NEW c \in Conns, Push(c) \/ Break(c) \/ PoolCloses(c)
      PROVE  ActiveCounts'
  BY <1>3, CountSame DEF Push, Break, PoolCloses, userVars, poolVars
<1>4. QED
  BY <1>1, <1>2, <1>3, CountGetStep, CountCloseStep, CountPoolClose DEF Next

LEMMA CountAlways == Spec => [](Inv /\ ActiveCounts)
<1>1. Init => ActiveCounts
  <2>1. SUFFICES ASSUME Init PROVE ActiveCounts
    OBVIOUS
  <2>2. At(Holding) = {}
    BY <2>1 DEF Init, At, Holding
  <2>3. Cardinality(At(Holding)) = 0 /\ Len(idle) = 0
    BY <2>1, <2>2, FS_EmptySet DEF Init
  <2>4. QED
    BY <2>1, <2>3, PoolAssumption DEF Init, ActiveCounts
<1>2. Inv /\ ActiveCounts /\ [Next]_vars => ActiveCounts'
  BY CountNext
<1>3. QED
  BY <1>1, <1>2, InvAlways, PTL DEF Spec

\* active counts the idle connections and the goroutines that have one or
\* get one, and is never more than MaxActive.
THEOREM NeverTooMany == Spec => []ActiveCounts
BY CountAlways, PTL

------------------------------------------------------------------------------
(* No wake-up is lost.                                                      *)

\* Connections that a goroutine could take or dial.
Free == Len(idle) + pool.maxActive - active

Wakes ==
  /\ Waiting # {} => Free <= Cardinality(Woken)
  /\ closed => Waiting = {}

\* A signal wakes one goroutine, or there is none that waits.
LEMMA SignalWakes ==
  ASSUME Inv, NEW u \in Users, NEW p \in Place, GoesAndSignals(u, p),
         at[u] \notin {"waiting", "woken"}, p \notin {"waiting", "woken"}
  PROVE  \/ Waiting = {} /\ Waiting' = {}
         \/ /\ Waiting # {} /\ Cardinality(Woken) \in Nat
            /\ Cardinality(Woken)' = Cardinality(Woken) + 1
<1>1. at \in [Users -> Place] /\ "woken" \in Place
  BY Typed DEF UserType, Place
<1>2. CASE Waiting = {}
  <2>1. at' = [at EXCEPT ![u] = p]
    BY <1>2 DEF GoesAndSignals
  <2>2. \A v \in Users : at'[v] # "waiting"
    BY <1>1, <1>2, <2>1 DEF Waiting
  <2>3. QED
    BY <1>2, <2>2 DEF Waiting
<1>3. CASE Waiting # {}
  <2>1. PICK w \in Waiting : at' = [at EXCEPT ![u] = p, ![w] = "woken"]
    BY <1>3 DEF GoesAndSignals
  <2>2. w \in Users /\ at[w] = "waiting" /\ w # u
    BY <2>1 DEF Waiting
  <2>3. /\ at'[w] = "woken" /\ at'[u] = p
        /\ \A v \in Users : v # u /\ v # w => at'[v] = at[v]
    BY <1>1, <2>1, <2>2
  <2>4. Woken' = Woken \cup {w} /\ w \in Users \ Woken
    BY <2>2, <2>3 DEF Woken
  <2>5. Woken \in SUBSET Users
    BY DEF Woken
  <2>6. QED
    BY <1>3, <2>4, <2>5, AddOne
<1>4. QED
  BY <1>2, <1>3

\* A goroutine that goes on without a signal wakes nobody, and was awake.
LEMMA GoesWakes ==
  ASSUME Inv, NEW u \in Users, NEW p \in Place, Goes(u, p), p # "woken"
  PROVE  /\ p # "waiting" => Waiting' \subseteq Waiting
         /\ Cardinality(Woken) \in Nat
         /\ at[u] # "woken" => Cardinality(Woken)' = Cardinality(Woken)
         /\ at[u] = "woken" => Cardinality(Woken)' = Cardinality(Woken) - 1
<1>1. at'[u] = p /\ \A v \in Users \ {u} : at'[v] = at[v]
  BY Typed DEF UserType, Goes
<1>2. p # "waiting" => Waiting' \subseteq Waiting
  BY <1>1 DEF Waiting
<1>3. Woken \in SUBSET Users /\ Woken' = Woken \ {u}
  BY <1>1 DEF Woken
<1>4. CASE at[u] # "woken"
  <2>1. Woken' = Woken
    BY <1>3, <1>4 DEF Woken
  <2>2. QED
    BY <1>2, <1>3, <1>4, <2>1, CountNat
<1>5. CASE at[u] = "woken"
  <2>1. u \in Woken
    BY <1>5 DEF Woken
  <2>2. QED
    BY <1>2, <1>3, <1>5, <2>1, TakeOne
<1>6. QED
  BY <1>4, <1>5

LEMMA FreeInt ==
  ASSUME Inv
  PROVE  Free \in Int /\ Len(idle) \in Nat /\ pool.maxActive \in Nat
BY Typed, IdleLengths, PoolAssumption DEF Free

LEMMA WakesSame ==
  ASSUME Wakes, UNCHANGED <<pool, active, idle, closed, at>>
  PROVE  Wakes'
BY DEF Wakes, Waiting, Woken, Free

\* One more free connection, or as many as before, and a signal.
LEMMA WakesSignals ==
  ASSUME Inv, Wakes, NEW u \in Users, NEW p \in Place,
         GoesAndSignals(u, p), at[u] \notin {"waiting", "woken"},
         p \notin {"waiting", "woken"}, closed' = closed,
         Free' \in Int, Free' <= Free + 1
  PROVE  Wakes'
<1>1. CASE Waiting' = {}
  BY <1>1 DEF Wakes
<1>2. CASE Waiting' # {}
  <2>1. /\ Waiting # {} /\ Cardinality(Woken) \in Nat
        /\ Cardinality(Woken)' = Cardinality(Woken) + 1
    BY <1>2, SignalWakes
  <2>2. Free <= Cardinality(Woken) /\ ~closed
    BY <2>1 DEF Wakes
  <2>3. Free' <= Cardinality(Woken)'
    BY <2>1, <2>2, FreeInt
  <2>4. QED
    BY <2>2, <2>3 DEF Wakes
<1>3. QED
  BY <1>1, <1>2

\* No signal: whoever was woken takes the connection it was woken for.
LEMMA WakesGoes ==
  ASSUME Inv, Wakes, NEW u \in Users, NEW p \in Place, Goes(u, p),
         p \notin {"waiting", "woken"}, closed' = closed, Free' \in Int,
         Free' <= Free, at[u] = "woken" => closed \/ Free' <= Free - 1
  PROVE  Wakes'
<1>1. Waiting' \subseteq Waiting /\ Cardinality(Woken) \in Nat
  BY GoesWakes
<1>2. CASE Waiting = {}
  BY <1>1, <1>2 DEF Wakes
<1>3. CASE Waiting # {}
  <2>1. Free <= Cardinality(Woken) /\ ~closed
    BY <1>3 DEF Wakes
  <2>2. Free' <= Cardinality(Woken)'
    <3>1. CASE at[u] = "woken"
      BY <1>1, <2>1, <3>1, GoesWakes, FreeInt
    <3>2. CASE at[u] # "woken"
      BY <1>1, <2>1, <3>2, GoesWakes, FreeInt
    <3>3. QED
      BY <3>1, <3>2
  <2>3. QED
    BY <2>1, <2>2 DEF Wakes
<1>4. QED
  BY <1>2, <1>3

\* Nothing is free.
LEMMA WakesFull ==
  ASSUME Inv, Wakes, UNCHANGED <<pool, active, idle, closed>>, ~closed,
         idle = << >>, ~HasSlot, NEW u \in Users, NEW p \in Place, Goes(u, p)
  PROVE  Wakes'
<1>1. Free <= 0
  BY FreeInt, Typed DEF Free, HasSlot
<1>2. Free' = Free
  BY DEF Free
<1>3. Woken' \in SUBSET Users
  BY DEF Woken
<1>4. Cardinality(Woken') \in Nat
  BY <1>3, CountNat
<1>5. Free' <= Cardinality(Woken')
  BY <1>1, <1>2, <1>4, FreeInt
<1>6. QED
  BY <1>5 DEF Wakes

LEMMA WakesGetStep ==
  ASSUME Inv, Wakes, NEW u \in Users, GetStep(u)
  PROVE  Wakes'
<1> USE Typed, FreeInt DEF Place, Holding
<1>1. CASE Prune(u)
  <2>1. /\ Len(idle') = Len(idle) - 1 /\ active' = active - 1 /\ pool' = pool
        /\ closed' = closed
    BY <1>1, IdleLengths DEF Prune
  <2>2. Free' \in Int /\ Free' <= Free + 1
    BY <2>1 DEF Free
  <2>3. /\ GoesAndSignals(u, "prune") /\ at[u] \notin {"waiting", "woken"}
        /\ "prune" \in Place /\ "prune" \notin {"waiting", "woken"}
    BY <1>1 DEF Prune
  <2>4. QED
    BY <2>1, <2>2, <2>3, WakesSignals
<1>2. CASE PruneClose(u) \/ TestPasses(u) \/ DialOk(u)
  <2>1. PICK p \in {"get", "use"} : Goes(u, p)
    BY <1>2 DEF PruneClose, TestPasses, DialOk
  <2>2. UNCHANGED <<pool, active, idle, closed>> /\ at[u] # "woken"
    BY <1>2 DEF PruneClose, TestPasses, DialOk, poolVars
  <2>3. Free' = Free
    BY <2>2 DEF Free
  <2>4. QED
    BY <2>1, <2>2, <2>3, WakesGoes
<1>3. CASE TakeIdle(u)
  <2>1. Borrowed \in {"test", "use"} /\ Goes(u, Borrowed)
    BY <1>3 DEF Borrowed, TakeIdle
  <2>2. /\ Len(idle') = Len(idle) - 1
        /\ UNCHANGED <<pool, active, closed>>
    BY <1>3, IdleLengths DEF TakeIdle
  <2>3. Free' = Free - 1
    BY <2>2 DEF Free
  <2>4. QED
    BY <2>1, <2>2, <2>3, WakesGoes
<1>4. CASE TestFails(u)
  <2>1. at[u] = "test" /\ UNCHANGED <<pool, closed>>
    BY <1>4 DEF TestFails
  <2>2. PICK p \in {"test", "out", "dial"} : GoesAndSignals(u, p)
    BY <1>4 DEF TestFails
  <2>3. \/ idle' = idle /\ active' \in {active, active - 1}
        \/ idle # << >> /\ idle' = Tail(idle) /\ active' = active - 1
    BY <1>4 DEF TestFails
  <2>4. Free' \in Int /\ Free' <= Free + 1
    <3>1. CASE idle' = idle /\ active' \in {active, active - 1}
      BY <2>1, <3>1 DEF Free
    <3>2. CASE idle # << >> /\ idle' = Tail(idle) /\ active' = active - 1
      <4>1. Len(idle') = Len(idle) - 1
        BY <3>2, IdleLengths
      <4>2. QED
        BY <2>1, <3>2, <4>1 DEF Free
    <3>3. QED
      BY <2>3, <3>1, <3>2
  <2>5. QED
    BY <2>1, <2>2, <2>4, WakesSignals
<1>5. CASE GetOnClosed(u)
  <2>1. Free' = Free /\ closed /\ closed' = closed
    BY <1>5 DEF GetOnClosed, Free, poolVars
  <2>2. QED
    BY <1>5, <2>1, WakesGoes DEF GetOnClosed
<1>6. CASE GetDials(u)
  <2>1. active' = active + 1 /\ UNCHANGED <<pool, idle, closed>>
    BY <1>6 DEF GetDials
  <2>2. Free' = Free - 1
    BY <2>1 DEF Free
  <2>3. QED
    BY <1>6, <2>1, <2>2, WakesGoes DEF GetDials
<1>7. CASE Exhausted(u) \/ CondWait(u)
  BY <1>7, WakesFull DEF Exhausted, CondWait, poolVars
<1>8. CASE DialFails(u)
  <2>1. active' = active - 1 /\ UNCHANGED <<pool, idle, closed>>
    BY <1>8 DEF DialFails
  <2>2. Free' = Free + 1
    BY <2>1 DEF Free
  <2>3. QED
    BY <1>8, <2>1, <2>2, WakesSignals DEF DialFails
<1>9. QED
  BY <1>1, <1>2, <1>3, <1>4, <1>5, <1>6, <1>7, <1>8 DEF GetStep

LEMMA WakesCloseStep ==
  ASSUME Inv, Wakes, NEW u \in Users, CloseStep(u)
  PROVE  Wakes'
<1> USE Typed, FreeInt DEF Place, Holding
<1>1. CASE Close(u) \/ Unsubscribe(u) \/ Drain(u) \/ Flush(u) \/ ConnClose(u)
  <2>1. PICK p \in {"unsub", "flush", "drain", "put", "out"} : Goes(u, p)
    BY <1>1 DEF Close, Unsubscribe, Drain, Flush, ConnClose
  <2>2. UNCHANGED <<pool, active, idle, closed>> /\ at[u] # "woken"
    BY <1>1 DEF Close, Unsubscribe, Drain, Flush, ConnClose, poolVars
  <2>3. Free' = Free
    BY <2>2 DEF Free
  <2>4. QED
    BY <2>1, <2>2, <2>3, WakesGoes
<1>2. CASE Put(u) \/ PutTooMany(u) \/ PutForced(u)
  <2>1. PICK p \in {"out", "close"} : GoesAndSignals(u, p)
    BY <1>2 DEF Put, PutTooMany, PutForced
  <2>2. at[u] = "put" /\ UNCHANGED <<pool, closed>>
    BY <1>2 DEF Put, PutTooMany, PutForced
  <2>3. has[u] \in Conns
    BY <2>2, Has DEF Owning
  <2> DEFINE all == <<has[u]>> \o idle
  <2>4. \/ idle' = all /\ active' = active
        \/ idle' = SubSeq(all, 1, Len(all) - 1) /\ active' = active - 1
        \/ idle' = idle /\ active' = active - 1
    BY <1>2 DEF Put, PutTooMany, PutForced
  <2>5. /\ Len(all) = Len(idle) + 1
        /\ Len(SubSeq(all, 1, Len(all) - 1)) = Len(idle)
    BY <2>3, IdleLengths
  <2> HIDE DEF all
  <2>6. \/ Len(idle') = Len(idle) + 1 /\ active' = active
        \/ Len(idle') = Len(idle) /\ active' = active - 1
    BY <2>4, <2>5
  <2>7. Free' \in Int /\ Free' <= Free + 1
    BY <2>2, <2>6 DEF Free
  <2>8. p \in Place /\ at[u] \notin {"waiting", "woken"}
    BY <2>1, <2>2
  <2>9. QED
    BY <2>1, <2>2, <2>7, <2>8, WakesSignals
<1>3. QED
  BY <1>1, <1>2 DEF CloseStep

LEMMA WakesNext == ASSUME Inv, Wakes, [Next]_vars PROVE Wakes'
<1>1. CASE UNCHANGED vars
  BY <1>1, WakesSame DEF vars, poolVars, userVars
<1>2. ASSUME NEW u \in Users, Use(u)
      PROVE  Wakes'
  <2>1. CASE StartGet(u)
    <3>1. Free' = Free /\ closed' = closed
      BY <2>1 DEF StartGet, poolVars, Free
    <3>2. Goes(u, "get") /\ at[u] # "woken" /\ "get" \in Place
      BY <2>1 DEF StartGet, Place
    <3>3. QED
      BY <3>1, <3>2, WakesGoes, FreeInt
  <2>2. CASE Receive(u) \/ \E cmd \in Commands : Send(u, cmd) \/ Do(u, cmd)
    BY <2>2, WakesSame DEF Receive, Send, Do, poolVars
  <2>3. QED
    BY <1>2, <2>1, <2>2 DEF Use
<1>3. ASSUME NEW c \in Conns, Push(c) \/ Break(c) \/ PoolCloses(c)
      PROVE  Wakes'
  BY <1>3, WakesSame DEF Push, Break, PoolCloses, userVars, poolVars
<1>4. ASSUME PoolClose
      PROVE  Wakes'
  <2>1. at' = [u \in Users |-> IF at[u] = "waiting" THEN "woken" ELSE at[u]]
    BY <1>4 DEF PoolClose
  <2>2. Waiting' = {}
    BY <2>1 DEF Waiting
  <2>3. QED
    BY <2>2 DEF Wakes
<1>5. QED
  BY <1>1, <1>2, <1>3, <1>4, WakesGetStep, WakesCloseStep DEF Next

\* Nobody waits in Get while there are more connections to have than
\* goroutines woken to have them.
THEOREM NoSignalIsLost == Spec => []NoWakeupLost
<1>1. Init => Wakes
  <2>1. Init => Waiting = {}
    BY DEF Init, Waiting
  <2>2. QED
    BY <2>1 DEF Wakes
<1>2. Inv /\ Wakes /\ [Next]_vars => Wakes'
  BY WakesNext
<1>3. Wakes => NoWakeupLost
  BY DEF Wakes, Free, NoWakeupLost
<1>4. QED
  BY <1>1, <1>2, <1>3, InvAlways, PTL DEF Spec

------------------------------------------------------------------------------
(* What is left on a connection.                                            *)

\* Nothing, but for a watch that a refused UNWATCH has left.
Clean(c) ==
  /\ c \notin err /\ pending[c] = 0 /\ stream[c] = << >> /\ state[c] = {}
  /\ special[c] \subseteq {"watch"}
  /\ "watch" \in special[c] => c \in refused

New(c) == Clean(c) /\ special[c] = {}

\* What the server's end may be, given what pooledConnection knows of it.
Known(c) ==
  /\ "subscribe" \in special[c] => "subscribe" \in state[c]
  /\ "monitor" \in special[c] => "monitor" \in state[c]

Marks(c) ==
  /\ Known(c)
  /\ "multi" \in special[c] =>
       "multi" \in state[c] /\ "subscribe" \notin special[c]
  /\ "watch" \in special[c] =>
       "watch" \in state[c] \/ "multi" \in special[c] \/ c \in refused
  /\ "multi" \in state[c] /\ "multi" \notin special[c] =>
       "subscribe" \in state[c]

\* While a user has it.  No message has come among the replies of a
\* connection that is not subscribed.
Used(c) ==
  /\ Marks(c) /\ pending[c] <= Len(stream[c]) /\ ~Member("echo", stream[c])
  /\ "subscribe" \notin state[c] /\ "monitor" \notin state[c] =>
       pending[c] = Len(stream[c])

\* In Close, from the end of its first step on: no transaction is left, and a
\* watch only with an error among the replies, which keeps the connection
\* from being put back.
Undone(c) ==
  /\ Known(c) /\ pending[c] <= Len(stream[c]) /\ "multi" \notin special[c]
  /\ "multi" \notin state[c] /\ "watch" \notin state[c]

Subscribed(c) ==
  /\ Undone(c) /\ "subscribe" \in state[c] /\ ~Member("echo", stream[c])
  /\ "watch" \in special[c] => c \in refused \/ Member("error", stream[c])

\* Item number i of s is an error, and no sentinel is before it.
ErrorFirst(s, i) == s[i] = "error" /\ \A k \in 1 .. i : s[k] # "echo"

Drained(c) ==
  /\ Undone(c) /\ "subscribe" \in state[c] /\ "subscribe" \notin special[c]
  /\ "monitor" \notin state[c] =>
       \A i \in 1 .. Len(stream[c]) :
         stream[c][i] = "echo" => i = Len(stream[c])
  /\ "watch" \in special[c] =>
       c \in refused \/ \E i \in 1 .. Len(stream[c]) : ErrorFirst(stream[c], i)

Flushed(c) ==
  /\ Undone(c)
  /\ "subscribe" \notin state[c] =>
       /\ "watch" \in special[c] => c \in refused
       /\ "monitor" \notin state[c] => pending[c] = Len(stream[c])

GivenBack(c) == Undone(c) /\ (state[c] = {} => Clean(c))

Stands(p, c) ==
  /\ p = "test" => Clean(c)
  /\ c \notin err =>
       /\ p = "use"   => Used(c)
       /\ p = "unsub" => Subscribed(c)
       /\ p = "drain" => Drained(c)
       /\ p = "flush" => Flushed(c)
       /\ p = "put"   => GivenBack(c)

CleanInv ==
  /\ \A c \in Conns : c \notin exists => New(c)
  /\ \A c \in Conns : Member(c, idle) => Clean(c)
  /\ \A u \in Users, c \in Conns, p \in Place :
       at[u] = p /\ has[u] = c => Stands(p, c)

\* Nothing happens to c.
Alike(c) ==
  /\ pending'[c] = pending[c] /\ stream'[c] = stream[c]
  /\ state'[c] = state[c] /\ special'[c] = special[c]
  /\ c \in err' <=> c \in err
  /\ c \in refused' <=> c \in refused
  /\ c \in exists' <=> c \in exists

LEMMA AlikeStands ==
  ASSUME NEW c, Alike(c)
  PROVE  /\ Clean(c) => Clean(c)'
         /\ New(c) => New(c)'
         /\ \A p : Stands(p, c) => Stands(p, c)'
<1>1. Clean(c) <=> Clean(c)'
  BY DEF Alike, Clean
<1>2. Undone(c) <=> Undone(c)'
  BY DEF Alike, Undone, Known
<1>3. Used(c) <=> Used(c)'
  BY DEF Alike, Used, Marks, Known
<1>4. Subscribed(c) <=> Subscribed(c)'
  BY <1>2 DEF Alike, Subscribed
<1>5. Drained(c) <=> Drained(c)'
  BY <1>2 DEF Alike, Drained
<1>6. Flushed(c) <=> Flushed(c)'
  BY <1>2 DEF Alike, Flushed
<1>7. GivenBack(c) <=> GivenBack(c)'
  BY <1>1, <1>2 DEF Alike, GivenBack
<1>8. New(c) => New(c)'
  BY <1>1 DEF Alike, New
<1>9. \A p : Stands(p, c) => Stands(p, c)'
  BY <1>1, <1>3, <1>4, <1>5, <1>6, <1>7 DEF Alike, Stands
<1>10. QED
  BY <1>1, <1>8, <1>9

LEMMA CleanStands ==
  ASSUME NEW c, Clean(c), NEW p, p \notin {"unsub", "drain", "flush", "put"}
  PROVE  Stands(p, c)
<1>1. Used(c)
  <2>1. ~Member("echo", << >>) /\ Len(<< >>) = 0
    BY NoMembers
  <2>2. QED
    BY <2>1 DEF Clean, Used, Marks, Known
<1>2. QED
  BY <1>1 DEF Stands

Bound == {"test", "use", "unsub", "drain", "flush", "put"}

LEMMA FreeStands ==
  ASSUME NEW c, NEW p, p \notin Bound
  PROVE  Stands(p, c)
BY DEF Stands, Bound

\* Only the connections of T are touched.
LEMMA CleanKept ==
  ASSUME CleanInv, NEW T,
         \A d \in Conns : d \notin T => Alike(d),
         \A d \in Conns : d \in T /\ d \notin exists' => New(d)',
         \A d \in Conns : Member(d, idle)' =>
           (Member(d, idle) /\ d \notin T) \/ Clean(d)',
         \A v \in Users, d \in Conns, p \in Place :
           at'[v] = p /\ has'[v] = d =>
             \/ at[v] = p /\ has[v] = d /\ d \notin T
             \/ p \notin Bound
             \/ Stands(p, d)'
  PROVE  CleanInv'
<1>1. ASSUME NEW d \in Conns, d \notin exists' PROVE New(d)'
  BY <1>1, AlikeStands DEF CleanInv, Alike
<1>2. ASSUME NEW d \in Conns, Member(d, idle)' PROVE Clean(d)'
  BY <1>2, AlikeStands DEF CleanInv
<1>3. ASSUME NEW v \in Users, NEW d \in Conns, NEW p \in Place,
             at'[v] = p, has'[v] = d
      PROVE  Stands(p, d)'
  <2>1. CASE at[v] = p /\ has[v] = d /\ d \notin T
    BY <2>1, AlikeStands DEF CleanInv
  <2>2. CASE p \notin Bound
    BY <2>2 DEF Stands, Bound
  <2>3. QED
    BY <1>3, <2>1, <2>2
<1>4. QED
  BY <1>1, <1>2, <1>3 DEF CleanInv

LEMMA AllAlike ==
  ASSUME NEW c, UNCHANGED <<exists, err, pending, stream, state, special,
                            refused>>
  PROVE  Alike(c)
BY DEF Alike

\* A step of u that touches only what u has, and keeps it.
LEMMA Works ==
  ASSUME Inv, Held, CleanInv, NEW u \in Users, NEW c \in Conns, has[u] = c,
         NEW p \in Place, at'[u] = p,
         \A v \in Users \ {u} : at'[v] = at[v],
         UNCHANGED <<has, idle>>, exists' = exists, c \in exists,
         \A d \in Conns : d # c => Alike(d),
         Stands(p, c)'
  PROVE  CleanInv'
<1>1. \A v \in Users : has[v] = c => v = u
  BY Typed DEF Held
<1>2. ~Member(c, idle)
  BY DEF Held
<1>3. \A d \in Conns : Member(d, idle)' => Member(d, idle) /\ d \notin {c}
  BY <1>2 DEF Member
<1>4. ASSUME NEW v \in Users, NEW d \in Conns, NEW q \in Place,
             at'[v] = q, has'[v] = d
      PROVE  \/ at[v] = q /\ has[v] = d /\ d \notin {c}
             \/ Stands(q, d)'
  BY <1>1, <1>4
<1>5. \A d \in Conns : d \in {c} /\ d \notin exists' => New(d)'
  OBVIOUS
<1>6. \A d \in Conns : d \notin {c} => Alike(d)
  OBVIOUS
<1>7. QED
  BY <1>3, <1>4, <1>5, <1>6, CleanKept

\* A step of u that closes what u has.
LEMMA ClosedIsNew ==
  ASSUME Inv, NEW c \in Conns, Closed(c)
  PROVE  /\ New(c)' /\ \A d \in Conns : d # c => Alike(d)
<1> USE Typed DEF ConnType
<1>1. /\ pending'[c] = 0 /\ stream'[c] = << >> /\ state'[c] = {}
      /\ special'[c] = {} /\ c \notin err'
  BY DEF Closed
<1>2. New(c)'
  BY <1>1 DEF New, Clean
<1>3. ASSUME NEW d \in Conns, d # c PROVE Alike(d)
  BY <1>3 DEF Closed, Alike
<1>4. QED
  BY <1>2, <1>3

\* A step that touches no connection.
LEMMA Moved ==
  ASSUME Inv, CleanInv, NEW u \in Users, NEW q \in Place, Moves(u, q),
         \A v \in Users \ {u} : has'[v] = has[v], UNCHANGED connVars,
         \A d \in Conns : Member(d, idle)' => Clean(d),
         \A d \in Conns : has'[u] = d /\ q \in Bound => Stands(q, d)
  PROVE  CleanInv'
<1>1. \A d \in Conns : Alike(d)
  BY AllAlike DEF connVars
<1>2. ASSUME NEW d \in Conns, Member(d, idle)' PROVE Clean(d)'
  BY <1>1, <1>2, AlikeStands
<1>3. ASSUME NEW v \in Users, NEW d \in Conns, NEW p \in Place,
             at'[v] = p, has'[v] = d
      PROVE  \/ at[v] = p /\ has[v] = d
             \/ p \notin Bound
             \/ Stands(p, d)'
  <2>1. CASE v = u
    <3>1. p = q
      BY <1>3, <2>1 DEF Moves
    <3>2. QED
      BY <1>1, <1>3, <2>1, <3>1, AlikeStands
  <2>2. CASE v # u
    <3>1. CASE at'[v] = at[v]
      BY <1>3, <2>2, <3>1
    <3>2. CASE at'[v] = "woken"
      BY <1>3, <3>2 DEF Bound
    <3>3. QED
      BY <2>2, <3>1, <3>2 DEF Moves
  <2>3. QED
    BY <2>1, <2>2
<1> DEFINE T == {}
<1>4. \A d : d \notin T
  OBVIOUS
<1> HIDE DEF T
<1>5. QED
  BY <1>1, <1>2, <1>3, <1>4, CleanKept

LEMMA CleanMoves ==
  ASSUME Inv, Held, CleanInv, NEW u \in Users, NEW q \in Place, Moves(u, q),
         has' = has, idle' = idle, UNCHANGED connVars,
         \/ q \notin Bound
         \/ q = "use" /\ at[u] = "test"
  PROVE  CleanInv'
<1>1. \A d \in Conns : Member(d, idle)' => Clean(d)
  BY DEF CleanInv, Member
<1>2. ASSUME NEW d \in Conns, has'[u] = d, q \in Bound PROVE Stands(q, d)
  <2>1. at[u] = "test" /\ "test" \in Place
    BY <1>2 DEF Place, Holding
  <2>2. Stands("test", d)
    BY <1>2, <2>1 DEF CleanInv
  <2>3. Clean(d)
    BY <2>2 DEF Stands
  <2>4. QED
    BY <1>2, <2>3, CleanStands
<1>3. QED
  BY <1>1, <1>2, Moved

\* u takes what is at one end of the idle connections.
LEMMA CleanTakes ==
  ASSUME Inv, Held, CleanInv, NEW u \in Users, NEW q \in Place, Moves(u, q),
         q \in {"prune", "test", "use"}, NEW c \in Conns, Member(c, idle),
         has' = [has EXCEPT ![u] = c], UNCHANGED connVars,
         \A d \in Conns : Member(d, idle)' => Member(d, idle)
  PROVE  CleanInv'
<1>1. \A d \in Conns : Member(d, idle)' => Clean(d)
  BY DEF CleanInv
<1>2. Clean(c)
  BY DEF CleanInv
<1>3. has'[u] = c /\ \A v \in Users \ {u} : has'[v] = has[v]
  BY Typed
<1>4. Stands(q, c)
  BY <1>2, CleanStands
<1>5. QED
  BY <1>1, <1>3, <1>4, Moved

\* u closes what it has, and may take an idle connection at once.
LEMMA CleanCloses ==
  ASSUME Inv, Held, CleanInv, NEW u \in Users, NEW q \in Place, Moves(u, q),
         NEW c \in Conns, has[u] = c, Closed(c),
         \A v \in Users \ {u} : has'[v] = has[v],
         \A d \in Conns : Member(d, idle)' => Member(d, idle),
         \/ has'[u] = NoConn
         \/ q = "test" /\ has'[u] \in Conns /\ Member(has'[u], idle)
  PROVE  CleanInv'
<1>1. New(c)' /\ \A d \in Conns : d # c => Alike(d)
  BY ClosedIsNew
<1>2. ~Member(c, idle) /\ \A v \in Users \ {u} : has[v] # c
  BY Typed DEF Held
<1>3. ASSUME NEW v \in Users, NEW d \in Conns, NEW p \in Place,
             at'[v] = p, has'[v] = d
      PROVE  \/ at[v] = p /\ has[v] = d /\ d # c
             \/ p \notin Bound
             \/ Stands(p, d)'
  <2>1. CASE v = u
    <3>1. p = "test" /\ Member(d, idle)
      BY <1>3, <2>1, Typed DEF Moves
    <3>2. Clean(d) /\ d # c
      BY <1>2, <3>1 DEF CleanInv
    <3>3. Clean(d)'
      BY <1>1, <3>2, AlikeStands
    <3>4. QED
      BY <3>1, <3>3 DEF Stands
  <2>2. CASE v # u
    <3>1. CASE at'[v] = at[v]
      BY <1>2, <1>3, <2>2, <3>1
    <3>2. CASE at'[v] = "woken"
      BY <1>3, <3>2 DEF Bound
    <3>3. QED
      BY <2>2, <3>1, <3>2 DEF Moves
  <2>3. QED
    BY <2>1, <2>2
<1> DEFINE T == {c}
<1>4. \A d : d \notin T <=> d # c
  OBVIOUS
<1> HIDE DEF T
<1>5. QED
  BY <1>1, <1>2, <1>3, <1>4, CleanKept

LEMMA CleanGetStep ==
  ASSUME Inv, Held, CleanInv, NEW u \in Users, GetStep(u)
  PROVE  CleanInv'
<1> USE Typed
<1>a. "prune" \in Place /\ "test" \in Place /\ "use" \in Place
      /\ "get" \in Place /\ "out" \in Place /\ "dial" \in Place
      /\ "waiting" \in Place
      /\ "prune" \notin Bound /\ "get" \notin Bound /\ "out" \notin Bound
      /\ "dial" \notin Bound /\ "waiting" \notin Bound
  BY DEF Place, Holding, Bound
<1>1. CASE Prune(u)
  <2> DEFINE l == idle[Len(idle)]
             t == SubSeq(idle, 1, Len(idle) - 1)
  <2>1. /\ Distinct(t) /\ ~Member(l, t)
        /\ \A c : Member(c, idle) <=> c = l \/ Member(c, t)
    BY <1>1, LastMembers DEF Held, Prune
  <2>2. Moves(u, "prune") /\ l \in Conns
    BY <1>1, <1>a, SignalMoves, IdleEnds DEF Prune
  <2>3. idle' = t /\ has' = [has EXCEPT ![u] = l] /\ UNCHANGED connVars
    BY <1>1 DEF Prune
  <2>4. \A d \in Conns : Member(d, idle)' => Member(d, idle)
    BY <2>1, <2>3 DEF Member
  <2> HIDE DEF l, t
  <2>5. QED
    BY <1>a, <2>1, <2>2, <2>3, <2>4, CleanTakes
<1>2. CASE PruneClose(u)
  <2>1. has[u] \in Conns /\ Closed(has[u])
    BY <1>2, Has DEF PruneClose, Owning
  <2>2. /\ Moves(u, "get") /\ has'[u] = NoConn
        /\ \A v \in Users \ {u} : has'[v] = has[v]
        /\ \A d \in Conns : Member(d, idle)' => Member(d, idle)
    BY <1>2, <1>a, GoesMoves DEF PruneClose, poolVars, Member
  <2>3. QED
    BY <1>a, <2>1, <2>2, CleanCloses
<1>3. CASE TakeIdle(u)
  <2> DEFINE h == Head(idle)
             t == Tail(idle)
  <2>1. /\ Distinct(t) /\ ~Member(h, t)
        /\ \A c : Member(c, idle) <=> c = h \/ Member(c, t)
    BY <1>3, TailMembers DEF Held, TakeIdle
  <2>2. Borrowed \in {"test", "use"} /\ h \in Conns
    BY <1>3, IdleEnds DEF Borrowed, TakeIdle
  <2>3. Moves(u, Borrowed)
    BY <1>3, <1>a, <2>2, GoesMoves DEF TakeIdle
  <2>4. idle' = t /\ has' = [has EXCEPT ![u] = h] /\ UNCHANGED connVars
    BY <1>3 DEF TakeIdle
  <2>5. \A d \in Conns : Member(d, idle)' => Member(d, idle)
    BY <2>1, <2>4 DEF Member
  <2> HIDE DEF h, t
  <2>6. QED
    BY <1>a, <2>1, <2>2, <2>3, <2>4, <2>5, CleanTakes
<1>4. CASE TestFails(u)
  <2>1. has[u] \in Conns /\ Closed(has[u]) /\ at[u] # "waiting"
    BY <1>4, Has DEF TestFails, Owning
  <2>2. CASE /\ idle # << >>
             /\ has' = [has EXCEPT ![u] = Head(idle)] /\ idle' = Tail(idle)
             /\ GoesAndSignals(u, "test")
    <3> DEFINE h == Head(idle)
               t == Tail(idle)
    <3>1. /\ Distinct(t) /\ ~Member(h, t)
          /\ \A c : Member(c, idle) <=> c = h \/ Member(c, t)
      BY <2>2, TailMembers DEF Held
    <3>2. h \in Conns /\ Moves(u, "test")
      BY <1>a, <2>1, <2>2, IdleEnds, SignalMoves
    <3>3. idle' = t /\ has'[u] = h /\ \A v \in Users \ {u} : has'[v] = has[v]
      BY <2>2
    <3>4. \A d \in Conns : Member(d, idle)' => Member(d, idle)
      BY <3>1, <3>3 DEF Member
    <3> HIDE DEF h, t
    <3>5. QED
      BY <1>a, <2>1, <3>1, <3>2, <3>3, <3>4, CleanCloses
  <2>3. CASE /\ has' = [has EXCEPT ![u] = NoConn] /\ UNCHANGED idle
             /\ GoesAndSignals(u, "out") \/ GoesAndSignals(u, "dial")
    <3>1. /\ has'[u] = NoConn /\ \A v \in Users \ {u} : has'[v] = has[v]
          /\ \A d \in Conns : Member(d, idle)' => Member(d, idle)
      BY <2>3 DEF Member
    <3>2. Moves(u, "out") \/ Moves(u, "dial")
      BY <1>a, <2>1, <2>3, SignalMoves
    <3>3. QED
      BY <1>a, <2>1, <3>1, <3>2, CleanCloses
  <2>4. QED
    BY <1>4, <2>2, <2>3 DEF TestFails
<1>5. CASE TestPasses(u)
  <2>1. Moves(u, "use")
    BY <1>5, <1>a, GoesMoves DEF TestPasses
  <2>2. QED
    BY <1>5, <1>a, <2>1, CleanMoves DEF TestPasses, poolVars
<1>6. CASE GetOnClosed(u) \/ GetDials(u) \/ Exhausted(u) \/ CondWait(u)
           \/ DialFails(u)
  <2>1. Moves(u, "out") \/ Moves(u, "dial") \/ Moves(u, "waiting")
    BY <1>6, <1>a, GoesMoves, SignalMoves
    DEF GetOnClosed, GetDials, Exhausted, CondWait, DialFails
  <2>2. UNCHANGED <<has, idle, connVars>>
    BY <1>6 DEF GetOnClosed, GetDials, Exhausted, CondWait, DialFails, poolVars
  <2>3. QED
    BY <1>a, <2>1, <2>2, CleanMoves
<1>7. CASE DialOk(u)
  <2>1. PICK c \in Conns : /\ c \notin exists /\ exists' = exists \cup {c}
                           /\ has' = [has EXCEPT ![u] = c]
    BY <1>7 DEF DialOk
  <2>2. /\ UNCHANGED <<idle, err, pending, stream, state, special, refused>>
        /\ Moves(u, "use") /\ exists' = exists \cup {c}
        /\ has'[u] = c /\ \A v \in Users \ {u} : has'[v] = has[v]
    BY <1>7, <1>a, <2>1, GoesMoves DEF DialOk, poolVars
  <2>3. New(c)
    BY <2>1 DEF CleanInv
  <2>4. Clean(c)'
    BY <2>2, <2>3 DEF New, Clean
  <2>5. Stands("use", c)'
    <3>1. Stands("use", c)
      BY <2>3, CleanStands DEF New
    <3>2. Used(c) <=> Used(c)'
      BY <2>2 DEF Used, Marks, Known
    <3>3. QED
      BY <2>2, <3>1, <3>2 DEF Stands
  <2>6. ~Member(c, idle) /\ \A v \in Users : has[v] # c
    BY <2>1 DEF Held
  <2>7. ASSUME NEW d \in Conns, d # c PROVE Alike(d)
    BY <2>2, <2>7 DEF Alike
  <2>8. ASSUME NEW v \in Users, NEW d \in Conns, NEW p \in Place,
               at'[v] = p, has'[v] = d
        PROVE  \/ at[v] = p /\ has[v] = d /\ d # c
               \/ p \notin Bound
               \/ Stands(p, d)'
    <3>1. CASE v = u
      BY <2>2, <2>5, <2>8, <3>1 DEF Moves
    <3>2. CASE v # u
      <4>1. CASE at'[v] = at[v]
        BY <2>2, <2>6, <2>8, <3>2, <4>1
      <4>2. CASE at'[v] = "woken"
        BY <2>8, <4>2 DEF Bound
      <4>3. QED
        BY <2>2, <3>2, <4>1, <4>2 DEF Moves
    <3>3. QED
      BY <3>1, <3>2
  <2> DEFINE T == {c}
  <2>9. \A d : d \notin T <=> d # c
    OBVIOUS
  <2>10. c \in exists'
    BY <2>2
  <2>11. \A d \in Conns : Member(d, idle)' => Member(d, idle) /\ d # c
    BY <2>2, <2>6 DEF Member
  <2> HIDE DEF T
  <2>12. QED
    BY <2>7, <2>8, <2>9, <2>10, <2>11, CleanKept
<1>8. QED
  BY <1>1, <1>2, <1>3, <1>4, <1>5, <1>6, <1>7 DEF GetStep

LEMMA Appended ==
  ASSUME NEW s \in Seq(Item), NEW x \in Item
  PROVE  /\ Append(s, x) \in Seq(Item) /\ Len(s) \in Nat
         /\ Len(Append(s, x)) = Len(s) + 1
         /\ \A i \in 1 .. Len(s) : Append(s, x)[i] = s[i]
         /\ Append(s, x)[Len(s) + 1] = x
         /\ \A y : Member(y, Append(s, x)) <=> Member(y, s) \/ y = x
<1> DEFINE t == Append(s, x)
<1>1. /\ t \in Seq(Item) /\ Len(s) \in Nat /\ Len(t) = Len(s) + 1
      /\ \A i \in 1 .. Len(s) : t[i] = s[i]
      /\ t[Len(s) + 1] = x
  BY AppendProperties
<1> HIDE DEF t
<1>2. ASSUME NEW y PROVE Member(y, t) <=> Member(y, s) \/ y = x
  <2>1. \A i \in 1 .. Len(t) : i \in 1 .. Len(s) \/ i = Len(s) + 1
    BY <1>1
  <2>2. Len(s) + 1 \in 1 .. Len(t) /\ \A i \in 1 .. Len(s) : i \in 1 .. Len(t)
    BY <1>1
  <2>3. QED
    BY <1>1, <2>1, <2>2 DEF Member
<1>3. QED
  BY <1>1, <1>2 DEF t

LEMMA Dropped ==
  ASSUME NEW s \in Seq(Item), NEW n \in Nat, n <= Len(s)
  PROVE  LET t == SubSeq(s, n + 1, Len(s))
         IN  /\ t \in Seq(Item) /\ Len(s) \in Nat /\ Len(t) = Len(s) - n
             /\ \A i \in 1 .. Len(t) : t[i] = s[i + n]
             /\ \A y : Member(y, t) => Member(y, s)
             /\ n = Len(s) => t = << >>
<1> DEFINE m == n + 1
           l == Len(s)
           t == SubSeq(s, m, l)
<1>1. m \in Nat \ {0} /\ l \in Nat /\ l <= Len(s)
  OBVIOUS
<1>2. \A i \in m .. l : s[i] \in Item
  BY <1>1
<1> HIDE DEF m, l
<1>3. /\ t \in Seq(Item) /\ Len(t) = IF m <= l THEN l - m + 1 ELSE 0
      /\ \A i \in 1 .. l - m + 1 : t[i] = s[m + i - 1]
  BY <1>1, <1>2, SubSeqProperties
<1> HIDE DEF t
<1>4. Len(t) = l - n
  BY <1>1, <1>3 DEF m, l
<1>5. \A i \in 1 .. Len(t) : t[i] = s[i + n] /\ i + n \in 1 .. Len(s)
  <2>1. TAKE i \in 1 .. Len(t)
  <2>2. /\ i \in 1 .. l - m + 1 /\ m + i - 1 = i + n /\ i + n \in 1 .. l
    BY <1>1, <1>4 DEF m
  <2>3. QED
    BY <1>3, <2>2 DEF l
<1>6. \A y : Member(y, t) => Member(y, s)
  BY <1>5 DEF Member
<1>7. n = l => t = << >>
  BY <1>1, <1>3, <1>4, EmptySeq
<1>8. QED
  BY <1>1, <1>3, <1>4, <1>5, <1>6, <1>7 DEF m, l, t

\* The step gives c these values, and touches no other connection.
LEMMA Elsewhere ==
  ASSUME Inv, NEW c \in Conns, NEW n, NEW s, NEW sp, NEW st,
         pending' = [pending EXCEPT ![c] = n],
         stream' = [stream EXCEPT ![c] = s],
         special' = [special EXCEPT ![c] = sp],
         state' = [state EXCEPT ![c] = st], exists' = exists,
         \A d \in Conns : d # c => (d \in err' <=> d \in err)
                                   /\ (d \in refused' <=> d \in refused)
  PROVE  /\ pending'[c] = n /\ stream'[c] = s /\ special'[c] = sp
         /\ state'[c] = st
         /\ \A d \in Conns : d # c => Alike(d)
<1> USE Typed DEF ConnType
<1>1. pending'[c] = n /\ stream'[c] = s /\ special'[c] = sp /\ state'[c] = st
  OBVIOUS
<1>2. ASSUME NEW d \in Conns, d # c PROVE Alike(d)
  BY <1>2 DEF Alike
<1>3. QED
  BY <1>1, <1>2

\* Nothing is asked of a connection that has failed.
LEMMA FatalStands ==
  ASSUME Inv, NEW c \in Conns, NEW n, Fatal(c, n), NEW st,
         state' = [state EXCEPT ![c] = st], NEW p, p # "test",
         \A d \in Conns : d # c => (d \in refused' <=> d \in refused)
  PROVE  Stands(p, c)' /\ \A d \in Conns : d # c => Alike(d)
<1>1. c \in err'
  BY DEF Fatal
<1>2. Stands(p, c)'
  BY <1>1 DEF Stands
<1>3. ASSUME NEW d \in Conns, d # c PROVE Alike(d)
  BY <1>3, Typed DEF Fatal, Alike, ConnType
<1>4. QED
  BY <1>2, <1>3

\* What pooledConnection keeps of a user's command fits what the server
\* makes of it.
LEMMA MarksCommand ==
  ASSUME Inv, NEW c \in Conns, Marks(c), NEW cmd \in Commands, Legal(c, cmd),
         MayRefuse(c, cmd), special'[c] = After(special[c], cmd),
         state'[c] = (state[c] \cup Sets(cmd)) \ Clears(cmd)
  PROVE  /\ Marks(c)'
         /\ "subscribe" \notin state'[c] => "subscribe" \notin state[c]
         /\ "monitor" \notin state'[c] => "monitor" \notin state[c]
<1> DEFINE sp == special[c]
           st == state[c]
<1>1. cmd \in {"plain", "watch", "unwatch", "multi", "exec", "subscribe",
               "unsubscribe", "monitor"}
  BY PoolAssumption
<1>2. /\ "multi" \in sp => "multi" \in st /\ "subscribe" \notin sp
      /\ "watch" \in sp => "watch" \in st \/ "multi" \in sp \/ c \in refused
      /\ "multi" \in st /\ "multi" \notin sp => "subscribe" \in st
      /\ "subscribe" \in sp => "subscribe" \in st
      /\ "monitor" \in sp => "monitor" \in st
  BY DEF Marks, Known
<1>3. c \in refused => c \in refused'
  BY DEF MayRefuse
<1>4. Marks(c)' <=>
        /\ "multi" \in special'[c] =>
             "multi" \in state'[c] /\ "subscribe" \notin special'[c]
        /\ "watch" \in special'[c] =>
             "watch" \in state'[c] \/ "multi" \in special'[c] \/ c \in refused'
        /\ "multi" \in state'[c] /\ "multi" \notin special'[c] =>
             "subscribe" \in state'[c]
        /\ "subscribe" \in special'[c] => "subscribe" \in state'[c]
        /\ "monitor" \in special'[c] => "monitor" \in state'[c]
  BY DEF Marks, Known
<1> HIDE DEF sp, st
<1>5. CASE cmd = "plain"
  <2>1. special'[c] = sp /\ state'[c] = st
    BY <1>5 DEF After, Refuses, Sets, Clears, Special, sp, st
  <2>2. QED
    BY <1>2, <1>3, <1>4, <2>1 DEF st
<1>6. CASE cmd = "watch"
  <2>1. /\ special'[c] = sp \/ special'[c] = sp \cup {"watch"}
        /\ state'[c] = st \cup {"watch"}
    BY <1>6 DEF After, Refuses, Sets, Clears, Special, sp, st
  <2>2. QED
    BY <1>2, <1>3, <1>4, <2>1 DEF st
<1>7. CASE cmd = "unwatch"
  <2>1. /\ \/ special'[c] = sp /\ c \in refused'
           \/ special'[c] = sp /\ "multi" \in sp
           \/ special'[c] = sp \ {"watch"}
        /\ state'[c] = st \ {"watch"}
    BY <1>7 DEF After, Refuses, Sets, Clears, Special, MayRefuse, sp, st
  <2>2. QED
    BY <1>2, <1>3, <1>4, <2>1 DEF st
<1>8. CASE cmd = "multi"
  <2>1. /\ \/ special'[c] = sp /\ ("subscribe" \in sp \/ "multi" \in sp)
           \/ special'[c] = sp \cup {"multi"} /\ "subscribe" \notin sp
        /\ state'[c] = st \cup {"multi"}
    BY <1>8 DEF After, Refuses, Sets, Clears, Special, sp, st
  <2>2. QED
    BY <1>2, <1>3, <1>4, <2>1 DEF st
<1>9. CASE cmd = "exec"
  <2>1. "multi" \in sp /\ "subscribe" \notin sp
    BY <1>2, <1>9 DEF Legal, sp
  <2>2. /\ special'[c] = sp \ {"watch", "multi"}
        /\ state'[c] = st \ {"watch", "multi"}
    BY <1>9, <2>1 DEF After, Refuses, Sets, Clears, Special, sp, st
  <2>3. QED
    BY <1>2, <1>3, <1>4, <2>2 DEF st
<1>10. CASE cmd = "subscribe"
  <2>1. "multi" \notin sp
    BY <1>10 DEF Legal, sp
  <2>2. /\ special'[c] = sp \cup {"subscribe"}
        /\ state'[c] = st \cup {"subscribe"}
    BY <1>10, <2>1 DEF After, Refuses, Sets, Clears, Special, sp, st
  <2>3. QED
    BY <1>2, <1>3, <1>4, <2>1, <2>2 DEF st
<1>11. CASE cmd = "unsubscribe"
  <2>1. /\ special'[c] = sp \/ special'[c] = sp \ {"subscribe"}
        /\ state'[c] = st
    BY <1>11 DEF After, Refuses, Sets, Clears, Special, sp, st
  <2>2. QED
    BY <1>2, <1>3, <1>4, <2>1 DEF st
<1>12. CASE cmd = "monitor"
  <2>1. "multi" \notin sp
    BY <1>12 DEF Legal, sp
  <2>2. /\ special'[c] = sp \/ special'[c] = sp \cup {"monitor"}
        /\ state'[c] = st \cup {"monitor"}
    BY <1>12, <2>1 DEF After, Refuses, Sets, Clears, Special, sp, st
  <2>3. QED
    BY <1>2, <1>3, <1>4, <2>1, <2>2 DEF st
<1>13. QED
  BY <1>1, <1>5, <1>6, <1>7, <1>8, <1>9, <1>10, <1>11, <1>12

\* What u has, and what is known of it.
LEMMA InHand ==
  ASSUME Inv, Held, CleanInv, NEW u \in Users, at[u] \in Owning
  PROVE  \E c \in Conns : has[u] = c /\ c \in exists /\ Stands(at[u], c)
<1>1. has[u] \in Conns
  BY Has
<1>2. at[u] \in Place
  BY Typed DEF UserType
<1>3. has[u] \in exists
  BY <1>1 DEF Held
<1>4. QED
  BY <1>1, <1>2, <1>3 DEF CleanInv

LEMMA UsedStands ==
  ASSUME NEW c, Used(c)'
  PROVE  Stands("use", c)'
BY DEF Stands

LEMMA ReplyNoEcho ==
  ASSUME NEW sp, NEW cmd, cmd # "echo"
  PROVE  Reply(sp, cmd) \in Item /\ Reply(sp, cmd) # "echo"
<1>1. Reply(sp, cmd) \in {"error", "reply"}
  BY Zenon DEF Reply
<1>2. QED
  BY <1>1 DEF Item

LEMMA CommandStands ==
  ASSUME Inv, NEW c \in Conns, Stands("use", c), NEW cmd \in Commands,
         Legal(c, cmd), MayRefuse(c, cmd),
         state' = [state EXCEPT ![c] = (@ \cup Sets(cmd)) \ Clears(cmd)],
         \/ Fatal(c, pending[c] + 1) \/ Sent(c, cmd)
         \/ Fatal(c, 0)
         \/ LET n == pending[c] + 1
                s == Append(stream[c], Reply(special[c], cmd))
            IN  /\ Len(s) >= n
                /\ pending' = [pending EXCEPT ![c] = 0]
                /\ stream' = [stream EXCEPT ![c] = SubSeq(s, n + 1, Len(s))]
                /\ special' = [special EXCEPT ![c] = After(@, cmd)]
                /\ UNCHANGED <<exists, broken, err, breaks>>
  PROVE  /\ Stands("use", c)' /\ exists' = exists
         /\ \A d \in Conns : d # c => Alike(d)
<1> DEFINE st == (state[c] \cup Sets(cmd)) \ Clears(cmd)
           sp == After(special[c], cmd)
           x == Reply(special[c], cmd)
           s == Append(stream[c], x)
           n == pending[c] + 1
<1>1. /\ state' = [state EXCEPT ![c] = st]
      /\ \A d \in Conns : d # c => (d \in refused' <=> d \in refused)
  BY Typed DEF MayRefuse, ConnType
<1>2. CASE Fatal(c, pending[c] + 1) \/ Fatal(c, 0)
  <2>1. exists' = exists
    BY <1>2 DEF Fatal
  <2> DEFINE m == pending[c] + 1
  <2>2. (Fatal(c, m) \/ Fatal(c, 0)) /\ "use" # "test"
    BY <1>2
  <2> HIDE DEF st, m
  <2>3. QED
    BY <1>1, <2>1, <2>2, FatalStands
<1>3. x \in Item /\ x # "echo"
  <2>1. cmd # "echo"
    BY PoolAssumption
  <2>2. QED
    BY <2>1, ReplyNoEcho
<1>4. /\ s \in Seq(Item) /\ Len(s) = Len(stream[c]) + 1
      /\ \A y : Member(y, s) <=> Member(y, stream[c]) \/ y = x
      /\ pending[c] \in Nat /\ n \in Nat /\ Len(stream[c]) \in Nat
  <2> HIDE DEF x
  <2>1. stream[c] \in Seq(Item) /\ pending[c] \in Nat
    BY PendingNat
  <2>2. /\ s \in Seq(Item) /\ Len(s) = Len(stream[c]) + 1
        /\ \A y : Member(y, s) <=> Member(y, stream[c]) \/ y = x
        /\ Len(stream[c]) \in Nat
    BY <1>3, <2>1, Appended, Zenon
  <2>3. QED
    BY <2>1, <2>2
\* What the command leaves of the replies, and their number.
<1>5. ASSUME NEW k \in Nat, NEW t \in Seq(Item), c \notin err,
             pending' = [pending EXCEPT ![c] = k],
             stream' = [stream EXCEPT ![c] = t],
             special' = [special EXCEPT ![c] = sp],
             UNCHANGED <<exists, err>>,
             k <= Len(t), \A y : Member(y, t) => Member(y, s),
             pending[c] = Len(stream[c]) => k = Len(t)
      PROVE  /\ Stands("use", c)' /\ exists' = exists
             /\ \A d \in Conns : d # c => Alike(d)
  <2>1. Used(c)
    BY <1>5 DEF Stands
  <2> HIDE DEF st, sp, s
  <2>2. /\ pending'[c] = k /\ stream'[c] = t /\ special'[c] = sp
        /\ state'[c] = st
        /\ \A d \in Conns : d # c => Alike(d)
    BY <1>1, <1>5, Elsewhere
  <2>3. /\ Marks(c)'
        /\ "subscribe" \notin state'[c] => "subscribe" \notin state[c]
        /\ "monitor" \notin state'[c] => "monitor" \notin state[c]
    BY <2>1, <2>2, MarksCommand DEF Used, st, sp
  <2>4. Used(c)'
    BY <1>3, <1>4, <1>5, <2>1, <2>2, <2>3 DEF Used
  <2>5. QED
    BY <1>5, <2>2, <2>4, UsedStands
<1>6. CASE c \in err
  <2>1. c \in err' /\ exists' = exists /\ \A d \in Conns : d # c => (d \in err' <=> d \in err)
    BY <1>6, Typed DEF Fatal, Sent, ConnType
  <2>2. Stands("use", c)'
    BY <2>1 DEF Stands
  <2>3. \A d \in Conns : d # c => Alike(d)
    BY <1>1, <2>1, Typed DEF Fatal, Sent, Alike, ConnType
  <2>4. QED
    BY <2>1, <2>2, <2>3
<1>7. c \notin err => Used(c)
  BY DEF Stands
<1>8. CASE Sent(c, cmd) /\ c \notin err
  <2>1. /\ pending' = [pending EXCEPT ![c] = n]
        /\ stream' = [stream EXCEPT ![c] = s]
        /\ special' = [special EXCEPT ![c] = sp]
        /\ UNCHANGED <<exists, err>>
    BY <1>8, Typed DEF Sent, ConnType
  <2>2. n <= Len(s) /\ (pending[c] = Len(stream[c]) => n = Len(s))
    BY <1>4, <1>7, <1>8 DEF Used
  <2> HIDE DEF n, s, sp
  <2>3. QED
    BY <1>4, <1>5, <1>8, <2>1, <2>2
<1>9. CASE /\ Len(s) >= n /\ c \notin err
           /\ pending' = [pending EXCEPT ![c] = 0]
           /\ stream' = [stream EXCEPT ![c] = SubSeq(s, n + 1, Len(s))]
           /\ special' = [special EXCEPT ![c] = After(@, cmd)]
           /\ UNCHANGED <<exists, broken, err, breaks>>
  <2> DEFINE t == SubSeq(s, n + 1, Len(s))
  <2>1. /\ pending' = [pending EXCEPT ![c] = 0]
        /\ stream' = [stream EXCEPT ![c] = t]
        /\ special' = [special EXCEPT ![c] = sp]
        /\ UNCHANGED <<exists, err>>
    BY <1>9, Typed DEF ConnType
  <2>2. n <= Len(s) /\ (pending[c] = Len(stream[c]) => n = Len(s))
    BY <1>4, <1>9
  <2> HIDE DEF s, n
  <2>3. /\ t \in Seq(Item) /\ Len(t) = Len(s) - n /\ Len(s) \in Nat
        /\ \A y : Member(y, t) => Member(y, s)
    BY <1>4, <2>2, Dropped
  <2> HIDE DEF t, sp
  <2>4. 0 <= Len(t) /\ 0 \in Nat /\ (pending[c] = Len(stream[c]) => 0 = Len(t))
    BY <1>4, <2>2, <2>3
  <2>5. QED
    BY <1>5, <1>9, <2>1, <2>3, <2>4
<1>10. QED
  BY <1>2, <1>6, <1>8, <1>9

LEMMA ReceiveStands ==
  ASSUME Inv, NEW c \in Conns, Stands("use", c),
         UNCHANGED <<state, refused>>,
         Fatal(c, pending[c]) \/ Received(c)
  PROVE  /\ Stands("use", c)' /\ exists' = exists
         /\ \A d \in Conns : d # c => Alike(d)
<1>1. state' = [state EXCEPT ![c] = state[c]] /\ refused' = refused
  BY Typed DEF ConnType
<1>2. CASE Fatal(c, pending[c])
  <2>1. exists' = exists /\ "use" # "test"
        /\ \A d \in Conns : d # c => (d \in refused' <=> d \in refused)
    BY <1>1, <1>2 DEF Fatal
  <2> DEFINE st == state[c]
             n == pending[c]
  <2>2. state' = [state EXCEPT ![c] = st] /\ Fatal(c, n)
    BY <1>1, <1>2
  <2> HIDE DEF st, n
  <2>3. QED
    BY <2>1, <2>2, FatalStands
<1>3. CASE Received(c)
  <2> DEFINE k == OneLess(pending[c])
             t == Tail(stream[c])
  <2>1. /\ pending' = [pending EXCEPT ![c] = k]
        /\ stream' = [stream EXCEPT ![c] = t]
        /\ special' = [special EXCEPT ![c] = special[c]]
        /\ UNCHANGED <<exists, err>>
    BY <1>3, Typed DEF Received, ConnType
  <2>2. /\ pending[c] \in Nat /\ stream[c] \in Seq(Item) /\ stream[c] # << >>
    BY <1>3, PendingNat DEF Received
  <2>3. /\ t \in Seq(Item) /\ Len(t) = Len(stream[c]) - 1
        /\ Len(stream[c]) \in Nat \ {0}
        /\ \A i \in 1 .. Len(t) : t[i] = stream[c][i + 1]
    BY <2>2, DroppedFirst
  <2> HIDE DEF t
  <2>4. \A i \in 1 .. Len(t) : i + 1 \in 1 .. Len(stream[c])
    BY <2>3
  <2>5. \A y : Member(y, t) => Member(y, stream[c])
    BY <2>3, <2>4 DEF Member
  <2>6. k = IF pending[c] > 0 THEN pending[c] - 1 ELSE 0
    BY DEF OneLess
  <2> HIDE DEF k
  <2>7. /\ pending'[c] = k /\ stream'[c] = t /\ special'[c] = special[c]
        /\ state'[c] = state[c]
        /\ \A d \in Conns : d # c => Alike(d)
    BY <1>1, <2>1, Elsewhere
  <2>8. ASSUME c \notin err PROVE Used(c)'
    <3>1. Used(c)
      BY <2>8 DEF Stands
    <3>2. Marks(c)'
      BY <1>1, <2>7, <3>1 DEF Used, Marks, Known
    <3>3. QED
      BY <2>2, <2>3, <2>5, <2>6, <2>7, <3>1, <3>2 DEF Used
  <2>9. Stands("use", c)'
    BY <2>1, <2>8 DEF Stands
  <2>10. QED
    BY <2>1, <2>7, <2>9
<1>4. QED
  BY <1>2, <1>3

LEMMA CleanUse ==
  ASSUME Inv, Held, CleanInv, NEW u \in Users, Use(u)
  PROVE  CleanInv'
<1>a. "use" \in Place /\ "use" \in Owning /\ "get" \in Place
      /\ "get" \notin Bound
  BY DEF Place, Holding, Owning, Bound
<1>1. CASE StartGet(u)
  <2>1. Moves(u, "get")
    BY <1>1, <1>a, Typed, GoesMoves DEF StartGet
  <2>2. QED
    BY <1>1, <1>a, <2>1, CleanMoves DEF StartGet, poolVars
<1>2. CASE Receive(u)
  <2>1. at[u] = "use"
    BY <1>2 DEF Receive
  <2>2. PICK c \in Conns : has[u] = c /\ c \in exists /\ Stands("use", c)
    BY <1>a, <2>1, InHand
  <2>3. /\ Fatal(c, pending[c]) \/ Received(c)
        /\ UNCHANGED <<at, has, idle, state, refused>>
    BY <1>2, <2>2 DEF Receive, poolVars
  <2>4. /\ Stands("use", c)' /\ exists' = exists
        /\ \A d \in Conns : d # c => Alike(d)
    BY <2>2, <2>3, ReceiveStands
  <2>5. QED
    BY <1>a, <2>1, <2>2, <2>3, <2>4, Works
<1>3. ASSUME NEW cmd \in Commands, Send(u, cmd) \/ Do(u, cmd)
      PROVE  CleanInv'
  <2>1. at[u] = "use"
    BY <1>3 DEF Send, Do
  <2>2. PICK c \in Conns : has[u] = c /\ c \in exists /\ Stands("use", c)
    BY <1>a, <2>1, InHand
  <2>3. /\ UNCHANGED <<at, has, idle>> /\ Legal(c, cmd) /\ MayRefuse(c, cmd)
        /\ state' = [state EXCEPT ![c] = (@ \cup Sets(cmd)) \ Clears(cmd)]
    BY <1>3, <2>2 DEF Send, Do, poolVars
  <2>4. \/ Fatal(c, pending[c] + 1) \/ Sent(c, cmd)
        \/ Fatal(c, 0)
        \/ LET n == pending[c] + 1
               s == Append(stream[c], Reply(special[c], cmd))
           IN  /\ Len(s) >= n
               /\ pending' = [pending EXCEPT ![c] = 0]
               /\ stream' = [stream EXCEPT ![c] = SubSeq(s, n + 1, Len(s))]
               /\ special' = [special EXCEPT ![c] = After(@, cmd)]
               /\ UNCHANGED <<exists, broken, err, breaks>>
    BY <1>3, <2>2 DEF Send, Do
  <2>5. /\ Stands("use", c)' /\ exists' = exists
        /\ \A d \in Conns : d # c => Alike(d)
    BY <2>2, <2>3, <2>4, CommandStands
  <2>6. QED
    BY <1>a, <2>1, <2>2, <2>3, <2>5, Works
<1>4. QED
  BY <1>1, <1>2, <1>3 DEF Use

LEMMA WorksGoing ==
  ASSUME Inv, Held, CleanInv, NEW u \in Users, NEW c \in Conns, has[u] = c,
         NEW p \in Place, Goes(u, p), UNCHANGED <<has, idle>>,
         exists' = exists, c \in exists,
         \A d \in Conns : d # c => Alike(d), Stands(p, c)'
  PROVE  CleanInv'
<1>1. at'[u] = p /\ \A v \in Users \ {u} : at'[v] = at[v]
  BY Typed DEF Goes, UserType
<1>2. QED
  BY <1>1, Works

\* A command that Close sends is answered, or refused by a server that takes
\* the connection for a subscriber's, or has no transaction for it.
LEMMA SentValues ==
  ASSUME Inv, NEW c \in Conns, NEW cmd, cmd # "echo", Sent(c, cmd), NEW st,
         state' = [state EXCEPT ![c] = st], refused' = refused
  PROVE  /\ \A d \in Conns : d # c => Alike(d)
         /\ exists' = exists /\ state'[c] = st
         /\ special'[c] = After(special[c], cmd)
         /\ pending[c] \in Nat /\ pending'[c] = pending[c] + 1
         /\ Len(stream[c]) \in Nat /\ Len(stream'[c]) = Len(stream[c]) + 1
         /\ \A y : Member(y, stream'[c]) <=>
                     Member(y, stream[c]) \/ y = Reply(special[c], cmd)
         /\ Reply(special[c], cmd) # "echo"
         /\ c \in err' <=> c \in err
<1> DEFINE x == Reply(special[c], cmd)
           s == Append(stream[c], x)
           sp == After(special[c], cmd)
           n == pending[c] + 1
<1>1. x \in Item /\ x # "echo"
  BY ReplyNoEcho
<1>2. pending[c] \in Nat /\ stream[c] \in Seq(Item)
  BY PendingNat
<1>3. /\ pending' = [pending EXCEPT ![c] = n]
      /\ stream' = [stream EXCEPT ![c] = s]
      /\ special' = [special EXCEPT ![c] = sp]
      /\ UNCHANGED <<exists, err>>
  BY Typed DEF Sent, ConnType
<1> HIDE DEF x, sp
<1>4. /\ Len(s) = Len(stream[c]) + 1 /\ Len(stream[c]) \in Nat
      /\ \A y : Member(y, s) <=> Member(y, stream[c]) \/ y = x
  BY <1>1, <1>2, Appended, Zenon
<1> HIDE DEF s, n
<1>5. /\ pending'[c] = n /\ stream'[c] = s /\ special'[c] = sp
      /\ state'[c] = st
      /\ \A d \in Conns : d # c => Alike(d)
  BY <1>3, Elsewhere
<1>6. QED
  BY <1>1, <1>2, <1>3, <1>4, <1>5 DEF n, x, sp

LEMMA CloseStands ==
  ASSUME Inv, NEW c \in Conns, Stands("use", c), refused' = refused,
         \/ /\ "multi" \in state[c]
            /\ Fatal(c, pending[c] + 1) \/ Sent(c, "exec")
         \/ /\ "multi" \notin state[c] /\ "watch" \in state[c]
            /\ Fatal(c, pending[c] + 1) \/ Sent(c, "unwatch")
         \/ /\ "multi" \notin state[c] /\ "watch" \notin state[c]
            /\ UNCHANGED <<exists, broken, err, pending, stream, special,
                           breaks>>,
         state' = [state EXCEPT ![c] = @ \ {"multi", "watch"}],
         NEW p \in {"unsub", "flush"},
         p = "unsub" <=> "subscribe" \in state[c]
  PROVE  /\ Stands(p, c)' /\ exists' = exists
         /\ \A d \in Conns : d # c => Alike(d)
<1> DEFINE st == state[c] \ {"multi", "watch"}
           sp == special[c]
           n == pending[c] + 1
<1>1. state' = [state EXCEPT ![c] = st]
  BY Typed DEF ConnType
<1>2. CASE Fatal(c, n)
  <2>1. exists' = exists /\ p # "test"
    BY <1>2 DEF Fatal
  <2> HIDE DEF st, n
  <2>2. QED
    BY <1>1, <1>2, <2>1, FatalStands
\* What is enough.
<1>3. ASSUME c \in err' <=> c \in err,
             state'[c] = st, pending'[c] <= Len(stream'[c]),
             "multi" \notin special'[c],
             special'[c] \subseteq sp,
             Used(c) => ~Member("echo", stream'[c]),
             pending[c] = Len(stream[c]) => pending'[c] = Len(stream'[c]),
             "watch" \in special'[c] => c \in refused \/
               ("subscribe" \in state[c] /\ Member("error", stream'[c]))
      PROVE  Stands(p, c)'
  <2>1. CASE c \in err
    BY <1>3, <2>1 DEF Stands
  <2>2. CASE c \notin err
    <3>1. Used(c)
      BY <2>2 DEF Stands
    <3>2. Undone(c)'
      BY <1>3, <3>1 DEF Undone, Used, Marks, Known
    <3>3. CASE p = "unsub"
      <4>1. Subscribed(c)'
        BY <1>3, <3>1, <3>2, <3>3 DEF Subscribed
      <4>2. QED
        BY <3>3, <4>1 DEF Stands
    <3>4. CASE p = "flush"
      <4>1. Flushed(c)'
        BY <1>3, <3>1, <3>2, <3>4 DEF Flushed, Used
      <4>2. QED
        BY <3>4, <4>1 DEF Stands
    <3>5. QED
      BY <3>3, <3>4
  <2>3. QED
    BY <2>1, <2>2
<1>4. c \notin err => Used(c)
  BY DEF Stands
<1>a. state'[c] = st
  BY <1>1, Typed DEF ConnType
<1>5. ASSUME NEW cmd \in {"exec", "unwatch"}, Sent(c, cmd), c \notin err,
             cmd = "exec" <=> "multi" \in state[c]
      PROVE  /\ Stands(p, c)' /\ exists' = exists
             /\ \A d \in Conns : d # c => Alike(d)
  <2>1. Used(c)
    BY <1>4, <1>5
  <2> HIDE DEF st
  <2>2. /\ \A d \in Conns : d # c => Alike(d)
        /\ exists' = exists
        /\ special'[c] = After(special[c], cmd)
        /\ pending[c] \in Nat /\ pending'[c] = pending[c] + 1
        /\ Len(stream[c]) \in Nat /\ Len(stream'[c]) = Len(stream[c]) + 1
        /\ \A y : Member(y, stream'[c]) <=>
                    Member(y, stream[c]) \/ y = Reply(special[c], cmd)
        /\ Reply(special[c], cmd) # "echo"
        /\ c \in err' <=> c \in err
    <3>1. cmd # "echo"
      BY <1>5
    <3>2. QED
      BY <1>1, <1>5, <3>1, SentValues
  <2>3. \/ /\ special'[c] = sp /\ "multi" \notin sp
           /\ Reply(sp, cmd) = "error"
           /\ "subscribe" \in state[c]
        \/ special'[c] \subseteq sp \ {"watch", "multi"}
    <3>1. CASE "subscribe" \in sp
      <4>1. "multi" \notin sp /\ "subscribe" \in state[c]
        BY <2>1, <3>1 DEF Used, Marks, Known
      <4>2. Refuses(sp, cmd)
        BY <1>5, <3>1 DEF Refuses
      <4>3. QED
        BY <2>2, <4>1, <4>2 DEF After, Reply
    <3>2. CASE "subscribe" \notin sp /\ cmd = "exec"
      <4>1. CASE "multi" \in sp
        <5>1. ~Refuses(sp, cmd)
          BY <3>2, <4>1 DEF Refuses
        <5>2. QED
          BY <2>2, <3>2, <4>1, <5>1 DEF After
      <4>2. CASE "multi" \notin sp
        <5>1. "subscribe" \in state[c] /\ Refuses(sp, cmd)
          BY <1>5, <2>1, <3>2, <4>2 DEF Used, Marks, Refuses
        <5>2. QED
          BY <2>2, <4>2, <5>1 DEF After, Reply
      <4>3. QED
        BY <4>1, <4>2
    <3>3. CASE "subscribe" \notin sp /\ cmd = "unwatch"
      <4>1. "multi" \notin sp
        BY <1>5, <2>1, <3>3 DEF Used, Marks
      <4>2. ~Refuses(sp, cmd)
        BY <3>3 DEF Refuses
      <4>3. After(sp, cmd) = sp \ {"watch"}
        BY <3>3, <4>1, <4>2 DEF After, Clears, Sets, Special
      <4>4. QED
        BY <2>2, <4>1, <4>3
    <3>4. QED
      BY <1>5, <3>1, <3>2, <3>3
  <2>4. /\ special'[c] \subseteq sp /\ "multi" \notin special'[c]
        /\ "watch" \in special'[c] =>
             "subscribe" \in state[c] /\ Member("error", stream'[c])
    BY <2>2, <2>3
  <2>5. /\ pending'[c] <= Len(stream'[c])
        /\ pending[c] = Len(stream[c]) => pending'[c] = Len(stream'[c])
        /\ ~Member("echo", stream'[c])
    BY <2>1, <2>2 DEF Used
  <2> HIDE DEF sp
  <2>6. Stands(p, c)'
    BY <1>3, <1>a, <2>2, <2>4, <2>5
  <2>7. QED
    BY <2>2, <2>6
<1>6. CASE c \in err /\ (Sent(c, "exec") \/ Sent(c, "unwatch"))
  <2>1. PICK cmd \in {"exec", "unwatch"} : Sent(c, cmd)
    BY <1>6
  <2>2. cmd # "echo"
    BY <2>1
  <2> HIDE DEF st
  <2>3. /\ \A d \in Conns : d # c => Alike(d)
        /\ exists' = exists /\ (c \in err' <=> c \in err)
    BY <1>1, <2>1, <2>2, SentValues
  <2>4. Stands(p, c)'
    BY <1>6, <2>3 DEF Stands
  <2>5. QED
    BY <2>3, <2>4
<1>7. CASE /\ "multi" \notin state[c] /\ "watch" \notin state[c]
           /\ UNCHANGED <<exists, broken, err, pending, stream, special,
                          breaks>>
  <2>1. \A d \in Conns : d # c => Alike(d)
    BY <1>1, <1>7, Typed DEF Alike, ConnType
  <2>2. CASE c \in err
    BY <1>7, <2>1, <2>2 DEF Stands
  <2>3. CASE c \notin err
    <3>1. Used(c)
      BY <1>4, <2>3
    <3>2. Stands(p, c)'
      BY <1>3, <1>7, <1>a, <3>1 DEF Used, Marks
    <3>3. QED
      BY <1>7, <2>1, <3>2
  <2>4. QED
    BY <2>2, <2>3
<1>8. QED
  BY <1>2, <1>5, <1>6, <1>7

LEMMA Triple ==
  ASSUME NEW a \in Item, NEW b \in Item, NEW e \in Item
  PROVE  LET t == <<a, b, e>>
         IN  t \in Seq(Item) /\ Len(t) = 3 /\ t[1] = a /\ t[2] = b
OBVIOUS

LEMMA Joined ==
  ASSUME NEW s \in Seq(Item), NEW t \in Seq(Item), Len(t) = 3,
         t[1] # "echo", t[2] # "echo", ~Member("echo", s)
  PROVE  LET j == s \o t
         IN  /\ j \in Seq(Item) /\ Len(s) \in Nat /\ Len(j) = Len(s) + 3
             /\ \A i \in 1 .. Len(s) : j[i] = s[i] /\ i \in 1 .. Len(j)
             /\ \A i \in 1 .. Len(j) : j[i] = "echo" => i = Len(j)
<1> DEFINE j == s \o t
<1>1. /\ j \in Seq(Item) /\ Len(j) = Len(s) + Len(t)
      /\ \A i \in 1 .. Len(s) + Len(t) :
           j[i] = IF i <= Len(s) THEN s[i] ELSE t[i - Len(s)]
  BY ConcatProperties
<1> HIDE DEF j
<1>2. Len(s) \in Nat /\ Len(j) = Len(s) + 3
  BY <1>1
<1>3. \A i \in 1 .. Len(s) : j[i] = s[i] /\ i \in 1 .. Len(j)
  BY <1>1, <1>2
<1>4. ASSUME NEW i \in 1 .. Len(j), j[i] = "echo" PROVE i = Len(j)
  <2>1. CASE i <= Len(s)
    BY <1>1, <1>2, <1>4, <2>1 DEF Member
  <2>2. CASE i = Len(s) + 1 \/ i = Len(s) + 2
    BY <1>1, <1>2, <1>4, <2>2
  <2>3. QED
    BY <1>2, <2>1, <2>2
<1>5. QED
  BY <1>1, <1>2, <1>3, <1>4 DEF j

\* The replies to UNSUBSCRIBE, PUNSUBSCRIBE and ECHO.
Goodbye(sp, left) ==
  <<Reply(sp, "unsubscribe"), Reply(left, "unsubscribe"), Reply(left, "echo")>>

\* The sentinel's echo is the last of the replies to UNSUBSCRIBE, and the
\* server has no subscription any more.
LEMMA UnsubscribeStands ==
  ASSUME Inv, NEW c \in Conns, Stands("unsub", c), NEW left, NEW three,
         left = After(special[c], "unsubscribe"),
         three = Goodbye(special[c], left),
         \/ Fatal(c, pending[c] + 3)
         \/ /\ pending' = [pending EXCEPT ![c] = @ + 3]
            /\ stream' = [stream EXCEPT ![c] = @ \o three]
            /\ special' = [special EXCEPT ![c] = left]
            /\ UNCHANGED <<exists, broken, err, breaks>>,
         UNCHANGED <<state, refused>>
  PROVE  /\ Stands("drain", c)' /\ exists' = exists
         /\ \A d \in Conns : d # c => Alike(d)
<1> DEFINE st == state[c]
           n == pending[c] + 3
           s == stream[c] \o three
           old == stream[c]
<1>1. state' = [state EXCEPT ![c] = st] /\ "drain" # "test"
  BY Typed DEF ConnType
<1>2. CASE Fatal(c, n)
  <2>1. exists' = exists
    BY <1>2 DEF Fatal
  <2> HIDE DEF st, n
  <2>2. QED
    BY <1>1, <1>2, <2>1, FatalStands
<1>3. CASE /\ pending' = [pending EXCEPT ![c] = @ + 3]
           /\ stream' = [stream EXCEPT ![c] = @ \o three]
           /\ special' = [special EXCEPT ![c] = left]
           /\ UNCHANGED <<exists, broken, err, breaks>>
  <2>1. /\ pending' = [pending EXCEPT ![c] = n]
        /\ stream' = [stream EXCEPT ![c] = s]
        /\ special' = [special EXCEPT ![c] = left]
        /\ exists' = exists /\ err' = err
        /\ \A d \in Conns : d # c => (d \in err' <=> d \in err)
                                     /\ (d \in refused' <=> d \in refused)
    BY <1>3, Typed DEF ConnType
  <2> HIDE DEF st, n, s
  <2>2. /\ pending'[c] = n /\ stream'[c] = s /\ special'[c] = left
        /\ state'[c] = st
        /\ \A d \in Conns : d # c => Alike(d)
    <3>1. /\ pending'[c] = n /\ stream'[c] = s /\ special'[c] = left
          /\ state'[c] = st
      BY <1>1, <2>1, Typed DEF ConnType
    <3>2. ASSUME NEW d \in Conns, d # c PROVE Alike(d)
      BY <2>1, <3>2, Typed DEF ConnType, Alike
    <3>3. QED
      BY <3>1, <3>2
  <2>3. CASE c \in err
    BY <2>1, <2>2, <2>3 DEF Stands
  <2>4. CASE c \notin err
    <3>1. Subscribed(c)
      BY <2>4 DEF Stands
    <3>2. "multi" \notin special[c]
      BY <3>1 DEF Subscribed, Undone
    <3>3. ~Refuses(special[c], "unsubscribe")
      BY DEF Refuses
    <3>4. left = special[c] \ {"subscribe"}
      BY <3>2, <3>3 DEF After
    <3>5. ~Refuses(left, "unsubscribe") /\ ~Refuses(left, "echo")
      BY <3>4 DEF Refuses
    <3>6. /\ Reply(special[c], "unsubscribe") = "reply"
          /\ Reply(left, "unsubscribe") = "reply" /\ Reply(left, "echo") = "echo"
      BY <3>2, <3>3, <3>4, <3>5 DEF Reply
    <3>7. /\ three \in Seq(Item) /\ Len(three) = 3 /\ three[1] # "echo"
          /\ three[2] # "echo" /\ old \in Seq(Item) /\ pending[c] \in Nat
      <4>1. /\ Reply(special[c], "unsubscribe") \in Item
            /\ Reply(left, "unsubscribe") \in Item
            /\ Reply(left, "echo") \in Item
        BY <3>6 DEF Item
      <4>2. /\ three \in Seq(Item) /\ Len(three) = 3
            /\ three[1] = Reply(special[c], "unsubscribe")
            /\ three[2] = Reply(left, "unsubscribe")
        BY <4>1, Triple DEF Goodbye
      <4>3. QED
        BY <3>6, <4>2, PendingNat
    <3> HIDE DEF old
    <3>8. ~Member("echo", old)
      BY <3>1 DEF Subscribed, old
    <3>9. /\ Len(s) = Len(old) + 3 /\ Len(old) \in Nat
          /\ \A i \in 1 .. Len(old) : s[i] = old[i] /\ i \in 1 .. Len(s)
          /\ \A i \in 1 .. Len(s) : s[i] = "echo" => i = Len(s)
      BY <3>7, <3>8, Joined DEF s, old
    <3>10. ASSUME "watch" \in left
           PROVE  c \in refused \/ \E i \in 1 .. Len(s) : ErrorFirst(s, i)
      <4>1. "watch" \in special[c]
        BY <3>4, <3>10
      <4>2. CASE c \notin refused
        <5>1. PICK i \in 1 .. Len(old) : old[i] = "error"
          BY <3>1, <4>1, <4>2 DEF Subscribed, Member, old
        <5>2. \A k \in 1 .. i : k \in 1 .. Len(old)
          BY <3>9, <5>1
        <5>3. ErrorFirst(s, i) /\ i \in 1 .. Len(s)
          BY <3>9, <3>8, <5>1, <5>2 DEF ErrorFirst, Member
        <5>4. QED
          BY <5>3
      <4>3. QED
        BY <4>2
    <3>11. Undone(c)'
      <4>1. Undone(c)
        BY <3>1 DEF Subscribed
      <4>2. /\ Known(c)' /\ "multi" \notin special'[c]
            /\ "multi" \notin state'[c] /\ "watch" \notin state'[c]
        BY <2>2, <3>4, <4>1 DEF Undone, Known, st
      <4>3. pending'[c] <= Len(stream'[c])
        BY <2>2, <3>7, <3>9, <4>1 DEF Undone, n, old
      <4>4. QED
        BY <4>2, <4>3 DEF Undone
    <3>12. "subscribe" \in state'[c] /\ "subscribe" \notin special'[c]
      BY <2>2, <3>1, <3>4 DEF Subscribed, st
    <3>13. Drained(c)'
      BY <1>3, <2>2, <3>9, <3>10, <3>11, <3>12 DEF Drained
    <3>14. QED
      BY <2>1, <2>2, <3>13 DEF Stands
  <2>5. QED
    BY <2>3, <2>4
<1>4. QED
  BY <1>2, <1>3

\* One reply less; the sentinel ends the draining, as an error does.
LEMMA DrainStands ==
  ASSUME Inv, NEW c \in Conns, Stands("drain", c), refused' = refused,
         NEW p \in {"flush", "drain"},
         \/ Fatal(c, pending[c]) /\ state' = state /\ p = "flush"
         \/ /\ Received(c)
            /\ p = "flush" <=> Head(stream[c]) \in {"echo", "error"}
            /\ state' = IF Head(stream[c]) = "echo"
                          THEN [state EXCEPT ![c] = @ \ {"subscribe"}]
                          ELSE state
  PROVE  /\ Stands(p, c)' /\ exists' = exists
         /\ \A d \in Conns : d # c => Alike(d)
<1> DEFINE old == stream[c]
           t == Tail(old)
<1>1. CASE Fatal(c, pending[c]) /\ state' = state
  <2> DEFINE n == pending[c]
             st == state[c]
  <2>1. /\ exists' = exists /\ p # "test"
        /\ Fatal(c, n) /\ state' = [state EXCEPT ![c] = st]
    BY <1>1, Typed DEF Fatal, ConnType
  <2> HIDE DEF st, n
  <2>2. QED
    BY <2>1, FatalStands
<1>2. CASE /\ Received(c)
           /\ p = "flush" <=> Head(stream[c]) \in {"echo", "error"}
           /\ state' = IF Head(stream[c]) = "echo"
                         THEN [state EXCEPT ![c] = @ \ {"subscribe"}]
                         ELSE state
  <2> DEFINE k == OneLess(pending[c])
             st == IF old[1] = "echo" THEN state[c] \ {"subscribe"}
                                      ELSE state[c]
  <2>1. /\ pending[c] \in Nat /\ old \in Seq(Item) /\ old # << >>
    BY <1>2, PendingNat DEF Received
  <2>2. /\ t \in Seq(Item) /\ Len(t) = Len(old) - 1
        /\ Len(old) \in Nat \ {0} /\ Head(old) = old[1]
        /\ \A i \in 1 .. Len(t) : t[i] = old[i + 1]
    BY <2>1, DroppedFirst
  <2>3. /\ pending' = [pending EXCEPT ![c] = k]
        /\ stream' = [stream EXCEPT ![c] = t]
        /\ special' = [special EXCEPT ![c] = special[c]]
        /\ UNCHANGED <<exists, err>>
    BY <1>2, Typed DEF Received, ConnType
  <2>4. state' = [state EXCEPT ![c] = st]
    BY <1>2, <2>2, Typed DEF ConnType
  <2>5. k = IF pending[c] > 0 THEN pending[c] - 1 ELSE 0
    BY DEF OneLess
  <2> HIDE DEF t, k, st
  <2>6. /\ pending'[c] = k /\ stream'[c] = t /\ special'[c] = special[c]
        /\ state'[c] = st
        /\ \A d \in Conns : d # c => Alike(d)
    BY <2>3, <2>4, Elsewhere
  <2>7. CASE c \in err
    BY <2>3, <2>6, <2>7 DEF Stands
  <2>8. CASE c \notin err
    <3>1. Drained(c)
      BY <2>8 DEF Stands
    <3>2. Undone(c)'
      <4>1. /\ Known(c)' /\ "multi" \notin special'[c]
            /\ "multi" \notin state'[c] /\ "watch" \notin state'[c]
        BY <2>6, <3>1 DEF Drained, Undone, Known, st
      <4>2. pending'[c] <= Len(stream'[c])
        BY <2>1, <2>2, <2>5, <2>6, <3>1 DEF Drained, Undone
      <4>3. QED
        BY <4>1, <4>2 DEF Undone
    <3>3. CASE old[1] = "echo"
      <4>1. p = "flush" /\ st = state[c] \ {"subscribe"}
        BY <1>2, <2>2, <3>3 DEF st
      <4>2. 1 \in 1 .. Len(old)
        BY <2>2
      <4>3. "watch" \in special'[c] => c \in refused'
        <5>1. \A i \in 1 .. Len(old) : 1 \in 1 .. i
          OBVIOUS
        <5>2. QED
          BY <1>2, <2>6, <3>1, <3>3, <5>1 DEF Drained, ErrorFirst
      <4>4. ASSUME "monitor" \notin state'[c]
            PROVE  pending'[c] = Len(stream'[c])
        <5>1. "monitor" \notin state[c]
          BY <2>6, <4>1, <4>4
        <5>2. Len(old) = 1
          BY <3>1, <3>3, <4>2, <5>1 DEF Drained
        <5>3. QED
          BY <2>1, <2>2, <2>5, <2>6, <3>1, <5>2 DEF Drained, Undone
      <4>5. Flushed(c)'
        BY <3>2, <4>3, <4>4 DEF Flushed
      <4>6. QED
        BY <2>3, <2>6, <4>1, <4>5 DEF Stands
    <3>4. CASE old[1] = "error"
      <4>1. p = "flush" /\ st = state[c]
        BY <1>2, <2>2, <3>4 DEF st
      <4>2. Flushed(c)'
        BY <2>6, <3>1, <3>2, <4>1 DEF Drained, Flushed
      <4>3. QED
        BY <2>3, <2>6, <4>1, <4>2 DEF Stands
    <3>5. CASE old[1] \notin {"echo", "error"}
      <4>1. p = "drain" /\ st = state[c]
        BY <1>2, <2>2, <3>5 DEF st
      <4>2. \A i \in 1 .. Len(t) : i + 1 \in 1 .. Len(old)
        BY <2>2
      <4>3. ASSUME "monitor" \notin state[c]
            PROVE  \A i \in 1 .. Len(t) : t[i] = "echo" => i = Len(t)
        <5>1. \A i \in 1 .. Len(old) : old[i] = "echo" => i = Len(old)
          BY <3>1, <4>3 DEF Drained
        <5>2. QED
          BY <2>2, <4>2, <5>1
      <4>4. ASSUME "watch" \in special[c], c \notin refused
            PROVE  \E i \in 1 .. Len(t) : ErrorFirst(t, i)
        <5>1. PICK i \in 1 .. Len(old) : ErrorFirst(old, i)
          BY <3>1, <4>4 DEF Drained
        <5>2. i # 1
          BY <3>5, <5>1 DEF ErrorFirst
        <5>3. i - 1 \in 1 .. Len(t) /\ t[i - 1] = old[i]
          BY <2>2, <5>2
        <5>4. \A m \in 1 .. i - 1 : m + 1 \in 1 .. i /\ t[m] = old[m + 1]
          BY <2>2
        <5>5. ErrorFirst(t, i - 1)
          BY <5>1, <5>3, <5>4 DEF ErrorFirst
        <5>6. QED
          BY <5>3, <5>5
      <4>5. Drained(c)'
        BY <1>2, <2>6, <3>1, <3>2, <4>1, <4>3, <4>4 DEF Drained
      <4>6. QED
        BY <2>3, <2>6, <4>1, <4>5 DEF Stands
    <3>6. QED
      BY <3>3, <3>4, <3>5
  <2>9. QED
    BY <2>3, <2>6, <2>7, <2>8
<1>3. QED
  BY <1>1, <1>2

\* The replies that are pending are all there are.
LEMMA FlushStands ==
  ASSUME Inv, NEW c \in Conns, Stands("flush", c), UNCHANGED <<state, refused>>,
         \/ Fatal(c, 0)
         \/ /\ Len(stream[c]) >= pending[c]
            /\ pending' = [pending EXCEPT ![c] = 0]
            /\ stream' = [stream EXCEPT ![c] =
                            SubSeq(@, pending[c] + 1, Len(@))]
            /\ UNCHANGED <<exists, broken, err, special, breaks>>
         \/ /\ pending[c] = 0
            /\ UNCHANGED <<exists, broken, err, pending, stream, special,
                           breaks>>
  PROVE  /\ Stands("put", c)' /\ exists' = exists
         /\ \A d \in Conns : d # c => Alike(d)
<1> DEFINE st == state[c]
           old == stream[c]
           n == pending[c]
           t == SubSeq(old, n + 1, Len(old))
<1>1. state' = [state EXCEPT ![c] = st] /\ "put" # "test"
  BY Typed DEF ConnType
<1>2. CASE Fatal(c, 0)
  <2>1. exists' = exists
    BY <1>2 DEF Fatal
  <2> HIDE DEF st
  <2>2. QED
    BY <1>1, <1>2, <2>1, FatalStands
<1>3. n \in Nat /\ old \in Seq(Item) /\ special[c] \in SUBSET Special
      /\ Len(old) \in Nat
  BY PendingNat
\* What is left.
<1>4. ASSUME c \notin err, err' = err, state'[c] = st,
             special'[c] = special[c], pending'[c] = 0,
             stream'[c] \in Seq(Item), n = Len(old) => stream'[c] = << >>
      PROVE  Stands("put", c)'
  <2>1. Flushed(c)
    BY <1>4 DEF Stands
  <2>2. Undone(c)'
    BY <1>4, <2>1 DEF Flushed, Undone, Known
  <2>3. ASSUME state'[c] = {} PROVE Clean(c)'
    <3>1. "subscribe" \notin state[c] /\ "monitor" \notin state[c]
      BY <1>4, <2>3
    <3>2. stream'[c] = << >>
      BY <1>4, <2>1, <3>1 DEF Flushed
    <3>3. special'[c] \subseteq {"watch"}
      BY <1>3, <1>4, <2>1, <3>1 DEF Flushed, Undone, Known, Special
    <3>4. "watch" \in special'[c] => c \in refused'
      BY <1>4, <2>1, <3>1 DEF Flushed
    <3>5. QED
      BY <1>4, <2>3, <3>2, <3>3, <3>4 DEF Clean
  <2>4. QED
    BY <2>2, <2>3 DEF Stands, GivenBack
<1>5. CASE /\ Len(old) >= n
           /\ pending' = [pending EXCEPT ![c] = 0]
           /\ stream' = [stream EXCEPT ![c] =
                           SubSeq(@, pending[c] + 1, Len(@))]
           /\ UNCHANGED <<exists, broken, err, special, breaks>>
  <2>1. /\ pending' = [pending EXCEPT ![c] = 0]
        /\ stream' = [stream EXCEPT ![c] = t]
        /\ special' = [special EXCEPT ![c] = special[c]]
        /\ exists' = exists /\ err' = err
    BY <1>5, Typed DEF ConnType
  <2> HIDE DEF n, old
  <2>2. t \in Seq(Item) /\ (n = Len(old) => t = << >>)
    BY <1>3, <1>5, Dropped
  <2> HIDE DEF t, st
  <2>3. /\ pending'[c] = 0 /\ stream'[c] = t /\ special'[c] = special[c]
        /\ state'[c] = st
        /\ \A d \in Conns : d # c => Alike(d)
    BY <1>1, <2>1, Elsewhere
  <2>4. CASE c \in err
    BY <2>1, <2>3, <2>4 DEF Stands
  <2>5. CASE c \notin err
    BY <1>4, <2>1, <2>2, <2>3, <2>5
  <2>6. QED
    BY <2>4, <2>5
<1>6. CASE /\ pending[c] = 0
           /\ UNCHANGED <<exists, broken, err, pending, stream, special,
                          breaks>>
  <2>1. \A d \in Conns : Alike(d)
    BY <1>1, <1>6, AllAlike
  <2>2. CASE c \in err
    BY <1>6, <2>1, <2>2 DEF Stands
  <2>3. CASE c \notin err
    <3>1. n = Len(old) => stream'[c] = << >>
      BY <1>3, <1>6, EmptySeq
    <3>2. Stands("put", c)'
      BY <1>3, <1>4, <1>6, <2>3, <3>1
    <3>3. QED
      BY <1>6, <2>1, <3>2
  <2>4. QED
    BY <2>2, <2>3
<1>7. QED
  BY <1>2, <1>5, <1>6

LEMMA CleanUndo ==
  ASSUME Inv, Held, CleanInv, NEW u \in Users,
         Close(u) \/ Unsubscribe(u) \/ Drain(u) \/ Flush(u)
  PROVE  CleanInv'
<1>a. /\ "use" \in Owning /\ "unsub" \in Owning /\ "drain" \in Owning
      /\ "flush" \in Owning /\ "unsub" \in Place /\ "drain" \in Place
      /\ "flush" \in Place /\ "put" \in Place
  BY DEF Place, Holding, Owning
<1>b. at[u] \in Owning
  BY <1>a DEF Close, Unsubscribe, Drain, Flush
<1>1. PICK c \in Conns : has[u] = c /\ c \in exists /\ Stands(at[u], c)
  BY <1>b, InHand
<1>2. CASE Close(u)
  <2> DEFINE p == IF "subscribe" \in state[c] THEN "unsub" ELSE "flush"
  <2>1. /\ at[u] = "use" /\ Goes(u, p) /\ UNCHANGED <<has, idle, refused>>
        /\ state' = [state EXCEPT ![c] = @ \ {"multi", "watch"}]
    BY <1>1, <1>2 DEF Close, poolVars
  <2>2. \/ /\ "multi" \in state[c]
           /\ Fatal(c, pending[c] + 1) \/ Sent(c, "exec")
        \/ /\ "multi" \notin state[c]
           /\ state[c] \cap {"multi", "watch"} = {"watch"}
           /\ Fatal(c, pending[c] + 1) \/ Sent(c, "unwatch")
        \/ /\ "multi" \notin state[c]
           /\ state[c] \cap {"multi", "watch"} # {"watch"}
           /\ UNCHANGED <<exists, broken, err, pending, stream, special,
                          breaks>>
    <3>1. CASE "multi" \in state[c]
      <4>1. Fatal(c, pending[c] + 1) \/ Sent(c, "exec")
        BY <1>1, <1>2, <3>1 DEF Close
      <4>2. QED
        BY <3>1, <4>1
    <3>2. CASE /\ "multi" \notin state[c]
               /\ state[c] \cap {"multi", "watch"} = {"watch"}
      <4>1. Fatal(c, pending[c] + 1) \/ Sent(c, "unwatch")
        BY <1>1, <1>2, <3>2 DEF Close
      <4>2. QED
        BY <3>2, <4>1, Zenon
    <3>3. CASE /\ "multi" \notin state[c]
               /\ state[c] \cap {"multi", "watch"} # {"watch"}
      <4>1. UNCHANGED <<exists, broken, err, pending, stream, special, breaks>>
        BY <1>1, <1>2, <3>3 DEF Close
      <4>2. QED
        BY <3>3, <4>1, Zenon
    <3>4. QED
      BY <3>1, <3>2, <3>3
  <2>3. "multi" \notin state[c] =>
          (state[c] \cap {"multi", "watch"} = {"watch"}
             <=> "watch" \in state[c])
    OBVIOUS
  <2>4. \/ /\ "multi" \in state[c]
           /\ Fatal(c, pending[c] + 1) \/ Sent(c, "exec")
        \/ /\ "multi" \notin state[c] /\ "watch" \in state[c]
           /\ Fatal(c, pending[c] + 1) \/ Sent(c, "unwatch")
        \/ /\ "multi" \notin state[c] /\ "watch" \notin state[c]
           /\ UNCHANGED <<exists, broken, err, pending, stream, special,
                          breaks>>
    BY <2>2, <2>3, Zenon
  <2>5. \/ /\ Goes(u, "unsub") /\ "subscribe" \in state[c]
        \/ /\ Goes(u, "flush") /\ "subscribe" \notin state[c]
    BY <2>1
  <2>6. PICK q \in {"unsub", "flush"} :
          Goes(u, q) /\ (q = "unsub" <=> "subscribe" \in state[c])
    BY <2>5
  <2> HIDE DEF p
  <2>7. /\ Stands(q, c)' /\ exists' = exists
        /\ \A d \in Conns : d # c => Alike(d)
    BY <1>1, <2>1, <2>4, <2>6, CloseStands
  <2>8. QED
    BY <1>1, <1>a, <2>1, <2>6, <2>7, WorksGoing
<1>3. CASE Unsubscribe(u)
  <2>1. PICK left : left = After(special[c], "unsubscribe")
    OBVIOUS
  <2>2. PICK three : three = Goodbye(special[c], left)
    OBVIOUS
  <2>3. /\ at[u] = "unsub" /\ Goes(u, "drain")
        /\ UNCHANGED <<has, idle, state, refused>>
        /\ \/ Fatal(c, pending[c] + 3)
           \/ /\ pending' = [pending EXCEPT ![c] = @ + 3]
              /\ stream' = [stream EXCEPT ![c] = @ \o three]
              /\ special' = [special EXCEPT ![c] = left]
              /\ UNCHANGED <<exists, broken, err, breaks>>
    BY <1>1, <1>3, <2>1, <2>2 DEF Unsubscribe, Goodbye, poolVars
  <2>4. /\ Stands("drain", c)' /\ exists' = exists
        /\ \A d \in Conns : d # c => Alike(d)
    BY <1>1, <2>1, <2>2, <2>3, UnsubscribeStands
  <2>5. QED
    BY <1>1, <1>a, <2>3, <2>4, WorksGoing
<1>4. CASE Drain(u)
  <2>1. /\ at[u] = "drain" /\ UNCHANGED <<has, idle, refused>>
        /\ \/ Fatal(c, pending[c]) /\ Goes(u, "flush") /\ UNCHANGED state
           \/ /\ Received(c)
              /\ Goes(u, IF Head(stream[c]) \in {"echo", "error"}
                           THEN "flush" ELSE "drain")
              /\ state' = IF Head(stream[c]) = "echo"
                            THEN [state EXCEPT ![c] = @ \ {"subscribe"}]
                            ELSE state
    BY <1>1, <1>4 DEF Drain, EndsDrain, poolVars
  <2>2. PICK p \in {"flush", "drain"} :
          /\ Goes(u, p)
          /\ \/ Fatal(c, pending[c]) /\ state' = state /\ p = "flush"
             \/ /\ Received(c)
                /\ p = "flush" <=> Head(stream[c]) \in {"echo", "error"}
                /\ state' = IF Head(stream[c]) = "echo"
                              THEN [state EXCEPT ![c] = @ \ {"subscribe"}]
                              ELSE state
    <3>1. CASE Fatal(c, pending[c]) /\ Goes(u, "flush") /\ UNCHANGED state
      BY <3>1
    <3>2. CASE /\ Received(c)
               /\ Goes(u, IF Head(stream[c]) \in {"echo", "error"}
                            THEN "flush" ELSE "drain")
               /\ state' = IF Head(stream[c]) = "echo"
                             THEN [state EXCEPT ![c] = @ \ {"subscribe"}]
                             ELSE state
      <4>1. CASE Head(stream[c]) \in {"echo", "error"}
        <5>1. Goes(u, "flush")
          BY <3>2, <4>1
        <5>2. QED
          BY <3>2, <4>1, <5>1
      <4>2. CASE Head(stream[c]) \notin {"echo", "error"}
        <5>1. Goes(u, "drain")
          BY <3>2, <4>2
        <5>2. QED
          BY <3>2, <4>2, <5>1
      <4>3. QED
        BY <4>1, <4>2
    <3>3. QED
      BY <2>1, <3>1, <3>2
  <2>3. /\ Stands(p, c)' /\ exists' = exists
        /\ \A d \in Conns : d # c => Alike(d)
    BY <1>1, <2>1, <2>2, DrainStands
  <2>4. QED
    BY <1>1, <1>a, <2>1, <2>2, <2>3, WorksGoing
<1>5. CASE Flush(u)
  <2>1. /\ at[u] = "flush" /\ Goes(u, "put")
        /\ UNCHANGED <<has, idle, state, refused>>
        /\ \/ Fatal(c, 0)
           \/ /\ Len(stream[c]) >= pending[c]
              /\ pending' = [pending EXCEPT ![c] = 0]
              /\ stream' = [stream EXCEPT ![c] =
                              SubSeq(@, pending[c] + 1, Len(@))]
              /\ UNCHANGED <<exists, broken, err, special, breaks>>
           \/ /\ pending[c] = 0
              /\ UNCHANGED <<exists, broken, err, pending, stream, special,
                             breaks>>
    BY <1>1, <1>5 DEF Flush, poolVars
  <2>2. /\ Stands("put", c)' /\ exists' = exists
        /\ \A d \in Conns : d # c => Alike(d)
    BY <1>1, <2>1, FlushStands
  <2>3. QED
    BY <1>1, <1>a, <2>1, <2>2, WorksGoing
<1>6. QED
  BY <1>2, <1>3, <1>4, <1>5

LEMMA CleanPut ==
  ASSUME Inv, Held, CleanInv, NEW u \in Users,
         Put(u) \/ PutTooMany(u) \/ PutForced(u) \/ ConnClose(u)
  PROVE  CleanInv'
<1> USE Typed
<1>a. /\ "put" \in Owning /\ "close" \in Owning /\ "close" \in Place
      /\ "out" \in Place /\ "close" \notin Bound /\ "out" \notin Bound
  BY DEF Place, Holding, Owning, Bound
<1>b. at[u] \in Owning /\ at[u] # "waiting"
  BY <1>a DEF Put, PutTooMany, PutForced, ConnClose, Owning
<1>1. PICK c \in Conns : has[u] = c /\ c \in exists /\ Stands(at[u], c)
  BY <1>b, InHand
<1>2. CASE Put(u) \/ PutTooMany(u)
  <2>1. Clean(c) /\ ~Member(c, idle)
    <3>1. at[u] = "put" /\ c \notin err /\ state[c] = {}
      BY <1>1, <1>2 DEF Put, PutTooMany, KeepsConn
    <3>2. QED
      BY <1>1, <3>1 DEF Stands, GivenBack, Held
  <2> DEFINE all == <<c>> \o idle
  <2>2. /\ all \in Seq(Conns) /\ all # << >>
        /\ \A d : Member(d, all) <=> d = c \/ Member(d, idle)
        /\ Distinct(all)
    <3>1. all \in Seq(Conns) /\ Len(all) = Len(idle) + 1 /\ Len(idle) \in Nat
      BY PushedFront
    <3>2. all # << >>
      BY <3>1
    <3>3. QED
      BY <2>1, <3>1, <3>2, FrontMembers DEF Held
  <2>3. \A d \in Conns : Member(d, all) => Clean(d)
    BY <2>1, <2>2 DEF CleanInv
  <2>4. CASE Put(u)
    <3>1. /\ idle' = all /\ has' = [has EXCEPT ![u] = NoConn]
          /\ UNCHANGED connVars /\ GoesAndSignals(u, "out")
      BY <1>1, <2>4 DEF Put
    <3> HIDE DEF all
    <3>2. Moves(u, "out")
      BY <1>a, <1>b, <3>1, SignalMoves
    <3>3. \A d \in Conns : Member(d, idle)' => Clean(d)
      BY <2>3, <3>1 DEF Member
    <3>4. \A v \in Users \ {u} : has'[v] = has[v]
      BY <3>1
    <3>5. QED
      BY <1>a, <3>1, <3>2, <3>3, <3>4, Moved
  <2>5. CASE PutTooMany(u)
    <3> DEFINE t == SubSeq(all, 1, Len(all) - 1)
    <3>1. /\ idle' = t /\ has' = [has EXCEPT ![u] = all[Len(all)]]
          /\ UNCHANGED connVars /\ GoesAndSignals(u, "close")
      BY <1>1, <2>5 DEF PutTooMany
    <3> HIDE DEF all
    <3>2. \A d : Member(d, t) => Member(d, all)
      BY <2>2, LastMembers
    <3> HIDE DEF t
    <3>3. Moves(u, "close")
      BY <1>a, <1>b, <3>1, SignalMoves
    <3>4. \A d \in Conns : Member(d, idle)' => Clean(d)
      BY <2>3, <3>1, <3>2 DEF Member
    <3>5. \A v \in Users \ {u} : has'[v] = has[v]
      BY <3>1
    <3>6. QED
      BY <1>a, <3>1, <3>3, <3>4, <3>5, Moved
  <2>6. QED
    BY <1>2, <2>4, <2>5
<1>3. CASE PutForced(u)
  <2>1. /\ GoesAndSignals(u, "close") /\ UNCHANGED <<idle, has, connVars>>
    BY <1>3 DEF PutForced
  <2>2. Moves(u, "close")
    BY <1>a, <1>b, <2>1, SignalMoves
  <2>3. QED
    BY <1>a, <2>1, <2>2, CleanMoves
<1>4. CASE ConnClose(u)
  <2>1. /\ Closed(c) /\ has' = [has EXCEPT ![u] = NoConn] /\ Goes(u, "out")
        /\ idle' = idle
    BY <1>1, <1>4 DEF ConnClose, poolVars
  <2>2. /\ Moves(u, "out") /\ has'[u] = NoConn
        /\ \A v \in Users \ {u} : has'[v] = has[v]
        /\ \A d \in Conns : Member(d, idle)' => Member(d, idle)
    BY <1>a, <2>1, GoesMoves DEF Member
  <2>3. QED
    BY <1>1, <1>a, <2>1, <2>2, CleanCloses
<1>5. QED
  BY <1>2, <1>3, <1>4

\* A message comes to a subscriber, or to a connection that monitors.
LEMMA PushStands ==
  ASSUME Inv, NEW c \in Conns, Push(c), NEW p, Stands(p, c)
  PROVE  Stands(p, c)' /\ ~Clean(c) /\ \A d \in Conns : d # c => Alike(d)
<1> DEFINE s == Append(stream[c], "push")
           st == state[c]
           sp == special[c]
           n == pending[c]
           old == stream[c]
<1>1. stream[c] \in Seq(Item) /\ "push" \in Item /\ pending[c] \in Nat
  BY PendingNat DEF Item
<1>2. /\ Len(s) = Len(old) + 1 /\ Len(old) \in Nat
      /\ \A i \in 1 .. Len(old) : s[i] = old[i] /\ i \in 1 .. Len(s)
      /\ \A y : Member(y, s) <=> Member(y, old) \/ y = "push"
  <2>1. /\ Len(s) = Len(old) + 1 /\ Len(old) \in Nat
        /\ \A i \in 1 .. Len(old) : s[i] = old[i]
        /\ \A y : Member(y, s) <=> Member(y, old) \/ y = "push"
    BY <1>1, Appended, Zenon
  <2>2. QED
    BY <2>1
<1> HIDE DEF s
<1>3. /\ stream' = [stream EXCEPT ![c] = s]
      /\ UNCHANGED <<exists, err, pending, state, special, refused>>
  BY DEF Push, s
<1>4. stream'[c] = s /\ \A d \in Conns : d # c => Alike(d)
  <2>1. /\ stream'[c] = s
        /\ \A d \in Conns : d # c => stream'[d] = stream[d]
    BY <1>3, Typed DEF ConnType
  <2>2. QED
    BY <1>3, <2>1 DEF Alike
<1>5. "subscribe" \in sp \/ "monitor" \in sp
  BY DEF Push
<1>6. ~Clean(c)
  BY <1>5 DEF Clean
<1>7. CASE c \in err
  BY <1>3, <1>4, <1>6, <1>7 DEF Stands
<1>8. CASE c \notin err
  <2>1. Undone(c) => Undone(c)'
    BY <1>1, <1>2, <1>3, <1>4 DEF Undone, Known
  <2>2. Used(c) => Used(c)'
    BY <1>1, <1>2, <1>3, <1>4, <1>5 DEF Used, Marks, Known
  <2>3. Subscribed(c) => Subscribed(c)'
    BY <1>2, <1>3, <1>4, <2>1 DEF Subscribed
  <2>4. ASSUME Drained(c) PROVE Drained(c)'
    <3>1. "monitor" \in st
      BY <1>5, <2>4 DEF Drained, Undone, Known
    <3>2. ASSUME NEW i \in 1 .. Len(old), ErrorFirst(old, i)
          PROVE  i \in 1 .. Len(s) /\ ErrorFirst(s, i)
      <4>1. \A k \in 1 .. i : k \in 1 .. Len(old)
        BY <1>2
      <4>2. QED
        BY <1>2, <3>2, <4>1 DEF ErrorFirst
    <3>3. QED
      BY <1>3, <1>4, <2>1, <2>4, <3>1, <3>2 DEF Drained
  <2>5. Flushed(c) => Flushed(c)'
    BY <1>3, <1>4, <1>5, <2>1 DEF Flushed, Undone, Known
  <2>6. GivenBack(c) => GivenBack(c)'
    BY <1>3, <1>5, <1>6, <2>1 DEF GivenBack
  <2>7. QED
    BY <1>3, <1>4, <1>6, <1>8, <2>2, <2>3, <2>4, <2>5, <2>6 DEF Stands
<1>9. QED
  BY <1>4, <1>6, <1>7, <1>8

LEMMA CleanNetwork ==
  ASSUME Inv, Held, CleanInv, NEW c \in Conns, Push(c) \/ Break(c)
  PROVE  CleanInv'
<1>1. CASE Break(c)
  <2>1. \A d \in Conns : Alike(d)
    BY <1>1, AllAlike DEF Break
  <2>2. UNCHANGED <<at, has, idle>>
    BY <1>1 DEF Break, poolVars, userVars
  <2>3. /\ \A d \in Conns : d \notin exists' => New(d)'
        /\ \A d \in Conns : Member(d, idle)' => Clean(d)'
    BY <2>1, <2>2, AlikeStands DEF CleanInv, Alike, Member
  <2>4. \A v \in Users, d \in Conns, p \in Place :
          at'[v] = p /\ has'[v] = d => Stands(p, d)'
    BY <2>1, <2>2, AlikeStands DEF CleanInv
  <2>5. QED
    BY <2>3, <2>4 DEF CleanInv
<1>2. CASE Push(c)
  <2>1. /\ c \in exists /\ UNCHANGED <<at, has, idle, exists>>
    BY <1>2 DEF Push, poolVars, userVars
  <2>2. ~Clean(c) /\ \A d \in Conns : d # c => Alike(d)
    <3>1. Stands("out", c)
      BY DEF Stands
    <3>2. QED
      BY <1>2, <3>1, PushStands
  <2>3. \A d \in Conns : Member(d, idle)' => Member(d, idle) /\ d # c
    BY <2>1, <2>2 DEF CleanInv, Member
  <2>4. ASSUME NEW v \in Users, NEW d \in Conns, NEW p \in Place,
               at'[v] = p, has'[v] = d
        PROVE  \/ at[v] = p /\ has[v] = d /\ d # c
               \/ Stands(p, d)'
    <3>1. CASE d = c
      <4>1. Stands(p, c)
        BY <2>1, <2>4, <3>1 DEF CleanInv
      <4>2. QED
        BY <1>2, <3>1, <4>1, PushStands
    <3>2. QED
      BY <2>1, <2>4, <3>1
  <2>5. c \in exists'
    BY <2>1
  <2> DEFINE T == {c}
  <2>6. \A d : d \notin T <=> d # c
    OBVIOUS
  <2> HIDE DEF T
  <2>7. QED
    BY <2>2, <2>3, <2>4, <2>5, <2>6, CleanKept
<1>3. QED
  BY <1>1, <1>2

LEMMA CleanPoolClose ==
  ASSUME Inv, Held, CleanInv, PoolClose \/ \E c \in Conns : PoolCloses(c)
  PROVE  CleanInv'
<1> USE Typed
<1>1. CASE PoolClose
  <2>1. /\ idle' = << >> /\ has' = has /\ UNCHANGED connVars
        /\ at' = [u \in Users |-> IF at[u] = "waiting" THEN "woken" ELSE at[u]]
    BY <1>1 DEF PoolClose
  <2>2. \A d \in Conns : Alike(d)
    BY <2>1, AllAlike DEF connVars
  <2>3. \A d \in Conns : d \notin exists' => New(d)'
    BY <2>2, AlikeStands DEF CleanInv, Alike
  <2>4. \A d \in Conns : ~Member(d, idle)'
    BY <2>1, NoMembers DEF Member
  <2>5. ASSUME NEW v \in Users, NEW d \in Conns, NEW p \in Place,
               at'[v] = p, has'[v] = d
        PROVE  Stands(p, d)'
    <3>1. CASE at[v] = "waiting"
      <4>1. p \notin Bound
        BY <2>1, <2>5, <3>1 DEF Bound
      <4>2. QED
        BY <4>1 DEF Stands, Bound
    <3>2. CASE at[v] # "waiting"
      <4>1. at[v] = p /\ has[v] = d
        BY <2>1, <2>5, <3>2
      <4>2. QED
        BY <2>2, <4>1, AlikeStands DEF CleanInv
    <3>3. QED
      BY <3>1, <3>2
  <2>6. QED
    BY <2>3, <2>4, <2>5 DEF CleanInv
<1>2. ASSUME NEW c \in Conns, PoolCloses(c)
      PROVE  CleanInv'
  <2>1. /\ c \in closing /\ Closed(c) /\ UNCHANGED <<at, has, idle>>
    BY <1>2 DEF PoolCloses, poolVars
  <2>2. /\ ~Member(c, idle) /\ \A v \in Users : has[v] # c
    <3>1. closed /\ idle = << >>
      BY <2>1 DEF Held, Inv
    <3>2. QED
      BY <2>1, <3>1, NoMembers DEF Held
  <2>3. New(c)' /\ \A d \in Conns : d # c => Alike(d)
    BY <2>1, ClosedIsNew
  <2>4. \A d \in Conns : Member(d, idle)' => Member(d, idle) /\ d # c
    BY <2>1, <2>2 DEF Member
  <2>5. \A v \in Users, d \in Conns, p \in Place :
          at'[v] = p /\ has'[v] = d => at[v] = p /\ has[v] = d /\ d # c
    BY <2>1, <2>2
  <2> DEFINE T == {c}
  <2>6. \A d : d \notin T <=> d # c
    OBVIOUS
  <2> HIDE DEF T
  <2>7. QED
    BY <2>3, <2>4, <2>5, <2>6, CleanKept
<1>3. QED
  BY <1>1, <1>2

LEMMA CleanNext ==
  ASSUME Inv, Held, CleanInv, [Next]_vars
  PROVE  CleanInv'
<1>1. CASE UNCHANGED vars
  <2>1. \A d \in Conns : Alike(d)
    BY <1>1, AllAlike DEF vars, connVars
  <2>2. UNCHANGED <<at, has, idle>>
    BY <1>1 DEF vars, poolVars, userVars
  <2>3. /\ \A d \in Conns : d \notin exists' => New(d)'
        /\ \A d \in Conns : Member(d, idle)' => Clean(d)'
    BY <2>1, <2>2, AlikeStands DEF CleanInv, Alike, Member
  <2>4. \A v \in Users, d \in Conns, p \in Place :
          at'[v] = p /\ has'[v] = d => Stands(p, d)'
    BY <2>1, <2>2, AlikeStands DEF CleanInv
  <2>5. QED
    BY <2>3, <2>4 DEF CleanInv
<1>2. CASE \E u \in Users : GetStep(u) \/ CloseStep(u) \/ Use(u)
  BY <1>2, CleanGetStep, CleanUse, CleanUndo, CleanPut DEF CloseStep
<1>3. QED
  BY <1>1, <1>2, CleanNetwork, CleanPoolClose DEF Next

\* An idle connection has no reply left on it, and no transaction, watch or
\* subscription: but for the watch that an UNWATCH, refused while the
\* connection was subscribed, has left there.
THEOREM IdleAlwaysClean == Spec => []IdleIsClean
<1>1. Init => CleanInv
  <2>1. SUFFICES ASSUME Init PROVE CleanInv
    OBVIOUS
  <2>2. \A c \in Conns : New(c)
    BY <2>1 DEF Init, New, Clean
  <2>3. \A c : ~Member(c, idle)
    BY <2>1, NoMembers DEF Init
  <2>4. \A u \in Users, c \in Conns : has[u] # c
    BY <2>1, PoolAssumption DEF Init
  <2>5. QED
    BY <2>2, <2>3, <2>4 DEF CleanInv
<1>2. Inv /\ Held /\ CleanInv /\ [Next]_vars => CleanInv'
  BY CleanNext
<1>3. ASSUME Inv, CleanInv
      PROVE  IdleIsClean
  <2>1. SUFFICES ASSUME NEW i \in 1 .. Len(idle)
                 PROVE  /\ pending[idle[i]] = 0 /\ stream[idle[i]] = << >>
                        /\ state[idle[i]] = {}
                        /\ \/ special[idle[i]] = {}
                           \/ /\ special[idle[i]] = {"watch"}
                              /\ idle[i] \in refused
    BY DEF IdleIsClean
  <2>2. idle[i] \in Conns /\ Member(idle[i], idle)
    BY <1>3, Typed DEF Member
  <2>3. Clean(idle[i])
    BY <1>3, <2>2 DEF CleanInv
  <2>4. special[idle[i]] \subseteq {"watch"}
    BY <2>3 DEF Clean
  <2>5. special[idle[i]] = {} \/ special[idle[i]] = {"watch"}
    BY <2>4
  <2>6. QED
    BY <2>3, <2>5 DEF Clean
<1>4. QED
  BY <1>1, <1>2, <1>3, HeldAlways, PTL DEF Spec
=============================================================================
