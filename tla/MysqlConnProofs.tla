--------------------------- MODULE MysqlConnProofs ---------------------------
(***************************************************************************)
(* Theorems about MysqlConn, for every number of calls, tries, breaks and  *)
(* rows and every way the server may answer.                               *)
(***************************************************************************)
EXTENDS MysqlConn, Integers, SequenceTheorems, TLAPS

------------------------------------------------------------------------------
(* The types.                                                              *)

Pack == [kind : PacketKind, more : BOOLEAN, full : BOOLEAN, defs : 0 .. 2]
Arrival == [kind : PacketKind, more : BOOLEAN, full : BOOLEAN,
            defs : 0 .. 2, cmd : Nat, seq : 0 .. SequenceSize - 1]
Order == [command : Command, cmd : Nat, seq : Nat]
SeqNo == 0 .. SequenceSize - 1
Counts == [Job -> Nat]
Outcomes == [Job -> {"none", "ok", "failed"}]
JobOrNone == 0 .. NJobs
Tries == 0 .. MaxTries - 1
Breaks == 0 .. MaxBreaks
Stages == {"prepare", "exec"}
AnyKind == {"none", "bill", "lookup", "load"}

LEMMA CommandIs ==
  Command = {"auth", "oldAuth", "var", "charset", "prepare", "exec", "query",
             "stmtClose"}
BY DEF Command, Replies

LEMMA PacketsTyped ==
  /\ \A k \in PacketKind : Packet(k) \in Pack
  /\ \A m \in BOOLEAN : Ok(m) \in Pack /\ Eof(m) \in Pack
  /\ FullRow \in Pack
  /\ [Packet("prepared") EXCEPT !.defs = 1] \in Pack
  /\ [Packet("prepared") EXCEPT !.defs = 2] \in Pack
<1>1. \A k \in PacketKind : Packet(k) \in Pack
  BY DEF Pack, Packet
<1>2. {"ok", "eof", "row", "prepared"} \subseteq PacketKind
  BY DEF PacketKind
<1>3. ASSUME NEW r \in Pack
      PROVE  /\ \A m \in BOOLEAN : [r EXCEPT !.more = m] \in Pack
             /\ [r EXCEPT !.full = TRUE] \in Pack
             /\ [r EXCEPT !.defs = 1] \in Pack
             /\ [r EXCEPT !.defs = 2] \in Pack
  <2>1. ASSUME NEW m \in BOOLEAN PROVE [r EXCEPT !.more = m] \in Pack
    BY DEF Pack
  <2>2. [r EXCEPT !.full = TRUE] \in Pack
    BY DEF Pack
  <2>3. [r EXCEPT !.defs = 1] \in Pack
    BY DEF Pack
  <2>4. [r EXCEPT !.defs = 2] \in Pack
    BY DEF Pack
  <2>5. QED
    BY <2>1, <2>2, <2>3, <2>4
<1>4. \A m \in BOOLEAN : Ok(m) \in Pack /\ Eof(m) \in Pack
  <2> SUFFICES ASSUME NEW m \in BOOLEAN
               PROVE  Ok(m) \in Pack /\ Eof(m) \in Pack
    OBVIOUS
  <2>1. Packet("ok") \in Pack /\ Packet("eof") \in Pack
    BY <1>1, <1>2
  <2>2. QED
    BY <1>3, <2>1 DEF Ok, Eof
<1>5. FullRow \in Pack
  BY <1>1, <1>2, <1>3 DEF FullRow
<1>6. Packet("prepared") \in Pack
  BY <1>1, <1>2
<1>7. QED
  BY <1>1, <1>3, <1>4, <1>5, <1>6

LEMMA Tuples ==
  ASSUME NEW S
  PROVE  /\ << >> \in Seq(S)
         /\ \A a \in S : <<a>> \in Seq(S)
         /\ \A a, b \in S : <<a, b>> \in Seq(S)
         /\ \A a, b, c \in S : <<a, b, c>> \in Seq(S)
         /\ \A a, b, c, d \in S : <<a, b, c, d>> \in Seq(S)
         /\ \A a, b, c, d, e \in S : <<a, b, c, d, e>> \in Seq(S)
         /\ \A a, b, c, d, e, f, g \in S : <<a, b, c, d, e, f, g>> \in Seq(S)
OBVIOUS

LEMMA RowListsTyped == RowLists \subseteq Seq(Pack)
<1>1. \A n \in 0 .. MaxRows : [i \in 1 .. n |-> Packet("row")] \in Seq(Pack)
  BY PacketsTyped, MysqlAssumption DEF PacketKind
<1>2. {<<FullRow, Packet("row")>>, <<FullRow, Packet("empty")>>}
        \subseteq Seq(Pack)
  BY PacketsTyped, Tuples DEF PacketKind
<1>3. QED
  BY <1>1, <1>2 DEF RowLists

LEMMA RepliesTyped ==
  ASSUME NEW c \in Command
  PROVE  Replies[c] \subseteq Seq(Pack)
<1> DEFINE p(k) == Packet(k)
<1>0. \A k \in PacketKind : p(k) \in Pack
  BY PacketsTyped
<1>1. <<p("columns"), p("def"), Eof(FALSE)>> \in Seq(Pack)
      /\ <<Eof(FALSE)>> \in Seq(Pack) /\ <<p("err")>> \in Seq(Pack)
  BY <1>0, PacketsTyped, Tuples DEF PacketKind
<1>2. <<p("columns"), p("def"), Eof(FALSE), p("row"), Eof(FALSE)>> \in Seq(Pack)
      /\ <<p("columns"), p("def"), Eof(TRUE), p("row"), Eof(TRUE)>> \in Seq(Pack)
      /\ <<Ok(TRUE)>> \in Seq(Pack) /\ <<Ok(FALSE)>> \in Seq(Pack)
  BY <1>0, PacketsTyped, Tuples DEF PacketKind
<1>3. ResultSets \subseteq Seq(Pack) /\ FailedSets \subseteq Seq(Pack)
  <2>1. \A a, b, d \in Seq(Pack) : a \o b \o d \in Seq(Pack)
    OBVIOUS
  <2>2. QED
    BY <1>1, <2>1, RowListsTyped DEF ResultSets, FailedSets
<1>4. SeveralResults \subseteq Seq(Pack)
  <2>1. \A a, b \in Seq(Pack) : a \o b \in Seq(Pack)
    OBVIOUS
  <2>2. \A s \in SeveralResults :
           \E a, b \in Seq(Pack) : s = a \o b
    <3> DEFINE A == {<<Ok(TRUE)>>,
                     <<p("columns"), p("def"), Eof(TRUE), p("row"), Eof(TRUE)>>}
               B == {<<Ok(FALSE)>>, <<p("err")>>,
                     <<p("columns"), p("def"), Eof(FALSE), p("row"),
                       Eof(FALSE)>>}
    <3>1. A \subseteq Seq(Pack) /\ B \subseteq Seq(Pack)
      BY <1>1, <1>2
    <3>2. SeveralResults = {a \o b : a \in A, b \in B}
      BY DEF SeveralResults
    <3> HIDE DEF A, B
    <3>3. QED
      BY <3>1, <3>2
  <2>3. QED
    BY <2>1, <2>2
<1>5. /\ <<p("oldAuth")>> \in Seq(Pack) /\ <<p("otherAuth")>> \in Seq(Pack)
      /\ <<[p("prepared") EXCEPT !.defs = 1], p("def"), Eof(FALSE)>>
           \in Seq(Pack)
      /\ <<[p("prepared") EXCEPT !.defs = 2], p("def"), Eof(FALSE), p("def"),
           Eof(FALSE)>> \in Seq(Pack)
      /\ <<>> \in Seq(Pack)
  BY <1>0, PacketsTyped, Tuples DEF PacketKind
<1>6. CASE c \in {"auth", "oldAuth", "charset"}
  <2>1. Replies[c] \subseteq {<<Ok(FALSE)>>, <<p("err")>>, <<p("oldAuth")>>,
                             <<p("otherAuth")>>}
    <3>1. CASE c = "auth"
      BY <3>1 DEF Replies
    <3>2. CASE c = "oldAuth"
      BY <3>2 DEF Replies
    <3>3. CASE c = "charset"
      BY <3>3 DEF Replies
    <3>4. QED
      BY <1>6, <3>1, <3>2, <3>3
  <2>2. QED
    BY <1>1, <1>2, <1>5, <2>1
<1>7. CASE c = "var"
  BY <1>2, <1>7 DEF Replies
<1>8. CASE c = "prepare"
  <2>1. Replies[c] = {<<p("err")>>}
                \cup {<<[p("prepared") EXCEPT !.defs = 1],
                        p("def"), Eof(FALSE)>>,
                      <<[p("prepared") EXCEPT !.defs = 2],
                        p("def"), Eof(FALSE),
                        p("def"), Eof(FALSE)>>}
    BY <1>8 DEF Replies
  <2>2. SUFFICES ASSUME NEW s \in Replies[c] PROVE s \in Seq(Pack)
    OBVIOUS
  <2>3. \/ s = <<p("err")>>
        \/ s = <<[p("prepared") EXCEPT !.defs = 1], p("def"), Eof(FALSE)>>
        \/ s = <<[p("prepared") EXCEPT !.defs = 2], p("def"), Eof(FALSE),
                 p("def"), Eof(FALSE)>>
    BY <2>1
  <2>4. QED
    BY <1>1, <1>5, <2>3, Zenon
<1>9. CASE c = "exec"
  BY <1>1, <1>2, <1>9 DEF Replies, RowsOfExec
<1>10. CASE c = "query"
  BY <1>1, <1>3, <1>4, <1>10 DEF Replies, QueryReplies
<1>11. CASE c = "stmtClose"
  BY <1>5, <1>11 DEF Replies
<1>12. QED
  BY <1>6, <1>7, <1>8, <1>9, <1>10, <1>11, CommandIs

SqlTypes ==
  /\ job \in JobOrNone /\ kind \in AnyKind
  /\ doing \in Phase /\ stage \in Stages
  /\ pooled \in BOOLEAN /\ prepared \in BOOLEAN
  /\ tries \in Tries
  /\ outcome \in Outcomes

\* TypeOK, with names for its sets.
Types ==
  /\ open \in BOOLEAN /\ sequence \in SeqNo
  /\ status \in BOOLEAN /\ unread \in BOOLEAN
  /\ todo \in Seq(Task)
  /\ buffer \in Seq(Arrival) /\ toClient \in Seq(Arrival)
  /\ link \in {"up", "cut"} /\ toServer \in Seq(Order)
  /\ executed \in Counts /\ late \in Counts
  /\ SqlTypes
  /\ attempts \in Counts /\ lost \in Counts
  /\ cmd \in Nat /\ overrun \in BOOLEAN
  /\ breaks \in Breaks

LEMMA TypesAre == Types <=> TypeOK
<1>1. /\ buffer \in Seq(Arrival) /\ toClient \in Seq(Arrival)
      <=> \A s \in {buffer, toClient} :
       s \in Seq([kind : PacketKind, more : BOOLEAN, full : BOOLEAN,
                  defs : 0 .. 2, cmd : Nat, seq : 0 .. SequenceSize - 1])
  BY DEF Arrival
<1>2. toServer \in Seq(Order)
      <=> toServer \in Seq([command : Command, cmd : Nat, seq : Nat])
  BY DEF Order
<1>3. QED
  BY <1>1, <1>2
  DEF Types, TypeOK, SqlTypes, SeqNo, Counts, Outcomes, Tries, Breaks,
      Stages, AnyKind, JobOrNone

LEMMA Packets ==
  ASSUME Types
  PROVE  /\ buffer \in Seq(Arrival) /\ toClient \in Seq(Arrival)
         /\ toServer \in Seq(Order) /\ todo \in Seq(Task)
         /\ sequence \in SeqNo /\ sequence \in Nat
         /\ SequenceSize \in Nat \ {0, 1} /\ SequenceSize > 1
         /\ \A n \in Nat : n % SequenceSize \in SeqNo
BY MysqlAssumption DEF Types, SeqNo

\* What the steps write.
LEMMA Members ==
  /\ 0 \in SeqNo /\ 0 \in Tries /\ 0 \in Breaks /\ 0 \in JobOrNone
  /\ \A k \in {"none", "bill", "lookup", "load"} : k \in AnyKind
  /\ "prepare" \in Stages /\ "exec" \in Stages
  /\ \A f \in Outcomes : \A j : \A o \in {"ok", "failed"} :
       [f EXCEPT ![j] = o] \in Outcomes
  /\ \A n \in Tries : n + 1 < MaxTries => n + 1 \in Tries
  /\ \A f \in Counts : \A j : \A n \in Nat :
       [f EXCEPT ![j] = f[j] + n] \in Counts
  /\ \A S : << >> \in Seq(S)
<1>1. 0 \in SeqNo /\ 0 \in Tries /\ 0 \in Breaks /\ 0 \in JobOrNone
  BY MysqlAssumption DEF SeqNo, Tries, Breaks, JobOrNone
<1>2. \A k \in {"none", "bill", "lookup", "load"} : k \in AnyKind
  BY DEF AnyKind
<1>3. "prepare" \in Stages /\ "exec" \in Stages
  BY DEF Stages
<1>4. ASSUME NEW f \in Outcomes, NEW j, NEW o \in {"ok", "failed"}
      PROVE  [f EXCEPT ![j] = o] \in Outcomes
  BY <1>4 DEF Outcomes
<1>5. ASSUME NEW n \in Tries, n + 1 < MaxTries PROVE n + 1 \in Tries
  BY <1>5, MysqlAssumption DEF Tries
<1>6. ASSUME NEW f \in Counts, NEW j, NEW n \in Nat
      PROVE  [f EXCEPT ![j] = f[j] + n] \in Counts
  <2>1. CASE j \in Job
    BY <2>1 DEF Counts
  <2>2. CASE j \notin Job
    <3>1. [f EXCEPT ![j] = f[j] + n] = f
      BY <2>2 DEF Counts
    <3>2. QED
      BY <3>1
  <2>3. QED
    BY <2>1, <2>2
<1>7. ASSUME NEW S PROVE << >> \in Seq(S)
  OBVIOUS
<1>8. QED
  BY <1>1, <1>2, <1>3, <1>4, <1>5, <1>6, <1>7

LEMMA Parts ==
  ASSUME NEW S, NEW s \in Seq(S), s # << >>
  PROVE  /\ Head(s) \in S /\ Tail(s) \in Seq(S)
         /\ Len(s) \in Nat \ {0} /\ Head(s) = s[1] /\ Len(Tail(s)) = Len(s) - 1
         /\ \A i \in 1 .. Len(s) - 1 : Tail(s)[i] = s[i + 1]
BY HeadTailProperties

LEMMA TasksTyped ==
  /\ ReadTask \subseteq Task /\ WriteTask \subseteq Task
  /\ WriteTask = {"auth", "oldAuth", "var", "charset", "prepare", "exec",
                  "query"}
BY CommandIs DEF Task, WriteTask

\* What a call has still to do after a packet.
LEMMA GoesOnTyped ==
  ASSUME NEW t, NEW p \in Arrival, NEW rest \in Seq(Task), NEW new,
         GoesOn(t, p, rest, new)
  PROVE  new \in Seq(Task)
<1>1. ReadTask \subseteq Task /\ "oldAuth" \in Task
  BY TasksTyped
<1>2. \A a \in Seq(Task) : a \o rest \in Seq(Task)
  OBVIOUS
<1>3. /\ <<"oldAuth", "authResult">> \in Seq(Task)
      /\ <<"eof", "varRow", "eof">> \in Seq(Task) /\ <<"eof">> \in Seq(Task)
      /\ <<"eof", "eof">> \in Seq(Task) /\ <<"columns">> \in Seq(Task)
      /\ <<"eof", "eof", "discard">> \in Seq(Task)
      /\ <<"moreHeader", "discard">> \in Seq(Task) /\ << >> \in Seq(Task)
  BY <1>1, Tuples DEF ReadTask
<1>4. \A m \in BOOLEAN : Discard(m) \in Seq(Task)
  BY <1>3 DEF Discard
<1>5. Definitions(p) \in Seq(Task)
  BY <1>1 DEF Definitions, Arrival, ReadTask
<1>6. p.more \in BOOLEAN
  BY DEF Arrival
<1>7. AfterEof(p, rest) \in Seq(Task)
  BY <1>4, <1>6 DEF AfterEof
<1>8. QED
  BY <1>2, <1>3, <1>4, <1>5, <1>6, <1>7 DEF GoesOn

LEMMA PhasesAre ==
  Phase = {"none", "open", "prepare", "exec", "query", "rows", "next",
           "read", "close", "closeStmt"}
BY DEF Phase

LEMMA FinishTyped ==
  ASSUME Types, NEW o \in {"ok", "failed"}, Finish(o)
  PROVE  /\ outcome' \in Outcomes /\ doing' \in Phase /\ kind' \in AnyKind
         /\ stage' \in Stages /\ tries' \in Tries
<1>1. outcome \in Outcomes /\ kind \in AnyKind /\ stage \in Stages
      /\ tries \in Tries
  BY DEF Types, SqlTypes
<1>2. outcome' \in Outcomes
  <2>1. \/ outcome' = [outcome EXCEPT ![job] = o]
        \/ outcome' = [outcome EXCEPT ![job] = outcome[job]]
    BY DEF Finish
  <2>2. [outcome EXCEPT ![job] = outcome[job]] = outcome
    BY <1>1 DEF Outcomes
  <2>3. [outcome EXCEPT ![job] = o] \in Outcomes
    BY <1>1, Members
  <2>4. QED
    BY <1>1, <2>1, <2>2, <2>3, Zenon
<1>3. doing' \in Phase /\ kind' \in AnyKind
  BY <1>1, Members DEF Finish, EndJob, Phase
<1>4. stage' \in Stages /\ tries' \in Tries
  BY <1>1, Members DEF Finish, EndJob
<1>5. QED
  BY <1>2, <1>3, <1>4

LEMMA SucceedsTyped ==
  ASSUME Types, Succeeds
  PROVE  SqlTypes'
<1>1. SqlTypes
  BY DEF Types
<1>2. CASE doing = "open"
  BY <1>1, <1>2 DEF Succeeds, Phase, SqlTypes
<1>3. CASE doing = "prepare"
  BY <1>1, <1>3, Members DEF Succeeds, Phase, SqlTypes
<1>4. CASE doing \in {"exec", "close"}
  BY <1>1, <1>4, FinishTyped DEF Succeeds, SqlTypes
<1>5. CASE doing \in {"query", "next"}
  BY <1>1, <1>5 DEF Succeeds, Phase, SqlTypes
<1>6. QED
  BY <1>2, <1>3, <1>4, <1>5 DEF Succeeds

LEMMA RowsEndTyped ==
  ASSUME Types, NEW o \in {"ok", "failed"}, RowsEnd(o)
  PROVE  SqlTypes'
<1>1. SqlTypes
  BY DEF Types
<1>2. outcome' \in Outcomes
  BY <1>1, Members DEF SqlTypes, RowsEnd
<1>3. QED
  BY <1>1, <1>2, PhasesAre DEF SqlTypes, RowsEnd

LEMMA RefusedTyped ==
  ASSUME Types, Refused
  PROVE  SqlTypes'
BY FinishTyped, RowsEndTyped DEF Types, SqlTypes, Refused

LEMMA TryAgainTyped ==
  ASSUME Types, TryAgain, pooled' \in BOOLEAN, prepared' \in BOOLEAN
  PROVE  SqlTypes'
<1>1. SqlTypes
  BY DEF Types
<1>2. CASE tries + 1 < MaxTries
  <2>1. tries' \in Tries
    BY <1>1, <1>2, Members DEF TryAgain, SqlTypes
  <2>2. QED
    BY <1>1, <1>2, <2>1, PhasesAre DEF TryAgain, SqlTypes
<1>3. CASE ~(tries + 1 < MaxTries)
  <2>1. outcome' \in Outcomes
    BY <1>1, <1>3, Members DEF TryAgain, SqlTypes
  <2>2. QED
    BY <1>1, <1>3, <2>1, Members, PhasesAre DEF TryAgain, EndJob, SqlTypes
<1>4. QED
  BY <1>2, <1>3

\* What the steps of the driver make of the connection.
LinkTypes ==
  /\ open \in BOOLEAN /\ sequence \in SeqNo /\ status \in BOOLEAN
  /\ buffer \in Seq(Arrival) /\ toClient \in Seq(Arrival)
  /\ link \in {"up", "cut"} /\ toServer \in Seq(Order)
  /\ executed \in Counts /\ late \in Counts /\ breaks \in Breaks

LEMMA DropTyped ==
  ASSUME Types, Drop
  PROVE  /\ LinkTypes' /\ unread' \in BOOLEAN
         /\ pooled' \in BOOLEAN /\ prepared' \in BOOLEAN
<1>1. InFlight \in Nat
  BY DEF InFlight
<1>2. late' \in Counts
  <2>1. late' = [late EXCEPT ![job] = late[job] + InFlight]
    BY DEF Drop
  <2>2. QED
    BY <1>1, <2>1, Members DEF Types
<1>3. QED
  BY <1>2, Members DEF Drop, Types, LinkTypes

LEMMA CloseConnTyped ==
  ASSUME Types, CloseConn
  PROVE  LinkTypes'
BY Members DEF Types, CloseConn, serverVars, LinkTypes

LEMMA UnansweredTyped ==
  ASSUME Types, Unanswered
  PROVE  lost' \in Counts
<1>1. lost' = [lost EXCEPT ![job] = lost[job] + 1] \/ lost' = lost
  BY DEF Unanswered
<1>2. lost \in Counts
  BY DEF Types
<1>3. [lost EXCEPT ![job] = lost[job] + 1] \in Counts
  BY <1>2, Members
<1>4. QED
  BY <1>1, <1>2, <1>3, Zenon

LEMMA ReturnsBadTyped ==
  ASSUME Types, ReturnsBad
  PROVE  Types'
<1>1. todo' \in Seq(Task) /\ attempts' = attempts /\ cmd' = cmd
      /\ overrun' = overrun /\ lost' \in Counts
  BY UnansweredTyped, Members DEF ReturnsBad
<1>2. LinkTypes' /\ unread' \in BOOLEAN /\ SqlTypes'
  <2>1. CASE Drop /\ TryAgain
    BY <2>1, DropTyped, TryAgainTyped
  <2>2. CASE CloseConn /\ UNCHANGED unread /\ RowsEnd("failed")
    BY <2>2, RowsEndTyped, CloseConnTyped DEF Types
  <2>3. CASE /\ CloseConn /\ unread' = FALSE /\ Finish("failed")
             /\ UNCHANGED <<job, pooled, prepared>>
    BY <2>3, FinishTyped, CloseConnTyped DEF SqlTypes, Types
  <2>4. QED
    BY <2>1, <2>2, <2>3 DEF ReturnsBad, Broken
<1>3. QED
  BY <1>1, <1>2 DEF Types, LinkTypes

LEMMA WritePacketTyped ==
  ASSUME Types, WritePacket
  PROVE  Types'
<1> DEFINE c == Head(todo)
<1>1. c \in WriteTask /\ c \in Command /\ Tail(todo) \in Seq(Task)
  BY Packets, Parts DEF WritePacket, Writing, WriteTask
<1>2. FirstSeq(c) \in Nat /\ (FirstSeq(c) + 1) % SequenceSize \in SeqNo
  <2>1. FirstSeq(c) \in Nat
    BY Packets DEF FirstSeq
  <2>2. FirstSeq(c) + 1 \in Nat
    BY <2>1
  <2>3. QED
    BY <2>1, <2>2, Packets
<1>3. toServer' \in Seq(Order)
  <2>1. cmd + 1 \in Nat
    BY DEF Types
  <2>2. [command |-> c, cmd |-> cmd + 1, seq |-> FirstSeq(c)] \in Order
    BY <1>1, <1>2, <2>1 DEF Order
  <2>3. \A a \in Order : Append(toServer, a) \in Seq(Order)
    BY Packets
  <2>4. \/ toServer' = toServer
        \/ toServer' = Append(toServer, [command |-> c, cmd |-> cmd + 1,
                                         seq |-> FirstSeq(c)])
    BY DEF WritePacket
  <2>5. QED
    BY <2>2, <2>3, <2>4, Packets
<1>4. attempts' \in Counts /\ cmd' \in Nat
  <2>1. \/ attempts' = [attempts EXCEPT ![job] = attempts[job] + 1]
        \/ attempts' = attempts
    BY DEF WritePacket
  <2>2. attempts \in Counts /\ cmd' \in Nat
    BY DEF WritePacket, Types
  <2>3. [attempts EXCEPT ![job] = attempts[job] + 1] \in Counts
    BY <2>2, Members
  <2>4. QED
    BY <2>1, <2>2, <2>3, Zenon
<1>5. todo' \in Seq(Task) /\ sequence' \in SeqNo
  BY <1>1, <1>2 DEF WritePacket
<1>6. QED
  BY <1>3, <1>4, <1>5
  DEF WritePacket, Types, SqlTypes, serverVars, sqlVars, Order

LEMMA TailTyped ==
  ASSUME Types, buffer # << >>, buffer' = Tail(buffer),
         sequence' = (sequence + 1) % SequenceSize
  PROVE  /\ Head(buffer) \in Arrival /\ buffer' \in Seq(Arrival)
         /\ sequence' \in SeqNo
BY Packets, Parts

LEMMA ReceiveTyped ==
  ASSUME Types, Receive
  PROVE  Types'
<1>1. buffer' \in Seq(Arrival) /\ toClient' \in Seq(Arrival)
  <2>1. \A q \in Seq(Arrival) : \A n \in 1 .. Len(q) :
          SubSeq(q, 1, n) \in Seq(Arrival)
          /\ SubSeq(q, n + 1, Len(q)) \in Seq(Arrival)
    OBVIOUS
  <2>2. QED
    BY <2>1, Packets DEF Receive
<1>2. QED
  BY <1>1
  DEF Receive, Types, SqlTypes, serverVars, sqlVars, histVars, Arrival

LEMMA OutOfSyncTyped ==
  ASSUME Types, OutOfSync
  PROVE  Types'
<1>1. /\ todo' = << >> /\ attempts' = attempts /\ cmd' = cmd
      /\ overrun' = overrun /\ lost' \in Counts
  BY UnansweredTyped DEF OutOfSync
<1>2. SqlTypes'
  BY RefusedTyped DEF OutOfSync
<1>3. CASE doing = "open"
  <2>1. LinkTypes' /\ unread' \in BOOLEAN
    BY <1>3, DropTyped DEF OutOfSync
  <2>2. todo' \in Seq(Task) /\ attempts \in Counts /\ cmd \in Nat
        /\ overrun \in BOOLEAN
    BY <1>1, Members DEF Types
  <2>3. QED
    BY <1>1, <1>2, <2>1, <2>2 DEF Types, LinkTypes
<1>4. CASE doing # "open"
  BY <1>1, <1>2, <1>4
  DEF OutOfSync, Types, SqlTypes, InUse, netVars, serverVars
<1>5. QED
  BY <1>3, <1>4

LEMMA ReadPartTyped ==
  ASSUME Types, ReadPart
  PROVE  Types'
BY TailTyped
DEF ReadPart, Types, SqlTypes, netVars, serverVars, sqlVars, histVars, Arrival

LEMMA ReadTyped ==
  ASSUME Types, Read
  PROVE  Types'
<1>1. /\ Head(buffer) \in Arrival /\ buffer' \in Seq(Arrival)
      /\ sequence' \in SeqNo
  BY TailTyped DEF Read
<1>2. todo' \in Seq(Task)
  BY <1>1, Packets, Parts, GoesOnTyped DEF Read, Reading
<1>3. status' \in BOOLEAN /\ overrun' \in BOOLEAN
  BY <1>1 DEF Read, Types, SqlTypes, Arrival
<1>4. unread' \in BOOLEAN /\ SqlTypes'
  <2>1. CASE todo' = << >>
    BY <2>1, RowsEndTyped, SucceedsTyped DEF Read, UnreadAfter
  <2>2. CASE todo' # << >>
    BY <2>2 DEF Read, sqlVars, Types, SqlTypes
  <2>3. QED
    BY <2>1, <2>2
<1>5. QED
  BY <1>1, <1>2, <1>3, <1>4
  DEF Read, Types, SqlTypes, netVars, serverVars, Arrival

LEMMA ReadErrorTyped ==
  ASSUME Types, ReadError
  PROVE  Types'
<1>1. todo' = << >> /\ overrun' \in BOOLEAN /\ SqlTypes'
  BY RefusedTyped DEF ReadError, Types, SqlTypes
<1>2. CASE doing = "open"
  BY <1>1, <1>2, DropTyped
  DEF ReadError, Types, LinkTypes
<1>3. CASE doing # "open"
  <2>1. /\ buffer' \in Seq(Arrival) /\ sequence' \in SeqNo
    BY <1>3, TailTyped DEF ReadError
  <2>2. unread' \in BOOLEAN
    BY <1>3 DEF ReadError, InUse, Types, SqlTypes
  <2>3. QED
    BY <1>1, <1>3, <2>1, <2>2
    DEF ReadError, Types, SqlTypes, netVars, serverVars, Arrival
<1>4. QED
  BY <1>2, <1>3

LEMMA StartTyped ==
  ASSUME Types, Start
  PROVE  Types'
<1>1. job' \in JobOrNone /\ kind' \in AnyKind
  <2>1. job' \in Job
    BY MysqlAssumption DEF Start, Types, SqlTypes, JobOrNone, Job
  <2>2. Kinds[job'] \subseteq {"bill", "lookup", "load"}
    BY <2>1, MysqlAssumption DEF Job
  <2>3. kind' \in {"bill", "lookup", "load"}
    BY <2>2 DEF Start
  <2>4. QED
    BY <2>1, <2>3, Members DEF Job, JobOrNone
<1>2. QED
  BY <1>1
  DEF Start, Types, SqlTypes, connVars, netVars, serverVars, histVars

LEMMA CallTyped ==
  ASSUME Types, NEW what \in Phase, NEW tasks \in Seq(Task), Call(what, tasks)
  PROVE  /\ todo' \in Seq(Task) /\ SqlTypes'
         /\ attempts' \in Counts /\ lost' \in Counts
         /\ cmd' \in Nat /\ overrun' \in BOOLEAN
BY DEF Types, SqlTypes, Call, histVars

LEMMA SentTyped ==
  ASSUME Types, NEW p \in Pack, NEW c \in Nat, NEW n \in Nat
  PROVE  Sent(p, c, n) \in Arrival
<1>1. n % SequenceSize \in SeqNo
  BY Packets
<1>2. QED
  BY <1>1 DEF Sent, Pack, Arrival, SeqNo

LEMMA OpenTyped ==
  ASSUME Types, Open
  PROVE  Types'
<1>1. \A k \in {"init", "err"} : <<Sent(Packet(k), cmd, 0)>> \in Seq(Arrival)
  <2> SUFFICES ASSUME NEW k \in {"init", "err"}
               PROVE  <<Sent(Packet(k), cmd, 0)>> \in Seq(Arrival)
    OBVIOUS
  <2>1. Packet(k) \in Pack
    BY PacketsTyped DEF PacketKind
  <2>2. Sent(Packet(k), cmd, 0) \in Arrival
    BY <2>1, SentTyped DEF Types
  <2>3. QED
    BY <2>2, Tuples
<1>2. <<"init", "auth", "authResult", "var", "varHeader", "charset",
        "execHeader">> \in Seq(Task)
  BY TasksTyped, Tuples DEF ReadTask
<1>3. /\ todo' \in Seq(Task) /\ SqlTypes' /\ attempts' \in Counts
      /\ lost' \in Counts /\ cmd' \in Nat /\ overrun' \in BOOLEAN
  BY <1>2, CallTyped, PhasesAre DEF Open
<1>4. toClient' \in Seq(Arrival) /\ buffer' \in Seq(Arrival) /\ sequence' \in SeqNo
  BY <1>1, Members DEF Open
<1>5. QED
  BY <1>3, <1>4 DEF Open, Types, serverVars

LEMMA OpenFailsTyped ==
  ASSUME Types, OpenFails
  PROVE  Types'
<1>1. outcome' \in Outcomes
  BY Members DEF OpenFails, Types, SqlTypes
<1>2. SqlTypes'
  BY <1>1, Members, PhasesAre DEF OpenFails, EndJob, Types, SqlTypes
<1>3. QED
  BY <1>2 DEF OpenFails, Types, connVars, netVars, serverVars, histVars

LEMMA AskTyped ==
  ASSUME Types, Ask
  PROVE  Types'
<1>1. /\ <<"prepare", "prepared">> \in Seq(Task)
      /\ <<"exec", "execHeader">> \in Seq(Task)
      /\ <<"query", "queryHeader">> \in Seq(Task)
  BY TasksTyped, Tuples DEF ReadTask
<1>2. /\ todo' \in Seq(Task) /\ SqlTypes' /\ attempts' \in Counts
      /\ lost' \in Counts /\ cmd' \in Nat /\ overrun' \in BOOLEAN
  <2>1. CASE Call("prepare", <<"prepare", "prepared">>)
    BY <1>1, <2>1, CallTyped, PhasesAre
  <2>2. CASE Call("exec", <<"exec", "execHeader">>)
    BY <1>1, <2>2, CallTyped, PhasesAre
  <2>3. CASE Call("query", <<"query", "queryHeader">>)
    BY <1>1, <2>3, CallTyped, PhasesAre
  <2>4. QED
    BY <2>1, <2>2, <2>3 DEF Ask
<1>3. QED
  BY <1>2 DEF Ask, Types, netVars, serverVars

LEMMA AskClosedTyped ==
  ASSUME Types, AskClosed
  PROVE  Types'
<1>1. LinkTypes' /\ unread' \in BOOLEAN /\ SqlTypes'
  BY DropTyped, TryAgainTyped DEF AskClosed
<1>2. QED
  BY <1>1 DEF AskClosed, Types, LinkTypes, histVars

LEMMA NextRowTyped ==
  ASSUME Types, NextRow
  PROVE  Types'
<1>1. <<"row">> \in Seq(Task)
  BY TasksTyped, Tuples DEF ReadTask
<1>2. /\ todo' \in Seq(Task) /\ SqlTypes' /\ attempts' \in Counts
      /\ lost' \in Counts /\ cmd' \in Nat /\ overrun' \in BOOLEAN
  BY <1>1, CallTyped, PhasesAre DEF NextRow
<1>3. QED
  BY <1>2 DEF NextRow, Types, netVars, serverVars

LEMMA CloseRowsTyped ==
  ASSUME Types, CloseRows
  PROVE  Types'
<1>1. CASE Drains
  <2>1. <<"eof", "discard">> \in Seq(Task)
    BY TasksTyped, Tuples DEF ReadTask
  <2>2. /\ todo' \in Seq(Task) /\ SqlTypes' /\ attempts' \in Counts
        /\ lost' \in Counts /\ cmd' \in Nat /\ overrun' \in BOOLEAN
    BY <1>1, <2>1, CallTyped, PhasesAre DEF CloseRows
  <2>3. QED
    BY <1>1, <2>2 DEF CloseRows, Types, netVars, serverVars
<1>2. CASE ~Drains
  <2>1. SqlTypes'
    BY <1>2, FinishTyped DEF CloseRows, Types, SqlTypes
  <2>2. QED
    BY <1>2, <2>1 DEF CloseRows, Types, netVars, serverVars, histVars
<1>3. QED
  BY <1>1, <1>2

LEMMA CloseStmtTyped ==
  ASSUME Types, CloseStmt
  PROVE  Types'
<1>1. SqlTypes'
  BY Members, PhasesAre DEF CloseStmt, EndJob, Types, SqlTypes
<1>2. 1 \in SeqNo
  BY MysqlAssumption DEF SeqNo
<1>3. toServer' \in Seq(Order)
  <2>1. [command |-> "stmtClose", cmd |-> cmd, seq |-> 0] \in Order
    BY CommandIs DEF Order, Types
  <2>2. Append(toServer, [command |-> "stmtClose", cmd |-> cmd, seq |-> 0])
          \in Seq(Order)
    BY <2>1, Packets
  <2>3. \/ toServer' = toServer
        \/ toServer' = Append(toServer, [command |-> "stmtClose", cmd |-> cmd,
                                         seq |-> 0])
    BY DEF CloseStmt
  <2>4. QED
    BY <2>2, <2>3, Packets
<1>4. QED
  BY <1>1, <1>2, <1>3 DEF CloseStmt, Types, serverVars, histVars

LEMMA ServeTyped ==
  ASSUME Types, Serve
  PROVE  Types'
<1> DEFINE c == Head(toServer)
<1>1. c \in Order /\ toServer' \in Seq(Order)
  BY Packets, Parts DEF Serve
<1>2. c.command \in Command /\ c.cmd \in Nat /\ c.seq \in Nat
  BY <1>1 DEF Order
<1>3. PICK reply \in Replies[c.command] :
        /\ toClient' =
             IF link = "cut" THEN toClient
             ELSE toClient \o [i \in 1 .. Len(reply) |->
                                 Sent(reply[i], c.cmd, c.seq + i)]
        /\ executed' =
             IF c.command = "exec" /\ reply[1].kind # "err"
               THEN [executed EXCEPT ![job] = executed[job] + 1] ELSE executed
  BY DEF Serve
<1>4. reply \in Seq(Pack)
  BY <1>2, RepliesTyped
<1>5. [i \in 1 .. Len(reply) |-> Sent(reply[i], c.cmd, c.seq + i)]
        \in Seq(Arrival)
  <2>1. ASSUME NEW i \in 1 .. Len(reply)
        PROVE  Sent(reply[i], c.cmd, c.seq + i) \in Arrival
    <3>1. reply[i] \in Pack /\ c.seq + i \in Nat
      BY <1>2, <1>4
    <3>2. QED
      BY <1>2, <3>1, SentTyped
  <2>2. Len(reply) \in Nat
    BY <1>4
  <2> DEFINE f(i) == Sent(reply[i], c.cmd, c.seq + i)
  <2>3. \A i \in 1 .. Len(reply) : f(i) \in Arrival
    BY <2>1
  <2> HIDE DEF f
  <2>4. [i \in 1 .. Len(reply) |-> f(i)] \in Seq(Arrival)
    BY <2>2, <2>3
  <2>5. QED
    BY <2>4 DEF f
<1>6. toClient' \in Seq(Arrival)
  <2>1. \A a, b \in Seq(Arrival) : a \o b \in Seq(Arrival)
    OBVIOUS
  <2>2. QED
    BY <1>3, <1>5, <2>1, Packets
<1>7. executed' \in Counts
  <2>1. executed \in Counts
    BY DEF Types
  <2>2. [executed EXCEPT ![job] = executed[job] + 1] \in Counts
    BY <2>1, Members
  <2>3. QED
    BY <1>3, <2>1, <2>2, Zenon
<1>8. QED
  BY <1>1, <1>6, <1>7
  DEF Serve, Types, SqlTypes, connVars, sqlVars, histVars

LEMMA ServeLateTyped ==
  ASSUME Types, NEW j \in Job, ServeLate(j)
  PROVE  Types'
<1>1. late' \in Counts
  BY DEF ServeLate, Types, Counts
<1>2. executed' \in Counts
  <2>1. executed \in Counts
    BY DEF Types
  <2>2. [executed EXCEPT ![j] = executed[j] + 1] \in Counts
    BY <2>1, Members
  <2>3. executed' = executed \/ executed' = [executed EXCEPT ![j] = executed[j] + 1]
    BY DEF ServeLate
  <2>4. QED
    BY <2>1, <2>2, <2>3, Zenon
<1>3. QED
  BY <1>1, <1>2
  DEF ServeLate, Types, SqlTypes, connVars, netVars, sqlVars, histVars

LEMMA PrefixTyped ==
  ASSUME NEW S, NEW s \in Seq(S), NEW n \in 0 .. Len(s)
  PROVE  SubSeq(s, 1, n) \in Seq(S)
OBVIOUS

LEMMA BreakTyped ==
  ASSUME Types, Break
  PROVE  Types'
<1>1. toServer' \in Seq(Order) /\ toClient' \in Seq(Arrival)
  BY Packets, PrefixTyped DEF Break
<1>2. breaks' \in Breaks
  BY MysqlAssumption DEF Break, Types, Breaks
<1>3. QED
  BY <1>1, <1>2
  DEF Break, Types, SqlTypes, connVars, serverVars, sqlVars, histVars

LEMMA KillTyped ==
  ASSUME Types, Kill
  PROVE  Types'
<1>1. toClient' \in Seq(Arrival)
  <2>1. Sent(Packet("err"), 0, 0) \in Arrival
    BY SentTyped, PacketsTyped DEF PacketKind
  <2>2. Append(toClient, Sent(Packet("err"), 0, 0)) \in Seq(Arrival)
    BY <2>1, Packets
  <2>3. QED
    BY <2>2 DEF Kill
<1>2. breaks' \in Breaks
  BY MysqlAssumption DEF Kill, Types, Breaks
<1>3. QED
  BY <1>1, <1>2
  DEF Kill, Types, SqlTypes, connVars, serverVars, sqlVars, histVars

LEMMA InitTyped == Init => Types
<1> SUFFICES ASSUME Init PROVE Types
  OBVIOUS
<1>1. /\ executed \in Counts /\ late \in Counts
      /\ attempts \in Counts /\ lost \in Counts
  BY DEF Init, Counts
<1>2. outcome \in Outcomes
  BY DEF Init, Outcomes
<1>3. /\ sequence \in SeqNo /\ tries \in Tries /\ breaks \in Breaks
      /\ job \in JobOrNone /\ kind \in AnyKind /\ stage \in Stages
      /\ todo \in Seq(Task) /\ buffer \in Seq(Arrival)
      /\ toClient \in Seq(Arrival) /\ toServer \in Seq(Order)
  BY Members DEF Init
<1>4. QED
  BY <1>1, <1>2, <1>3, PhasesAre DEF Init, Types, SqlTypes

LEMMA NextTyped == Types /\ [Next]_vars => Types'
<1> SUFFICES ASSUME Types, [Next]_vars PROVE Types'
  OBVIOUS
<1>1. CASE Driver
  BY <1>1, WritePacketTyped, ReturnsBadTyped, ReceiveTyped, OutOfSyncTyped,
     ReadPartTyped, ReadTyped, ReadErrorTyped
  DEF Driver, WriteFails, ReadFails
<1>2. CASE Sql
  BY <1>2, StartTyped, OpenTyped, OpenFailsTyped, AskTyped, AskClosedTyped,
     NextRowTyped, CloseRowsTyped, CloseStmtTyped DEF Sql
<1>3. CASE Serve \/ Break \/ Kill \/ \E j \in Job : ServeLate(j)
  BY <1>3, ServeTyped, BreakTyped, KillTyped, ServeLateTyped
<1>4. CASE UNCHANGED vars
  BY <1>4 DEF vars, connVars, netVars, serverVars, sqlVars, histVars, Types,
              SqlTypes
<1>5. QED
  BY <1>1, <1>2, <1>3, <1>4 DEF Next

\* Every value of every variable is one the code can hold: sequence numbers
\* below SequenceSize, tries below MaxTries, breaks at most MaxBreaks, and
\* packets and commands of the protocol only, whatever the server answers.
THEOREM MysqlTyped == Spec => []TypeOK
<1>1. Init => Types
  BY InitTyped
<1>2. Types /\ [Next]_vars => Types'
  BY NextTyped
<1>3. Types => TypeOK
  BY TypesAre
<1>4. QED
  BY <1>1, <1>2, <1>3, PTL DEF Spec

------------------------------------------------------------------------------
(* Sequence numbers.                                                       *)

LEMMA Remainders ==
  ASSUME NEW N \in Nat, N > 1, NEW d \in Int, NEW e \in Int,
         NEW r \in 0 .. N - 1, NEW q \in 0 .. N - 1, N * d + r = N * e + q
  PROVE  r = q
<1>1. ASSUME NEW a \in Int, NEW b \in Int, a < b PROVE N * a + N =< N * b
  <2>1. b - a >= 1 /\ b - a \in Int
    BY <1>1
  <2>2. N * (b - a) >= N
    BY <2>1
  <2>3. N * (b - a) = N * b - N * a
    OBVIOUS
  <2>4. N * a \in Int /\ N * b \in Int
    OBVIOUS
  <2>5. QED
    BY <2>2, <2>3, <2>4
<1>2. CASE d < e
  BY <1>1, <1>2
<1>3. CASE e < d
  BY <1>1, <1>3
<1>4. QED
  BY <1>2, <1>3

LEMMA Division ==
  ASSUME NEW N \in Nat, N > 1, NEW x \in Nat
  PROVE  \E d \in Int : x = N * d + (x % N) /\ x % N \in 0 .. N - 1
<1>1. /\ x = N * (x \div N) + (x % N) /\ x \div N \in Int
      /\ x % N \in 0 .. N - 1
  OBVIOUS
<1>2. QED
  BY <1>1

\* Numbers that go up by one, wrapped at every step or at the end.
LEMMA WrapsAround ==
  ASSUME NEW N \in Nat, N > 1, NEW x \in Nat
  PROVE  ((x % N) + 1) % N = (x + 1) % N
<1> DEFINE y == (x % N) + 1
           z == x + 1
           a == y % N
           b == z % N
<1>1. PICK d \in Int : x = N * d + (x % N) /\ x % N \in 0 .. N - 1
  BY Division
<1>2. y \in Nat /\ z \in Nat
  BY <1>1
<1>3. z = N * d + y
  BY <1>1
<1> HIDE DEF y, z
<1>4. PICK e \in Int : y = N * e + a /\ a \in 0 .. N - 1
  BY <1>2, Division
<1>5. PICK f \in Int : z = N * f + b /\ b \in 0 .. N - 1
  BY <1>2, Division
<1> HIDE DEF a, b
<1>6. N * f + b = N * (d + e) + a
  <2>1. N * (d + e) = N * d + N * e /\ N * d \in Int /\ N * e \in Int
        /\ N * f \in Int
    OBVIOUS
  <2>2. QED
    BY <1>2, <1>3, <1>4, <1>5, <2>1
<1>7. a = b
  BY <1>4, <1>5, <1>6, Remainders
<1>8. QED
  BY <1>7 DEF a, b, y, z

------------------------------------------------------------------------------
(* What a connection may still receive.                                    *)
(*                                                                         *)
(* Each predicate is about the packets s of an answer that are not read,   *)
(* and is named for what they are; all hold of the empty sequence, as an   *)
(* answer may be cut off anywhere.                                         *)

\* The first packet, if there is one, is of these kinds, and is one packet.
Starts(s, kinds) == s[1].kind \in kinds /\ ~s[1].full

Alone(s, kinds) == s # << >> => Starts(s, kinds) /\ ~s[1].more /\ Tail(s) = << >>

\* The end of a list, a list of one, and so on.
E(s)    == Alone(s, {"eof"})
DE(s)   == s # << >> => Starts(s, {"def", "row"}) /\ E(Tail(s))
EDE(s)  == s # << >> => Starts(s, {"eof"}) /\ DE(Tail(s))
DEDE(s) == s # << >> => Starts(s, {"def", "row"}) /\ EDE(Tail(s))

\* The whole answer to an insert, to a variable, or a later result.
Result(s) ==
  \/ Alone(s, {"ok", "err"})
  \/ Starts(s, {"columns"}) /\ DEDE(Tail(s))

Statement(s) ==
  \/ Alone(s, {"err"})
  \/ Starts(s, {"prepared"}) /\ s[1].defs = 1 /\ DE(Tail(s))
  \/ Starts(s, {"prepared"}) /\ s[1].defs = 2 /\ DEDE(Tail(s))

\* The rows of the only result, and those of one that another follows.
LastRows(s) ==
  \A i \in 1 .. Len(s) :
    \/ s[i].kind \in {"row", "empty"}
    \/ s[i].kind \in {"eof", "err"} /\ ~s[i].more /\ ~s[i].full /\ i = Len(s)
EndAndMore(s) == s # << >> => Starts(s, {"eof"}) /\ s[1].more /\ Result(Tail(s))
RowAndMore(s) == s # << >> => Starts(s, {"row"}) /\ EndAndMore(Tail(s))

Rows(s) == LastRows(s) \/ EndAndMore(s) \/ RowAndMore(s)

EndOfColumns(s) ==
  s # << >> => /\ Starts(s, {"eof"})
               /\ LastRows(Tail(s)) \/ RowAndMore(Tail(s))
Columns(s) == s # << >> => Starts(s, {"def"}) /\ EndOfColumns(Tail(s))

QueryAnswer(s) ==
  \/ Alone(s, {"ok", "err"})
  \/ Starts(s, {"ok"}) /\ s[1].more /\ Result(Tail(s))
  \/ Starts(s, {"columns"}) /\ Columns(Tail(s))

------------------------------------------------------------------------------
(* What a call may have to do, by name.                                    *)

ToExecHeader  == <<"execHeader">>
ToCharset     == <<"charset", "execHeader">>
ToEndVar      == <<"eof", "charset", "execHeader">>
ToVarRow      == <<"varRow", "eof", "charset", "execHeader">>
ToVarColumns  == <<"eof", "varRow", "eof", "charset", "execHeader">>
ToVarHeader   == <<"varHeader", "charset", "execHeader">>
ToVar         == <<"var", "varHeader", "charset", "execHeader">>
ToAuthResult  == <<"authResult", "var", "varHeader", "charset", "execHeader">>
ToAuth        == <<"auth", "authResult", "var", "varHeader", "charset",
                   "execHeader">>
ToOldAuth     == <<"oldAuth", "authResult", "var", "varHeader", "charset",
                   "execHeader">>
ToInit        == <<"init", "auth", "authResult", "var", "varHeader",
                   "charset", "execHeader">>
ToPrepare     == <<"prepare", "prepared">>
ToPrepared    == <<"prepared">>
ToExec        == <<"exec", "execHeader">>
ToEof         == <<"eof">>
ToEofs        == <<"eof", "eof">>
ToQuery       == <<"query", "queryHeader">>
ToQueryHeader == <<"queryHeader">>
ToColumns     == <<"columns">>
ToMore        == <<"moreHeader", "discard">>
ToMoreLists   == <<"eof", "eof", "discard">>
ToDiscard     == <<"eof", "discard">>
ToRow         == <<"row">>

\* What is left of an answer, s, when a call has w to do.
AtOpen(w, s) ==
  \/ w = ToInit /\ Alone(s, {"init", "err"})
  \/ w \in {ToAuth, ToOldAuth, ToVar, ToCharset} /\ s = << >>
  \/ w = ToAuthResult /\ Alone(s, {"ok", "err", "oldAuth", "otherAuth"})
  \/ w = ToVarHeader /\ Result(s)
  \/ w = ToVarColumns /\ (DEDE(s) \/ EDE(s))
  \/ w = ToVarRow /\ DE(s)
  \/ w = ToEndVar /\ E(s)
  \/ w = ToExecHeader /\ Alone(s, {"ok", "err"})

AtLists(w, s) ==
  \/ w = ToEof /\ (DE(s) \/ E(s))
  \/ w = ToEofs /\ (DEDE(s) \/ EDE(s))

AtPrepare(w, s) ==
  \/ w = ToPrepare /\ s = << >>
  \/ w = ToPrepared /\ Statement(s)
  \/ AtLists(w, s)

AtExec(w, s) ==
  \/ w = ToExec /\ s = << >>
  \/ w = ToExecHeader /\ Result(s)
  \/ AtLists(w, s)

AtMore(w, s) ==
  \/ w = ToMore /\ Result(s)
  \/ w = ToMoreLists /\ (DEDE(s) \/ EDE(s))
  \/ w = ToDiscard /\ (Rows(s) \/ DE(s) \/ E(s))

AtQuery(w, s) ==
  \/ w = ToQuery /\ s = << >>
  \/ w = ToQueryHeader /\ QueryAnswer(s)
  \/ w = ToColumns /\ (Columns(s) \/ EndOfColumns(s))
  \/ AtMore(w, s)

AtNext(w, s) == (w = ToRow /\ Rows(s)) \/ AtMore(w, s)

Resting == {"none", "rows", "read", "closeStmt"}

At(d, w, s) ==
  \/ d = "open" /\ AtOpen(w, s)
  \/ d = "prepare" /\ AtPrepare(w, s)
  \/ d = "exec" /\ AtExec(w, s)
  \/ d = "query" /\ AtQuery(w, s)
  \/ d = "next" /\ AtNext(w, s)
  \/ d = "close" /\ AtMore(w, s)

Between(u, s) == s = << >> \/ (u /\ Rows(s))

\* Where call d is that has w to do and, if it rests, has rows (u).
Fits(d, w, u, s) ==
  \/ d \in Resting /\ w = << >> /\ Between(u, s)
  \/ At(d, w, s)

Place(s) == Fits(doing, todo, unread, s)

------------------------------------------------------------------------------
(* The four ways a connection can be.                                      *)

OnlyCloses(q) == \A i \in 1 .. Len(q) : q[i].command = "stmtClose"

Arriving == buffer \o toClient

\* Nothing is on its way but closed statements.
Still == Arriving = << >> /\ OnlyCloses(toServer) /\ Place(<< >>)

\* The server has ended the connection with an error of its own.
Killed ==
  /\ link = "cut" /\ toServer = << >> /\ ~unread /\ doing # "open"
  /\ Len(Arriving) = 1
  /\ Arriving[1].kind = "err" /\ Arriving[1].seq = 0 /\ Arriving[1].cmd = 0
  /\ Reading => sequence = 1
  /\ Place(<< >>)

Awaits(d, w, c) ==
  \/ d = "open" /\ w = ToAuthResult /\ c \in {"auth", "oldAuth"}
  \/ d = "open" /\ w = ToVarHeader /\ c = "var"
  \/ d = "open" /\ w = ToExecHeader /\ c = "charset"
  \/ d = "prepare" /\ w = ToPrepared /\ c = "prepare"
  \/ d = "exec" /\ w = ToExecHeader /\ c = "exec"
  \/ d = "query" /\ w = ToQueryHeader /\ c = "query"

\* The command in progress is on its way, behind closed statements.
Asked ==
  /\ Arriving = << >> /\ toServer # << >>
  /\ LET n == Len(toServer)
     IN  /\ Awaits(doing, todo, toServer[n].command)
         /\ toServer[n].cmd = cmd
         /\ sequence = (toServer[n].seq + 1) % SequenceSize
         /\ \A i \in 1 .. n - 1 : toServer[i].command = "stmtClose"

Numbered(s, n) ==
  /\ s[1].seq = n
  /\ \A i \in 1 .. Len(s) - 1 : s[i + 1].seq = (s[i].seq + 1) % SequenceSize

\* Its answer, or what is left of it, is on its way or received.
Answered ==
  /\ Arriving # << >> /\ toServer = << >> /\ Place(Arriving)
  /\ Numbered(Arriving, sequence)
  /\ \A i \in 1 .. Len(Arriving) : Arriving[i].cmd = cmd

Kept ==
  /\ todo # << >> => open
  /\ unread => doing \in {"rows", "read", "next", "close"}
  /\ pooled \/ doing = "open" \/ (~open /\ toServer = << >>)
  /\ open \/ Still

ConnInv == Kept /\ (Still \/ Killed \/ Asked \/ Answered)

------------------------------------------------------------------------------
(* The packets of an answer, read one by one or cut off.                   *)

LEMMA Empty ==
  /\ \A kinds : Alone(<< >>, kinds)
  /\ E(<< >>) /\ DE(<< >>) /\ EDE(<< >>) /\ DEDE(<< >>)
  /\ Result(<< >>) /\ Statement(<< >>) /\ QueryAnswer(<< >>)
  /\ LastRows(<< >>) /\ EndAndMore(<< >>) /\ RowAndMore(<< >>) /\ Rows(<< >>)
  /\ EndOfColumns(<< >>) /\ Columns(<< >>)
<1>1. \A kinds : Alone(<< >>, kinds)
  BY DEF Alone
<1>2. LastRows(<< >>)
  BY DEF LastRows
<1>3. QED
  BY <1>1, <1>2
  DEF E, DE, EDE, DEDE, Result, Statement, QueryAnswer, EndAndMore,
      RowAndMore, Rows, EndOfColumns, Columns

LEMMA Prefixes ==
  ASSUME NEW S, NEW s \in Seq(S), NEW n \in 1 .. Len(s)
  PROVE  /\ s # << >> /\ SubSeq(s, 1, n) # << >>
         /\ SubSeq(s, 1, n)[1] = s[1]
         /\ Tail(s) \in Seq(S) /\ n - 1 \in 0 .. Len(Tail(s))
         /\ Tail(SubSeq(s, 1, n)) = SubSeq(Tail(s), 1, n - 1)
<1>1. s # << >> /\ Len(s) \in Nat \ {0} /\ Tail(s) \in Seq(S)
      /\ Len(Tail(s)) = Len(s) - 1
      /\ \A i \in 1 .. Len(s) - 1 : Tail(s)[i] = s[i + 1]
  BY Parts
<1> DEFINE p == SubSeq(s, 1, n)
<1>2. p \in Seq(S) /\ Len(p) = n /\ \A i \in 1 .. n : p[i] = s[i]
  BY <1>1
<1>3. p # << >>
  BY <1>2
<1>4. Tail(p) \in Seq(S) /\ Len(Tail(p)) = n - 1
      /\ \A i \in 1 .. n - 1 : Tail(p)[i] = p[i + 1]
  <2> HIDE DEF p
  <2>1. QED
    BY <1>2, <1>3, Parts
<1> DEFINE q == SubSeq(Tail(s), 1, n - 1)
<1>5. q \in Seq(S) /\ Len(q) = n - 1 /\ \A i \in 1 .. n - 1 : q[i] = Tail(s)[i]
  BY <1>1
<1>6. \A i \in 1 .. n - 1 : Tail(p)[i] = q[i]
  BY <1>1, <1>2, <1>4, <1>5
<1>7. Tail(p) = q
  <2> HIDE DEF p, q
  <2>1. QED
    BY <1>4, <1>5, <1>6
<1>8. QED
  BY <1>1, <1>2, <1>3, <1>7

LEMMA CutOff ==
  ASSUME NEW S, NEW s \in Seq(S)
  PROVE  /\ SubSeq(s, 1, 0) = << >>
         /\ \A n \in 0 .. Len(s) : n = 0 \/ n \in 1 .. Len(s)
         /\ \A n \in 1 .. Len(s) :
              /\ s # << >> /\ SubSeq(s, 1, n) # << >>
              /\ Tail(s) \in Seq(S) /\ n - 1 \in 0 .. Len(Tail(s))
              /\ Tail(SubSeq(s, 1, n)) = SubSeq(Tail(s), 1, n - 1)
              /\ SubSeq(s, 1, n)[1] = s[1]
              /\ \A kinds : Starts(s, kinds) => Starts(SubSeq(s, 1, n), kinds)
<1>1. ASSUME NEW n \in 1 .. Len(s)
      PROVE  /\ s # << >> /\ SubSeq(s, 1, n) # << >>
             /\ Tail(s) \in Seq(S) /\ n - 1 \in 0 .. Len(Tail(s))
             /\ Tail(SubSeq(s, 1, n)) = SubSeq(Tail(s), 1, n - 1)
             /\ SubSeq(s, 1, n)[1] = s[1]
  BY Prefixes
<1>2. ASSUME NEW n \in 1 .. Len(s), NEW kinds, Starts(s, kinds)
      PROVE  Starts(SubSeq(s, 1, n), kinds)
  BY <1>1, <1>2 DEF Starts
<1>3. SubSeq(s, 1, 0) = << >> /\ Len(s) \in Nat
  OBVIOUS
<1>4. QED
  BY <1>1, <1>2, <1>3

LEMMA AloneCut ==
  ASSUME NEW S, NEW s \in Seq(S), NEW n \in 0 .. Len(s), NEW kinds,
         Alone(s, kinds)
  PROVE  Alone(SubSeq(s, 1, n), kinds)
<1>1. CASE n = 0
  BY <1>1, CutOff DEF Alone
<1>2. CASE n \in 1 .. Len(s)
  <2>1. SubSeq(<< >>, 1, 0) = << >> /\ Len(<< >>) = 0
    OBVIOUS
  <2>2. /\ s # << >> /\ Tail(SubSeq(s, 1, n)) = SubSeq(Tail(s), 1, n - 1)
        /\ n - 1 \in 0 .. Len(Tail(s))
    BY <1>2, CutOff
  <2>3. Tail(s) = << >> /\ Starts(s, kinds) /\ ~s[1].more
    BY <2>2 DEF Alone
  <2>4. Tail(SubSeq(s, 1, n)) = << >>
    <3>1. n - 1 = 0
      <4>1. Len(Tail(s)) = 0
        BY <2>1, <2>3, Zenon
      <4>2. n - 1 \in 0 .. 0
        BY <2>2, <4>1, Zenon
      <4>3. n \in Nat
        OBVIOUS
      <4>4. QED
        BY <4>2, <4>3
    <3>2. QED
      BY <2>1, <2>2, <2>3, <3>1
  <2>5. Starts(SubSeq(s, 1, n), kinds) /\ SubSeq(s, 1, n)[1] = s[1]
    BY <1>2, <2>3, CutOff
  <2>6. QED
    BY <2>3, <2>4, <2>5 DEF Alone
<1>3. QED
  BY <1>1, <1>2, CutOff

LEMMA ListsCut ==
  ASSUME NEW S
  PROVE  \A s \in Seq(S) : \A n \in 0 .. Len(s) :
           /\ E(s) => E(SubSeq(s, 1, n))
           /\ DE(s) => DE(SubSeq(s, 1, n))
           /\ EDE(s) => EDE(SubSeq(s, 1, n))
           /\ DEDE(s) => DEDE(SubSeq(s, 1, n))
<1>1. ASSUME NEW s \in Seq(S), NEW n \in 0 .. Len(s), E(s)
      PROVE  E(SubSeq(s, 1, n))
  BY <1>1, AloneCut DEF E
<1>2. ASSUME NEW s \in Seq(S), NEW n \in 0 .. Len(s), DE(s)
      PROVE  DE(SubSeq(s, 1, n))
  <2>1. CASE n = 0
    BY <2>1, CutOff DEF DE
  <2>2. CASE n \in 1 .. Len(s)
    <3>1. E(Tail(s)) /\ Tail(s) \in Seq(S) /\ n - 1 \in 0 .. Len(Tail(s))
      BY <1>2, <2>2, CutOff DEF DE
    <3>2. E(SubSeq(Tail(s), 1, n - 1))
      BY <1>1, <3>1
    <3>3. Starts(s, {"def", "row"})
      BY <1>2, <2>2, CutOff DEF DE
    <3>4. /\ Starts(SubSeq(s, 1, n), {"def", "row"})
          /\ Tail(SubSeq(s, 1, n)) = SubSeq(Tail(s), 1, n - 1)
      BY <2>2, <3>3, CutOff
    <3>5. QED
      BY <3>2, <3>4 DEF DE
  <2>3. QED
    BY <2>1, <2>2, CutOff
<1>3. ASSUME NEW s \in Seq(S), NEW n \in 0 .. Len(s), EDE(s)
      PROVE  EDE(SubSeq(s, 1, n))
  <2>1. CASE n = 0
    BY <2>1, CutOff DEF EDE
  <2>2. CASE n \in 1 .. Len(s)
    <3>1. DE(Tail(s)) /\ Tail(s) \in Seq(S) /\ n - 1 \in 0 .. Len(Tail(s))
      BY <1>3, <2>2, CutOff DEF EDE
    <3>2. DE(SubSeq(Tail(s), 1, n - 1))
      BY <1>2, <3>1
    <3>3. Starts(s, {"eof"})
      BY <1>3, <2>2, CutOff DEF EDE
    <3>4. /\ Starts(SubSeq(s, 1, n), {"eof"})
          /\ Tail(SubSeq(s, 1, n)) = SubSeq(Tail(s), 1, n - 1)
      BY <2>2, <3>3, CutOff
    <3>5. QED
      BY <3>2, <3>4 DEF EDE
  <2>3. QED
    BY <2>1, <2>2, CutOff
<1>4. ASSUME NEW s \in Seq(S), NEW n \in 0 .. Len(s), DEDE(s)
      PROVE  DEDE(SubSeq(s, 1, n))
  <2>1. CASE n = 0
    BY <2>1, CutOff DEF DEDE
  <2>2. CASE n \in 1 .. Len(s)
    <3>1. EDE(Tail(s)) /\ Tail(s) \in Seq(S) /\ n - 1 \in 0 .. Len(Tail(s))
      BY <1>4, <2>2, CutOff DEF DEDE
    <3>2. EDE(SubSeq(Tail(s), 1, n - 1))
      BY <1>3, <3>1
    <3>3. Starts(s, {"def", "row"})
      BY <1>4, <2>2, CutOff DEF DEDE
    <3>4. /\ Starts(SubSeq(s, 1, n), {"def", "row"})
          /\ Tail(SubSeq(s, 1, n)) = SubSeq(Tail(s), 1, n - 1)
      BY <2>2, <3>3, CutOff
    <3>5. QED
      BY <3>2, <3>4 DEF DEDE
  <2>3. QED
    BY <2>1, <2>2, CutOff
<1>5. QED
  BY <1>1, <1>2, <1>3, <1>4

LEMMA ResultCut ==
  ASSUME NEW S, NEW s \in Seq(S), NEW n \in 0 .. Len(s), Result(s)
  PROVE  Result(SubSeq(s, 1, n))
<1>1. CASE n = 0
  BY <1>1, CutOff, Empty
<1>2. CASE Alone(s, {"ok", "err"})
  BY <1>2, AloneCut DEF Result
<1>3. CASE /\ n \in 1 .. Len(s)
           /\ Starts(s, {"columns"}) /\ DEDE(Tail(s))
  <2>1. DEDE(SubSeq(Tail(s), 1, n - 1))
    BY <1>3, CutOff, ListsCut
  <2>2. /\ Starts(SubSeq(s, 1, n), {"columns"})
        /\ Tail(SubSeq(s, 1, n)) = SubSeq(Tail(s), 1, n - 1)
    BY <1>3, CutOff
  <2>3. QED
    BY <2>1, <2>2 DEF Result
<1>4. QED
  BY <1>1, <1>2, <1>3, CutOff DEF Result

LEMMA StatementCut ==
  ASSUME NEW S, NEW s \in Seq(S), NEW n \in 0 .. Len(s), Statement(s)
  PROVE  Statement(SubSeq(s, 1, n))
<1>1. CASE n = 0
  BY <1>1, CutOff, Empty
<1>2. CASE Alone(s, {"err"})
  BY <1>2, AloneCut DEF Statement
<1>3. CASE n \in 1 .. Len(s) /\ Starts(s, {"prepared"})
  <2>1. /\ Starts(SubSeq(s, 1, n), {"prepared"})
        /\ Tail(SubSeq(s, 1, n)) = SubSeq(Tail(s), 1, n - 1)
        /\ SubSeq(s, 1, n)[1] = s[1]
    BY <1>3, CutOff
  <2>2. Tail(s) \in Seq(S) /\ n - 1 \in 0 .. Len(Tail(s))
    BY <1>3, CutOff
  <2>3. CASE s[1].defs = 1 /\ DE(Tail(s))
    <3>1. DE(SubSeq(Tail(s), 1, n - 1))
      BY <2>2, <2>3, ListsCut
    <3>2. QED
      BY <2>1, <2>3, <3>1 DEF Statement
  <2>4. CASE s[1].defs = 2 /\ DEDE(Tail(s))
    <3>1. DEDE(SubSeq(Tail(s), 1, n - 1))
      BY <2>2, <2>4, ListsCut
    <3>2. QED
      BY <2>1, <2>4, <3>1 DEF Statement
  <2>5. CASE Alone(s, {"err"})
    BY <2>5, AloneCut DEF Statement
  <2>6. QED
    BY <2>3, <2>4, <2>5 DEF Statement
<1>4. QED
  BY <1>1, <1>2, <1>3, CutOff DEF Statement

LEMMA LastRowsCut ==
  ASSUME NEW S, NEW s \in Seq(S), NEW n \in 0 .. Len(s), LastRows(s)
  PROVE  LastRows(SubSeq(s, 1, n))
<1> DEFINE p == SubSeq(s, 1, n)
<1>1. Len(p) = n /\ \A i \in 1 .. n : p[i] = s[i] /\ i \in 1 .. Len(s)
  OBVIOUS
<1>2. n \in Nat /\ Len(s) \in Nat /\ n =< Len(s)
  OBVIOUS
<1> HIDE DEF p
<1>3. \A i \in 1 .. Len(p) :
        \/ p[i].kind \in {"row", "empty"}
        \/ p[i].kind \in {"eof", "err"} /\ ~p[i].more /\ ~p[i].full
           /\ i = Len(p)
  BY <1>1, <1>2 DEF LastRows
<1>4. QED
  BY <1>3 DEF LastRows, p

LEMMA RowsCut ==
  ASSUME NEW S, NEW s \in Seq(S), NEW n \in 0 .. Len(s)
  PROVE  /\ EndAndMore(s) => EndAndMore(SubSeq(s, 1, n))
         /\ RowAndMore(s) => RowAndMore(SubSeq(s, 1, n))
         /\ Rows(s) => Rows(SubSeq(s, 1, n))
<1>1. ASSUME NEW t \in Seq(S), NEW m \in 0 .. Len(t), EndAndMore(t)
      PROVE  EndAndMore(SubSeq(t, 1, m))
  <2>1. CASE m = 0
    BY <2>1, CutOff, Empty
  <2>2. CASE m \in 1 .. Len(t)
    <3>1. Starts(t, {"eof"}) /\ t[1].more /\ Result(Tail(t))
      BY <1>1, <2>2, CutOff DEF EndAndMore
    <3>2. Result(SubSeq(Tail(t), 1, m - 1))
      BY <2>2, <3>1, CutOff, ResultCut
    <3>3. /\ Starts(SubSeq(t, 1, m), {"eof"}) /\ SubSeq(t, 1, m)[1] = t[1]
          /\ Tail(SubSeq(t, 1, m)) = SubSeq(Tail(t), 1, m - 1)
      BY <2>2, <3>1, CutOff
    <3>4. QED
      BY <3>1, <3>2, <3>3 DEF EndAndMore
  <2>3. QED
    BY <2>1, <2>2, CutOff
<1>2. ASSUME RowAndMore(s) PROVE RowAndMore(SubSeq(s, 1, n))
  <2>1. CASE n = 0
    BY <2>1, CutOff, Empty
  <2>2. CASE n \in 1 .. Len(s)
    <3>1. Starts(s, {"row"}) /\ EndAndMore(Tail(s))
      BY <1>2, <2>2, CutOff DEF RowAndMore
    <3>2. EndAndMore(SubSeq(Tail(s), 1, n - 1))
      BY <1>1, <2>2, <3>1, CutOff
    <3>3. /\ Starts(SubSeq(s, 1, n), {"row"})
          /\ Tail(SubSeq(s, 1, n)) = SubSeq(Tail(s), 1, n - 1)
      BY <2>2, <3>1, CutOff
    <3>4. QED
      BY <3>1, <3>2, <3>3 DEF RowAndMore
  <2>3. QED
    BY <2>1, <2>2, CutOff
<1>3. QED
  BY <1>1, <1>2, LastRowsCut DEF Rows

LEMMA ColumnsCut ==
  ASSUME NEW S, NEW s \in Seq(S), NEW n \in 0 .. Len(s)
  PROVE  /\ EndOfColumns(s) => EndOfColumns(SubSeq(s, 1, n))
         /\ Columns(s) => Columns(SubSeq(s, 1, n))
<1>1. ASSUME NEW t \in Seq(S), NEW m \in 0 .. Len(t), EndOfColumns(t)
      PROVE  EndOfColumns(SubSeq(t, 1, m))
  <2>1. CASE m = 0
    BY <2>1, CutOff, Empty
  <2>2. CASE m \in 1 .. Len(t)
    <3>1. Starts(t, {"eof"}) /\ (LastRows(Tail(t)) \/ RowAndMore(Tail(t)))
      BY <1>1, <2>2, CutOff DEF EndOfColumns
    <3>2. /\ Tail(t) \in Seq(S) /\ m - 1 \in 0 .. Len(Tail(t))
      BY <2>2, CutOff
    <3>3. \/ LastRows(SubSeq(Tail(t), 1, m - 1))
          \/ RowAndMore(SubSeq(Tail(t), 1, m - 1))
      BY <3>1, <3>2, LastRowsCut, RowsCut
    <3>4. /\ Starts(SubSeq(t, 1, m), {"eof"})
          /\ Tail(SubSeq(t, 1, m)) = SubSeq(Tail(t), 1, m - 1)
      BY <2>2, <3>1, CutOff
    <3>5. QED
      BY <3>3, <3>4 DEF EndOfColumns
  <2>3. QED
    BY <2>1, <2>2, CutOff
<1>2. ASSUME Columns(s) PROVE Columns(SubSeq(s, 1, n))
  <2>1. CASE n = 0
    BY <2>1, CutOff, Empty
  <2>2. CASE n \in 1 .. Len(s)
    <3>1. Starts(s, {"def"}) /\ EndOfColumns(Tail(s))
      BY <1>2, <2>2, CutOff DEF Columns
    <3>2. EndOfColumns(SubSeq(Tail(s), 1, n - 1))
      BY <1>1, <2>2, <3>1, CutOff
    <3>3. /\ Starts(SubSeq(s, 1, n), {"def"})
          /\ Tail(SubSeq(s, 1, n)) = SubSeq(Tail(s), 1, n - 1)
      BY <2>2, <3>1, CutOff
    <3>4. QED
      BY <3>1, <3>2, <3>3 DEF Columns
  <2>3. QED
    BY <2>1, <2>2, CutOff
<1>3. QED
  BY <1>1, <1>2

LEMMA QueryAnswerCut ==
  ASSUME NEW S, NEW s \in Seq(S), NEW n \in 0 .. Len(s), QueryAnswer(s)
  PROVE  QueryAnswer(SubSeq(s, 1, n))
<1>1. CASE n = 0
  BY <1>1, CutOff, Empty
<1>2. CASE Alone(s, {"ok", "err"})
  BY <1>2, AloneCut DEF QueryAnswer
<1>3. CASE /\ n \in 1 .. Len(s)
           /\ Starts(s, {"ok"}) /\ s[1].more /\ Result(Tail(s))
  <2>1. Result(SubSeq(Tail(s), 1, n - 1))
    BY <1>3, CutOff, ResultCut
  <2>2. /\ Starts(SubSeq(s, 1, n), {"ok"}) /\ SubSeq(s, 1, n)[1] = s[1]
        /\ Tail(SubSeq(s, 1, n)) = SubSeq(Tail(s), 1, n - 1)
    BY <1>3, CutOff
  <2>3. QED
    BY <1>3, <2>1, <2>2 DEF QueryAnswer
<1>4. CASE /\ n \in 1 .. Len(s)
           /\ Starts(s, {"columns"}) /\ Columns(Tail(s))
  <2>1. Columns(SubSeq(Tail(s), 1, n - 1))
    BY <1>4, CutOff, ColumnsCut
  <2>2. /\ Starts(SubSeq(s, 1, n), {"columns"})
        /\ Tail(SubSeq(s, 1, n)) = SubSeq(Tail(s), 1, n - 1)
    BY <1>4, CutOff
  <2>3. QED
    BY <2>1, <2>2 DEF QueryAnswer
<1>5. QED
  BY <1>1, <1>2, <1>3, <1>4, CutOff DEF QueryAnswer

------------------------------------------------------------------------------
(* What a call does next, and what is left to do then.                     *)

LEMMA OpenScripts ==
  /\ Head(ToInit) = "init" /\ Tail(ToInit) = ToAuth
  /\ Head(ToAuth) = "auth" /\ Tail(ToAuth) = ToAuthResult
  /\ Head(ToOldAuth) = "oldAuth" /\ Tail(ToOldAuth) = ToAuthResult
  /\ Head(ToAuthResult) = "authResult" /\ Tail(ToAuthResult) = ToVar
  /\ Head(ToVar) = "var" /\ Tail(ToVar) = ToVarHeader
  /\ Head(ToVarHeader) = "varHeader" /\ Tail(ToVarHeader) = ToCharset
  /\ Head(ToVarColumns) = "eof" /\ Tail(ToVarColumns) = ToVarRow
  /\ Head(ToVarRow) = "varRow" /\ Tail(ToVarRow) = ToEndVar
  /\ Head(ToEndVar) = "eof" /\ Tail(ToEndVar) = ToCharset
  /\ Head(ToCharset) = "charset" /\ Tail(ToCharset) = ToExecHeader
<1>1. Head(ToInit) = "init" /\ Tail(ToInit) = ToAuth
  BY DEF ToInit, ToAuth
<1>2. Head(ToAuth) = "auth" /\ Tail(ToAuth) = ToAuthResult
  BY DEF ToAuth, ToAuthResult
<1>3. Head(ToOldAuth) = "oldAuth" /\ Tail(ToOldAuth) = ToAuthResult
  BY DEF ToOldAuth, ToAuthResult
<1>4. Head(ToAuthResult) = "authResult" /\ Tail(ToAuthResult) = ToVar
  BY DEF ToAuthResult, ToVar
<1>5. Head(ToVar) = "var" /\ Tail(ToVar) = ToVarHeader
  BY DEF ToVar, ToVarHeader
<1>6. Head(ToVarHeader) = "varHeader" /\ Tail(ToVarHeader) = ToCharset
  BY DEF ToVarHeader, ToCharset
<1>7. Head(ToVarColumns) = "eof" /\ Tail(ToVarColumns) = ToVarRow
  BY DEF ToVarColumns, ToVarRow
<1>8. Head(ToVarRow) = "varRow" /\ Tail(ToVarRow) = ToEndVar
  BY DEF ToVarRow, ToEndVar
<1>9. Head(ToEndVar) = "eof" /\ Tail(ToEndVar) = ToCharset
  BY DEF ToEndVar, ToCharset
<1>10. Head(ToCharset) = "charset" /\ Tail(ToCharset) = ToExecHeader
  BY DEF ToCharset, ToExecHeader
<1>11. QED
  BY <1>1, <1>2, <1>3, <1>4, <1>5, <1>6, <1>7, <1>8, <1>9, <1>10

LEMMA OtherScripts ==
  /\ Head(ToExecHeader) = "execHeader" /\ Tail(ToExecHeader) = << >>
  /\ Head(ToPrepare) = "prepare" /\ Tail(ToPrepare) = ToPrepared
  /\ Head(ToPrepared) = "prepared" /\ Tail(ToPrepared) = << >>
  /\ Head(ToExec) = "exec" /\ Tail(ToExec) = ToExecHeader
  /\ Head(ToEof) = "eof" /\ Tail(ToEof) = << >>
  /\ Head(ToEofs) = "eof" /\ Tail(ToEofs) = ToEof
  /\ Head(ToQuery) = "query" /\ Tail(ToQuery) = ToQueryHeader
  /\ Head(ToQueryHeader) = "queryHeader" /\ Tail(ToQueryHeader) = << >>
  /\ Head(ToColumns) = "columns" /\ Tail(ToColumns) = << >>
  /\ Head(ToMore) = "moreHeader" /\ Tail(ToMore) = <<"discard">>
  /\ Head(ToMoreLists) = "eof" /\ Tail(ToMoreLists) = ToDiscard
  /\ Head(ToDiscard) = "eof" /\ Tail(ToDiscard) = <<"discard">>
  /\ Head(ToRow) = "row" /\ Tail(ToRow) = << >>
<1>1. \A a : Head(<<a>>) = a /\ Tail(<<a>>) = << >>
  OBVIOUS
<1>2. \A a, b : Head(<<a, b>>) = a /\ Tail(<<a, b>>) = <<b>>
  OBVIOUS
<1>3. \A a, b, c : Head(<<a, b, c>>) = a /\ Tail(<<a, b, c>>) = <<b, c>>
  OBVIOUS
<1>4. QED
  BY <1>1, <1>2, <1>3, Zenon
  DEF ToExecHeader, ToPrepare, ToPrepared, ToExec, ToEof, ToEofs, ToQuery,
      ToQueryHeader, ToColumns, ToMore, ToMoreLists, ToDiscard, ToRow

\* No call that is in progress has nothing to do.
LEMMA SomethingToDo ==
  /\ ToInit # << >> /\ ToAuth # << >> /\ ToOldAuth # << >>
  /\ ToAuthResult # << >> /\ ToVar # << >> /\ ToVarHeader # << >>
  /\ ToVarColumns # << >> /\ ToVarRow # << >> /\ ToEndVar # << >>
  /\ ToCharset # << >> /\ ToExecHeader # << >> /\ ToPrepare # << >>
  /\ ToPrepared # << >> /\ ToExec # << >> /\ ToEof # << >> /\ ToEofs # << >>
  /\ ToQuery # << >> /\ ToQueryHeader # << >> /\ ToColumns # << >>
  /\ ToMore # << >> /\ ToMoreLists # << >> /\ ToDiscard # << >>
  /\ ToRow # << >>
<1>1. /\ \A a : <<a>> # << >>
      /\ \A a, b : <<a, b>> # << >>
      /\ \A a, b, c : <<a, b, c>> # << >>
      /\ \A a, b, c, d : <<a, b, c, d>> # << >>
      /\ \A a, b, c, d, e : <<a, b, c, d, e>> # << >>
      /\ \A a, b, c, d, e, f : <<a, b, c, d, e, f>> # << >>
      /\ \A a, b, c, d, e, f, g : <<a, b, c, d, e, f, g>> # << >>
  OBVIOUS
<1>2. QED
  BY <1>1, Zenon
  DEF ToInit, ToAuth, ToOldAuth, ToAuthResult, ToVar, ToVarHeader,
      ToVarColumns, ToVarRow, ToEndVar, ToCharset, ToExecHeader, ToPrepare,
      ToPrepared, ToExec, ToEof, ToEofs, ToQuery, ToQueryHeader, ToColumns,
      ToMore, ToMoreLists, ToDiscard, ToRow

LEMMA Rejoined ==
  ASSUME NEW S, NEW s \in Seq(S), s # << >>
  PROVE  <<Head(s)>> \o Tail(s) = s
<1> DEFINE w == <<Head(s)>> \o Tail(s)
           t == Tail(s)
<1>1. /\ Head(s) \in S /\ t \in Seq(S) /\ Len(s) \in Nat \ {0}
      /\ Head(s) = s[1] /\ Len(t) = Len(s) - 1
      /\ \A i \in 1 .. Len(s) - 1 : t[i] = s[i + 1]
  BY Parts
<1> HIDE DEF t
<1>2. <<Head(s)>> \in Seq(S) /\ Len(<<Head(s)>>) = 1
      /\ <<Head(s)>>[1] = s[1]
  BY <1>1
<1> DEFINE h == <<Head(s)>>
           v == h \o t
<1>3. h \in Seq(S) /\ Len(h) = 1 /\ h[1] = s[1]
  BY <1>2
<1> HIDE DEF h
<1>4. /\ v \in Seq(S) /\ Len(v) = Len(s)
      /\ v[1] = s[1]
      /\ \A i \in 2 .. Len(s) : v[i] = t[i - 1]
  <2>1. /\ v \in Seq(S) /\ Len(v) = Len(h) + Len(t)
        /\ \A i \in 1 .. Len(h) + Len(t) :
             v[i] = IF i =< Len(h) THEN h[i] ELSE t[i - Len(h)]
    BY <1>1, <1>3, ConcatProperties
  <2> HIDE DEF v
  <2>2. QED
    BY <1>1, <1>3, <2>1
<1>5. \A i \in 2 .. Len(s) : t[i - 1] = s[i]
  <2>1. SUFFICES ASSUME NEW i \in 2 .. Len(s) PROVE t[i - 1] = s[i]
    OBVIOUS
  <2>2. i - 1 \in 1 .. Len(s) - 1 /\ (i - 1) + 1 = i
    BY <1>1
  <2>3. QED
    BY <1>1, <2>2
<1> HIDE DEF v
<1>6. \A i \in 1 .. Len(s) : v[i] = s[i]
  BY <1>1, <1>4, <1>5
<1>7. v = s
  BY <1>4, <1>6, SeqEqual
<1>8. QED
  BY <1>7 DEF v, h, t

LEMMA ScriptsTyped ==
  /\ ToVarColumns \in Seq(Task)
  /\ ToVarRow \in Seq(Task)
  /\ ToEndVar \in Seq(Task)
  /\ ToVar \in Seq(Task)
  /\ ToCharset \in Seq(Task)
  /\ ToAuthResult \in Seq(Task)
  /\ ToOldAuth \in Seq(Task)
  /\ ToEof \in Seq(Task)
  /\ ToEofs \in Seq(Task)
  /\ ToMoreLists \in Seq(Task)
  /\ ToDiscard \in Seq(Task)
<1>0. /\ {"eof", "authResult", "varHeader", "varRow", "execHeader", "discard",
         "oldAuth", "var", "charset"} \subseteq Task
      /\ \A a, b, c, d, e, f \in Task : <<a, b, c, d, e, f>> \in Seq(Task)
  <2>1. {"eof", "authResult", "varHeader", "varRow", "execHeader", "discard"}
          \subseteq ReadTask
    BY DEF ReadTask
  <2>2. QED
    BY <2>1, TasksTyped
<1>1. ToVarColumns \in Seq(Task)
  BY <1>0, TasksTyped, Tuples DEF ToVarColumns
<1>2. ToVarRow \in Seq(Task)
  BY <1>0, TasksTyped, Tuples DEF ToVarRow
<1>3. ToEndVar \in Seq(Task)
  BY <1>0, TasksTyped, Tuples DEF ToEndVar
<1>4. ToVar \in Seq(Task)
  BY <1>0, TasksTyped, Tuples DEF ToVar
<1>5. ToCharset \in Seq(Task)
  BY <1>0, TasksTyped, Tuples DEF ToCharset
<1>6. ToAuthResult \in Seq(Task)
  BY <1>0, TasksTyped, Tuples DEF ToAuthResult
<1>7. ToOldAuth \in Seq(Task)
  BY <1>0, TasksTyped, Tuples DEF ToOldAuth
<1>8. ToEof \in Seq(Task)
  BY <1>0, TasksTyped, Tuples DEF ToEof
<1>9. ToEofs \in Seq(Task)
  BY <1>0, TasksTyped, Tuples DEF ToEofs
<1>10. ToMoreLists \in Seq(Task)
  BY <1>0, TasksTyped, Tuples DEF ToMoreLists
<1>11. ToDiscard \in Seq(Task)
  BY <1>0, TasksTyped, Tuples DEF ToDiscard
<1>12. QED
  BY <1>1, <1>2, <1>3, <1>4, <1>5, <1>6, <1>7, <1>8, <1>9, <1>10, <1>11

\* The tasks that a packet adds to them.
LEMMA Added ==
  /\ <<"eof">> \o ToVarRow = ToVarColumns
  /\ <<"eof">> \o ToCharset = ToEndVar
  /\ <<"eof">> \o << >> = ToEof
  /\ <<"eof">> \o ToEof = ToEofs
  /\ <<"eof">> \o ToDiscard = ToMoreLists
  /\ <<"eof">> \o <<"discard">> = ToDiscard
<1>1. /\ ToVarColumns \in Seq(Task) /\ ToEndVar \in Seq(Task)
      /\ ToEof \in Seq(Task) /\ ToEofs \in Seq(Task)
      /\ ToMoreLists \in Seq(Task) /\ ToDiscard \in Seq(Task)
  BY ScriptsTyped
<1>2. <<"eof">> \o ToVarRow = ToVarColumns
  BY <1>1, OpenScripts, SomethingToDo, Rejoined, Zenon
<1>3. <<"eof">> \o ToCharset = ToEndVar
  BY <1>1, OpenScripts, SomethingToDo, Rejoined, Zenon
<1>4. <<"eof">> \o << >> = ToEof
  BY <1>1, OtherScripts, SomethingToDo, Rejoined, Zenon
<1>5. <<"eof">> \o ToEof = ToEofs
  BY <1>1, OtherScripts, SomethingToDo, Rejoined, Zenon
<1>6. <<"eof">> \o ToDiscard = ToMoreLists
  BY <1>1, OtherScripts, SomethingToDo, Rejoined, Zenon
<1>7. <<"eof">> \o <<"discard">> = ToDiscard
  BY <1>1, OtherScripts, SomethingToDo, Rejoined, Zenon
<1>8. QED
  BY <1>2, <1>3, <1>4, <1>5, <1>6, <1>7

LEMMA TwoBehind ==
  ASSUME NEW S, NEW a \in S, NEW b \in S, NEW s \in Seq(S)
  PROVE  <<a, b>> \o s = <<a>> \o (<<b>> \o s)
<1>1. <<a, b>> = <<a>> \o <<b>>
  <2>1. /\ <<a, b>> \in Seq(S) /\ <<a, b>> # << >>
        /\ Head(<<a, b>>) = a /\ Tail(<<a, b>>) = <<b>>
    OBVIOUS
  <2>2. QED
    BY <2>1, Rejoined, Zenon
<1>2. <<a>> \in Seq(S) /\ <<b>> \in Seq(S)
  OBVIOUS
<1> DEFINE x == <<a>>
           y == <<b>>
           z == <<a, b>>
<1>3. x \in Seq(S) /\ y \in Seq(S) /\ z = x \o y
  BY <1>1, <1>2
<1> HIDE DEF x, y, z
<1>4. z \o s = x \o (y \o s)
  BY <1>3, ConcatAssociative
<1>5. QED
  BY <1>4 DEF x, y, z

LEMMA ThreeBehind ==
  \A s \in Seq(Task) : \A a, b, c \in Task :
    <<a, b, c>> \o s = <<a>> \o (<<b>> \o (<<c>> \o s))
<1> DEFINE S == Task
<1> SUFFICES ASSUME NEW s \in Seq(S), NEW a \in S, NEW b \in S, NEW c \in S
             PROVE  <<a, b, c>> \o s = <<a>> \o (<<b>> \o (<<c>> \o s))
  OBVIOUS
<1> HIDE DEF S
<1>1. <<a, b, c>> = <<a>> \o <<b, c>>
  <2>1. /\ <<a, b, c>> \in Seq(S) /\ <<a, b, c>> # << >>
        /\ Head(<<a, b, c>>) = a /\ Tail(<<a, b, c>>) = <<b, c>>
    OBVIOUS
  <2>2. QED
    BY <2>1, Rejoined, Zenon
<1>2. <<a>> \in Seq(S) /\ <<b, c>> \in Seq(S)
  OBVIOUS
<1> DEFINE x == <<a>>
           y == <<b, c>>
           z == <<a, b, c>>
           w == <<b>> \o (<<c>> \o s)
<1>3. x \in Seq(S) /\ y \in Seq(S) /\ z = x \o y
  BY <1>1, <1>2
<1>4. y \o s = w
  BY TwoBehind
<1> HIDE DEF x, y, z, w
<1>5. z \o s = x \o (y \o s)
  BY <1>3, ConcatAssociative
<1>6. QED
  BY <1>4, <1>5 DEF x, y, z, w

LEMMA AddedAtOnce ==
  /\ <<"oldAuth", "authResult">> \o ToVar = ToOldAuth
  /\ <<"eof", "varRow", "eof">> \o ToCharset = ToVarColumns
<1>1. {"oldAuth", "authResult", "eof", "varRow"} \subseteq Task
  BY TasksTyped DEF ReadTask
<1>2. <<"oldAuth", "authResult">> \o ToVar = ToOldAuth
  <2>1. <<"oldAuth", "authResult">> \o ToVar
        = <<"oldAuth">> \o (<<"authResult">> \o ToVar)
    <3>1. \A a, b \in Task : <<a, b>> \o ToVar = <<a>> \o (<<b>> \o ToVar)
      <4>1. ToVar \in Seq(Task)
        BY ScriptsTyped
      <4>2. ASSUME NEW a \in Task, NEW b \in Task
            PROVE  <<a, b>> \o ToVar = <<a>> \o (<<b>> \o ToVar)
        BY <4>1, TwoBehind
      <4>3. QED
        BY <4>2
    <3>2. "oldAuth" \in Task /\ "authResult" \in Task
      BY <1>1
    <3>3. QED
      BY <3>1, <3>2, Zenon
  <2>2. <<"authResult">> \o ToVar = ToAuthResult
    BY ScriptsTyped, OpenScripts, SomethingToDo, Rejoined, Zenon
  <2>3. <<"oldAuth">> \o ToAuthResult = ToOldAuth
    BY ScriptsTyped, OpenScripts, SomethingToDo, Rejoined, Zenon
  <2>4. QED
    BY <2>1, <2>2, <2>3, Zenon
<1>3. <<"eof", "varRow", "eof">> \o ToCharset = ToVarColumns
  <2>1. <<"eof", "varRow", "eof">> \o ToCharset
        = <<"eof">> \o (<<"varRow">> \o (<<"eof">> \o ToCharset))
    <3>1. \A a, b, c \in Task : <<a, b, c>> \o ToCharset
                             = <<a>> \o (<<b>> \o (<<c>> \o ToCharset))
      <4>1. ToCharset \in Seq(Task)
        BY ScriptsTyped
      <4>2. QED
        BY <4>1, ThreeBehind, Zenon
    <3>2. "eof" \in Task /\ "varRow" \in Task
      BY <1>1
    <3>3. QED
      BY <3>1, <3>2, Zenon
  <2>2. <<"eof">> \o ToCharset = ToEndVar
    BY ScriptsTyped, OpenScripts, SomethingToDo, Rejoined, Zenon
  <2>3. <<"varRow">> \o ToEndVar = ToVarRow
    BY ScriptsTyped, OpenScripts, SomethingToDo, Rejoined, Zenon
  <2>4. <<"eof">> \o ToVarRow = ToVarColumns
    BY ScriptsTyped, OpenScripts, SomethingToDo, Rejoined, Zenon
  <2>5. QED
    BY <2>1, <2>2, <2>3, <2>4, Zenon
<1>4. QED
  BY <1>2, <1>3

\* Discarding goes on after the last list of a result only.
LEMMA NotDiscard ==
  /\ << >> # <<"discard">> /\ ToCharset # <<"discard">>
  /\ ToVarRow # <<"discard">> /\ ToEof # <<"discard">>
  /\ ToDiscard # <<"discard">>
<1>1. \A a : << >> # <<a>>
  OBVIOUS
<1>2. \A a, b, c : <<a, b>> # <<c>>
  OBVIOUS
<1>3. \A a, b, c, d, e : <<a, b, c, d>> # <<e>>
  OBVIOUS
<1>4. \A a, b : <<a>> = <<b>> => a = b
  OBVIOUS
<1>5. "eof" # "discard"
  OBVIOUS
<1>6. QED
  BY <1>1, <1>2, <1>3, <1>4, <1>5, Zenon
  DEF ToCharset, ToVarRow, ToEof, ToDiscard

------------------------------------------------------------------------------
(* What is left of an answer after a packet.                               *)

LEMMA FirstTasks ==
  ASSUME NEW p, NEW rest, NEW new
  PROVE  /\ GoesOn("init", p, rest, new) => p.kind = "init" /\ new = rest
         /\ GoesOn("authResult", p, rest, new) =>
              \/ p.kind = "ok" /\ new = rest
              \/ p.kind = "oldAuth" /\ new = <<"oldAuth", "authResult">> \o rest
         /\ GoesOn("varHeader", p, rest, new) =>
              p.kind = "columns" /\ new = <<"eof", "varRow", "eof">> \o rest
         /\ GoesOn("varRow", p, rest, new) => p.kind = "row" /\ new = rest
         /\ GoesOn("prepared", p, rest, new) =>
              p.kind = "prepared" /\ new = Definitions(p)
<1>1. GoesOn("init", p, rest, new) => p.kind = "init" /\ new = rest
  BY DEF GoesOn
<1>2. GoesOn("authResult", p, rest, new) =>
        \/ p.kind = "ok" /\ new = rest
        \/ p.kind = "oldAuth" /\ new = <<"oldAuth", "authResult">> \o rest
  BY DEF GoesOn
<1>3. GoesOn("varHeader", p, rest, new) =>
        p.kind = "columns" /\ new = <<"eof", "varRow", "eof">> \o rest
  BY DEF GoesOn
<1>4. GoesOn("varRow", p, rest, new) => p.kind = "row" /\ new = rest
  BY DEF GoesOn
<1>5. GoesOn("prepared", p, rest, new) =>
        p.kind = "prepared" /\ new = Definitions(p)
  BY DEF GoesOn
<1>6. QED
  BY <1>1, <1>2, <1>3, <1>4, <1>5

LEMMA ResultTasks ==
  ASSUME NEW p, NEW rest, NEW new
  PROVE  /\ GoesOn("execHeader", p, rest, new) =>
              \/ p.kind = "ok" /\ new = Discard(p.more)
              \/ p.kind = "columns" /\ new = ToEofs
         /\ GoesOn("queryHeader", p, rest, new) =>
              \/ p.kind = "ok" /\ new = Discard(p.more)
              \/ p.kind = "columns" /\ new = ToColumns
         /\ GoesOn("moreHeader", p, rest, new) =>
              \/ p.kind = "ok" /\ new = Discard(p.more)
              \/ p.kind = "columns" /\ new = ToMoreLists
         /\ GoesOn("columns", p, rest, new) =>
              \/ p.kind = "def" /\ new = ToColumns
              \/ p.kind = "eof" /\ new = << >>
         /\ GoesOn("eof", p, rest, new) =>
              \/ p.kind # "eof" /\ new = <<"eof">> \o rest
              \/ p.kind = "eof" /\ new = AfterEof(p, rest)
         /\ GoesOn("row", p, rest, new) =>
              \/ p.kind = "row" /\ new = << >>
              \/ p.kind = "eof" /\ new = Discard(p.more)
<1>1. GoesOn("execHeader", p, rest, new) =>
        \/ p.kind = "ok" /\ new = Discard(p.more)
        \/ p.kind = "columns" /\ new = ToEofs
  BY DEF GoesOn, ToEofs
<1>2. GoesOn("queryHeader", p, rest, new) =>
        \/ p.kind = "ok" /\ new = Discard(p.more)
        \/ p.kind = "columns" /\ new = ToColumns
  BY DEF GoesOn, ToColumns
<1>3. GoesOn("moreHeader", p, rest, new) =>
        \/ p.kind = "ok" /\ new = Discard(p.more)
        \/ p.kind = "columns" /\ new = ToMoreLists
  BY DEF GoesOn, ToMoreLists
<1>4. GoesOn("columns", p, rest, new) =>
        \/ p.kind = "def" /\ new = ToColumns
        \/ p.kind = "eof" /\ new = << >>
  BY DEF GoesOn, ToColumns
<1>5. GoesOn("eof", p, rest, new) =>
        \/ p.kind # "eof" /\ new = <<"eof">> \o rest
        \/ p.kind = "eof" /\ new = AfterEof(p, rest)
  BY DEF GoesOn
<1>6. GoesOn("row", p, rest, new) =>
        \/ p.kind = "row" /\ new = << >>
        \/ p.kind = "eof" /\ new = Discard(p.more)
  BY DEF GoesOn
<1>7. QED
  BY <1>1, <1>2, <1>3, <1>4, <1>5, <1>6

LEMMA EndsAre ==
  /\ \A p : Discard(p.more) = IF p.more THEN ToMore ELSE << >>
  /\ \A p : AfterEof(p, <<"discard">>) = Discard(p.more)
  /\ \A p : \A rest \in {<< >>, ToCharset, ToVarRow, ToEof, ToDiscard} :
       AfterEof(p, rest) = rest
<1>1. \A p : Discard(p.more) = IF p.more THEN ToMore ELSE << >>
  BY DEF Discard, ToMore
<1>2. \A p : AfterEof(p, <<"discard">>) = Discard(p.more)
  BY DEF AfterEof
<1>3. \A p : \A rest : rest # <<"discard">> => AfterEof(p, rest) = rest
  BY DEF AfterEof
<1>4. \A p : \A rest \in {<< >>, ToCharset, ToVarRow, ToEof, ToDiscard} :
        AfterEof(p, rest) = rest
  BY <1>3, NotDiscard, Zenon
<1>5. QED
  BY <1>1, <1>2, <1>4

LEMMA DefinitionsAre ==
  ASSUME NEW p
  PROVE  /\ p.defs = 1 => Definitions(p) = ToEof
         /\ p.defs = 2 => Definitions(p) = ToEofs
<1>1. ASSUME p.defs = 1 PROVE Definitions(p) = ToEof
  <2>1. Definitions(p) = [i \in 1 .. 1 |-> "eof"]
    BY <1>1 DEF Definitions
  <2>2. QED
    BY <2>1 DEF ToEof
<1>2. ASSUME p.defs = 2 PROVE Definitions(p) = ToEofs
  <2>1. Definitions(p) = [i \in 1 .. 2 |-> "eof"]
    BY <1>2 DEF Definitions
  <2>2. QED
    BY <2>1 DEF ToEofs
<1>3. QED
  BY <1>1, <1>2

\* The lists of definitions and rows that a call skips.
LEMMA ListRead ==
  ASSUME NEW s, s # << >>, s[1].kind # "eof"
  PROVE  /\ ~E(s) /\ ~EDE(s)
         /\ DE(s) => E(Tail(s))
         /\ DEDE(s) => EDE(Tail(s))
BY DEF E, DE, EDE, DEDE, Alone, Starts

LEMMA EndRead ==
  ASSUME NEW s, s # << >>, s[1].kind = "eof"
  PROVE  /\ ~DE(s) /\ ~DEDE(s)
         /\ E(s) => ~s[1].more /\ Tail(s) = << >>
         /\ EDE(s) => DE(Tail(s))
BY DEF E, DE, EDE, DEDE, Alone, Starts

LEMMA ResultRead ==
  ASSUME NEW s, s # << >>, Result(s)
  PROVE  /\ s[1].kind \in {"ok", "err"} => ~s[1].more /\ Tail(s) = << >>
         /\ s[1].kind = "columns" => DEDE(Tail(s))
         /\ s[1].kind \in {"ok", "err", "columns"} /\ ~s[1].full
BY DEF Result, Alone, Starts

LEMMA TailOf ==
  ASSUME NEW S, NEW s \in Seq(S), s # << >>
  PROVE  /\ Tail(s) \in Seq(S) /\ Len(s) \in Nat \ {0}
         /\ Len(Tail(s)) = Len(s) - 1
         /\ \A i \in 1 .. Len(Tail(s)) : Tail(s)[i] = s[i + 1]
         /\ \A i \in 1 .. Len(Tail(s)) : i + 1 \in 1 .. Len(s)
         /\ 1 \in 1 .. Len(s)
         /\ Len(s) = 1 => Tail(s) = << >>
<1>1. /\ Tail(s) \in Seq(S) /\ Len(s) \in Nat \ {0}
      /\ Len(Tail(s)) = Len(s) - 1
      /\ \A i \in 1 .. Len(s) - 1 : Tail(s)[i] = s[i + 1]
  BY Parts
<1> DEFINE t == Tail(s)
<1> HIDE DEF t
<1>2. t \in Seq(S) /\ Len(t) = Len(s) - 1
  BY <1>1 DEF t
<1>3. Len(s) = 1 => t = << >>
  BY <1>2
<1>4. QED
  BY <1>1, <1>3 DEF t

LEMMA RowsRead ==
  ASSUME NEW S, NEW s \in Seq(S), s # << >>, Rows(s)
  PROVE  /\ s[1].kind # "eof" => Rows(Tail(s))
         /\ s[1].kind = "eof" /\ ~s[1].more => Tail(s) = << >>
         /\ s[1].kind = "eof" /\ s[1].more => Result(Tail(s))
         /\ s[1].kind = "err" => Tail(s) = << >>
         /\ s[1].full => Rows(Tail(s))
<1> DEFINE t == Tail(s)
<1>1. CASE LastRows(s)
  <2>1. \/ s[1].kind \in {"row", "empty"}
        \/ s[1].kind \in {"eof", "err"} /\ ~s[1].more /\ ~s[1].full
           /\ 1 = Len(s)
    BY <1>1, TailOf DEF LastRows
  <2>2. LastRows(t)
    <3> SUFFICES ASSUME NEW i \in 1 .. Len(t)
                 PROVE  \/ t[i].kind \in {"row", "empty"}
                        \/ t[i].kind \in {"eof", "err"} /\ ~t[i].more
                           /\ ~t[i].full /\ i = Len(t)
      BY DEF LastRows
    <3>1. t[i] = s[i + 1] /\ i + 1 \in 1 .. Len(s) /\ Len(t) = Len(s) - 1
          /\ i \in Nat /\ Len(s) \in Nat
      BY TailOf
    <3>2. \/ t[i].kind \in {"row", "empty"}
          \/ t[i].kind \in {"eof", "err"} /\ ~t[i].more /\ ~t[i].full
             /\ i + 1 = Len(s)
      <4>1. \A j \in 1 .. Len(s) :
              \/ s[j].kind \in {"row", "empty"}
              \/ s[j].kind \in {"eof", "err"} /\ ~s[j].more /\ ~s[j].full
                 /\ j = Len(s)
        BY <1>1 DEF LastRows
      <4>2. \/ s[i + 1].kind \in {"row", "empty"}
            \/ s[i + 1].kind \in {"eof", "err"} /\ ~s[i + 1].more
               /\ ~s[i + 1].full /\ i + 1 = Len(s)
        BY <3>1, <4>1
      <4> HIDE DEF t
      <4>3. QED
        BY <3>1, <4>2
    <3>3. i + 1 = Len(s) => i = Len(t)
      <4> DEFINE n == Len(s)
                 m == Len(t)
      <4>1. m = n - 1 /\ i \in Nat /\ n \in Nat
        BY <3>1
      <4> HIDE DEF n, m
      <4>2. i + 1 = n => i = m
        BY <4>1
      <4>3. QED
        BY <4>2 DEF n, m
    <3> HIDE DEF t
    <3>4. QED
      BY <3>2, <3>3
  <2>3. QED
    BY <2>1, <2>2, TailOf DEF Rows
<1>2. CASE EndAndMore(s)
  BY <1>2 DEF EndAndMore, Starts
<1>3. CASE RowAndMore(s)
  BY <1>3 DEF RowAndMore, Starts, Rows
<1>4. QED
  BY <1>1, <1>2, <1>3 DEF Rows

LEMMA QueryRead ==
  ASSUME NEW S, NEW s \in Seq(S), s # << >>
  PROVE  /\ QueryAnswer(s) =>
              /\ s[1].kind = "ok" /\ ~s[1].more => Tail(s) = << >>
              /\ s[1].kind = "ok" /\ s[1].more => Result(Tail(s))
              /\ s[1].kind = "columns" => Columns(Tail(s))
              /\ s[1].kind = "err" => Tail(s) = << >>
              /\ s[1].kind \in {"ok", "columns", "err"} /\ ~s[1].full
         /\ Columns(s) => /\ s[1].kind = "def" /\ EndOfColumns(Tail(s))
                          /\ ~s[1].full
         /\ EndOfColumns(s) => s[1].kind = "eof" /\ Rows(Tail(s)) /\ ~s[1].full
<1>1. ASSUME QueryAnswer(s)
      PROVE  /\ s[1].kind = "ok" /\ ~s[1].more => Tail(s) = << >>
             /\ s[1].kind = "ok" /\ s[1].more => Result(Tail(s))
             /\ s[1].kind = "columns" => Columns(Tail(s))
             /\ s[1].kind = "err" => Tail(s) = << >>
             /\ s[1].kind \in {"ok", "columns", "err"} /\ ~s[1].full
  BY <1>1 DEF QueryAnswer, Alone, Starts
<1>2. Columns(s) => s[1].kind = "def" /\ EndOfColumns(Tail(s)) /\ ~s[1].full
  BY DEF Columns, Starts
<1>3. EndOfColumns(s) => s[1].kind = "eof" /\ Rows(Tail(s)) /\ ~s[1].full
  BY DEF EndOfColumns, Starts, Rows
<1>4. QED
  BY <1>1, <1>2, <1>3

LEMMA OpenReads ==
  ASSUME NEW w, NEW s, NEW new, s # << >>, AtOpen(w, s),
         GoesOn(Head(w), s[1], Tail(w), new)
  PROVE  AtOpen(new, Tail(s)) \/ (new = << >> /\ Tail(s) = << >>)
<1>1. CASE w = ToInit /\ Alone(s, {"init", "err"})
  <2>1. new = ToAuth
    BY <1>1, OpenScripts, FirstTasks
  <2>2. QED
    BY <1>1, <2>1 DEF AtOpen, Alone
<1>2. CASE w = ToAuthResult /\ Alone(s, {"ok", "err", "oldAuth", "otherAuth"})
  <2>1. new = ToVar \/ new = ToOldAuth
    BY <1>2, OpenScripts, FirstTasks, AddedAtOnce
  <2>2. QED
    BY <1>2, <2>1 DEF AtOpen, Alone
<1>3. CASE w = ToVarHeader /\ Result(s)
  <2>1. new = ToVarColumns /\ s[1].kind = "columns"
    BY <1>3, OpenScripts, FirstTasks, AddedAtOnce
  <2>2. DEDE(Tail(s))
    BY <1>3, <2>1, ResultRead
  <2>3. QED
    BY <2>1, <2>2 DEF AtOpen
<1>4. CASE w = ToVarColumns /\ (DEDE(s) \/ EDE(s))
  <2>1. \/ s[1].kind # "eof" /\ new = <<"eof">> \o ToVarRow
        \/ s[1].kind = "eof" /\ new = AfterEof(s[1], ToVarRow)
    BY <1>4, OpenScripts, ResultTasks
  <2>2. CASE s[1].kind # "eof"
    <3>1. new = ToVarColumns
      BY <2>1, <2>2, Added
    <3>2. EDE(Tail(s))
      BY <1>4, <2>2, ListRead
    <3>3. QED
      BY <3>1, <3>2 DEF AtOpen
  <2>3. CASE s[1].kind = "eof"
    <3>1. new = ToVarRow
      BY <2>1, <2>3, EndsAre
    <3>2. DE(Tail(s))
      BY <1>4, <2>3, EndRead
    <3>3. QED
      BY <3>1, <3>2 DEF AtOpen
  <2>4. QED
    BY <2>2, <2>3
<1>5. CASE w = ToVarRow /\ DE(s)
  <2>1. new = ToEndVar /\ s[1].kind = "row"
    BY <1>5, OpenScripts, FirstTasks
  <2>2. E(Tail(s))
    BY <1>5, <2>1, ListRead
  <2>3. QED
    BY <2>1, <2>2 DEF AtOpen
<1>6. CASE w = ToEndVar /\ E(s)
  <2>1. s[1].kind = "eof"
    BY <1>6, ListRead
  <2>2. new = AfterEof(s[1], ToCharset)
    BY <1>6, <2>1, OpenScripts, ResultTasks
  <2>3. new = ToCharset
    BY <2>2, EndsAre
  <2>4. Tail(s) = << >>
    BY <1>6, <2>1, EndRead
  <2>5. QED
    BY <2>3, <2>4 DEF AtOpen
<1>7. CASE w = ToExecHeader /\ Alone(s, {"ok", "err"})
  <2>1. s[1].kind \in {"ok", "err"} /\ ~s[1].more /\ Tail(s) = << >>
    BY <1>7 DEF Alone, Starts
  <2>2. new = Discard(s[1].more)
    BY <1>7, <2>1, OtherScripts, ResultTasks
  <2>3. new = << >>
    BY <2>1, <2>2, EndsAre
  <2>4. QED
    BY <2>1, <2>3
<1>8. QED
  BY <1>1, <1>2, <1>3, <1>4, <1>5, <1>6, <1>7 DEF AtOpen

LEMMA ListsRead ==
  ASSUME NEW w, NEW s, NEW new, s # << >>, AtLists(w, s),
         GoesOn(Head(w), s[1], Tail(w), new)
  PROVE  AtLists(new, Tail(s)) \/ (new = << >> /\ Tail(s) = << >>)
<1>1. CASE w = ToEof /\ s[1].kind # "eof"
  <2>1. new = <<"eof">> \o << >>
    BY <1>1, OtherScripts, ResultTasks
  <2>2. new = ToEof
    BY <2>1, Added
  <2>3. E(Tail(s))
    BY <1>1, ListRead, SomethingToDo, OtherScripts DEF AtLists
  <2>4. QED
    BY <2>2, <2>3 DEF AtLists
<1>2. CASE w = ToEof /\ s[1].kind = "eof"
  <2>1. new = AfterEof(s[1], << >>)
    BY <1>2, OtherScripts, ResultTasks
  <2>2. new = << >>
    BY <2>1, EndsAre
  <2>3. Tail(s) = << >>
    BY <1>2, EndRead, SomethingToDo, OtherScripts DEF AtLists
  <2>4. QED
    BY <2>2, <2>3
<1>3. CASE w = ToEofs /\ s[1].kind # "eof"
  <2>1. new = <<"eof">> \o ToEof
    BY <1>3, OtherScripts, ResultTasks
  <2>2. new = ToEofs
    BY <2>1, Added
  <2>3. EDE(Tail(s))
    BY <1>3, ListRead, SomethingToDo, OtherScripts DEF AtLists
  <2>4. QED
    BY <2>2, <2>3 DEF AtLists
<1>4. CASE w = ToEofs /\ s[1].kind = "eof"
  <2>1. new = AfterEof(s[1], ToEof)
    BY <1>4, OtherScripts, ResultTasks
  <2>2. new = ToEof
    BY <2>1, EndsAre
  <2>3. DE(Tail(s))
    BY <1>4, EndRead, SomethingToDo, OtherScripts DEF AtLists
  <2>4. QED
    BY <2>2, <2>3 DEF AtLists
<1>5. QED
  BY <1>1, <1>2, <1>3, <1>4 DEF AtLists

LEMMA PrepareReads ==
  ASSUME NEW w, NEW s, NEW new, s # << >>, AtPrepare(w, s),
         GoesOn(Head(w), s[1], Tail(w), new)
  PROVE  AtPrepare(new, Tail(s)) \/ (new = << >> /\ Tail(s) = << >>)
<1>1. CASE w = ToPrepared /\ Statement(s)
  <2>1. s[1].kind = "prepared" /\ new = Definitions(s[1])
    BY <1>1, OtherScripts, FirstTasks
  <2>2. \/ s[1].defs = 1 /\ DE(Tail(s))
        \/ s[1].defs = 2 /\ DEDE(Tail(s))
    BY <1>1, <2>1 DEF Statement, Alone, Starts
  <2>3. \/ new = ToEof /\ DE(Tail(s))
        \/ new = ToEofs /\ DEDE(Tail(s))
    BY <2>1, <2>2, DefinitionsAre
  <2>4. QED
    BY <2>3 DEF AtPrepare, AtLists
<1>2. CASE AtLists(w, s)
  BY <1>2, ListsRead DEF AtPrepare
<1>3. QED
  BY <1>1, <1>2 DEF AtPrepare

LEMMA ExecReads ==
  ASSUME NEW w, NEW s, NEW new, s # << >>, AtExec(w, s),
         GoesOn(Head(w), s[1], Tail(w), new)
  PROVE  AtExec(new, Tail(s)) \/ (new = << >> /\ Tail(s) = << >>)
<1>1. CASE w = ToExecHeader /\ Result(s)
  <2>1. \/ s[1].kind = "ok" /\ new = Discard(s[1].more)
        \/ s[1].kind = "columns" /\ new = ToEofs
    BY <1>1, OtherScripts, ResultTasks
  <2>2. CASE s[1].kind = "ok"
    BY <1>1, <2>1, <2>2, ResultRead, EndsAre
  <2>3. CASE s[1].kind = "columns"
    BY <1>1, <2>1, <2>3, ResultRead DEF AtExec, AtLists
  <2>4. QED
    BY <2>1, <2>2, <2>3
<1>2. CASE AtLists(w, s)
  BY <1>2, ListsRead DEF AtExec
<1>3. QED
  BY <1>1, <1>2 DEF AtExec

LEMMA MoreReads ==
  ASSUME NEW w, NEW S, NEW s \in Seq(S), NEW new, s # << >>, AtMore(w, s),
         GoesOn(Head(w), s[1], Tail(w), new)
  PROVE  AtMore(new, Tail(s)) \/ (new = << >> /\ Tail(s) = << >>)
<1>1. CASE w = ToMore /\ Result(s)
  <2>1. \/ s[1].kind = "ok" /\ new = Discard(s[1].more)
        \/ s[1].kind = "columns" /\ new = ToMoreLists
    BY <1>1, OtherScripts, ResultTasks
  <2>2. CASE s[1].kind = "ok"
    BY <1>1, <2>1, <2>2, ResultRead, EndsAre
  <2>3. CASE s[1].kind = "columns"
    BY <1>1, <2>1, <2>3, ResultRead DEF AtMore
  <2>4. QED
    BY <2>1, <2>2, <2>3
<1>2. CASE w = ToMoreLists /\ (DEDE(s) \/ EDE(s))
  <2>1. \/ s[1].kind # "eof" /\ new = <<"eof">> \o ToDiscard
        \/ s[1].kind = "eof" /\ new = AfterEof(s[1], ToDiscard)
    BY <1>2, OtherScripts, ResultTasks
  <2>2. CASE s[1].kind # "eof"
    <3>1. new = ToMoreLists
      BY <2>1, <2>2, Added
    <3>2. EDE(Tail(s))
      BY <1>2, <2>2, ListRead
    <3>3. QED
      BY <3>1, <3>2 DEF AtMore
  <2>3. CASE s[1].kind = "eof"
    <3>1. new = ToDiscard
      BY <2>1, <2>3, EndsAre
    <3>2. DE(Tail(s))
      BY <1>2, <2>3, EndRead
    <3>3. QED
      BY <3>1, <3>2 DEF AtMore
  <2>4. QED
    BY <2>2, <2>3
<1>3. CASE w = ToDiscard /\ (Rows(s) \/ DE(s) \/ E(s))
  <2>1. \/ s[1].kind # "eof" /\ new = <<"eof">> \o <<"discard">>
        \/ s[1].kind = "eof" /\ new = AfterEof(s[1], <<"discard">>)
    BY <1>3, OtherScripts, ResultTasks
  <2>2. CASE s[1].kind # "eof"
    <3>1. new = ToDiscard
      BY <2>1, <2>2, Added
    <3>2. Rows(Tail(s)) \/ E(Tail(s))
      BY <1>3, <2>2, ListRead, RowsRead
    <3>3. QED
      BY <3>1, <3>2 DEF AtMore
  <2>3. CASE s[1].kind = "eof"
    <3>1. new = IF s[1].more THEN ToMore ELSE << >>
      BY <2>1, <2>3, EndsAre
    <3>2. IF s[1].more THEN Result(Tail(s)) ELSE Tail(s) = << >>
      BY <1>3, <2>3, EndRead, RowsRead
    <3>3. QED
      BY <3>1, <3>2 DEF AtMore
  <2>4. QED
    BY <2>2, <2>3
<1>4. QED
  BY <1>1, <1>2, <1>3 DEF AtMore

LEMMA QueryReads ==
  ASSUME NEW w, NEW S, NEW s \in Seq(S), NEW new, s # << >>, AtQuery(w, s),
         GoesOn(Head(w), s[1], Tail(w), new)
  PROVE  \/ AtQuery(new, Tail(s))
         \/ new = << >> /\ Tail(s) = << >>
         \/ /\ new = << >> /\ Head(w) = "columns" /\ s[1].kind = "eof"
            /\ Rows(Tail(s))
<1>1. CASE w = ToQueryHeader /\ QueryAnswer(s)
  <2>1. \/ s[1].kind = "ok" /\ new = Discard(s[1].more)
        \/ s[1].kind = "columns" /\ new = ToColumns
    BY <1>1, OtherScripts, ResultTasks
  <2>2. CASE s[1].kind = "ok"
    <3>1. new = IF s[1].more THEN ToMore ELSE << >>
      BY <2>1, <2>2, EndsAre
    <3>2. IF s[1].more THEN Result(Tail(s)) ELSE Tail(s) = << >>
      BY <1>1, <2>2, QueryRead
    <3>3. QED
      BY <3>1, <3>2 DEF AtQuery, AtMore
  <2>3. CASE s[1].kind = "columns"
    BY <1>1, <2>1, <2>3, QueryRead DEF AtQuery
  <2>4. QED
    BY <2>1, <2>2, <2>3
<1>2. CASE w = ToColumns /\ (Columns(s) \/ EndOfColumns(s))
  <2>1. \/ s[1].kind = "def" /\ new = ToColumns
        \/ s[1].kind = "eof" /\ new = << >>
    BY <1>2, OtherScripts, ResultTasks
  <2>2. CASE Columns(s)
    BY <2>1, <2>2, QueryRead DEF AtQuery
  <2>3. CASE EndOfColumns(s)
    BY <1>2, <2>1, <2>3, OtherScripts, QueryRead
  <2>4. QED
    BY <1>2, <2>2, <2>3
<1>3. CASE AtMore(w, s)
  BY <1>3, MoreReads DEF AtQuery
<1>4. QED
  BY <1>1, <1>2, <1>3 DEF AtQuery

LEMMA NextReads ==
  ASSUME NEW w, NEW S, NEW s \in Seq(S), NEW new, s # << >>, AtNext(w, s),
         GoesOn(Head(w), s[1], Tail(w), new)
  PROVE  \/ AtNext(new, Tail(s))
         \/ new = << >> /\ Tail(s) = << >>
         \/ /\ new = << >> /\ Head(w) = "row" /\ s[1].kind = "row"
            /\ Rows(Tail(s))
<1>1. CASE w = ToRow /\ Rows(s)
  <2>1. \/ s[1].kind = "row" /\ new = << >>
        \/ s[1].kind = "eof" /\ new = Discard(s[1].more)
    BY <1>1, OtherScripts, ResultTasks
  <2>2. CASE s[1].kind = "row"
    BY <1>1, <2>1, <2>2, OtherScripts, RowsRead
  <2>3. CASE s[1].kind = "eof"
    <3>1. new = IF s[1].more THEN ToMore ELSE << >>
      BY <2>1, <2>3, EndsAre
    <3>2. IF s[1].more THEN Result(Tail(s)) ELSE Tail(s) = << >>
      BY <1>1, <2>3, RowsRead
    <3>3. QED
      BY <3>1, <3>2 DEF AtNext, AtMore
  <2>4. QED
    BY <2>1, <2>2, <2>3
<1>2. CASE AtMore(w, s)
  BY <1>2, MoreReads DEF AtNext
<1>3. QED
  BY <1>1, <1>2 DEF AtNext

\* A call that goes on is where its answer is; one that has read the last
\* packet it wants leaves nothing, or the rows.
LEMMA Reads ==
  ASSUME NEW d, NEW w, NEW S, NEW s \in Seq(S), NEW new, s # << >>,
         At(d, w, s), GoesOn(Head(w), s[1], Tail(w), new)
  PROVE  \/ At(d, new, Tail(s))
         \/ new = << >> /\ Tail(s) = << >>
         \/ /\ new = << >> /\ UnreadAfter(Head(w), s[1]) /\ Rows(Tail(s))
            /\ d \in {"query", "next"}
<1>1. CASE d = "open" /\ AtOpen(w, s)
  BY <1>1, OpenReads DEF At
<1>2. CASE d = "prepare" /\ AtPrepare(w, s)
  BY <1>2, PrepareReads DEF At
<1>3. CASE d = "exec" /\ AtExec(w, s)
  BY <1>3, ExecReads DEF At
<1>4. CASE d = "query" /\ AtQuery(w, s)
  BY <1>4, QueryReads DEF At, UnreadAfter
<1>5. CASE d = "next" /\ AtNext(w, s)
  BY <1>5, NextReads DEF At, UnreadAfter
<1>6. CASE d = "close" /\ AtMore(w, s)
  BY <1>6, MoreReads DEF At
<1>7. QED
  BY <1>1, <1>2, <1>3, <1>4, <1>5, <1>6 DEF At

\* An error ends the answer.
LEMMA ErrorIsLast ==
  ASSUME NEW d, NEW w, NEW S, NEW s \in Seq(S), s # << >>, At(d, w, s),
         Head(w) # "eof", s[1].kind \in {"err", "otherAuth", "oldAuth"}
  PROVE  Tail(s) = << >>
<1>1. \A kinds : Alone(s, kinds) => Tail(s) = << >>
  BY DEF Alone
<1>2. Result(s) => Tail(s) = << >>
  BY DEF Result, Alone, Starts
<1>3. Statement(s) => Tail(s) = << >>
  BY DEF Statement, Alone, Starts
<1>4. QueryAnswer(s) => Tail(s) = << >>
  BY DEF QueryAnswer, Alone, Starts
<1>5. Rows(s) => Tail(s) = << >>
  <2>1. EndAndMore(s) \/ RowAndMore(s) => FALSE
    BY DEF EndAndMore, RowAndMore, Starts
  <2>2. LastRows(s) => Len(s) = 1
    BY TailOf DEF LastRows
  <2>3. QED
    BY <2>1, <2>2, TailOf DEF Rows
<1>6. ~DE(s) /\ ~Columns(s) /\ ~EndOfColumns(s)
  BY DEF DE, Columns, EndOfColumns, Starts
<1>7. ~AtLists(w, s)
  BY OtherScripts DEF AtLists
<1>8. AtMore(w, s) => Tail(s) = << >>
  BY <1>2, OtherScripts DEF AtMore
<1>9. AtOpen(w, s) => Tail(s) = << >>
  BY <1>1, <1>2, <1>6, OpenScripts DEF AtOpen
<1>10. AtPrepare(w, s) \/ AtExec(w, s) => Tail(s) = << >>
  BY <1>2, <1>3, <1>7 DEF AtPrepare, AtExec
<1>11. AtQuery(w, s) \/ AtNext(w, s) => Tail(s) = << >>
  BY <1>4, <1>5, <1>6, <1>8 DEF AtQuery, AtNext
<1>12. QED
  BY <1>8, <1>9, <1>10, <1>11 DEF At

\* Only rows go on in the next packet, and only they are read on.
LEMMA PartRead ==
  ASSUME NEW d, NEW w, NEW S, NEW s \in Seq(S), s # << >>, At(d, w, s),
         s[1].full
  PROVE  At(d, w, Tail(s))
<1>1. ~E(s) /\ ~DE(s) /\ ~EDE(s) /\ ~DEDE(s) /\ \A kinds : ~Alone(s, kinds)
  BY DEF E, DE, EDE, DEDE, Alone, Starts
<1>2. ~Result(s) /\ ~Statement(s) /\ ~QueryAnswer(s) /\ ~Columns(s)
      /\ ~EndOfColumns(s)
  BY DEF Result, Statement, QueryAnswer, Columns, EndOfColumns, Alone, Starts
<1>3. Rows(s) => Rows(Tail(s))
  BY RowsRead
<1>4. ~AtOpen(w, s) /\ ~AtPrepare(w, s) /\ ~AtExec(w, s)
  BY <1>1, <1>2 DEF AtOpen, AtPrepare, AtExec, AtLists
<1>5. AtMore(w, s) => AtMore(w, Tail(s))
  BY <1>1, <1>2, <1>3 DEF AtMore
<1>6. /\ AtQuery(w, s) => AtQuery(w, Tail(s))
      /\ AtNext(w, s) => AtNext(w, Tail(s))
  BY <1>1, <1>2, <1>3, <1>5 DEF AtQuery, AtNext
<1>7. QED
  BY <1>4, <1>5, <1>6 DEF At

\* An answer may be cut off anywhere.
LEMMA AtCut ==
  ASSUME NEW d, NEW w, NEW S, NEW s \in Seq(S), NEW n \in 0 .. Len(s),
         At(d, w, s)
  PROVE  At(d, w, SubSeq(s, 1, n))
<1> DEFINE p == SubSeq(s, 1, n)
<1>1. \A kinds : Alone(s, kinds) => Alone(p, kinds)
  BY AloneCut
<1>2. /\ E(s) => E(p)
      /\ DE(s) => DE(p)
      /\ EDE(s) => EDE(p)
      /\ DEDE(s) => DEDE(p)
  BY ListsCut
<1>3. /\ Result(s) => Result(p)
      /\ Statement(s) => Statement(p)
      /\ QueryAnswer(s) => QueryAnswer(p)
      /\ Rows(s) => Rows(p)
      /\ Columns(s) => Columns(p)
      /\ EndOfColumns(s) => EndOfColumns(p)
  BY ResultCut, StatementCut, QueryAnswerCut, RowsCut, ColumnsCut
<1>4. s = << >> => p = << >>
  OBVIOUS
<1> HIDE DEF p
<1>5. AtOpen(w, s) => AtOpen(w, p)
  BY <1>1, <1>2, <1>3, <1>4 DEF AtOpen
<1>6. AtLists(w, s) => AtLists(w, p)
  BY <1>2 DEF AtLists
<1>7. /\ AtPrepare(w, s) => AtPrepare(w, p)
      /\ AtExec(w, s) => AtExec(w, p)
  BY <1>3, <1>4, <1>6 DEF AtPrepare, AtExec
<1>8. AtMore(w, s) => AtMore(w, p)
  BY <1>2, <1>3 DEF AtMore
<1>9. /\ AtQuery(w, s) => AtQuery(w, p)
      /\ AtNext(w, s) => AtNext(w, p)
  BY <1>3, <1>4, <1>8 DEF AtQuery, AtNext
<1>10. At(d, w, p)
  BY <1>5, <1>7, <1>8, <1>9 DEF At
<1>11. QED
  BY <1>10 DEF p

------------------------------------------------------------------------------
(* The answers of the server, as they arrive.                              *)

Like(p, q) ==
  p.kind = q.kind /\ p.more = q.more /\ p.full = q.full /\ p.defs = q.defs

Carries(s, r) == Len(s) = Len(r) /\ \A i \in 1 .. Len(r) : Like(s[i], r[i])

LEMMA PacketIs ==
  /\ \A k : /\ Packet(k).kind = k /\ Packet(k).more = FALSE
            /\ Packet(k).full = FALSE /\ Packet(k).defs = 0
  /\ \A m : /\ Ok(m).kind = "ok" /\ Ok(m).more = m /\ Ok(m).full = FALSE
            /\ Eof(m).kind = "eof" /\ Eof(m).more = m /\ Eof(m).full = FALSE
  /\ FullRow.kind = "row"
  /\ \A n : LET p == [Packet("prepared") EXCEPT !.defs = n]
            IN  p.kind = "prepared" /\ p.defs = n /\ p.full = FALSE
BY DEF Packet, Ok, Eof, FullRow

LEMMA Unrolled ==
  ASSUME NEW S, NEW s \in Seq(S)
  PROVE  /\ Len(s) = 1 => s # << >>
         /\ Len(s) = 2 =>
              /\ s # << >> /\ Tail(s) \in Seq(S) /\ Len(Tail(s)) = 1
              /\ Tail(s)[1] = s[2]
         /\ Len(s) = 3 =>
              /\ s # << >> /\ Tail(s) \in Seq(S) /\ Len(Tail(s)) = 2
              /\ Tail(s)[1] = s[2] /\ Tail(s)[2] = s[3]
         /\ Len(s) = 4 =>
              /\ s # << >> /\ Tail(s) \in Seq(S) /\ Len(Tail(s)) = 3
              /\ Tail(s)[1] = s[2] /\ Tail(s)[2] = s[3] /\ Tail(s)[3] = s[4]
         /\ Len(s) = 5 =>
              /\ s # << >> /\ Tail(s) \in Seq(S) /\ Len(Tail(s)) = 4
              /\ Tail(s)[1] = s[2] /\ Tail(s)[2] = s[3] /\ Tail(s)[3] = s[4]
              /\ Tail(s)[4] = s[5]
<1>1. Len(s) # 0 => s # << >>
  OBVIOUS
<1> DEFINE t == Tail(s)
<1>2. ASSUME Len(s) # 0
      PROVE  /\ s # << >> /\ t \in Seq(S) /\ Len(t) = Len(s) - 1
             /\ \A i \in 1 .. Len(s) - 1 : t[i] = s[i + 1]
  <2>1. s # << >>
    BY <1>1, <1>2
  <2>2. QED
    BY <2>1, Parts
<1> HIDE DEF t
<1>3. ASSUME Len(s) = 2
      PROVE  /\ s # << >> /\ t \in Seq(S) /\ Len(t) = 1
             /\ t[1] = s[2]
  <2>1. /\ s # << >> /\ t \in Seq(S) /\ Len(t) = 2 - 1
        /\ \A i \in 1 .. 2 - 1 : t[i] = s[i + 1]
    BY <1>2, <1>3
  <2>2. t[1] = s[2]
    BY <2>1
  <2>3. QED
    BY <2>1, <2>2
<1>4. ASSUME Len(s) = 3
      PROVE  /\ s # << >> /\ t \in Seq(S) /\ Len(t) = 2
             /\ t[1] = s[2] /\ t[2] = s[3]
  <2>1. /\ s # << >> /\ t \in Seq(S) /\ Len(t) = 3 - 1
        /\ \A i \in 1 .. 3 - 1 : t[i] = s[i + 1]
    BY <1>2, <1>4
  <2>2. t[1] = s[2]
    BY <2>1
  <2>3. t[2] = s[3]
    BY <2>1
  <2>4. QED
    BY <2>1, <2>2, <2>3
<1>5. ASSUME Len(s) = 4
      PROVE  /\ s # << >> /\ t \in Seq(S) /\ Len(t) = 3
             /\ t[1] = s[2] /\ t[2] = s[3] /\ t[3] = s[4]
  <2>1. /\ s # << >> /\ t \in Seq(S) /\ Len(t) = 4 - 1
        /\ \A i \in 1 .. 4 - 1 : t[i] = s[i + 1]
    BY <1>2, <1>5
  <2>2. t[1] = s[2]
    BY <2>1
  <2>3. t[2] = s[3]
    BY <2>1
  <2>4. t[3] = s[4]
    BY <2>1
  <2>5. QED
    BY <2>1, <2>2, <2>3, <2>4
<1>6. ASSUME Len(s) = 5
      PROVE  /\ s # << >> /\ t \in Seq(S) /\ Len(t) = 4
             /\ t[1] = s[2] /\ t[2] = s[3] /\ t[3] = s[4] /\ t[4] = s[5]
  <2>1. /\ s # << >> /\ t \in Seq(S) /\ Len(t) = 5 - 1
        /\ \A i \in 1 .. 5 - 1 : t[i] = s[i + 1]
    BY <1>2, <1>6
  <2>2. t[1] = s[2]
    BY <2>1
  <2>3. t[2] = s[3]
    BY <2>1
  <2>4. t[3] = s[4]
    BY <2>1
  <2>5. t[4] = s[5]
    BY <2>1
  <2>6. QED
    BY <2>1, <2>2, <2>3, <2>4, <2>5
<1>7. QED
  BY <1>1, <1>3, <1>4, <1>5, <1>6 DEF t

LEMMA OneArrives ==
  ASSUME NEW S, NEW s \in Seq(S), NEW p, NEW kinds, Carries(s, <<p>>),
         p.kind \in kinds, ~p.full, ~p.more
  PROVE  s # << >> /\ Alone(s, kinds)
<1>1. Len(<<p>>) = 1 /\ <<p>>[1] = p
  OBVIOUS
<1>2. Len(s) = 1 /\ Like(s[1], p)
  BY <1>1 DEF Carries
<1>3. s # << >>
  BY <1>2
<1>4. Tail(s) = << >>
  BY <1>2, <1>3, TailOf
<1>5. QED
  BY <1>2, <1>3, <1>4 DEF Alone, Starts, Like

LEMMA LastArrives ==
  ASSUME NEW S
  PROVE  /\ \A s \in Seq(S) :
              /\ Len(s) = 1
              /\ s[1].kind = "eof" /\ ~s[1].full /\ ~s[1].more
              => E(s)
         /\ \A s \in Seq(S) :
              /\ Len(s) = 2
              /\ s[1].kind \in {"def", "row"} /\ ~s[1].full
              /\ s[2].kind = "eof" /\ ~s[2].full /\ ~s[2].more
              => DE(s)
<1>1. ASSUME NEW s \in Seq(S), Len(s) = 1,
             s[1].kind = "eof", ~s[1].full, ~s[1].more
      PROVE  E(s)
  <2>1. s # << >> /\ Tail(s) = << >>
    <3>1. s # << >>
      BY <1>1, Unrolled
    <3>2. QED
      BY <1>1, <3>1, TailOf
  <2>2. QED
    BY <1>1, <2>1 DEF E, Alone, Starts
<1>2. ASSUME NEW s \in Seq(S), Len(s) = 2,
             s[1].kind \in {"def", "row"}, ~s[1].full,
             s[2].kind = "eof", ~s[2].full, ~s[2].more
      PROVE  DE(s)
  <2>1. s # << >>
    BY <1>2
  <2>2. Tail(s) \in Seq(S) /\ Len(Tail(s)) = 1 /\ Tail(s)[1] = s[2]
    BY <1>2, <2>1, Parts
  <2>3. E(Tail(s))
    BY <1>1, <1>2, <2>2
  <2>4. QED
    BY <1>2, <2>3 DEF DE, Starts
<1>3. QED
  BY <1>1, <1>2

LEMMA ListsArrive ==
  ASSUME NEW S, NEW s \in Seq(S), Len(s) = 4,
         s[1].kind \in {"def", "row"}, ~s[1].full,
         s[2].kind = "eof", ~s[2].full,
         s[3].kind \in {"def", "row"}, ~s[3].full,
         s[4].kind = "eof", ~s[4].full, ~s[4].more
  PROVE  DEDE(s)
<1> DEFINE t == Tail(s)
<1>1. s # << >>
  BY Unrolled
<1>2. t \in Seq(S) /\ Len(t) = 3 /\ t[1] = s[2] /\ t[2] = s[3] /\ t[3] = s[4]
  BY Unrolled
<1> HIDE DEF t
<1> DEFINE u == Tail(t)
<1>3. t # << >>
  BY <1>2
<1>4. u \in Seq(S) /\ Len(u) = 2 /\ u[1] = s[3] /\ u[2] = s[4]
  BY <1>2, <1>3, Unrolled
<1>5. DE(u)
  <2> HIDE DEF u
  <2>1. QED
    BY <1>4, LastArrives
<1>6. EDE(t)
  BY <1>2, <1>5 DEF EDE, Starts
<1>7. QED
  BY <1>6 DEF DEDE, Starts, t

LEMMA ResultArrives ==
  ASSUME NEW S, NEW s \in Seq(S),
         NEW r \in {<<Ok(FALSE)>>, <<Packet("err")>>,
                    <<Packet("columns"), Packet("def"), Eof(FALSE),
                      Packet("row"), Eof(FALSE)>>},
         Carries(s, r)
  PROVE  s # << >> /\ Result(s)
<1>1. CASE r = <<Ok(FALSE)>>
  <2>1. Ok(FALSE).kind \in {"ok", "err"} /\ ~Ok(FALSE).full /\ ~Ok(FALSE).more
    BY PacketIs
  <2>2. s # << >> /\ Alone(s, {"ok", "err"})
    BY <1>1, <2>1, OneArrives, Zenon
  <2>3. QED
    BY <2>2 DEF Result
<1>2. CASE r = <<Packet("err")>>
  BY <1>2, OneArrives, PacketIs DEF Result
<1>3. CASE r = <<Packet("columns"), Packet("def"), Eof(FALSE),
                 Packet("row"), Eof(FALSE)>>
  <2>1. /\ Len(r) = 5
        /\ r[1] = Packet("columns") /\ r[2] = Packet("def")
        /\ r[3] = Eof(FALSE) /\ r[4] = Packet("row") /\ r[5] = Eof(FALSE)
    BY <1>3
  <2>2. /\ Len(s) = 5
        /\ Like(s[1], Packet("columns")) /\ Like(s[2], Packet("def"))
        /\ Like(s[3], Eof(FALSE)) /\ Like(s[4], Packet("row"))
        /\ Like(s[5], Eof(FALSE))
    <3>1. Len(s) = 5 /\ \A i \in 1 .. 5 : Like(s[i], r[i])
      BY <2>1 DEF Carries
    <3>2. /\ Like(s[1], r[1]) /\ Like(s[2], r[2]) /\ Like(s[3], r[3])
          /\ Like(s[4], r[4]) /\ Like(s[5], r[5])
      BY <3>1
    <3>3. QED
      BY <2>1, <3>1, <3>2, Zenon
  <2>3. s # << >>
    BY <2>2, Unrolled
  <2> DEFINE t == Tail(s)
  <2>4. t \in Seq(S) /\ Len(t) = 4 /\ t[1] = s[2] /\ t[2] = s[3]
        /\ t[3] = s[4] /\ t[4] = s[5]
    BY <2>2, Unrolled
  <2>5. DEDE(t)
    <3> HIDE DEF t
    <3>1. QED
      BY <2>2, <2>4, PacketIs, ListsArrive DEF Like
  <2>6. QED
    BY <2>2, <2>3, <2>5, PacketIs DEF Result, Starts, Like
<1>4. QED
  BY <1>1, <1>2, <1>3

LEMMA StatementArrives ==
  ASSUME NEW S, NEW s \in Seq(S),
         NEW r \in Replies["prepare"], Carries(s, r)
  PROVE  s # << >> /\ Statement(s)
<1>1. \/ r = <<Packet("err")>>
      \/ r = <<[Packet("prepared") EXCEPT !.defs = 1], Packet("def"),
               Eof(FALSE)>>
      \/ r = <<[Packet("prepared") EXCEPT !.defs = 2], Packet("def"),
               Eof(FALSE), Packet("def"), Eof(FALSE)>>
  BY DEF Replies
<1>2. CASE r = <<Packet("err")>>
  <2>1. Packet("err").kind \in {"err"} /\ ~Packet("err").full
        /\ ~Packet("err").more
    BY PacketIs
  <2>2. s # << >> /\ Alone(s, {"err"})
    BY <1>2, <2>1, OneArrives, Zenon
  <2>3. QED
    BY <2>2 DEF Statement
<1>3. CASE r = <<[Packet("prepared") EXCEPT !.defs = 1], Packet("def"),
                 Eof(FALSE)>>
  <2> DEFINE h == [Packet("prepared") EXCEPT !.defs = 1]
  <2>1. Len(r) = 3 /\ r[1] = h /\ r[2] = Packet("def") /\ r[3] = Eof(FALSE)
    BY <1>3
  <2>2. h.kind = "prepared" /\ h.defs = 1 /\ h.full = FALSE
    BY PacketIs
  <2> HIDE DEF h
  <2>3. /\ Len(s) = 3 /\ Like(s[1], h) /\ Like(s[2], Packet("def"))
        /\ Like(s[3], Eof(FALSE))
    <3>1. Len(s) = 3 /\ \A i \in 1 .. 3 : Like(s[i], r[i])
      BY <2>1 DEF Carries
    <3>2. Like(s[1], r[1]) /\ Like(s[2], r[2]) /\ Like(s[3], r[3])
      BY <3>1
    <3>3. QED
      BY <2>1, <3>1, <3>2, Zenon
  <2> DEFINE t == Tail(s)
  <2>4. s # << >> /\ t \in Seq(S) /\ Len(t) = 2 /\ t[1] = s[2] /\ t[2] = s[3]
    BY <2>3, Unrolled
  <2>5. DE(t)
    <3> HIDE DEF t
    <3>1. QED
      BY <2>3, <2>4, PacketIs, LastArrives DEF Like
  <2>6. QED
    BY <2>2, <2>3, <2>4, <2>5 DEF Statement, Starts, Like
<1>4. CASE r = <<[Packet("prepared") EXCEPT !.defs = 2], Packet("def"),
                 Eof(FALSE), Packet("def"), Eof(FALSE)>>
  <2> DEFINE h == [Packet("prepared") EXCEPT !.defs = 2]
  <2>1. /\ Len(r) = 5 /\ r[1] = h /\ r[2] = Packet("def")
        /\ r[3] = Eof(FALSE) /\ r[4] = Packet("def") /\ r[5] = Eof(FALSE)
    BY <1>4
  <2>2. h.kind = "prepared" /\ h.defs = 2 /\ h.full = FALSE
    BY PacketIs
  <2> HIDE DEF h
  <2>3. /\ Len(s) = 5 /\ Like(s[1], h) /\ Like(s[2], Packet("def"))
        /\ Like(s[3], Eof(FALSE)) /\ Like(s[4], Packet("def"))
        /\ Like(s[5], Eof(FALSE))
    <3>1. Len(s) = 5 /\ \A i \in 1 .. 5 : Like(s[i], r[i])
      BY <2>1 DEF Carries
    <3>2. /\ Like(s[1], r[1]) /\ Like(s[2], r[2]) /\ Like(s[3], r[3])
          /\ Like(s[4], r[4]) /\ Like(s[5], r[5])
      BY <3>1
    <3>3. QED
      BY <2>1, <3>1, <3>2, Zenon
  <2> DEFINE t == Tail(s)
  <2>4. s # << >> /\ t \in Seq(S) /\ Len(t) = 4 /\ t[1] = s[2] /\ t[2] = s[3]
        /\ t[3] = s[4] /\ t[4] = s[5]
    BY <2>3, Unrolled
  <2>5. DEDE(t)
    <3> HIDE DEF t
    <3>1. QED
      BY <2>3, <2>4, PacketIs, ListsArrive DEF Like
  <2>6. QED
    BY <2>2, <2>3, <2>4, <2>5 DEF Statement, Starts, Like
<1>5. QED
  BY <1>1, <1>2, <1>3, <1>4

\* What follows the first n packets.
Rest(s, n) == SubSeq(s, n + 1, Len(s))

LEMMA RestIs ==
  ASSUME NEW S, NEW s \in Seq(S), NEW n \in Nat, n < Len(s)
  PROVE  /\ Rest(s, n) \in Seq(S) /\ Len(Rest(s, n)) = Len(s) - n
         /\ \A i \in 1 .. Len(s) - n : Rest(s, n)[i] = s[n + i]
         /\ Rest(s, n) # << >> /\ Rest(s, n)[1] = s[n + 1]
<1>1. /\ Rest(s, n) \in Seq(S) /\ Len(Rest(s, n)) = Len(s) - n
      /\ \A i \in 1 .. Len(s) - n : Rest(s, n)[i] = s[n + i]
  BY DEF Rest
<1>2. Len(s) - n \in Nat \ {0}
  OBVIOUS
<1>3. Rest(s, n) # << >>
  BY <1>1, <1>2
<1>4. Rest(s, n)[1] = s[n + 1]
  BY <1>1, <1>2
<1>5. QED
  BY <1>1, <1>3, <1>4

LEMMA RestOfRest ==
  ASSUME NEW S, NEW s \in Seq(S), NEW n \in Nat, n < Len(s)
  PROVE  Tail(Rest(s, n)) = Rest(s, n + 1)
<1> DEFINE a == Rest(s, n)
           t == Tail(a)
           b == Rest(s, n + 1)
           l == Len(s) - (n + 1)
<1>1. /\ a \in Seq(S) /\ Len(a) = Len(s) - n /\ a # << >>
      /\ \A i \in 1 .. Len(s) - n : a[i] = s[n + i]
  BY RestIs
<1>2. b \in Seq(S) /\ Len(b) = l /\ \A i \in 1 .. l : b[i] = s[(n + 1) + i]
  BY DEF Rest
<1> HIDE DEF a, b
<1>3. t \in Seq(S) /\ Len(t) = Len(a) - 1
      /\ \A i \in 1 .. Len(a) - 1 : t[i] = a[i + 1]
  BY <1>1, Parts
<1>4. Len(t) = l /\ l \in Nat
  BY <1>1, <1>3
<1>5. \A i \in 1 .. l : t[i] = b[i]
  <2> SUFFICES ASSUME NEW i \in 1 .. l PROVE t[i] = b[i]
    OBVIOUS
  <2>1. i \in 1 .. Len(a) - 1 /\ i + 1 \in 1 .. Len(s) - n
        /\ n + (i + 1) = (n + 1) + i
    BY <1>1
  <2>2. t[i] = a[i + 1] /\ a[i + 1] = s[n + (i + 1)]
    BY <1>1, <1>3, <2>1
  <2>3. b[i] = s[(n + 1) + i]
    BY <1>2
  <2>4. QED
    BY <2>1, <2>2, <2>3
<1> HIDE DEF t, l
<1>6. t = b
  BY <1>2, <1>3, <1>4, <1>5, SeqEqual
<1>7. QED
  BY <1>6 DEF t, a, b

LEMMA Framed ==
  ASSUME NEW S, NEW h \in Seq(S), Len(h) = 3, NEW m \in Seq(S), NEW e \in S
  PROVE  /\ Len(h \o m \o <<e>>) = Len(m) + 4
         /\ (h \o m \o <<e>>)[1] = h[1] /\ (h \o m \o <<e>>)[2] = h[2]
         /\ (h \o m \o <<e>>)[3] = h[3]
         /\ \A i \in 1 .. Len(m) : (h \o m \o <<e>>)[3 + i] = m[i]
         /\ (h \o m \o <<e>>)[Len(m) + 4] = e
<1> DEFINE g == h \o m
           z == <<e>>
           r == g \o z
           n == Len(m)
<1>1. n \in Nat
  OBVIOUS
<1>2. /\ g \in Seq(S) /\ Len(g) = Len(h) + Len(m)
      /\ \A i \in 1 .. Len(h) + Len(m) :
           g[i] = IF i =< Len(h) THEN h[i] ELSE m[i - Len(h)]
  BY ConcatProperties
<1>3. /\ g \in Seq(S) /\ Len(g) = n + 3
      /\ \A i \in 1 .. n + 3 : g[i] = IF i =< 3 THEN h[i] ELSE m[i - 3]
  <2> HIDE DEF g
  <2>1. QED
    BY <1>1, <1>2
<1> HIDE DEF g
<1>4. g[1] = h[1] /\ g[2] = h[2] /\ g[3] = h[3]
  <2>1. 1 \in 1 .. n + 3 /\ 2 \in 1 .. n + 3 /\ 3 \in 1 .. n + 3
    BY <1>1
  <2>2. QED
    BY <1>3, <2>1
<1>5. \A i \in 1 .. n : g[3 + i] = m[i]
  <2> SUFFICES ASSUME NEW i \in 1 .. n PROVE g[3 + i] = m[i]
    OBVIOUS
  <2>1. 3 + i \in 1 .. n + 3 /\ ~(3 + i =< 3) /\ (3 + i) - 3 = i
    BY <1>1
  <2>2. g[3 + i] = m[(3 + i) - 3]
    BY <1>3, <2>1
  <2>3. QED
    BY <2>1, <2>2
<1>6. z \in Seq(S) /\ Len(z) = 1 /\ z[1] = e
  OBVIOUS
<1>7. /\ Len(r) = Len(g) + Len(z)
      /\ \A i \in 1 .. Len(g) + Len(z) :
           r[i] = IF i =< Len(g) THEN g[i] ELSE z[i - Len(g)]
  BY <1>3, <1>6, ConcatProperties
<1> HIDE DEF r, z
<1>8. /\ Len(r) = n + 4
      /\ \A i \in 1 .. n + 3 : r[i] = g[i]
      /\ r[n + 4] = z[1]
  <2>1. n + 3 + 1 = n + 4 /\ (n + 4) - (n + 3) = 1 /\ n + 4 \in 1 .. n + 4
        /\ ~(n + 4 =< n + 3)
    BY <1>1
  <2>2. r[n + 4] = z[(n + 4) - (n + 3)]
    BY <1>3, <1>6, <1>7, <2>1
  <2>3. Len(r) = n + 4
    BY <1>1, <1>3, <1>6, <1>7
  <2>4. \A i \in 1 .. n + 3 : r[i] = g[i]
    BY <1>1, <1>3, <1>6, <1>7
  <2>5. QED
    BY <2>1, <2>2, <2>3, <2>4
<1>9. r[1] = g[1] /\ r[2] = g[2] /\ r[3] = g[3]
  <2>1. 1 \in 1 .. n + 3 /\ 2 \in 1 .. n + 3 /\ 3 \in 1 .. n + 3
    BY <1>1
  <2>2. QED
    BY <1>8, <2>1
<1>10. \A i \in 1 .. n : r[3 + i] = m[i]
  BY <1>1, <1>5, <1>8
<1>11. QED
  BY <1>4, <1>6, <1>8, <1>9, <1>10 DEF r, g, z

\* The only result of a query.
LEMMA SetArrives ==
  ASSUME NEW S, NEW s \in Seq(S), NEW r \in ResultSets \cup FailedSets,
         Carries(s, r)
  PROVE  s # << >> /\ QueryAnswer(s)
<1>1. PICK rs \in RowLists, last \in {Eof(FALSE), Packet("err")} :
        r = <<Packet("columns"), Packet("def"), Eof(FALSE)>> \o rs \o <<last>>
  BY DEF ResultSets, FailedSets
<1> DEFINE n == Len(rs)
           h == <<Packet("columns"), Packet("def"), Eof(FALSE)>>
<1>2. rs \in Seq(Pack) /\ n \in Nat /\ h \in Seq(Pack) /\ last \in Pack
      /\ Len(h) = 3
  <2>1. rs \in Seq(Pack) /\ n \in Nat
    BY RowListsTyped
  <2>2. Packet("columns") \in Pack /\ Packet("def") \in Pack
        /\ Packet("err") \in Pack /\ Eof(FALSE) \in Pack
    BY PacketsTyped DEF PacketKind
  <2>3. \A a, b, c \in Pack : <<a, b, c>> \in Seq(Pack) /\ Len(<<a, b, c>>) = 3
    OBVIOUS
  <2>4. h \in Seq(Pack) /\ Len(h) = 3
    BY <2>2, <2>3, Zenon
  <2>5. QED
    BY <2>1, <2>2, <2>4
<1>3. /\ Len(r) = n + 4
      /\ r[1] = Packet("columns") /\ r[2] = Packet("def") /\ r[3] = Eof(FALSE)
      /\ \A i \in 1 .. n : r[3 + i] = rs[i]
      /\ r[n + 4] = last
  <2>1. \A a, b, c : <<a, b, c>>[1] = a /\ <<a, b, c>>[2] = b
                     /\ <<a, b, c>>[3] = c
    OBVIOUS
  <2>2. h[1] = Packet("columns") /\ h[2] = Packet("def") /\ h[3] = Eof(FALSE)
    BY <2>1, Zenon
  <2>3. r = h \o rs \o <<last>>
    BY <1>1
  <2> HIDE DEF h
  <2> DEFINE v == h \o rs \o <<last>>
  <2>4. /\ Len(v) = n + 4 /\ v[1] = h[1] /\ v[2] = h[2] /\ v[3] = h[3]
        /\ \A i \in 1 .. n : v[3 + i] = rs[i]
        /\ v[n + 4] = last
    BY <1>2, Framed
  <2> HIDE DEF v, n
  <2>5. r = v
    BY <2>3 DEF v
  <2>6. QED
    BY <2>2, <2>4, <2>5, Zenon
<1>4. \A i \in 1 .. n : rs[i].kind \in {"row", "empty"}
  <2>1. CASE \E k \in 0 .. MaxRows : rs = [i \in 1 .. k |-> Packet("row")]
    BY <2>1, PacketIs, MysqlAssumption
  <2>2. CASE rs = <<FullRow, Packet("row")>>
    BY <2>2, PacketIs
  <2>3. CASE rs = <<FullRow, Packet("empty")>>
    BY <2>3, PacketIs
  <2>4. QED
    BY <2>1, <2>2, <2>3 DEF RowLists
<1>5. last.kind \in {"eof", "err"} /\ ~last.more /\ ~last.full
  <2>1. CASE last = Eof(FALSE)
    BY <2>1, PacketIs
  <2>2. CASE last = Packet("err")
    BY <2>2, PacketIs
  <2>3. QED
    BY <2>1, <2>2
<1> HIDE DEF n, h
<1>6. Len(s) = n + 4 /\ \A i \in 1 .. n + 4 : Like(s[i], r[i])
  BY <1>3 DEF Carries
<1>7. /\ Like(s[1], Packet("columns")) /\ Like(s[2], Packet("def"))
      /\ Like(s[3], Eof(FALSE)) /\ Like(s[n + 4], last)
  <2>1. /\ Like(s[1], r[1]) /\ Like(s[2], r[2]) /\ Like(s[3], r[3])
        /\ Like(s[n + 4], r[n + 4])
    BY <1>2, <1>6
  <2>2. QED
    BY <1>3, <2>1, Zenon
<1> DEFINE t == Rest(s, 3)
<1>8. /\ t \in Seq(S) /\ Len(t) = n + 1
      /\ \A i \in 1 .. n + 1 : t[i] = s[3 + i]
  <2>1. 3 < Len(s) /\ Len(s) - 3 = n + 1
    BY <1>2, <1>6
  <2>2. QED
    BY <2>1, RestIs
<1>9. LastRows(t)
  <2> SUFFICES ASSUME NEW i \in 1 .. n + 1
               PROVE  \/ t[i].kind \in {"row", "empty"}
                      \/ t[i].kind \in {"eof", "err"} /\ ~t[i].more
                         /\ ~t[i].full /\ i = n + 1
    BY <1>8 DEF LastRows
  <2> HIDE DEF t
  <2>1. CASE i \in 1 .. n
    <3>1. 3 + i \in 1 .. n + 4
      BY <1>2, <2>1
    <3>2. r[3 + i] = rs[i] /\ Like(s[3 + i], r[3 + i])
      BY <1>3, <1>6, <2>1, <3>1
    <3>3. t[i] = s[3 + i]
      BY <1>8
    <3>4. QED
      BY <1>4, <2>1, <3>2, <3>3 DEF Like
  <2>2. CASE i = n + 1
    <3>1. 3 + i = n + 4
      BY <1>2, <2>2
    <3>2. t[i] = s[n + 4]
      BY <1>8, <3>1
    <3>3. QED
      BY <1>5, <1>7, <2>2, <3>2 DEF Like
  <2>3. QED
    BY <1>2, <2>1, <2>2
<1>10. /\ Tail(s) = Rest(s, 1) /\ Tail(Rest(s, 1)) = Rest(s, 2)
       /\ Tail(Rest(s, 2)) = t
       /\ s # << >> /\ Rest(s, 1)[1] = s[2] /\ Rest(s, 2)[1] = s[3]
  <2>1. Rest(s, 0) = s
    BY DEF Rest
  <2>2. Tail(Rest(s, 0)) = Rest(s, 1) /\ Tail(Rest(s, 1)) = Rest(s, 2)
        /\ Tail(Rest(s, 2)) = Rest(s, 3)
    <3>1. 0 < Len(s) /\ 1 < Len(s) /\ 2 < Len(s) /\ 0 + 1 = 1 /\ 1 + 1 = 2
          /\ 2 + 1 = 3
      BY <1>2, <1>6
    <3>2. Tail(Rest(s, 0)) = Rest(s, 0 + 1) /\ Tail(Rest(s, 1)) = Rest(s, 1 + 1)
          /\ Tail(Rest(s, 2)) = Rest(s, 2 + 1)
      BY <3>1, RestOfRest
    <3>3. QED
      BY <3>1, <3>2
  <2>3. s # << >> /\ Rest(s, 1)[1] = s[2] /\ Rest(s, 2)[1] = s[3]
    <3>1. 0 < Len(s) /\ 1 < Len(s) /\ 2 < Len(s) /\ 1 + 1 = 2 /\ 2 + 1 = 3
      BY <1>2, <1>6
    <3>2. Rest(s, 0) # << >> /\ Rest(s, 1)[1] = s[1 + 1]
          /\ Rest(s, 2)[1] = s[2 + 1]
      BY <3>1, RestIs
    <3>3. QED
      BY <2>1, <3>1, <3>2
  <2>4. QED
    BY <2>1, <2>2, <2>3
<1> HIDE DEF t
<1>11. EndOfColumns(Rest(s, 2))
  BY <1>7, <1>9, <1>10, PacketIs DEF EndOfColumns, Starts, Like
<1>12. Columns(Rest(s, 1))
  BY <1>7, <1>10, <1>11, PacketIs DEF Columns, Starts, Like
<1>13. QED
  BY <1>7, <1>10, <1>12, PacketIs DEF QueryAnswer, Starts, Like

\* Two results, the first announcing the second.
LEMMA TailArrives ==
  ASSUME NEW S, NEW s \in Seq(S), NEW n \in Nat, NEW a \in Seq(Pack),
         NEW b \in Seq(Pack), Len(a) = n, Len(b) > 0, Carries(s, a \o b)
  PROVE  /\ n < Len(s)
         /\ Rest(s, n) \in Seq(S) /\ Carries(Rest(s, n), b)
         /\ \A i \in 1 .. n : Like(s[i], a[i])
<1> DEFINE r == a \o b
           m == Len(b)
<1>1. m \in Nat /\ m > 0
  OBVIOUS
<1>2. /\ Len(r) = n + m
      /\ \A i \in 1 .. n + m : r[i] = IF i =< n THEN a[i] ELSE b[i - n]
  BY ConcatProperties
<1> HIDE DEF r, m
<1>3. Len(s) = n + m /\ \A i \in 1 .. n + m : Like(s[i], r[i])
  <2>1. Len(s) = Len(r) /\ \A i \in 1 .. Len(r) : Like(s[i], r[i])
    BY DEF Carries, r
  <2>2. QED
    BY <1>2, <2>1
<1>4. n < Len(s)
  BY <1>1, <1>3
<1> DEFINE t == Rest(s, n)
<1>5. t \in Seq(S) /\ Len(t) = m /\ \A i \in 1 .. m : t[i] = s[n + i]
  <2>1. Len(s) - n = m
    BY <1>1, <1>3
  <2>2. QED
    BY <1>4, <2>1, RestIs
<1> HIDE DEF t
<1>6. \A i \in 1 .. m : Like(t[i], b[i])
  <2> SUFFICES ASSUME NEW i \in 1 .. m PROVE Like(t[i], b[i])
    OBVIOUS
  <2>1. n + i \in 1 .. n + m /\ ~(n + i =< n) /\ (n + i) - n = i
    BY <1>1
  <2>2. Like(s[n + i], r[n + i]) /\ r[n + i] = b[(n + i) - n]
    BY <1>2, <1>3, <2>1
  <2>3. t[i] = s[n + i]
    BY <1>5
  <2>4. QED
    BY <2>1, <2>2, <2>3
<1>7. Carries(t, b)
  BY <1>5, <1>6 DEF Carries, m
<1>8. \A i \in 1 .. n : Like(s[i], a[i])
  <2> SUFFICES ASSUME NEW i \in 1 .. n PROVE Like(s[i], a[i])
    OBVIOUS
  <2>1. i \in 1 .. n + m /\ i =< n
    BY <1>1
  <2>2. Like(s[i], r[i]) /\ r[i] = a[i]
    BY <1>2, <1>3, <2>1
  <2>3. QED
    BY <2>2
<1>9. QED
  BY <1>4, <1>5, <1>7, <1>8 DEF t

FirstResult == {<<Ok(TRUE)>>,
                <<Packet("columns"), Packet("def"), Eof(TRUE),
                  Packet("row"), Eof(TRUE)>>}

SecondResult == {<<Ok(FALSE)>>, <<Packet("err")>>,
                 <<Packet("columns"), Packet("def"), Eof(FALSE),
                   Packet("row"), Eof(FALSE)>>}

LEMMA SecondTyped ==
  \A b \in SecondResult : b \in Seq(Pack) /\ Len(b) \in Nat /\ Len(b) > 0
<1>1. /\ Packet("columns") \in Pack /\ Packet("def") \in Pack
      /\ Packet("err") \in Pack /\ Packet("row") \in Pack
      /\ Eof(FALSE) \in Pack /\ Ok(FALSE) \in Pack
  BY PacketsTyped DEF PacketKind
<1>2. /\ \A a \in Pack : <<a>> \in Seq(Pack) /\ Len(<<a>>) = 1
      /\ \A a, b, c, d, e \in Pack :
           <<a, b, c, d, e>> \in Seq(Pack) /\ Len(<<a, b, c, d, e>>) = 5
  OBVIOUS
<1> SUFFICES ASSUME NEW b \in SecondResult
             PROVE  b \in Seq(Pack) /\ Len(b) \in Nat /\ Len(b) > 0
  OBVIOUS
<1>3. \/ b = <<Ok(FALSE)>> \/ b = <<Packet("err")>>
      \/ b = <<Packet("columns"), Packet("def"), Eof(FALSE), Packet("row"),
               Eof(FALSE)>>
  BY DEF SecondResult
<1>4. ASSUME b = <<Ok(FALSE)>> PROVE b \in Seq(Pack) /\ Len(b) = 1
  BY <1>1, <1>2, <1>4, Zenon
<1>5. ASSUME b = <<Packet("err")>> PROVE b \in Seq(Pack) /\ Len(b) = 1
  BY <1>1, <1>2, <1>5, Zenon
<1>6. ASSUME b = <<Packet("columns"), Packet("def"), Eof(FALSE),
                   Packet("row"), Eof(FALSE)>>
      PROVE  b \in Seq(Pack) /\ Len(b) = 5
  BY <1>1, <1>2, <1>6, Zenon
<1>7. b \in Seq(Pack) /\ (Len(b) = 1 \/ Len(b) = 5)
  BY <1>3, <1>4, <1>5, <1>6, Zenon
<1>8. QED
  BY <1>7

\* The numbers of the first packets, and what follows each of them.
LEMMA FirstFive ==
  ASSUME NEW S, NEW s \in Seq(S), 5 < Len(s)
  PROVE  /\ s # << >> /\ Tail(s) = Rest(s, 1)
         /\ Rest(s, 1)[1] = s[2] /\ Tail(Rest(s, 1)) = Rest(s, 2)
         /\ Rest(s, 2)[1] = s[3] /\ Tail(Rest(s, 2)) = Rest(s, 3)
         /\ Rest(s, 3)[1] = s[4] /\ Tail(Rest(s, 3)) = Rest(s, 4)
         /\ Rest(s, 4)[1] = s[5] /\ Tail(Rest(s, 4)) = Rest(s, 5)
<1>1. Len(s) \in Nat
  OBVIOUS
<1>2. 0 < Len(s) /\ 1 < Len(s) /\ 2 < Len(s) /\ 3 < Len(s) /\ 4 < Len(s)
  BY <1>1
<1>3. /\ Rest(s, 0) # << >> /\ Rest(s, 1)[1] = s[1 + 1]
      /\ Rest(s, 2)[1] = s[2 + 1] /\ Rest(s, 3)[1] = s[3 + 1]
      /\ Rest(s, 4)[1] = s[4 + 1]
  BY <1>2, RestIs
<1>4. /\ Tail(Rest(s, 0)) = Rest(s, 0 + 1)
      /\ Tail(Rest(s, 1)) = Rest(s, 1 + 1)
      /\ Tail(Rest(s, 2)) = Rest(s, 2 + 1)
      /\ Tail(Rest(s, 3)) = Rest(s, 3 + 1)
      /\ Tail(Rest(s, 4)) = Rest(s, 4 + 1)
  BY <1>2, RestOfRest
<1>5. Rest(s, 0) = s
  BY DEF Rest
<1>6. 0 + 1 = 1 /\ 1 + 1 = 2 /\ 2 + 1 = 3 /\ 3 + 1 = 4 /\ 4 + 1 = 5
  OBVIOUS
<1>7. QED
  BY <1>3, <1>4, <1>5, <1>6

LEMMA SeveralArrive ==
  ASSUME NEW S, NEW s \in Seq(S), NEW r \in SeveralResults, Carries(s, r)
  PROVE  s # << >> /\ QueryAnswer(s)
<1>1. PICK a \in FirstResult, b \in SecondResult : r = a \o b
  <2>1. SeveralResults = {a \o b : a \in FirstResult, b \in SecondResult}
    BY DEF SeveralResults, FirstResult, SecondResult
  <2>2. QED
    BY <2>1
<1>2. b \in Seq(Pack) /\ Len(b) > 0
  BY SecondTyped
<1>3. ASSUME NEW t \in Seq(S), Carries(t, b) PROVE Result(t)
  BY <1>3, ResultArrives DEF SecondResult
<1>4. CASE a = <<Ok(TRUE)>>
  <2> DEFINE p == Ok(TRUE)
  <2>1. p \in Pack /\ p.kind = "ok" /\ p.more /\ ~p.full
    BY PacketsTyped, PacketIs
  <2> HIDE DEF p
  <2>2. a = <<p>>
    BY <1>4 DEF p
  <2>3. a \in Seq(Pack) /\ Len(a) = 1 /\ a[1] = p
    <3>1. \A q \in Pack : <<q>> \in Seq(Pack) /\ Len(<<q>>) = 1 /\ <<q>>[1] = q
      OBVIOUS
    <3>2. QED
      BY <2>1, <2>2, <3>1, Zenon
  <2>4. 1 < Len(s) /\ Rest(s, 1) \in Seq(S) /\ Carries(Rest(s, 1), b)
        /\ Like(s[1], p)
    <3>1. 1 \in Nat /\ Carries(s, a \o b)
      BY <1>1
    <3>2. 1 < Len(s) /\ Rest(s, 1) \in Seq(S) /\ Carries(Rest(s, 1), b)
          /\ \A i \in 1 .. 1 : Like(s[i], a[i])
      BY <1>2, <2>3, <3>1, TailArrives
    <3>3. QED
      BY <2>3, <3>2
  <2>5. s # << >> /\ Tail(s) = Rest(s, 1)
    <3>1. 0 < Len(s)
      BY <2>4
    <3>2. Rest(s, 0) # << >> /\ Tail(Rest(s, 0)) = Rest(s, 0 + 1)
      BY <3>1, RestIs, RestOfRest
    <3>3. Rest(s, 0) = s
      BY DEF Rest
    <3>4. QED
      BY <3>2, <3>3
  <2>6. QED
    BY <1>3, <2>1, <2>4, <2>5 DEF QueryAnswer, Starts, Like
<1>5. CASE a = <<Packet("columns"), Packet("def"), Eof(TRUE), Packet("row"),
                 Eof(TRUE)>>
  <2> DEFINE c == Packet("columns")
             d == Packet("def")
             e == Eof(TRUE)
             w == Packet("row")
  <2>1. /\ c \in Pack /\ d \in Pack /\ e \in Pack /\ w \in Pack
        /\ c.kind = "columns" /\ ~c.full /\ d.kind = "def" /\ ~d.full
        /\ e.kind = "eof" /\ ~e.full /\ e.more /\ w.kind = "row" /\ ~w.full
    <3>1. c \in Pack /\ d \in Pack /\ e \in Pack /\ w \in Pack
      BY PacketsTyped DEF PacketKind
    <3>2. QED
      BY <3>1, PacketIs
  <2> HIDE DEF c, d, e, w
  <2>2. a = <<c, d, e, w, e>>
    BY <1>5 DEF c, d, e, w
  <2>3. a \in Seq(Pack) /\ Len(a) = 5 /\ a[1] = c /\ a[2] = d /\ a[3] = e
        /\ a[4] = w /\ a[5] = e
    <3>1. \A f, g, h, k, l \in Pack :
            LET q == <<f, g, h, k, l>>
            IN  /\ q \in Seq(Pack) /\ Len(q) = 5 /\ q[1] = f /\ q[2] = g
                /\ q[3] = h /\ q[4] = k /\ q[5] = l
      OBVIOUS
    <3>2. QED
      BY <2>1, <2>2, <3>1, Zenon
  <2>4. /\ 5 < Len(s) /\ Rest(s, 5) \in Seq(S) /\ Carries(Rest(s, 5), b)
        /\ Like(s[1], c) /\ Like(s[2], d) /\ Like(s[3], e) /\ Like(s[4], w)
        /\ Like(s[5], e)
    <3>1. 5 \in Nat /\ Carries(s, a \o b)
      BY <1>1
    <3>2. 5 < Len(s) /\ Rest(s, 5) \in Seq(S) /\ Carries(Rest(s, 5), b)
          /\ \A i \in 1 .. 5 : Like(s[i], a[i])
      BY <1>2, <2>3, <3>1, TailArrives
    <3>3. Like(s[1], a[1]) /\ Like(s[2], a[2]) /\ Like(s[3], a[3])
          /\ Like(s[4], a[4]) /\ Like(s[5], a[5])
      BY <3>2
    <3>4. QED
      BY <2>3, <3>2, <3>3, Zenon
  <2>5. Result(Rest(s, 5))
    BY <1>3, <2>4
  <2>6. EndAndMore(Rest(s, 4))
    BY <2>1, <2>4, <2>5, FirstFive DEF EndAndMore, Starts, Like
  <2>7. RowAndMore(Rest(s, 3))
    BY <2>1, <2>4, <2>6, FirstFive DEF RowAndMore, Starts, Like
  <2>8. EndOfColumns(Rest(s, 2))
    BY <2>1, <2>4, <2>7, FirstFive DEF EndOfColumns, Starts, Like
  <2>9. Columns(Rest(s, 1))
    BY <2>1, <2>4, <2>8, FirstFive DEF Columns, Starts, Like
  <2>10. QED
    BY <2>1, <2>4, <2>9, FirstFive DEF QueryAnswer, Starts, Like
<1>6. QED
  BY <1>1, <1>4, <1>5 DEF FirstResult

\* A reply of one packet.
LEMMA OneOfThese ==
  ASSUME NEW r
  PROVE  /\ r = <<Ok(FALSE)>> =>
              \E q : r = <<q>> /\ q.kind = "ok" /\ ~q.full /\ ~q.more
         /\ \A k : r = <<Packet(k)>> =>
              \E q : r = <<q>> /\ q.kind = k /\ ~q.full /\ ~q.more
<1>1. Ok(FALSE).kind = "ok" /\ ~Ok(FALSE).full /\ ~Ok(FALSE).more
  BY PacketIs
<1>2. \A k : Packet(k).kind = k /\ ~Packet(k).full /\ ~Packet(k).more
  BY PacketIs
<1>3. QED
  BY <1>1, <1>2, Zenon

\* What the server answers is what the call that asked reads.
LEMMA ReplyArrives ==
  ASSUME NEW S, NEW s \in Seq(S), NEW d, NEW w, NEW c \in Command,
         Awaits(d, w, c), NEW r \in Replies[c], Carries(s, r)
  PROVE  s # << >> /\ At(d, w, s)
<1> DEFINE p(k) == Packet(k)
<1>1. ASSUME NEW kinds, NEW q, r = <<q>>, q.kind \in kinds, ~q.full, ~q.more
      PROVE  s # << >> /\ Alone(s, kinds)
  BY <1>1, OneArrives
<1>2. CASE c \in {"auth", "oldAuth"}
  <2>1. \/ r = <<Ok(FALSE)>> \/ r = <<p("err")>> \/ r = <<p("oldAuth")>>
        \/ r = <<p("otherAuth")>>
    <3>1. CASE c = "auth"
      BY <3>1 DEF Replies
    <3>2. CASE c = "oldAuth"
      BY <3>2 DEF Replies
    <3>3. QED
      BY <1>2, <3>1, <3>2
  <2> DEFINE kinds == {"ok", "err", "oldAuth", "otherAuth"}
  <2>2. \E q : r = <<q>> /\ q.kind \in kinds /\ ~q.full /\ ~q.more
    BY <2>1, OneOfThese
  <2> HIDE DEF kinds
  <2>3. s # << >> /\ Alone(s, kinds)
    BY <1>1, <2>2
  <2>4. d = "open" /\ w = ToAuthResult
    BY <1>2 DEF Awaits
  <2>5. QED
    BY <2>3, <2>4 DEF At, AtOpen, kinds
<1>3. CASE c = "var"
  <2>1. r \in SecondResult
    BY <1>3 DEF Replies, SecondResult
  <2>2. s # << >> /\ Result(s)
    BY <2>1, ResultArrives DEF SecondResult
  <2>3. d = "open" /\ w = ToVarHeader
    BY <1>3 DEF Awaits
  <2>4. QED
    BY <2>2, <2>3 DEF At, AtOpen
<1>4. CASE c = "charset"
  <2>1. r = <<Ok(FALSE)>> \/ r = <<p("err")>>
    BY <1>4 DEF Replies
  <2> DEFINE kinds == {"ok", "err"}
  <2>2. \E q : r = <<q>> /\ q.kind \in kinds /\ ~q.full /\ ~q.more
    BY <2>1, OneOfThese
  <2> HIDE DEF kinds
  <2>3. s # << >> /\ Alone(s, kinds)
    BY <1>1, <2>2
  <2>4. d = "open" /\ w = ToExecHeader
    BY <1>4 DEF Awaits
  <2>5. QED
    BY <2>3, <2>4 DEF At, AtOpen, kinds
<1>5. CASE c = "prepare"
  <2>1. s # << >> /\ Statement(s)
    BY <1>5, StatementArrives
  <2>2. d = "prepare" /\ w = ToPrepared
    BY <1>5 DEF Awaits
  <2>3. QED
    BY <2>1, <2>2 DEF At, AtPrepare
<1>6. CASE c = "exec"
  <2>1. r \in SecondResult
    BY <1>6 DEF Replies, SecondResult, RowsOfExec
  <2>2. s # << >> /\ Result(s)
    BY <2>1, ResultArrives DEF SecondResult
  <2>3. d = "exec" /\ w = ToExecHeader
    BY <1>6 DEF Awaits
  <2>4. QED
    BY <2>2, <2>3 DEF At, AtExec
<1>7. CASE c = "query"
  <2>1. \/ r = <<p("err")>> \/ r \in ResultSets \cup FailedSets
        \/ r \in SeveralResults
    BY <1>7 DEF Replies, QueryReplies
  <2>2. s # << >> /\ QueryAnswer(s)
    <3>1. CASE r = <<p("err")>>
      BY <1>1, <3>1, PacketIs DEF QueryAnswer
    <3>2. CASE r \in ResultSets \cup FailedSets
      BY <3>2, SetArrives
    <3>3. CASE r \in SeveralResults
      BY <3>3, SeveralArrive
    <3>4. QED
      BY <2>1, <3>1, <3>2, <3>3
  <2>3. d = "query" /\ w = ToQueryHeader
    BY <1>7 DEF Awaits
  <2>4. QED
    BY <2>2, <2>3 DEF At, AtQuery
<1>8. QED
  BY <1>2, <1>3, <1>4, <1>5, <1>6, <1>7 DEF Awaits

------------------------------------------------------------------------------
(* The packets on their way.                                               *)

LEMMA Joined ==
  ASSUME NEW S, NEW a \in Seq(S), NEW b \in Seq(S)
  PROVE  /\ a \o b \in Seq(S)
         /\ a = << >> => a \o b = b
         /\ b = << >> => a \o b = a
         /\ a \o b = << >> <=> a = << >> /\ b = << >>
         /\ a # << >> => /\ (a \o b)[1] = a[1] /\ a[1] \in S
                         /\ Tail(a \o b) = Tail(a) \o b
<1> DEFINE c == a \o b
           m == Len(a)
           n == Len(b)
<1>1. m \in Nat /\ n \in Nat
  OBVIOUS
<1>2. /\ c \in Seq(S) /\ Len(c) = m + n
      /\ \A i \in 1 .. m + n : c[i] = IF i =< m THEN a[i] ELSE b[i - m]
  BY ConcatProperties
<1>3. a = << >> => c = b
  BY ConcatEmptySeq
<1>4. b = << >> => c = a
  BY ConcatEmptySeq
<1>5. c = << >> <=> a = << >> /\ b = << >>
  <2>1. /\ a = << >> <=> m = 0
        /\ b = << >> <=> n = 0
    BY EmptySeq
  <2> HIDE DEF c, m, n
  <2>2. c = << >> <=> m + n = 0
    BY <1>2, EmptySeq
  <2>3. QED
    BY <1>1, <2>1, <2>2
<1>6. ASSUME a # << >>
      PROVE  c[1] = a[1] /\ a[1] \in S /\ Tail(c) = Tail(a) \o b
  <2> DEFINE t == Tail(a)
             u == Tail(c)
             v == t \o b
  <2>1. m > 0
    BY <1>1, <1>6, EmptySeq
  <2>2. c[1] = a[1] /\ a[1] \in S
    <3>1. 1 \in 1 .. m + n /\ 1 =< m
      BY <1>1, <2>1
    <3>2. c[1] = a[1]
      BY <1>2, <3>1
    <3>3. QED
      BY <2>1, <3>2, ElementOfSeq
  <2>3. t \in Seq(S) /\ Len(t) = m - 1 /\ \A i \in 1 .. m - 1 : t[i] = a[i + 1]
    BY <1>6, Parts
  <2>4. u \in Seq(S) /\ Len(u) = m + n - 1
        /\ \A i \in 1 .. m + n - 1 : u[i] = c[i + 1]
    <3> HIDE DEF c, m, n
    <3>1. c # << >>
      BY <1>1, <1>2, <2>1, EmptySeq
    <3>2. QED
      BY <1>1, <1>2, <3>1, Parts
  <2> HIDE DEF c, t, u, m, n
  <2>5. /\ v \in Seq(S) /\ Len(v) = m - 1 + n
        /\ \A i \in 1 .. m - 1 + n :
             v[i] = IF i =< m - 1 THEN t[i] ELSE b[i - (m - 1)]
    <3>1. /\ v \in Seq(S) /\ Len(v) = Len(t) + Len(b)
          /\ \A i \in 1 .. Len(t) + Len(b) :
               v[i] = IF i =< Len(t) THEN t[i] ELSE b[i - Len(t)]
      BY <2>3, ConcatProperties
    <3> HIDE DEF v
    <3>2. QED
      BY <2>3, <3>1 DEF n
  <2> HIDE DEF v
  <2>6. \A i \in 1 .. m + n - 1 : u[i] = v[i]
    <3> SUFFICES ASSUME NEW i \in 1 .. m + n - 1 PROVE u[i] = v[i]
      OBVIOUS
    <3>1. i + 1 \in 1 .. m + n /\ i \in 1 .. m - 1 + n
          /\ (i + 1) - m = i - (m - 1)
          /\ (i + 1 =< m <=> i =< m - 1)
      BY <1>1
    <3>2. u[i] = IF i + 1 =< m THEN a[i + 1] ELSE b[(i + 1) - m]
      BY <1>2, <2>4, <3>1
    <3>3. v[i] = IF i =< m - 1 THEN t[i] ELSE b[i - (m - 1)]
      BY <2>5, <3>1
    <3>4. i =< m - 1 => t[i] = a[i + 1]
      BY <1>1, <2>3
    <3>5. QED
      BY <3>1, <3>2, <3>3, <3>4
  <2>7. u = v
    <3>1. Len(u) = Len(v)
      BY <1>1, <2>4, <2>5
    <3>2. QED
      BY <2>4, <2>5, <2>6, <3>1, SeqEqual
  <2>8. QED
    BY <2>2, <2>7 DEF u, v, t
<1>7. QED
  BY <1>2, <1>3, <1>4, <1>5, <1>6

LEMMA Together ==
  ASSUME NEW S, NEW t \in Seq(S), NEW n \in 1 .. Len(t)
  PROVE  SubSeq(t, 1, n) \o SubSeq(t, n + 1, Len(t)) = t
<1> DEFINE a == SubSeq(t, 1, n)
           b == SubSeq(t, n + 1, Len(t))
           c == a \o b
           l == Len(t)
<1>1. l \in Nat /\ n \in Nat /\ n =< l
  OBVIOUS
<1>2. a \in Seq(S) /\ Len(a) = n /\ \A i \in 1 .. n : a[i] = t[i]
  OBVIOUS
<1>3. b \in Seq(S) /\ Len(b) = l - n /\ \A i \in 1 .. l - n : b[i] = t[n + i]
  OBVIOUS
<1> HIDE DEF a, b
<1>4. /\ c \in Seq(S) /\ Len(c) = Len(a) + Len(b)
      /\ \A i \in 1 .. Len(a) + Len(b) :
           c[i] = IF i =< Len(a) THEN a[i] ELSE b[i - Len(a)]
  BY <1>2, <1>3, ConcatProperties
<1> HIDE DEF c
<1>5. Len(c) = l /\ Len(a) + Len(b) = l
  BY <1>1, <1>2, <1>3, <1>4
<1>6. \A i \in 1 .. l : c[i] = t[i]
  <2> SUFFICES ASSUME NEW i \in 1 .. l PROVE c[i] = t[i]
    OBVIOUS
  <2>1. c[i] = IF i =< n THEN a[i] ELSE b[i - n]
    BY <1>2, <1>4, <1>5
  <2>2. CASE i =< n
    BY <1>2, <2>1, <2>2
  <2>3. CASE ~(i =< n)
    <3>1. i - n \in 1 .. l - n /\ n + (i - n) = i
      BY <1>1, <2>3
    <3>2. QED
      BY <1>3, <2>1, <2>3, <3>1
  <2>4. QED
    BY <2>2, <2>3
<1>7. c = t
  BY <1>4, <1>5, <1>6, SeqEqual DEF l
<1>8. QED
  BY <1>7 DEF a, b, c

LEMMA CutBehind ==
  ASSUME NEW S, NEW a \in Seq(S), NEW b \in Seq(S), NEW n \in 0 .. Len(b)
  PROVE  \E k \in 0 .. Len(a \o b) :
           a \o SubSeq(b, 1, n) = SubSeq(a \o b, 1, k)
<1> DEFINE c == a \o b
           p == SubSeq(b, 1, n)
           q == a \o p
           m == Len(a)
           k == m + n
           r == SubSeq(c, 1, k)
<1>1. m \in Nat /\ n \in Nat /\ Len(b) \in Nat /\ n =< Len(b)
  OBVIOUS
<1>2. p \in Seq(S) /\ Len(p) = n /\ \A i \in 1 .. n : p[i] = b[i]
  <2>1. 1 =< n + 1 /\ n =< Len(b)
    BY <1>1
  <2>2. QED
    BY <1>1, <2>1
<1>3. /\ c \in Seq(S) /\ Len(c) = m + Len(b)
      /\ \A i \in 1 .. m + Len(b) :
           c[i] = IF i =< m THEN a[i] ELSE b[i - m]
  BY ConcatProperties
<1> HIDE DEF p, c
<1>4. /\ q \in Seq(S) /\ Len(q) = m + n
      /\ \A i \in 1 .. m + n :
           q[i] = IF i =< m THEN a[i] ELSE p[i - m]
  <2>1. /\ q \in Seq(S) /\ Len(q) = Len(a) + Len(p)
        /\ \A i \in 1 .. Len(a) + Len(p) :
             q[i] = IF i =< Len(a) THEN a[i] ELSE p[i - Len(a)]
    BY <1>2, ConcatProperties
  <2> HIDE DEF q
  <2>2. QED
    BY <1>2, <2>1
<1>5. k \in 0 .. Len(c)
  <2> HIDE DEF m
  <2>1. QED
    BY <1>1, <1>3
<1> HIDE DEF q, m
<1>6. r \in Seq(S) /\ Len(r) = k /\ \A i \in 1 .. k : r[i] = c[i]
  BY <1>1, <1>3, <1>5
<1>7. \A i \in 1 .. m + n : q[i] = r[i]
  <2> SUFFICES ASSUME NEW i \in 1 .. m + n PROVE q[i] = r[i]
    OBVIOUS
  <2>1. i \in 1 .. m + Len(b) /\ i \in 1 .. k
    BY <1>1
  <2>2. r[i] = IF i =< m THEN a[i] ELSE b[i - m]
    BY <1>3, <1>6, <2>1
  <2>3. q[i] = IF i =< m THEN a[i] ELSE p[i - m]
    BY <1>4
  <2>4. ~(i =< m) => i - m \in 1 .. n
    BY <1>1
  <2>5. ~(i =< m) => p[i - m] = b[i - m]
    BY <1>2, <2>4
  <2>6. CASE i =< m
    BY <2>2, <2>3, <2>6, Zenon
  <2>7. CASE ~(i =< m)
    BY <2>2, <2>3, <2>5, <2>7, Zenon
  <2>8. QED
    BY <2>6, <2>7
<1> HIDE DEF r
<1>8. q = r
  BY <1>4, <1>6, <1>7, SeqEqual
<1>9. QED
  BY <1>5, <1>8 DEF q, r, p, c

LEMMA NumberedTail ==
  ASSUME NEW s \in Seq(Arrival), s # << >>, Tail(s) # << >>, NEW n,
         Numbered(s, n)
  PROVE  Numbered(Tail(s), (n + 1) % SequenceSize)
<1> DEFINE t == Tail(s)
           l == Len(s)
<1>1. t \in Seq(Arrival) /\ l \in Nat /\ Len(t) = l - 1
      /\ \A i \in 1 .. l - 1 : t[i] = s[i + 1]
  BY Parts
<1>2. /\ s[1].seq = n
      /\ \A i \in 1 .. l - 1 : s[i + 1].seq = (s[i].seq + 1) % SequenceSize
  BY DEF Numbered
<1> HIDE DEF l
<1>3. Len(t) > 0
  <2> HIDE DEF t
  <2>1. t # << >>
    BY DEF t
  <2>2. QED
    BY <1>1, <2>1, EmptySeq
<1> HIDE DEF t
<1>4. t[1].seq = (n + 1) % SequenceSize
  <2>1. 1 \in 1 .. l - 1 /\ 1 + 1 = 2
    BY <1>1, <1>3
  <2>2. t[1] = s[1 + 1] /\ s[1 + 1].seq = (s[1].seq + 1) % SequenceSize
    BY <1>1, <1>2, <2>1
  <2>3. QED
    BY <1>2, <2>2
<1>5. \A i \in 1 .. Len(t) - 1 : t[i + 1].seq = (t[i].seq + 1) % SequenceSize
  <2> SUFFICES ASSUME NEW i \in 1 .. Len(t) - 1
               PROVE  t[i + 1].seq = (t[i].seq + 1) % SequenceSize
    OBVIOUS
  <2>1. i \in 1 .. l - 1 /\ i + 1 \in 1 .. l - 1
    BY <1>1
  <2>2. t[i] = s[i + 1] /\ t[i + 1] = s[(i + 1) + 1]
        /\ s[(i + 1) + 1].seq = (s[i + 1].seq + 1) % SequenceSize
    BY <1>1, <1>2, <2>1
  <2>3. QED
    BY <2>2
<1>6. Numbered(t, (n + 1) % SequenceSize)
  BY <1>4, <1>5 DEF Numbered
<1>7. QED
  BY <1>6 DEF t

LEMMA NumberedCut ==
  ASSUME NEW s \in Seq(Arrival), NEW k \in 0 .. Len(s), NEW n, Numbered(s, n),
         SubSeq(s, 1, k) # << >>
  PROVE  Numbered(SubSeq(s, 1, k), n)
<1> DEFINE p == SubSeq(s, 1, k)
<1>1. Len(s) \in Nat /\ k \in Nat /\ k =< Len(s)
  OBVIOUS
<1>2. p \in Seq(Arrival) /\ Len(p) = k /\ \A i \in 1 .. k : p[i] = s[i]
  BY <1>1
<1>3. k > 0
  <2>1. p # << >>
    OBVIOUS
  <2> HIDE DEF p
  <2>2. QED
    BY <1>1, <1>2, <2>1, EmptySeq
<1> HIDE DEF p
<1>4. p[1] = s[1]
  BY <1>1, <1>2, <1>3
<1>5. \A i \in 1 .. k - 1 : p[i] = s[i] /\ p[i + 1] = s[i + 1]
                            /\ i \in 1 .. Len(s) - 1
  <2> SUFFICES ASSUME NEW i \in 1 .. k - 1
               PROVE  p[i] = s[i] /\ p[i + 1] = s[i + 1]
                      /\ i \in 1 .. Len(s) - 1
    OBVIOUS
  <2>1. i \in 1 .. k /\ i + 1 \in 1 .. k /\ i \in 1 .. Len(s) - 1
    BY <1>1
  <2>2. QED
    BY <1>2, <2>1
<1>6. Numbered(p, n)
  BY <1>2, <1>4, <1>5 DEF Numbered
<1>7. QED
  BY <1>6 DEF p

\* s is answer r to command number c, which had sequence number q.
AnswerSent(s, r, c, q) ==
  Len(s) = Len(r) /\ \A i \in 1 .. Len(r) : s[i] = Sent(r[i], c, q + i)

\* An answer is numbered on from its command.
LEMMA NumberedSent ==
  ASSUME NEW r \in Seq(Pack), r # << >>, NEW c \in Nat, NEW q \in Nat,
         NEW s \in Seq(Arrival), AnswerSent(s, r, c, q)
  PROVE  /\ Carries(s, r) /\ Numbered(s, (q + 1) % SequenceSize)
         /\ \A i \in 1 .. Len(s) : s[i].cmd = c
<1> DEFINE l == Len(r)
<1>1. l \in Nat /\ l > 0
  BY EmptySeq
<1>2. Len(s) = l /\ \A i \in 1 .. l : s[i] = Sent(r[i], c, q + i)
  BY DEF AnswerSent
<1>3. \A p, n : /\ Like(Sent(p, c, n), p) /\ Sent(p, c, n).cmd = c
                /\ Sent(p, c, n).seq = n % SequenceSize
  BY DEF Sent, Like
<1>4. Carries(s, r) /\ \A i \in 1 .. Len(s) : s[i].cmd = c
  BY <1>2, <1>3 DEF Carries
<1> HIDE DEF l
<1>5. s[1].seq = (q + 1) % SequenceSize
  BY <1>1, <1>2, <1>3
<1>6. \A i \in 1 .. l - 1 : s[i + 1].seq = (s[i].seq + 1) % SequenceSize
  <2> SUFFICES ASSUME NEW i \in 1 .. l - 1
               PROVE  s[i + 1].seq = (s[i].seq + 1) % SequenceSize
    OBVIOUS
  <2>1. i \in 1 .. l /\ i + 1 \in 1 .. l /\ q + i \in Nat
        /\ q + (i + 1) = (q + i) + 1
    BY <1>1
  <2>2. s[i].seq = (q + i) % SequenceSize
    BY <1>2, <1>3, <2>1
  <2>3. s[i + 1].seq = (q + (i + 1)) % SequenceSize
    BY <1>2, <1>3, <2>1
  <2>4. (((q + i) % SequenceSize) + 1) % SequenceSize
          = ((q + i) + 1) % SequenceSize
    <3>1. SequenceSize \in Nat /\ SequenceSize > 1
      BY MysqlAssumption
    <3>2. QED
      BY <2>1, <3>1, WrapsAround
  <2>5. QED
    BY <2>1, <2>2, <2>3, <2>4
<1>7. QED
  BY <1>2, <1>4, <1>5, <1>6 DEF Numbered

------------------------------------------------------------------------------
(* Where a call is.                                                        *)

LEMMA RowsCutOff ==
  ASSUME NEW S, NEW s \in Seq(S), NEW n \in 0 .. Len(s), NEW d, NEW w, NEW u,
         Fits(d, w, u, s)
  PROVE  Fits(d, w, u, SubSeq(s, 1, n))
<1> DEFINE p == SubSeq(s, 1, n)
<1>1. s = << >> => p = << >>
  OBVIOUS
<1>2. Rows(s) => Rows(p)
  BY RowsCut
<1>3. At(d, w, s) => At(d, w, p)
  BY AtCut
<1> HIDE DEF p
<1>4. Fits(d, w, u, p)
  BY <1>1, <1>2, <1>3 DEF Fits, Between
<1>5. QED
  BY <1>4 DEF p

LEMMA NothingFits ==
  ASSUME NEW S, NEW s \in Seq(S), NEW d, NEW w, NEW u, Fits(d, w, u, s)
  PROVE  Fits(d, w, u, << >>)
<1>1. 0 \in 0 .. Len(s) /\ SubSeq(s, 1, 0) = << >>
  BY CutOff
<1>2. QED
  BY <1>1, RowsCutOff

Calls == {"open", "prepare", "exec", "query", "next", "close"}

LEMMA CallHasTasks ==
  ASSUME NEW d, NEW w, NEW s, At(d, w, s)
  PROVE  w # << >> /\ d \in Calls
<1>1. AtLists(w, s) \/ AtMore(w, s) => w # << >>
  BY SomethingToDo DEF AtLists, AtMore
<1>2. AtOpen(w, s) => w # << >>
  BY SomethingToDo DEF AtOpen
<1>3. AtPrepare(w, s) \/ AtExec(w, s) \/ AtQuery(w, s) \/ AtNext(w, s)
      => w # << >>
  BY <1>1, SomethingToDo DEF AtPrepare, AtExec, AtQuery, AtNext
<1>4. QED
  BY <1>1, <1>2, <1>3 DEF At, Calls

\* A call that has something to do is one of Calls; the others rest.
LEMMA BusyOrNot ==
  ASSUME NEW d, NEW w, NEW u, NEW s, Fits(d, w, u, s)
  PROVE  /\ w # << >> => At(d, w, s) /\ d \in Calls
         /\ w = << >> => d \in Resting /\ Between(u, s)
         /\ d \in Resting => w = << >>
<1>1. At(d, w, s) => w # << >> /\ d \in Calls
  BY CallHasTasks
<1>2. \A x \in Calls : x \notin Resting
  BY DEF Calls, Resting
<1>3. QED
  BY <1>1, <1>2 DEF Fits

LEMMA KindsOfTasks ==
  /\ \A t \in {"init", "authResult", "varHeader", "varRow", "execHeader",
               "queryHeader", "moreHeader", "columns", "eof", "row",
               "prepared", "discard"} : t \in ReadTask /\ t \notin WriteTask
  /\ \A t \in {"auth", "oldAuth", "var", "charset", "prepare", "exec",
               "query"} : t \in WriteTask /\ t \notin ReadTask
<1>1. WriteTask = {"auth", "oldAuth", "var", "charset", "prepare", "exec",
                  "query"}
  BY TasksTyped
<1>2. QED
  BY <1>1 DEF ReadTask

\* A call writes when nothing is left, and awaits its answer then.
LEMMA WritesAre ==
  ASSUME NEW d, NEW w, NEW s, At(d, w, s), Head(w) \in WriteTask
  PROVE  /\ s = << >> /\ Awaits(d, Tail(w), Head(w))
         /\ d # "open" => ~IsAuth(Head(w))
<1>1. ~AtLists(w, s) /\ ~AtMore(w, s)
  BY OtherScripts, KindsOfTasks DEF AtLists, AtMore
<1>2. CASE d = "open" /\ AtOpen(w, s)
  <2>1. w \in {ToAuth, ToOldAuth, ToVar, ToCharset} /\ s = << >>
    BY <1>2, OpenScripts, OtherScripts, KindsOfTasks DEF AtOpen
  <2>2. QED
    BY <1>2, <2>1, OpenScripts DEF Awaits
<1>3. CASE d = "prepare" /\ AtPrepare(w, s)
  BY <1>1, <1>3, OtherScripts, KindsOfTasks DEF AtPrepare, Awaits, IsAuth
<1>4. CASE d = "exec" /\ AtExec(w, s)
  BY <1>1, <1>4, OtherScripts, KindsOfTasks DEF AtExec, Awaits, IsAuth
<1>5. CASE d = "query" /\ AtQuery(w, s)
  BY <1>1, <1>5, OtherScripts, KindsOfTasks DEF AtQuery, Awaits, IsAuth
<1>6. CASE d = "next" /\ AtNext(w, s)
  BY <1>1, <1>6, OtherScripts, KindsOfTasks DEF AtNext
<1>7. QED
  BY <1>1, <1>2, <1>3, <1>4, <1>5, <1>6 DEF At

LEMMA AwaitsAre ==
  ASSUME NEW d, NEW w, NEW c, Awaits(d, w, c)
  PROVE  /\ At(d, w, << >>) /\ w # << >> /\ Head(w) \in ReadTask
         /\ Head(w) \notin WriteTask
         /\ d \in {"open", "prepare", "exec", "query"} /\ c # "stmtClose"
<1>1. At(d, w, << >>)
  BY Empty DEF Awaits, At, AtOpen, AtPrepare, AtExec, AtQuery
<1>2. Head(w) \in ReadTask /\ Head(w) \notin WriteTask
  <2>1. \/ w = ToAuthResult \/ w = ToVarHeader \/ w = ToExecHeader
        \/ w = ToPrepared \/ w = ToQueryHeader
    BY DEF Awaits
  <2>2. Head(w) \in {"authResult", "varHeader", "execHeader", "prepared",
                     "queryHeader"}
    BY <2>1, OpenScripts, OtherScripts
  <2>3. QED
    BY <2>2, KindsOfTasks
<1>3. QED
  BY <1>1, <1>2, CallHasTasks DEF Awaits

LEMMA RowsOrColumns ==
  ASSUME NEW d, NEW w, NEW s, At(d, w, s)
  PROVE  /\ Head(w) = "columns" => d = "query"
         /\ Head(w) = "row" => d = "next"
<1>1. AtLists(w, s) \/ AtMore(w, s) => Head(w) \notin {"columns", "row"}
  BY OtherScripts DEF AtLists, AtMore
<1>2. AtOpen(w, s) => Head(w) \notin {"columns", "row"}
  BY OpenScripts, OtherScripts DEF AtOpen
<1>3. AtPrepare(w, s) => Head(w) \notin {"columns", "row"}
  BY <1>1, OtherScripts DEF AtPrepare
<1>4. AtExec(w, s) => Head(w) \notin {"columns", "row"}
  BY <1>1, OtherScripts DEF AtExec
<1>5. AtQuery(w, s) => Head(w) # "row"
  BY <1>1, OtherScripts DEF AtQuery
<1>6. AtNext(w, s) => Head(w) # "columns"
  BY <1>1, OtherScripts DEF AtNext
<1>7. QED
  BY <1>1, <1>2, <1>3, <1>4, <1>5, <1>6 DEF At

------------------------------------------------------------------------------
(* The connection, before a step.                                          *)

LEMMA ArrivingIs ==
  ASSUME Types
  PROVE  /\ Arriving \in Seq(Arrival)
         /\ buffer = << >> => Arriving = toClient
         /\ Arriving = << >> <=> buffer = << >> /\ toClient = << >>
         /\ buffer # << >> =>
              /\ Arriving[1] = Head(buffer) /\ Arriving # << >>
              /\ Head(buffer) = buffer[1] /\ Head(buffer) \in Arrival
              /\ Tail(buffer) \in Seq(Arrival)
              /\ Tail(Arriving) = Tail(buffer) \o toClient
<1>1. buffer \in Seq(Arrival) /\ toClient \in Seq(Arrival)
  BY Packets
<1>2. buffer # << >> => Head(buffer) = buffer[1] /\ Tail(buffer) \in Seq(Arrival)
                        /\ Head(buffer) \in Arrival
  BY <1>1, Parts
<1>3. QED
  BY <1>1, <1>2, Joined DEF Arriving

LEMMA PlaceIs ==
  ASSUME Types, ConnInv
  PROVE  /\ Place(<< >>)
         /\ todo # << >> => At(doing, todo, << >>) /\ doing \in Calls
         /\ todo = << >> => doing \in Resting
         /\ doing \in Resting => todo = << >>
<1>1. Place(<< >>)
  <2>1. CASE Still \/ Killed
    BY <2>1 DEF Still, Killed
  <2>2. CASE Asked
    BY <2>2, AwaitsAre DEF Asked, Place, Fits
  <2>3. CASE Answered
    BY <2>3, ArrivingIs, NothingFits DEF Answered, Place
  <2>4. QED
    BY <2>1, <2>2, <2>3 DEF ConnInv
<1>2. QED
  BY <1>1, BusyOrNot DEF Place

\* Only a call that is read in order has an answer to read.
LEMMA InOrder ==
  ASSUME Types, ConnInv, Reading, buffer # << >>, InSync(Head(buffer))
  PROVE  Answered /\ At(doing, todo, Arriving)
<1>1. ~Still /\ ~Asked
  BY ArrivingIs DEF Still, Asked
<1>2. ~Killed
  BY ArrivingIs DEF Killed, InSync
<1>3. Answered
  BY <1>1, <1>2 DEF ConnInv
<1>4. QED
  BY <1>3, BusyOrNot DEF Answered, Place, Reading

LEMMA OutOfOrder ==
  ASSUME Types, ConnInv, Reading, buffer # << >>, ~InSync(Head(buffer))
  PROVE  Killed
<1>1. ~Still /\ ~Asked
  BY ArrivingIs DEF Still, Asked
<1>2. ~Answered
  BY ArrivingIs DEF Answered, Numbered, InSync
<1>3. QED
  BY <1>1, <1>2 DEF ConnInv

\* A connection at rest, without rows, has no answer to read.
LEMMA AtRest ==
  ASSUME Types, ConnInv, todo = << >>
  PROVE  /\ ~Asked /\ doing \in Resting
         /\ unread => Still \/ Answered
         /\ ~unread => Still \/ Killed
<1>1. ~Asked
  BY AwaitsAre DEF Asked
<1>2. ~unread => ~Answered
  BY BusyOrNot DEF Answered, Place, Between
<1>3. doing \in Resting
  BY PlaceIs
<1>4. QED
  BY <1>1, <1>2, <1>3 DEF ConnInv, Killed

\* The conjuncts of ConnInv mention no other variable.
LEMMA SameConn ==
  ASSUME ConnInv,
         UNCHANGED <<open, sequence, buffer, todo, unread, link, toServer,
                     toClient, doing, pooled, cmd>>
  PROVE  ConnInv'
BY DEF ConnInv, Kept, Still, Killed, Asked, Answered, Arriving, Place, Reading

\* A connection that is closed has nothing on its way to the client.
LEMMA GivenUp ==
  ASSUME todo' = << >>, doing' \in Resting, buffer' = << >>, toClient' = << >>,
         OnlyCloses(toServer')
  PROVE  Still'
<1>1. Arriving' = << >>
  BY ConcatEmptySeq DEF Arriving
<1>2. Place(<< >>)'
  BY DEF Place, Fits, Between
<1>3. QED
  BY <1>1, <1>2 DEF Still

LEMMA NothingCloses == OnlyCloses(<< >>)
BY DEF OnlyCloses

------------------------------------------------------------------------------
(* Every step keeps ConnInv.                                               *)

LEMMA StaysStill ==
  ASSUME Arriving' = << >>, OnlyCloses(toServer'), Place(<< >>)'
  PROVE  Still'
BY DEF Still

LEMMA WritePacketKeeps ==
  ASSUME Types, Types', ConnInv, WritePacket
  PROVE  ConnInv'
<1> DEFINE c == Head(todo)
           w == Tail(todo)
<1>1. todo # << >> /\ c \in WriteTask /\ buffer = << >>
  BY DEF WritePacket, Writing, BufferIsBusy
<1>2. /\ todo' = w /\ cmd' = cmd + 1
      /\ sequence' = (FirstSeq(c) + 1) % SequenceSize
      /\ toServer' = IF link = "cut" THEN toServer
                     ELSE Append(toServer, [command |-> c, cmd |-> cmd + 1,
                                            seq |-> FirstSeq(c)])
      /\ UNCHANGED <<open, buffer, unread, link, toClient, doing, pooled>>
  BY DEF WritePacket, sqlVars
<1>3. open /\ doing \in Calls
  BY <1>1, PlaceIs DEF ConnInv, Kept
<1>4. /\ \A s : At(doing, todo, s) => s = << >>
      /\ Awaits(doing, w, c) /\ (doing # "open" => ~IsAuth(c))
  BY <1>1, PlaceIs, WritesAre
<1>5. At(doing, w, << >>)
  BY <1>4, AwaitsAre
<1>6. Place(<< >>)'
  BY <1>2, <1>5 DEF Place, Fits
<1>7. ~Asked
  BY <1>1, AwaitsAre DEF Asked
<1>8. ~Answered
  BY <1>1, <1>4, BusyOrNot DEF Answered, Place
<1>9. Arriving' = Arriving
  BY <1>2 DEF Arriving
<1>10. Kept' <=> open' \/ Still'
  BY <1>1, <1>2, <1>3 DEF ConnInv, Kept
<1>11. Kept'
  BY <1>2, <1>3, <1>10
<1>12. CASE Killed
  <2>1. link = "cut" /\ doing # "open"
    BY <1>12 DEF Killed
  <2>2. sequence' = 1
    <3>1. FirstSeq(c) = 0
      BY <1>4, <2>1 DEF FirstSeq
    <3>2. 1 % SequenceSize = 1
      BY MysqlAssumption
    <3>3. QED
      BY <1>2, <3>1, <3>2
  <2>3. Killed'
    BY <1>2, <1>6, <1>9, <1>12, <2>1, <2>2 DEF Killed
  <2>4. QED
    BY <1>11, <2>3 DEF ConnInv
<1>13. CASE Still /\ link = "cut"
  BY <1>2, <1>6, <1>9, <1>11, <1>13 DEF Still, ConnInv
<1>14. CASE Still /\ link # "cut"
  <2> DEFINE o == [command |-> c, cmd |-> cmd + 1, seq |-> FirstSeq(c)]
             n == Len(toServer)
  <2>1. toServer' = Append(toServer, o)
    BY <1>2, <1>14
  <2>2. toServer \in Seq(Order) /\ n \in Nat
    BY Packets
  <2>3. o.command = c /\ o.cmd = cmd + 1 /\ o.seq = FirstSeq(c)
    OBVIOUS
  <2>4. o \in Order
    <3>1. c \in Command
      BY <1>1 DEF WriteTask
    <3>2. FirstSeq(c) \in Nat
      BY Packets DEF FirstSeq
    <3>3. cmd + 1 \in Nat
      BY DEF Types
    <3>4. QED
      BY <3>1, <3>2, <3>3 DEF Order
  <2> HIDE DEF o
  <2>5. /\ Len(toServer') = n + 1 /\ toServer'[n + 1] = o
        /\ \A i \in 1 .. n : toServer'[i] = toServer[i]
    BY <2>1, <2>2, <2>4, AppendProperties
  <2>6. \A i \in 1 .. n : toServer'[i].command = "stmtClose"
    BY <1>14, <2>5 DEF Still, OnlyCloses
  <2>7. Arriving' = << >> /\ toServer' # << >>
    BY <1>9, <1>14, <2>1, <2>2, <2>4, AppendProperties DEF Still
  <2> HIDE DEF c, w, n
  <2>8. Asked'
    <3>1. (n + 1) - 1 = n
      BY <2>2
    <3>2. /\ Awaits(doing', todo', toServer'[n + 1].command)
          /\ toServer'[n + 1].cmd = cmd'
          /\ sequence' = (toServer'[n + 1].seq + 1) % SequenceSize
      BY <1>2, <1>4, <2>3, <2>5
    <3>3. QED
      BY <2>5, <2>6, <2>7, <3>1, <3>2 DEF Asked
  <2>9. QED
    BY <1>11, <2>8 DEF ConnInv
<1>15. QED
  BY <1>7, <1>8, <1>12, <1>13, <1>14 DEF ConnInv

LEMMA ReturnsBadKeeps ==
  ASSUME Types, Types', ConnInv, ReturnsBad, todo # << >>
  PROVE  ConnInv'
<1>1. todo' = << >>
  BY DEF ReturnsBad
<1>2. open /\ doing \in Calls
  BY PlaceIs DEF ConnInv, Kept
<1>3. CASE doing \in {"open", "prepare", "exec", "query"} /\ Drop /\ TryAgain
  <2>1. /\ ~open' /\ ~unread' /\ buffer' = << >> /\ toClient' = << >>
        /\ toServer' = << >> /\ doing' = "none"
    BY <1>3 DEF Drop, TryAgain, EndJob
  <2>2. Still'
    BY <1>1, <2>1, GivenUp, NothingCloses DEF Resting
  <2>3. QED
    BY <1>1, <2>1, <2>2 DEF ConnInv, Kept
<1>4. CASE doing \in {"next", "close"} /\ CloseConn
  <2>1. /\ ~open' /\ buffer' = << >> /\ toClient' = << >>
        /\ toServer' = toServer
    BY <1>4 DEF CloseConn
  <2>2. /\ pooled' = pooled
        /\ doing' \in {"rows", "none", "closeStmt"}
        /\ unread' => doing' = "rows"
    BY <1>4 DEF ReturnsBad, Broken, RowsEnd, Finish, EndJob
  <2>3. pooled
    BY <1>2, <1>4 DEF ConnInv, Kept
  <2>4. OnlyCloses(toServer)
    <3>1. ~Asked
      BY <1>4, AwaitsAre DEF Asked
    <3>2. QED
      BY <3>1, NothingCloses DEF ConnInv, Still, Killed, Answered
  <2>5. Still'
    BY <1>1, <2>1, <2>2, <2>4, GivenUp DEF Resting
  <2>6. QED
    BY <1>1, <2>1, <2>2, <2>3, <2>5 DEF ConnInv, Kept
<1>5. QED
  BY <1>3, <1>4 DEF ReturnsBad, Broken

LEMMA ReceiveKeeps ==
  ASSUME Types, Types', ConnInv, Receive
  PROVE  ConnInv'
<1>1. Arriving' = Arriving
  <2>1. buffer = << >> /\ toClient \in Seq(Arrival)
    BY Packets DEF Receive
  <2>2. PICK n \in 1 .. Len(toClient) :
          /\ buffer' = SubSeq(toClient, 1, n)
          /\ toClient' = SubSeq(toClient, n + 1, Len(toClient))
    BY DEF Receive
  <2>3. buffer' \o toClient' = toClient
    BY <2>1, <2>2, Together
  <2>4. QED
    BY <2>1, <2>3, ArrivingIs DEF Arriving
<1>2. UNCHANGED <<open, sequence, todo, unread, link, toServer, doing, pooled,
                  cmd>>
  BY DEF Receive, sqlVars, histVars
<1>3. /\ Still' <=> Still
      /\ Killed' <=> Killed
      /\ Asked' <=> Asked
      /\ Answered' <=> Answered
  BY <1>1, <1>2 DEF Still, Killed, Asked, Answered, Place, Reading
<1>4. QED
  BY <1>2, <1>3 DEF ConnInv, Kept

LEMMA FinishRests ==
  ASSUME NEW o, Finish(o)
  PROVE  doing' \in {"none", "closeStmt"}
BY DEF Finish, EndJob

LEMMA OutOfSyncKeeps ==
  ASSUME Types, Types', ConnInv, OutOfSync
  PROVE  ConnInv'
<1>1. Killed /\ open /\ todo # << >> /\ doing \in Calls
  BY OutOfOrder, PlaceIs DEF OutOfSync, Reading, ConnInv, Kept
<1>2. doing # "open" /\ ~unread
  BY <1>1 DEF Killed
<1>3. /\ todo' = << >> /\ ~unread' /\ Refused
      /\ UNCHANGED <<open, sequence, buffer, link, toServer, toClient>>
  BY <1>2 DEF OutOfSync, netVars
<1>4. pooled' = pooled /\ doing' \in {"rows", "none", "closeStmt"}
  BY <1>2, <1>3, FinishRests DEF Refused, RowsEnd
<1>5. pooled
  BY <1>1, <1>2 DEF ConnInv, Kept
<1>6. Killed'
  <2>1. Place(<< >>)'
    BY <1>3, <1>4 DEF Place, Fits, Between, Resting
  <2>2. Arriving' = Arriving
    BY <1>3 DEF Arriving
  <2>3. QED
    BY <1>1, <1>3, <1>4, <2>1, <2>2 DEF Killed, Reading
<1>7. QED
  BY <1>1, <1>3, <1>4, <1>5, <1>6 DEF ConnInv, Kept

\* The call has read a packet: what follows it comes next.
LEMMA OneRead ==
  ASSUME Types, Answered, buffer # << >>,
         buffer' = Tail(buffer), sequence' = (sequence + 1) % SequenceSize,
         UNCHANGED <<toServer, toClient, cmd>>,
         Fits(doing', todo', unread', Tail(Arriving))
  PROVE  Still' \/ Answered'
<1> DEFINE s == Arriving
           t == Tail(Arriving)
<1>1. s \in Seq(Arrival) /\ s # << >> /\ t = Tail(buffer) \o toClient
  BY ArrivingIs
<1>2. Arriving' = t
  BY <1>1 DEF Arriving
<1>3. Place(Arriving)'
  BY <1>2 DEF Place
<1>4. toServer' = << >>
  BY DEF Answered
<1>5. CASE t = << >>
  <2>1. Place(<< >>)'
    BY <1>5 DEF Place
  <2>2. QED
    BY <1>2, <1>4, <1>5, <2>1, StaysStill, NothingCloses
<1>6. CASE t # << >>
  <2>1. Numbered(t, sequence')
    BY <1>1, <1>6, NumberedTail DEF Answered
  <2>2. \A i \in 1 .. Len(t) : t[i].cmd = cmd
    <3> HIDE DEF s
    <3>1. /\ Len(s) \in Nat /\ Len(t) = Len(s) - 1
          /\ \A i \in 1 .. Len(s) - 1 : t[i] = s[i + 1]
      BY <1>1, Parts DEF s
    <3>2. \A i \in 1 .. Len(s) : s[i].cmd = cmd
      BY DEF Answered, s
    <3> HIDE DEF t
    <3>3. QED
      BY <3>1, <3>2
  <2> HIDE DEF t
  <2>3. /\ Arriving' # << >> /\ Numbered(Arriving', sequence')
        /\ \A i \in 1 .. Len(Arriving') : Arriving'[i].cmd = cmd'
    BY <1>2, <1>6, <2>1, <2>2, Zenon
  <2>4. QED
    BY <1>3, <1>4, <2>3 DEF Answered
<1>7. QED
  BY <1>5, <1>6

LEMMA ReadPartKeeps ==
  ASSUME Types, Types', ConnInv, ReadPart
  PROVE  ConnInv'
<1>1. /\ todo # << >> /\ buffer # << >> /\ Head(buffer).full
      /\ buffer' = Tail(buffer) /\ sequence' = (sequence + 1) % SequenceSize
      /\ UNCHANGED <<open, todo, unread, link, toServer, toClient, doing,
                     pooled, cmd>>
  BY DEF ReadPart, Reading, netVars, sqlVars, histVars
<1>2. Answered /\ At(doing, todo, Arriving)
  BY InOrder DEF ReadPart
<1>3. At(doing, todo, Tail(Arriving))
  BY <1>1, <1>2, ArrivingIs, PartRead
<1>4. Still' \/ Answered'
  BY <1>1, <1>2, <1>3, OneRead DEF Fits
<1>5. open
  BY <1>1 DEF ConnInv, Kept
<1>6. QED
  BY <1>1, <1>4, <1>5 DEF ConnInv, Kept

LEMMA ReadKeeps ==
  ASSUME Types, Types', ConnInv, Read
  PROVE  ConnInv'
<1> DEFINE t == Head(todo)
           p == Head(buffer)
<1>1. /\ todo # << >> /\ buffer # << >> /\ InSync(p)
      /\ GoesOn(t, p, Tail(todo), todo')
      /\ buffer' = Tail(buffer) /\ sequence' = (sequence + 1) % SequenceSize
      /\ UNCHANGED <<open, link, toServer, toClient, cmd>>
  BY DEF Read, Reading, netVars
<1>2. IF todo' = << >>
        THEN /\ unread' = UnreadAfter(t, p)
             /\ IF doing = "next" /\ ~unread' THEN RowsEnd("ok") ELSE Succeeds
        ELSE UNCHANGED <<unread, doing, pooled>>
  BY DEF Read, sqlVars
<1>3. Answered /\ At(doing, todo, Arriving)
  BY <1>1, InOrder DEF Read
<1>4. open /\ doing \in Calls /\ (pooled \/ doing = "open")
  BY <1>1, PlaceIs DEF ConnInv, Kept
<1>5. /\ Arriving \in Seq(Arrival) /\ Arriving # << >> /\ Arriving[1] = p
  BY <1>1, ArrivingIs
<1> HIDE DEF p
<1>6. \/ At(doing, todo', Tail(Arriving))
      \/ todo' = << >> /\ Tail(Arriving) = << >>
      \/ /\ todo' = << >> /\ UnreadAfter(t, p) /\ Rows(Tail(Arriving))
         /\ doing \in {"query", "next"}
  BY <1>1, <1>3, <1>5, Reads
<1>7. CASE todo' # << >>
  <2>1. At(doing, todo', Tail(Arriving)) /\ UNCHANGED <<unread, doing, pooled>>
    BY <1>2, <1>6, <1>7
  <2>2. Fits(doing', todo', unread', Tail(Arriving))
    BY <2>1 DEF Fits
  <2>3. Still' \/ Answered'
    BY <1>1, <1>3, <2>2, OneRead
  <2>4. QED
    BY <1>1, <1>4, <2>1, <2>3 DEF ConnInv, Kept
<1>8. CASE todo' = << >>
  <2>1. ~At(doing, todo', Tail(Arriving))
    BY <1>8, CallHasTasks
  <2>2. /\ unread' = UnreadAfter(t, p)
        /\ \/ ~unread' /\ RowsEnd("ok")
           \/ (doing = "next" => unread') /\ Succeeds
    BY <1>2, <1>8
  <2>3. unread' => doing \in {"query", "next"}
    BY <1>3, <2>2, RowsOrColumns DEF UnreadAfter
  <2>4. CASE RowsEnd("ok") /\ ~unread'
    <3>1. doing' = "rows" /\ pooled' = pooled
      BY <2>4 DEF RowsEnd
    <3>2. doing # "open"
      <4>1. RowsEnd("ok") /\ (doing = "next" \/ Succeeds)
        BY <1>2, <1>8, <2>4
      <4>2. CASE doing = "next"
        BY <4>2
      <4>3. CASE Succeeds
        BY <3>1, <4>3, FinishRests DEF Succeeds
      <4>4. QED
        BY <4>1, <4>2, <4>3
    <3>3. Tail(Arriving) = << >>
      BY <1>6, <2>1, <2>2, <2>4
    <3>4. Fits(doing', todo', unread', Tail(Arriving))
      BY <1>8, <3>1, <3>3 DEF Fits, Between, Resting
    <3>5. Still' \/ Answered'
      BY <1>1, <1>3, <3>4, OneRead
    <3>6. QED
      BY <1>1, <1>4, <1>8, <2>4, <3>1, <3>2, <3>5 DEF ConnInv, Kept
  <2>5. CASE Succeeds /\ (doing = "next" => unread')
    <3>1. /\ doing' \in {"none", "closeStmt", "read", "rows"}
          /\ doing \in {"query", "next"} => doing' \in {"read", "rows"}
          /\ doing = "open" => pooled'
          /\ doing # "open" => pooled' = pooled
      BY <2>5, FinishRests DEF Succeeds
    <3>2. Between(unread', Tail(Arriving))
      BY <1>6, <2>1, <2>2 DEF Between
    <3>3. Fits(doing', todo', unread', Tail(Arriving))
      BY <1>8, <3>1, <3>2 DEF Fits, Resting
    <3>4. Still' \/ Answered'
      BY <1>1, <1>3, <3>3, OneRead
    <3>5. QED
      BY <1>1, <1>4, <1>8, <2>3, <3>1, <3>4 DEF ConnInv, Kept
  <2>6. QED
    BY <2>2, <2>4, <2>5
<1>9. QED
  BY <1>7, <1>8

LEMMA ReadErrorKeeps ==
  ASSUME Types, Types', ConnInv, ReadError
  PROVE  ConnInv'
<1> DEFINE t == Head(todo)
           p == Head(buffer)
<1>1. /\ todo # << >> /\ buffer # << >> /\ t # "eof"
      /\ p.kind \in Errors /\ todo' = << >> /\ Refused /\ cmd' = cmd
  BY DEF ReadError, Reading
<1>2. Answered /\ At(doing, todo, Arriving)
  BY <1>1, InOrder DEF ReadError
<1>3. open /\ doing \in Calls /\ (pooled \/ doing = "open")
  BY <1>1, PlaceIs DEF ConnInv, Kept
<1>4. Arriving \in Seq(Arrival) /\ Arriving # << >> /\ Arriving[1] = p
  BY <1>1, ArrivingIs
<1>5. p.kind \in {"err", "otherAuth", "oldAuth"}
  BY <1>1 DEF Errors
<1> HIDE DEF p
<1>6. Tail(Arriving) = << >>
  BY <1>1, <1>2, <1>4, <1>5, ErrorIsLast
<1>7. CASE doing = "open"
  <2>1. /\ ~open' /\ ~unread' /\ buffer' = << >> /\ toClient' = << >>
        /\ toServer' = << >>
    BY <1>7 DEF ReadError, Drop
  <2>2. doing' \in {"none", "closeStmt"}
    BY <1>1, <1>7, FinishRests DEF Refused
  <2>3. Still'
    BY <1>1, <2>1, <2>2, GivenUp, NothingCloses DEF Resting
  <2>4. QED
    BY <1>1, <2>1, <2>3 DEF ConnInv, Kept
<1>8. CASE doing # "open"
  <2>1. /\ unread' = (unread /\ t # "row" /\ InUse)
        /\ buffer' = Tail(buffer) /\ sequence' = (sequence + 1) % SequenceSize
        /\ UNCHANGED <<open, link, toServer, toClient>>
    BY <1>8 DEF ReadError, netVars
  <2>2. /\ pooled' = pooled
        /\ doing' \in {"rows", "none", "closeStmt"}
        /\ doing = "next" => doing' = "rows"
    BY <1>1, <1>8, FinishRests DEF Refused, RowsEnd
  <2>3. unread' => doing' = "rows"
    <3>1. unread' => doing \in {"rows", "read", "next"}
      BY <2>1 DEF ConnInv, Kept, InUse
    <3>2. QED
      BY <1>3, <2>2, <3>1 DEF Calls
  <2>4. Fits(doing', todo', unread', Tail(Arriving))
    BY <1>1, <1>6, <2>2 DEF Fits, Between, Resting
  <2>5. Still' \/ Answered'
    BY <1>1, <1>2, <2>1, <2>4, OneRead
  <2>6. QED
    BY <1>1, <1>3, <1>8, <2>1, <2>2, <2>3, <2>5 DEF ConnInv, Kept
<1>9. QED
  BY <1>7, <1>8

LEMMA OpenKeeps ==
  ASSUME Types, Types', ConnInv, Open
  PROVE  ConnInv'
<1>1. /\ doing = "none" /\ ~pooled /\ open' /\ doing' = "open"
      /\ todo' = ToInit /\ sequence' = 0 /\ buffer' = << >>
      /\ UNCHANGED <<unread, toServer, cmd>>
  BY DEF Open, Ready, Call, ToInit, histVars
<1>2. PICK k \in {"init", "err"} : toClient' = <<Sent(Packet(k), cmd, 0)>>
  BY DEF Open
<1>3. ~open /\ toServer = << >> /\ ~unread
  BY <1>1 DEF ConnInv, Kept
<1> DEFINE p == Sent(Packet(k), cmd, 0)
           s == <<p>>
<1>4. p.kind = k /\ ~p.more /\ ~p.full /\ p.cmd = cmd /\ p.seq = 0
  <2>1. 0 % SequenceSize = 0
    BY MysqlAssumption
  <2>2. QED
    BY <2>1, PacketIs DEF Sent
<1> HIDE DEF p
<1>5. s # << >> /\ s[1] = p /\ Len(s) = 1 /\ Tail(s) = << >>
  OBVIOUS
<1> HIDE DEF s
<1>6. toClient' = s
  BY <1>2 DEF s, p
<1>7. Arriving' = s
  BY <1>1, <1>6, ConcatEmptySeq, Packets DEF Arriving, Types
<1>8. Alone(s, {"init", "err"})
  BY <1>4, <1>5 DEF Alone, Starts
<1>9. Place(Arriving)'
  BY <1>1, <1>7, <1>8 DEF Place, Fits, At, AtOpen
<1>10. /\ Arriving' # << >> /\ Numbered(Arriving', sequence')
       /\ \A i \in 1 .. Len(Arriving') : Arriving'[i].cmd = cmd'
  <2>1. /\ s # << >> /\ Numbered(s, 0)
        /\ \A i \in 1 .. Len(s) : s[i].cmd = cmd
    BY <1>4, <1>5 DEF Numbered
  <2>2. sequence' = 0 /\ cmd' = cmd
    BY <1>1
  <2>3. QED
    BY <1>7, <2>1, <2>2, Zenon
<1>11. Answered'
  BY <1>1, <1>3, <1>9, <1>10 DEF Answered
<1>12. QED
  BY <1>1, <1>3, <1>11 DEF ConnInv, Kept

\* A call that begins has written nothing.
LEMMA Begins ==
  ASSUME Types, ConnInv, doing = "none", open, pooled,
         UNCHANGED <<open, sequence, buffer, unread, link, toServer, toClient,
                     pooled, cmd>>,
         doing' \in {"prepare", "exec", "query"}, At(doing', todo', << >>),
         Head(todo') \notin ReadTask
  PROVE  ConnInv'
<1>1. todo = << >> /\ ~unread
  BY PlaceIs DEF ConnInv, Kept, Resting
<1>2. Still \/ Killed
  BY <1>1, AtRest
<1>3. Place(<< >>)'
  BY DEF Place, Fits
<1>4. Arriving' = Arriving
  BY DEF Arriving
<1>5. ~Reading'
  BY DEF Reading
<1>6. Still' \/ Killed'
  BY <1>1, <1>2, <1>3, <1>4, <1>5 DEF Still, Killed
<1>7. QED
  BY <1>1, <1>6 DEF ConnInv, Kept

LEMMA AskKeeps ==
  ASSUME Types, Types', ConnInv, Ask
  PROVE  ConnInv'
<1>1. /\ doing = "none" /\ open /\ pooled
      /\ UNCHANGED <<open, sequence, buffer, unread, link, toServer, toClient,
                     pooled, cmd>>
  BY DEF Ask, Ready, Call, netVars, histVars
<1>2. \/ doing' = "prepare" /\ todo' = ToPrepare
      \/ doing' = "exec" /\ todo' = ToExec
      \/ doing' = "query" /\ todo' = ToQuery
  BY DEF Ask, Call, ToPrepare, ToExec, ToQuery
<1>3. At(doing', todo', << >>)
  BY <1>2 DEF At, AtPrepare, AtExec, AtQuery
<1>4. Head(todo') \notin ReadTask
  <2>1. Head(todo') \in {"prepare", "exec", "query"}
    BY <1>2, OtherScripts
  <2>2. QED
    BY <2>1, KindsOfTasks
<1>5. QED
  BY <1>1, <1>2, <1>3, <1>4, Begins

LEMMA AskClosedKeeps ==
  ASSUME Types, Types', ConnInv, AskClosed
  PROVE  ConnInv'
<1>1. /\ ~open' /\ ~unread' /\ buffer' = << >> /\ toClient' = << >>
      /\ toServer' = << >> /\ doing' = "none"
  BY DEF AskClosed, Drop, TryAgain, EndJob, Ready
<1>2. todo' = << >>
  BY PlaceIs DEF AskClosed, Ready, Resting
<1>3. Still'
  BY <1>1, <1>2, GivenUp, NothingCloses DEF Resting
<1>4. QED
  BY <1>1, <1>2, <1>3 DEF ConnInv, Kept

LEMMA NextRowKeeps ==
  ASSUME Types, Types', ConnInv, NextRow
  PROVE  ConnInv'
<1>1. /\ doing = "rows" /\ unread /\ open /\ doing' = "next" /\ todo' = ToRow
      /\ UNCHANGED <<open, sequence, buffer, unread, link, toServer, toClient,
                     pooled, cmd>>
  BY DEF NextRow, Call, ToRow, netVars, histVars
<1>2. todo = << >> /\ pooled
  BY <1>1, PlaceIs DEF ConnInv, Kept, Resting
<1>3. Arriving' = Arriving
  BY <1>1 DEF Arriving
<1>4. \A s : Rows(s) => Fits(doing', todo', unread', s)
  BY <1>1 DEF Fits, At, AtNext
<1>5. ASSUME Still PROVE Still'
  <2>1. Place(<< >>)'
    BY <1>4, Empty DEF Place
  <2>2. QED
    BY <1>1, <1>3, <1>5, <2>1 DEF Still
<1>6. ASSUME Answered PROVE Answered'
  <2>1. Rows(Arriving)
    BY <1>2, <1>6, BusyOrNot DEF Answered, Place, Between
  <2>2. Place(Arriving)'
    BY <1>3, <1>4, <2>1 DEF Place
  <2>3. QED
    BY <1>1, <1>3, <1>6, <2>2 DEF Answered
<1>7. Still' \/ Answered'
  BY <1>1, <1>2, <1>5, <1>6, AtRest
<1>8. QED
  BY <1>1, <1>2, <1>7 DEF ConnInv, Kept

LEMMA CloseRowsKeeps ==
  ASSUME Types, Types', ConnInv, CloseRows
  PROVE  ConnInv'
<1>1. /\ doing \in {"read", "rows"}
      /\ UNCHANGED <<open, sequence, buffer, link, toServer, toClient, pooled,
                     cmd>>
  <2>1. CASE Drains
    BY <2>1 DEF CloseRows, Call, netVars, histVars
  <2>2. CASE ~Drains
    BY <2>2 DEF CloseRows, netVars, histVars
  <2>3. QED
    BY <2>1, <2>2
<1>2. todo = << >>
  BY <1>1, PlaceIs DEF Resting
<1>3. Arriving' = Arriving
  BY <1>1 DEF Arriving
<1>4. CASE Drains
  <2>1. /\ unread /\ open /\ unread' = unread /\ doing' = "close"
        /\ todo' = ToDiscard
    BY <1>4 DEF CloseRows, Drains, Call, ToDiscard
  <2>2. \A s : Rows(s) => Fits(doing', todo', unread', s)
    BY <2>1 DEF Fits, At, AtMore
  <2>3. ASSUME Still PROVE Still'
    <3>1. Place(<< >>)'
      BY <2>2, Empty DEF Place
    <3>2. QED
      BY <1>1, <1>3, <2>3, <3>1 DEF Still
  <2>4. ASSUME Answered PROVE Answered'
    <3>1. Rows(Arriving)
      BY <1>2, <2>4, BusyOrNot DEF Answered, Place, Between
    <3>2. Place(Arriving)'
      BY <1>3, <2>2, <3>1 DEF Place
    <3>3. QED
      BY <1>1, <1>3, <2>4, <3>2 DEF Answered
  <2>5. Still' \/ Answered'
    BY <1>2, <2>1, <2>3, <2>4, AtRest
  <2>6. pooled
    BY <1>1, <2>1 DEF ConnInv, Kept
  <2>7. QED
    BY <1>1, <2>1, <2>5, <2>6 DEF ConnInv, Kept
<1>5. CASE ~Drains
  <2>1. /\ ~unread' /\ todo' = << >> /\ doing' \in {"none", "closeStmt"}
    BY <1>2, <1>5, FinishRests DEF CloseRows
  <2>2. Still \/ Killed
    <3>1. ~open => Still
      BY DEF ConnInv, Kept
    <3>2. QED
      BY <1>2, <1>5, <3>1, AtRest DEF Drains
  <2>3. Place(<< >>)'
    BY <2>1 DEF Place, Fits, Between, Resting
  <2>4. ASSUME Still PROVE Still'
    BY <1>1, <1>3, <2>3, <2>4 DEF Still
  <2>5. ASSUME Killed PROVE Killed'
    BY <1>1, <1>3, <2>1, <2>3, <2>5 DEF Killed, Reading
  <2>6. Kept'
    BY <1>1, <2>1, <2>4 DEF ConnInv, Kept
  <2>7. QED
    BY <2>2, <2>4, <2>5, <2>6 DEF ConnInv
<1>6. QED
  BY <1>4, <1>5

LEMMA CloseStmtKeeps ==
  ASSUME Types, Types', ConnInv, CloseStmt
  PROVE  ConnInv'
<1> DEFINE o == [command |-> "stmtClose", cmd |-> cmd, seq |-> 0]
<1>1. /\ doing = "closeStmt" /\ doing' = "none"
      /\ UNCHANGED <<open, buffer, todo, unread, link, toClient, pooled, cmd>>
  BY DEF CloseStmt, EndJob, histVars
<1>2. \/ toServer' = toServer
      \/ open /\ link # "cut" /\ toServer' = Append(toServer, o)
  BY DEF CloseStmt
<1>3. todo = << >> /\ ~unread
  BY <1>1, PlaceIs DEF Resting, ConnInv, Kept
<1>4. Arriving' = Arriving
  BY <1>1 DEF Arriving
<1>5. Place(<< >>)'
  BY <1>1, <1>3 DEF Place, Fits, Between, Resting
<1>6. OnlyCloses(toServer) => OnlyCloses(toServer')
  <2>1. toServer \in Seq(Order)
    BY Packets
  <2>2. o.command = "stmtClose" /\ o \in Order
    BY CommandIs DEF Order, Types
  <2> HIDE DEF o
  <2>3. /\ Len(Append(toServer, o)) = Len(toServer) + 1
        /\ Append(toServer, o)[Len(toServer) + 1] = o
        /\ \A i \in 1 .. Len(toServer) : Append(toServer, o)[i] = toServer[i]
    BY <2>1, <2>2, AppendProperties
  <2>4. OnlyCloses(toServer) => OnlyCloses(Append(toServer, o))
    BY <2>1, <2>2, <2>3 DEF OnlyCloses
  <2>5. QED
    BY <1>2, <2>4
<1>7. ASSUME Still PROVE Still'
  BY <1>4, <1>5, <1>6, <1>7 DEF Still
<1>8. ASSUME Killed PROVE Killed'
  <2>1. toServer' = toServer
    BY <1>2, <1>8 DEF Killed
  <2>2. QED
    BY <1>1, <1>3, <1>4, <1>5, <1>8, <2>1 DEF Killed, Reading
<1>9. Kept'
  BY <1>1, <1>2, <1>3, <1>7 DEF ConnInv, Kept
<1>10. QED
  BY <1>3, <1>7, <1>8, <1>9, AtRest DEF ConnInv

LEMMA ReplySentTyped ==
  ASSUME Types, NEW r \in Seq(Pack), NEW c \in Nat, NEW q \in Nat
  PROVE  [i \in 1 .. Len(r) |-> Sent(r[i], c, q + i)] \in Seq(Arrival)
<1> DEFINE f(i) == Sent(r[i], c, q + i)
<1>1. ASSUME NEW i \in 1 .. Len(r) PROVE f(i) \in Arrival
  <2>1. r[i] \in Pack /\ q + i \in Nat
    OBVIOUS
  <2>2. QED
    BY <2>1, SentTyped
<1>2. Len(r) \in Nat
  OBVIOUS
<1> HIDE DEF f
<1>3. [i \in 1 .. Len(r) |-> f(i)] \in Seq(Arrival)
  BY <1>1, <1>2
<1>4. QED
  BY <1>3 DEF f

\* Every command but stmtClose is answered.
LEMMA SomeReply ==
  ASSUME NEW d, NEW w, NEW c, Awaits(d, w, c), NEW r \in Replies[c]
  PROVE  r # << >>
<1>1. c \in Command
  BY CommandIs DEF Awaits
<1>2. r \in Seq(Pack)
  BY <1>1, RepliesTyped
<1>3. Carries(r, r)
  BY <1>2 DEF Carries, Like
<1>4. QED
  BY <1>1, <1>2, <1>3, ReplyArrives

LEMMA ServeKeeps ==
  ASSUME Types, Types', ConnInv, Serve
  PROVE  ConnInv'
<1> DEFINE c == Head(toServer)
           n == Len(toServer)
<1>1. PICK reply \in Replies[c.command] :
        toClient' = IF link = "cut" THEN toClient
                    ELSE toClient \o [i \in 1 .. Len(reply) |->
                                        Sent(reply[i], c.cmd, c.seq + i)]
  BY DEF Serve
<1>2. /\ toServer # << >> /\ toServer' = Tail(toServer)
      /\ UNCHANGED <<link, open, sequence, buffer, todo, unread, doing, pooled,
                     cmd>>
  BY DEF Serve, connVars, sqlVars, histVars
<1>3. /\ c \in Order /\ n \in Nat \ {0} /\ c = toServer[1]
      /\ toServer' \in Seq(Order) /\ Len(toServer') = n - 1
      /\ \A i \in 1 .. n - 1 : toServer'[i] = toServer[i + 1]
  BY <1>2, Packets, Parts
<1>4. c.command \in Command /\ c.cmd \in Nat /\ c.seq \in Nat
  BY <1>3 DEF Order
<1>5. toClient = << >> /\ buffer = << >>
  <2>1. Arriving = << >>
    BY <1>2 DEF ConnInv, Still, Killed, Asked, Answered
  <2>2. QED
    BY <2>1, ArrivingIs
<1>6. pooled \/ doing = "open"
  BY <1>2 DEF ConnInv, Kept
<1> HIDE DEF c, n
<1>7. ASSUME c.command = "stmtClose" PROVE Arriving' = << >>
  <2>1. reply = << >>
    BY <1>7 DEF Replies
  <2>2. \A f : [i \in 1 .. 0 |-> f] = << >>
    OBVIOUS
  <2>3. Len(reply) = 0
    BY <2>1
  <2> DEFINE z == [i \in 1 .. Len(reply) |-> Sent(reply[i], c.cmd, c.seq + i)]
  <2>4. z = << >>
    BY <2>3
  <2>5. << >> \o << >> = << >>
    OBVIOUS
  <2> HIDE DEF z
  <2>6. toClient' = IF link = "cut" THEN toClient ELSE toClient \o z
    BY <1>1 DEF z
  <2>7. QED
    BY <1>2, <1>5, <2>4, <2>5, <2>6 DEF Arriving
<1>8. Place(<< >>)'
  BY <1>2, PlaceIs DEF Place
<1>9. CASE Still
  <2>1. \A i \in 1 .. n : toServer[i].command = "stmtClose"
    BY <1>9 DEF Still, OnlyCloses, n
  <2>2. c.command = "stmtClose"
    <3>1. 1 \in 1 .. n
      BY <1>3
    <3>2. QED
      BY <1>3, <2>1, <3>1
  <2>3. OnlyCloses(toServer')
    <3>1. \A i \in 1 .. n - 1 : i + 1 \in 1 .. n
      BY <1>3
    <3>2. QED
      BY <1>3, <2>1, <3>1 DEF OnlyCloses
  <2>4. Still'
    BY <1>7, <1>8, <2>2, <2>3, StaysStill
  <2>5. QED
    BY <1>2, <1>6, <2>4 DEF ConnInv, Kept
<1>10. CASE Asked
  <2>1. /\ Awaits(doing, todo, toServer[n].command)
        /\ toServer[n].cmd = cmd
        /\ sequence = (toServer[n].seq + 1) % SequenceSize
        /\ \A i \in 1 .. n - 1 : toServer[i].command = "stmtClose"
    BY <1>10 DEF Asked, n
  <2>2. todo # << >> /\ open
    BY <2>1, AwaitsAre DEF ConnInv, Kept
  <2>3. Kept'
    BY <1>2, <1>6, <2>2 DEF ConnInv, Kept
  <2>4. CASE n = 1
    <3>1. Awaits(doing, todo, c.command) /\ c.cmd = cmd
          /\ sequence = (c.seq + 1) % SequenceSize
      BY <1>3, <2>1, <2>4
    <3>2. toServer' = << >>
      BY <1>3, <2>4, EmptySeq
    <3>3. CASE link = "cut"
      <4>1. Arriving' = << >>
        BY <1>1, <1>2, <1>5, <3>3, ConcatEmptySeq DEF Arriving
      <4>2. Still'
        BY <1>8, <3>2, <4>1, NothingCloses, StaysStill
      <4>3. QED
        BY <2>3, <4>2 DEF ConnInv
    <3>4. CASE link # "cut"
      <4> DEFINE z == [i \in 1 .. Len(reply) |->
                         Sent(reply[i], c.cmd, c.seq + i)]
      <4>1. toClient' = z
        <5>1. toClient' = << >> \o z
          BY <1>1, <1>5, <3>4
        <5>2. toClient' \in Seq(Arrival)
          BY DEF Types
        <5>3. reply \in Seq(Pack)
          BY <1>4, RepliesTyped
        <5>4. z \in Seq(Arrival)
          BY <1>4, <5>3, ReplySentTyped
        <5> HIDE DEF z
        <5>5. QED
          BY <5>1, <5>4, ConcatEmptySeq
      <4>2. reply \in Seq(Pack)
        BY <1>4, RepliesTyped
      <4>3. z \in Seq(Arrival)
        BY <1>4, <4>2, ReplySentTyped
      <4>4. reply # << >>
        BY <3>1, SomeReply
      <4>5. PICK s : s = z
        OBVIOUS
      <4>6. /\ Carries(s, reply) /\ Numbered(s, (c.seq + 1) % SequenceSize)
            /\ \A i \in 1 .. Len(s) : s[i].cmd = c.cmd
        <5>1. s \in Seq(Arrival)
          BY <4>3, <4>5
        <5>2. /\ Len(z) = Len(reply)
              /\ \A i \in 1 .. Len(reply) :
                   z[i] = Sent(reply[i], c.cmd, c.seq + i)
          BY <4>2
        <5> DEFINE b == c.cmd
                   q == c.seq
        <5>3. b \in Nat /\ q \in Nat /\ AnswerSent(s, reply, b, q)
          BY <1>4, <4>5, <5>2, Zenon DEF AnswerSent
        <5> HIDE DEF b, q
        <5>4. /\ Carries(s, reply) /\ Numbered(s, (q + 1) % SequenceSize)
              /\ \A i \in 1 .. Len(s) : s[i].cmd = b
          BY <4>2, <4>4, <5>1, <5>3, NumberedSent
        <5>5. QED
          BY <5>4 DEF b, q
      <4> HIDE DEF z
      <4>7. s # << >> /\ At(doing, todo, s)
        BY <1>4, <3>1, <4>3, <4>5, <4>6, ReplyArrives
      <4>8. Arriving' = s
        BY <1>2, <1>5, <4>1, <4>3, <4>5, ConcatEmptySeq DEF Arriving
      <4>9. Place(Arriving)'
        BY <1>2, <4>7, <4>8 DEF Place, Fits
      <4>10. /\ Arriving' # << >> /\ Numbered(Arriving', sequence')
             /\ \A i \in 1 .. Len(Arriving') : Arriving'[i].cmd = cmd'
        <5>1. Numbered(s, sequence') /\ \A i \in 1 .. Len(s) : s[i].cmd = cmd'
          BY <1>2, <3>1, <4>6
        <5>2. QED
          BY <4>7, <4>8, <5>1, Zenon
      <4>11. QED
        BY <2>3, <3>2, <4>9, <4>10 DEF ConnInv, Answered
    <3>5. QED
      BY <3>3, <3>4
  <2>5. CASE n # 1
    <3>1. n > 1 /\ 1 \in 1 .. n - 1 /\ n - 1 \in 1 .. n - 1
          /\ (n - 1) + 1 = n
      BY <1>3, <2>5
    <3>2. Arriving' = << >>
      BY <1>3, <1>7, <2>1, <3>1
    <3>3. toServer' # << >> /\ toServer'[n - 1] = toServer[n]
      BY <1>3, <3>1
    <3>4. \A i \in 1 .. (n - 1) - 1 : toServer'[i].command = "stmtClose"
      <4> SUFFICES ASSUME NEW i \in 1 .. (n - 1) - 1
                   PROVE  toServer'[i].command = "stmtClose"
        OBVIOUS
      <4>1. i \in 1 .. n - 1 /\ i + 1 \in 1 .. n - 1
        BY <1>3
      <4>2. QED
        BY <1>3, <2>1, <4>1
    <3>5. Asked'
      BY <1>2, <1>3, <2>1, <3>2, <3>3, <3>4 DEF Asked
    <3>6. QED
      BY <2>3, <3>5 DEF ConnInv
  <2>6. QED
    BY <2>4, <2>5
<1>11. QED
  BY <1>2, <1>9, <1>10 DEF ConnInv, Killed, Answered

LEMMA BreakKeeps ==
  ASSUME Types, Types', ConnInv, Break
  PROVE  ConnInv'
<1>1. /\ link = "up"
      /\ UNCHANGED <<open, sequence, buffer, todo, unread, doing, pooled, cmd>>
  BY DEF Break, connVars, sqlVars, histVars
<1>2. PICK m \in 0 .. Len(toServer) : toServer' = SubSeq(toServer, 1, m)
  BY DEF Break
<1>3. PICK n \in 0 .. Len(toClient) : toClient' = SubSeq(toClient, 1, n)
  BY DEF Break
<1>4. /\ buffer \in Seq(Arrival) /\ toClient \in Seq(Arrival)
      /\ toServer \in Seq(Order)
  BY Packets
<1>5. PICK k \in 0 .. Len(Arriving) : Arriving' = SubSeq(Arriving, 1, k)
  <2>1. \E k \in 0 .. Len(buffer \o toClient) :
          buffer \o SubSeq(toClient, 1, n) = SubSeq(buffer \o toClient, 1, k)
    BY <1>4, CutBehind
  <2>2. Arriving' = buffer \o SubSeq(toClient, 1, n)
    BY <1>1, <1>3 DEF Arriving
  <2>3. QED
    BY <2>1, <2>2 DEF Arriving
<1>6. Arriving \in Seq(Arrival)
  BY ArrivingIs
<1>7. /\ toServer = << >> => toServer' = << >>
      /\ Arriving = << >> => Arriving' = << >>
  BY <1>2, <1>4, <1>5, <1>6
<1>8. /\ toServer' \in Seq(Order) /\ Len(toServer') = m
      /\ \A i \in 1 .. m : toServer'[i] = toServer[i]
  BY <1>2, <1>4
<1>9. Place(<< >>)'
  BY <1>1, PlaceIs DEF Place
<1>10. ASSUME Still PROVE Still'
  <2>1. OnlyCloses(toServer')
    BY <1>4, <1>8, <1>10 DEF Still, OnlyCloses
  <2>2. Arriving' = << >>
    BY <1>7, <1>10 DEF Still
  <2>3. QED
    BY <1>9, <2>1, <2>2, StaysStill
<1>11. Kept'
  BY <1>1, <1>7, <1>10 DEF ConnInv, Kept
<1>12. ASSUME Asked PROVE Still' \/ Asked'
  <2>1. Arriving' = << >>
    BY <1>7, <1>12 DEF Asked
  <2>2. CASE m = Len(toServer)
    <3>1. toServer' = toServer
      BY <1>4, <1>8, <2>2, SeqEqual
    <3>2. QED
      BY <1>1, <1>12, <2>1, <3>1 DEF Asked
  <2>3. CASE m # Len(toServer)
    <3>1. \A i \in 1 .. m : i \in 1 .. Len(toServer) - 1
      BY <1>4, <2>3
    <3>2. OnlyCloses(toServer')
      BY <1>8, <1>12, <3>1 DEF Asked, OnlyCloses
    <3>3. QED
      BY <1>9, <2>1, <3>2, StaysStill
  <2>4. QED
    BY <2>2, <2>3
<1>13. ASSUME Answered PROVE Still' \/ Answered'
  <2>1. toServer' = << >>
    BY <1>7, <1>13 DEF Answered
  <2>2. CASE Arriving' = << >>
    BY <1>9, <2>1, <2>2, NothingCloses, StaysStill
  <2>3. CASE Arriving' # << >>
    <3> DEFINE p == SubSeq(Arriving, 1, k)
    <3>1. Arriving' = p
      BY <1>5
    <3>2. Fits(doing, todo, unread, p)
      BY <1>6, <1>13, RowsCutOff DEF Answered, Place
    <3>3. Numbered(p, sequence)
      BY <1>6, <1>13, <2>3, <3>1, NumberedCut DEF Answered
    <3>4. \A i \in 1 .. Len(p) : p[i].cmd = cmd
      <4>1. Len(p) = k /\ \A i \in 1 .. k : p[i] = Arriving[i]
                          /\ i \in 1 .. Len(Arriving)
        BY <1>6
      <4>2. \A i \in 1 .. Len(Arriving) : Arriving[i].cmd = cmd
        BY <1>13 DEF Answered
      <4>3. QED
        BY <4>1, <4>2
    <3>5. PICK s : s = p
      OBVIOUS
    <3> HIDE DEF p
    <3>6. Arriving' = s /\ Fits(doing, todo, unread, s)
          /\ Numbered(s, sequence) /\ \A i \in 1 .. Len(s) : s[i].cmd = cmd
      BY <3>1, <3>2, <3>3, <3>4, <3>5, Zenon
    <3>7. Place(Arriving)'
      BY <1>1, <3>6 DEF Place
    <3>8. /\ Numbered(Arriving', sequence')
          /\ \A i \in 1 .. Len(Arriving') : Arriving'[i].cmd = cmd'
      <4>1. sequence' = sequence /\ cmd' = cmd
        BY <1>1
      <4>2. QED
        BY <3>6, <4>1, Zenon
    <3>9. QED
      BY <2>1, <2>3, <3>7, <3>8 DEF Answered
  <2>4. QED
    BY <2>2, <2>3
<1>14. ~Killed
  BY <1>1 DEF Killed
<1>15. QED
  BY <1>10, <1>11, <1>12, <1>13, <1>14 DEF ConnInv

LEMMA KillKeeps ==
  ASSUME Types, Types', ConnInv, Kill
  PROVE  ConnInv'
<1> DEFINE p == Sent(Packet("err"), 0, 0)
           s == <<p>>
<1>1. /\ link = "up" /\ link' = "cut" /\ open /\ todo = << >> /\ ~unread
      /\ toServer = << >> /\ toClient' = Append(toClient, p)
      /\ UNCHANGED <<toServer, open, sequence, buffer, todo, unread, doing,
                     pooled, cmd>>
  BY DEF Kill, connVars, sqlVars, histVars
<1>2. Still
  BY <1>1, AtRest DEF Killed
<1>3. buffer = << >> /\ toClient = << >>
  BY <1>2, ArrivingIs DEF Still
<1>4. p.kind = "err" /\ p.seq = 0 /\ p.cmd = 0
  <2>1. 0 % SequenceSize = 0
    BY MysqlAssumption
  <2>2. QED
    BY <2>1, PacketIs DEF Sent
<1> HIDE DEF p
<1>5. toClient' = s
  BY <1>1, <1>3
<1>6. Len(s) = 1 /\ s[1] = p
  OBVIOUS
<1>7. Arriving' = toClient'
  BY <1>1, <1>3, ConcatEmptySeq DEF Arriving, Types
<1> HIDE DEF s
<1>8. Len(Arriving') = 1 /\ Arriving'[1].kind = "err"
      /\ Arriving'[1].seq = 0 /\ Arriving'[1].cmd = 0
  BY <1>4, <1>5, <1>6, <1>7
<1>9. doing \in Resting /\ doing # "open"
  BY <1>1, PlaceIs DEF Resting
<1>10. Place(<< >>)'
  BY <1>1, PlaceIs DEF Place
<1>11. Killed'
  BY <1>1, <1>8, <1>9, <1>10 DEF Killed, Reading
<1>12. QED
  BY <1>1, <1>11 DEF ConnInv, Kept

LEMMA InitConn == Init => ConnInv
<1> SUFFICES ASSUME Init PROVE ConnInv
  OBVIOUS
<1>1. Arriving = << >>
  BY ConcatEmptySeq DEF Init, Arriving
<1>2. Still
  BY <1>1, NothingCloses DEF Init, Still, Place, Fits, Between, Resting
<1>3. QED
  BY <1>2 DEF Init, ConnInv, Kept

LEMMA NextConn == Types /\ Types' /\ ConnInv /\ [Next]_vars => ConnInv'
<1> SUFFICES ASSUME Types, Types', ConnInv, [Next]_vars PROVE ConnInv'
  OBVIOUS
<1>1. CASE Driver
  BY <1>1, WritePacketKeeps, ReturnsBadKeeps, ReceiveKeeps, OutOfSyncKeeps,
     ReadPartKeeps, ReadKeeps, ReadErrorKeeps
  DEF Driver, WriteFails, ReadFails, Writing, Reading
<1>2. ASSUME Start PROVE ConnInv'
  BY <1>2, SameConn DEF Start, connVars, netVars, histVars
<1>3. ASSUME OpenFails PROVE ConnInv'
  BY <1>3, SameConn DEF OpenFails, EndJob, Ready, connVars, netVars, histVars
<1>4. CASE Sql
  BY <1>2, <1>3, <1>4, OpenKeeps, AskKeeps, AskClosedKeeps, NextRowKeeps,
     CloseRowsKeeps, CloseStmtKeeps DEF Sql
<1>5. ASSUME NEW j \in Job, ServeLate(j) PROVE ConnInv'
  BY <1>5, SameConn DEF ServeLate, connVars, netVars, sqlVars, histVars
<1>6. CASE Serve \/ Break \/ Kill \/ \E j \in Job : ServeLate(j)
  BY <1>5, <1>6, ServeKeeps, BreakKeeps, KillKeeps
<1>7. CASE UNCHANGED vars
  BY <1>7, SameConn DEF vars, connVars, netVars, sqlVars, histVars
<1>8. QED
  BY <1>1, <1>4, <1>6, <1>7 DEF Next

LEMMA ConnAlways == Spec => [](Types /\ ConnInv)
<1>1. Init => Types /\ ConnInv
  BY InitTyped, InitConn
<1>2. Types /\ ConnInv /\ [Next]_vars => (Types /\ ConnInv)'
  BY NextTyped, NextConn
<1>3. QED
  BY <1>1, <1>2, PTL DEF Spec

\* Whatever the server answers, in however many results and packets, and
\* wherever the connection breaks, the packet that a call accepts by its
\* number belongs to the answer to the command the call has sent
\* (readPacket).  It rests on what the calls read: each to the end of what it
\* asked for, or up to the error that ends it.
THEOREM AnswersAlwaysMatch == Spec => []AnswersMatch
<1>1. Types /\ ConnInv => AnswersMatch
  <2> SUFFICES ASSUME Types, ConnInv, Reading, buffer # << >>,
                      InSync(Head(buffer))
               PROVE  Head(buffer).cmd = cmd
    BY DEF AnswersMatch
  <2>1. Answered
    BY InOrder
  <2>2. Arriving \in Seq(Arrival) /\ Arriving # << >>
        /\ Arriving[1] = Head(buffer)
    BY ArrivingIs
  <2>3. 1 \in 1 .. Len(Arriving)
    BY <2>2, EmptySeq
  <2>4. QED
    BY <2>1, <2>2, <2>3 DEF Answered
<1>2. QED
  BY <1>1, ConnAlways, PTL

\* A connection that goes back to the pool carries no packet of an answer,
\* read or on its way, nor a command that will be answered: Rows.Close,
\* discardResults and the calls that fail leave none (rows.go, packets.go).
THEOREM NothingIsLeft == Spec => []NothingLeft
<1>1. Types /\ ConnInv => NothingLeft
  <2> SUFFICES ASSUME Types, ConnInv, todo = << >>, ~unread
               PROVE  /\ \A i \in 1 .. Len(buffer) : buffer[i].cmd = 0
                      /\ \A i \in 1 .. Len(toClient) : toClient[i].cmd = 0
                      /\ \A i \in 1 .. Len(toServer) :
                           toServer[i].command = "stmtClose"
    BY DEF NothingLeft
  <2>1. CASE Still
    BY <2>1, ArrivingIs DEF Still, OnlyCloses
  <2>2. CASE Killed
    <3>1. Arriving[1].cmd = 0 /\ Len(Arriving) = 1 /\ toServer = << >>
      BY <2>2 DEF Killed
    <3>2. buffer \in Seq(Arrival) /\ toClient \in Seq(Arrival)
      BY Packets
    <3>3. Len(buffer) + Len(toClient) = 1
      BY <3>1, <3>2, ConcatProperties DEF Arriving
    <3>4. CASE buffer = << >>
      <4>1. Arriving = toClient /\ Len(buffer) = 0 /\ Len(toServer) = 0
        BY <3>1, <3>4, ArrivingIs
      <4>2. \A i \in 1 .. 1 : toClient[i].cmd = 0
        BY <3>1, <4>1
      <4>3. Len(toClient) = 1
        BY <3>1, <4>1
      <4>4. \A i \in 1 .. 0 : FALSE
        OBVIOUS
      <4>5. /\ \A i \in 1 .. Len(buffer) : buffer[i].cmd = 0
            /\ \A i \in 1 .. Len(toServer) :
                 toServer[i].command = "stmtClose"
        BY <4>1, <4>4, Zenon
      <4>6. QED
        BY <4>2, <4>3, <4>5, Zenon
    <3>5. CASE buffer # << >>
      <4>1. Len(buffer) = 1 /\ Len(toClient) = 0
        BY <3>2, <3>3, <3>5, EmptySeq
      <4>2. buffer[1].cmd = 0
        BY <3>1, <3>5, ArrivingIs
      <4>3. QED
        BY <3>1, <4>1, <4>2
    <3>6. QED
      BY <3>4, <3>5
  <2>3. QED
    BY <2>1, <2>2, AtRest
<1>2. QED
  BY <1>1, ConnAlways, PTL

------------------------------------------------------------------------------
(* The inserts of a bill: how often it is stored, may be stored yet, and   *)
(* what is known of it.                                                    *)

Flies(q) == IF \E i \in 1 .. Len(q) : q[i].command = "exec" THEN 1 ELSE 0

\* The doubt of RetriedInsert.
Doubts == [j \in Job |-> late[j] + IF j = job THEN InFlight ELSE 0]

Asking == {"query", "rows", "next", "read", "close"}

\* The call of sqlClient in progress: only bills insert, each bill is
\* reported once, and those that have not begun have done nothing.
JobInv ==
  /\ doing # "none" => kind # "none"
  /\ kind # "none" => job \in Job
  /\ doing = "exec" => kind = "bill"
  /\ doing \in Asking => kind \in {"lookup", "load"}
  /\ kind # "none" /\ doing \notin {"rows", "close", "closeStmt"}
       => outcome[job] = "none"
  /\ kind \in {"lookup", "load"} => attempts[job] = 0
  /\ \A j \in Job : j > job => attempts[j] = 0 /\ outcome[j] = "none"

\* The insert of job j is written, and how it ends is not known yet.
Trying(j) == j = job /\ doing = "exec" /\ todo # ToExec

\* The answer to the insert has come.
Told ==
  /\ doing = "exec" /\ todo = ToExecHeader
  /\ Arriving # << >> /\ Arriving[1].seq = sequence

\* The tries that stored the bill or may yet do so are those that got no
\* answer, and one more if it is reported stored or being tried.
BillInv ==
  /\ \A j \in Job :
       /\ outcome[j] = "ok" /\ attempts[j] > 0 => executed[j] > 0
       /\ executed[j] + Doubts[j] =< lost[j] + 1
       /\ outcome[j] # "ok" /\ ~Trying(j) => executed[j] + Doubts[j] =< lost[j]
  /\ doing = "exec" /\ todo \notin {ToExec, ToExecHeader} => executed[job] > 0
  /\ Told => IF Arriving[1].kind = "err"
               THEN executed[job] + Doubts[job] =< lost[job]
               ELSE executed[job] > 0

------------------------------------------------------------------------------
(* The inserts on their way.                                               *)

LEMMA FliesIs ==
  ASSUME NEW q \in Seq(Order)
  PROVE  /\ Flies(q) \in {0, 1}
         /\ OnlyCloses(q) => Flies(q) = 0
         /\ \A i \in 1 .. Len(q) : q[i].command = "exec" => Flies(q) = 1
<1>1. "exec" # "stmtClose"
  OBVIOUS
<1>2. QED
  BY <1>1 DEF Flies, OnlyCloses

LEMMA NothingFlies == Flies(<< >>) = 0
BY DEF Flies

LEMMA InFlightFlies == InFlight = Flies(toServer)
BY DEF InFlight, Exec, Flies

\* Commands that are put behind others.
LEMMA FliesBehind ==
  ASSUME NEW q \in Seq(Order), NEW o \in Order
  PROVE  Flies(Append(q, o)) = IF o.command = "exec" THEN 1 ELSE Flies(q)
<1> DEFINE r == Append(q, o)
           n == Len(q)
<1>1. /\ n \in Nat /\ Len(r) = n + 1 /\ r[n + 1] = o
      /\ \A i \in 1 .. n : r[i] = q[i]
  BY AppendProperties
<1> HIDE DEF r
<1>2. CASE o.command = "exec"
  <2>1. n + 1 \in 1 .. Len(r) /\ r[n + 1].command = "exec"
    BY <1>1, <1>2
  <2>2. QED
    BY <1>2, <2>1 DEF Flies, r
<1>3. CASE o.command # "exec"
  <2>1. \A i \in 1 .. Len(r) : i \in 1 .. n \/ i = n + 1
    BY <1>1
  <2>2. \A i \in 1 .. n : i \in 1 .. Len(r)
    BY <1>1
  <2>3. (\E i \in 1 .. Len(r) : r[i].command = "exec")
        <=> (\E i \in 1 .. n : q[i].command = "exec")
    BY <1>1, <1>3, <2>1, <2>2
  <2>4. QED
    BY <1>3, <2>3 DEF Flies, r
<1>4. QED
  BY <1>2, <1>3

\* The first command is done.
LEMMA FliesOn ==
  ASSUME NEW q \in Seq(Order), q # << >>, Head(q).command # "exec"
  PROVE  Flies(Tail(q)) = Flies(q)
<1> DEFINE r == Tail(q)
           n == Len(q)
<1>1. /\ n \in Nat \ {0} /\ Len(r) = n - 1 /\ Head(q) = q[1]
      /\ \A i \in 1 .. n - 1 : r[i] = q[i + 1]
  BY Parts
<1> HIDE DEF r, n
<1>2. \A i \in 1 .. n - 1 : i + 1 \in 1 .. n
  BY <1>1
<1>3. \A i \in 1 .. n : i # 1 => i - 1 \in 1 .. n - 1 /\ (i - 1) + 1 = i
  BY <1>1
<1>4. \A i \in 1 .. n : i # 1 => r[i - 1] = q[i]
  BY <1>1, <1>3
<1>5. (\E i \in 1 .. n - 1 : r[i].command = "exec")
      <=> (\E i \in 1 .. n : q[i].command = "exec")
  BY <1>1, <1>2, <1>3, <1>4
<1>6. QED
  BY <1>1, <1>5 DEF Flies, r, n

\* Some of the commands are lost.
LEMMA FliesCut ==
  ASSUME NEW q \in Seq(Order), NEW m \in 0 .. Len(q)
  PROVE  Flies(SubSeq(q, 1, m)) =< Flies(q)
<1> DEFINE r == SubSeq(q, 1, m)
<1>1. /\ r \in Seq(Order) /\ Len(r) = m
      /\ \A i \in 1 .. m : r[i] = q[i] /\ i \in 1 .. Len(q)
  OBVIOUS
<1> HIDE DEF r
<1>2. (\E i \in 1 .. Len(r) : r[i].command = "exec")
      => (\E i \in 1 .. Len(q) : q[i].command = "exec")
  BY <1>1
<1>3. QED
  BY <1>2 DEF Flies, r

\* Only an insert that waits for its answer is on its way.
LEMMA FliesWhen ==
  ASSUME Types, ConnInv
  PROVE  /\ Flies(toServer) \in {0, 1}
         /\ Flies(toServer) = 1
              => /\ Asked /\ Arriving = << >>
                 /\ doing = "exec" /\ todo = ToExecHeader
         /\ toServer = << >> => Flies(toServer) = 0
         /\ doing = "exec" /\ Asked => Flies(toServer) = 1
<1>1. toServer \in Seq(Order)
  BY Packets
<1>2. Still \/ Killed \/ Answered => Flies(toServer) = 0
  BY <1>1, FliesIs, NothingFlies DEF Still, Killed, Answered
<1>3. ASSUME Asked
      PROVE  IF doing = "exec" THEN Flies(toServer) = 1 /\ todo = ToExecHeader
                               ELSE Flies(toServer) = 0
  <2> DEFINE n == Len(toServer)
  <2>1. /\ Awaits(doing, todo, toServer[n].command)
        /\ \A i \in 1 .. n - 1 : toServer[i].command = "stmtClose"
        /\ toServer # << >>
    BY <1>3 DEF Asked
  <2>2. n \in Nat \ {0}
    BY <1>1, <2>1, EmptySeq
  <2>3. n \in 1 .. n /\ \A i \in 1 .. n : i \in 1 .. n - 1 \/ i = n
    BY <2>2
  <2>4. CASE doing = "exec"
    <3>1. toServer[n].command = "exec" /\ todo = ToExecHeader
      BY <2>1, <2>4 DEF Awaits
    <3>2. QED
      BY <1>1, <2>3, <2>4, <3>1, FliesIs
  <2>5. CASE doing # "exec"
    <3>1. toServer[n].command # "exec"
      BY <2>1, <2>5 DEF Awaits
    <3>2. \A i \in 1 .. n : toServer[i].command # "exec"
      BY <2>1, <2>3, <3>1
    <3>3. QED
      BY <2>5, <3>2 DEF Flies
  <2>6. QED
    BY <2>4, <2>5
<1>4. Flies(toServer) \in {0, 1}
  BY <1>1, FliesIs
<1>5. Asked => Arriving = << >>
  BY DEF Asked
<1>6. QED
  BY <1>2, <1>3, <1>4, <1>5, NothingFlies DEF ConnInv

LEMMA DoubtsAre ==
  /\ Doubts = [j \in Job |-> late[j] + IF j = job THEN Flies(toServer) ELSE 0]
  /\ Doubts' = [j \in Job |-> late'[j] + IF j = job' THEN Flies(toServer') ELSE 0]
<1>1. InFlight = Flies(toServer) /\ InFlight' = Flies(toServer')
  BY DEF InFlight, Exec, Flies
<1>2. QED
  BY <1>1 DEF Doubts

------------------------------------------------------------------------------
(* The calls of sqlClient follow each other.                               *)

\* A call that goes on, or ends, concerns its own job only.
LEMMA JobGoesOn ==
  ASSUME Types, JobInv, kind # "none", UNCHANGED <<job, attempts>>,
         \A j \in Job : j # job => outcome'[j] = outcome[j],
         kind' = kind \/ (kind' = "none" /\ doing' = "none"),
         doing' = "exec" => kind = "bill",
         doing' \in Asking => kind \in {"lookup", "load"},
         \/ kind' = "none" \/ doing' \in {"rows", "close", "closeStmt"}
         \/ outcome'[job] = "none"
  PROVE  JobInv'
<1>1. job \in Job
  BY DEF JobInv
<1>2. \A j \in Job : j > job => j # job
  BY <1>1 DEF Job
<1>3. \A j \in Job : j > job' => attempts'[j] = 0 /\ outcome'[j] = "none"
  BY <1>2 DEF JobInv
<1>4. /\ doing' # "none" => kind' # "none"
      /\ kind' # "none" => job' \in Job /\ kind' = kind
  BY <1>1
<1>5. doing' \notin Asking => doing' \notin {"query", "rows", "next", "read", "close"}
  BY DEF Asking
<1>6. QED
  BY <1>3, <1>4 DEF JobInv, Asking

LEMMA OutcomeOf ==
  ASSUME Types, JobInv, kind # "none", NEW o,
         outcome' = [outcome EXCEPT ![job] = o]
  PROVE  /\ outcome'[job] = o
         /\ \A j \in Job : j # job => outcome'[j] = outcome[j]
<1>1. job \in Job
  BY DEF JobInv
<1>2. outcome \in Outcomes
  BY DEF Types, SqlTypes
<1>3. QED
  BY <1>1, <1>2 DEF Outcomes

LEMMA FinishIs ==
  ASSUME Types, JobInv, kind # "none", NEW o, Finish(o)
  PROVE  /\ outcome'[job] = IF outcome[job] = "none" THEN o ELSE outcome[job]
         /\ \A j \in Job : j # job => outcome'[j] = outcome[j]
         /\ \/ kind' = kind /\ doing' = "closeStmt"
            \/ kind' = "none" /\ doing' = "none"
<1>1. outcome' = [outcome EXCEPT
                    ![job] = IF outcome[job] = "none" THEN o ELSE outcome[job]]
  BY DEF Finish
<1>2. \/ kind' = kind /\ doing' = "closeStmt"
      \/ kind' = "none" /\ doing' = "none"
  BY DEF Finish, EndJob
<1>3. QED
  BY <1>1, <1>2, OutcomeOf

LEMMA FinishKeepsJobs ==
  ASSUME Types, JobInv, kind # "none", NEW o, Finish(o),
         UNCHANGED <<job, attempts>>
  PROVE  JobInv'
<1>1. doing' \notin Asking \cup {"exec"}
  BY FinishIs DEF Asking
<1>2. QED
  BY <1>1, FinishIs, JobGoesOn

LEMMA RowsEndIs ==
  ASSUME Types, JobInv, kind # "none", NEW o, RowsEnd(o)
  PROVE  /\ outcome'[job] = o
         /\ \A j \in Job : j # job => outcome'[j] = outcome[j]
         /\ kind' = kind /\ doing' = "rows"
         /\ UNCHANGED <<job, pooled, prepared, stage, tries>>
<1>1. outcome' = [outcome EXCEPT ![job] = o]
  BY DEF RowsEnd
<1>2. kind' = kind /\ doing' = "rows"
      /\ UNCHANGED <<job, pooled, prepared, stage, tries>>
  BY DEF RowsEnd
<1>3. QED
  BY <1>1, <1>2, OutcomeOf

LEMMA RowsEndKeepsJobs ==
  ASSUME Types, JobInv, kind \in {"lookup", "load"}, NEW o, RowsEnd(o),
         attempts' = attempts
  PROVE  JobInv'
<1>1. kind # "none" /\ "rows" # "exec"
  OBVIOUS
<1>2. QED
  BY <1>1, RowsEndIs, JobGoesOn

LEMMA RefusedKeepsJobs ==
  ASSUME Types, JobInv, Refused, attempts' = attempts
  PROVE  JobInv'
<1>1. CASE doing = "next" /\ RowsEnd("failed")
  BY <1>1, RowsEndKeepsJobs DEF JobInv, Asking
<1>2. CASE doing \in {"open", "prepare", "exec", "query", "close"}
           /\ Finish("failed") /\ UNCHANGED <<job, pooled, prepared>>
  <2>1. kind # "none"
    BY <1>2 DEF JobInv
  <2>2. QED
    BY <1>2, <2>1, FinishKeepsJobs
<1>3. QED
  BY <1>1, <1>2 DEF Refused

\* A call that another try follows, or none.
LEMMA TryAgainIs ==
  ASSUME Types, JobInv, kind # "none", TryAgain
  PROVE  /\ outcome'[job] \in {outcome[job], "failed"}
         /\ \A j \in Job : j # job => outcome'[j] = outcome[j]
         /\ doing' = "none" /\ job' = job
         /\ \/ kind' = kind /\ outcome'[job] = outcome[job]
            \/ kind' = "none"
<1>1. CASE outcome' = outcome /\ kind' = kind
  BY <1>1 DEF TryAgain, EndJob
<1>2. CASE outcome' = [outcome EXCEPT ![job] = "failed"] /\ EndJob
  BY <1>2, OutcomeOf DEF TryAgain, EndJob
<1>3. QED
  BY <1>1, <1>2 DEF TryAgain

LEMMA TryAgainKeepsJobs ==
  ASSUME Types, JobInv, TryAgain, attempts' = attempts,
         doing \in {"none", "open", "prepare", "exec", "query"}, kind # "none"
  PROVE  JobInv'
<1>1. outcome[job] = "none"
  BY DEF JobInv
<1>2. "none" \notin Asking
  BY DEF Asking
<1>3. kind' = "none" \/ outcome'[job] = "none"
  BY <1>1, TryAgainIs
<1>4. QED
  BY <1>2, <1>3, TryAgainIs, JobGoesOn

LEMMA SucceedsKeepsJobs ==
  ASSUME Types, JobInv, Succeeds, attempts' = attempts, doing # "none"
  PROVE  JobInv'
<1>1. kind # "none" /\ job' = job
  BY DEF JobInv, Succeeds
<1>2. CASE doing \in {"exec", "close"} /\ Finish("ok")
  BY <1>1, <1>2, FinishKeepsJobs
<1>3. CASE /\ doing \in {"open", "prepare"} /\ doing' = "none"
           /\ UNCHANGED <<kind, outcome>>
  <2>1. outcome[job] = "none"
    BY <1>1, <1>3 DEF JobInv
  <2>2. "none" \notin Asking
    BY DEF Asking
  <2>3. QED
    BY <1>1, <1>3, <2>1, <2>2, JobGoesOn
<1>4. CASE /\ doing \in {"query", "next"} /\ doing' \in {"read", "rows"}
           /\ UNCHANGED <<kind, outcome>>
  <2>1. outcome[job] = "none" /\ kind \in {"lookup", "load"}
    BY <1>1, <1>4 DEF JobInv, Asking
  <2>2. QED
    BY <1>1, <1>4, <2>1, JobGoesOn
<1>5. QED
  BY <1>2, <1>3, <1>4 DEF Succeeds

LEMMA SameJobs ==
  ASSUME JobInv, UNCHANGED <<sqlVars, attempts>>
  PROVE  JobInv'
BY DEF JobInv, sqlVars

\* An insert is written when a bill is being executed, and only then.
LEMMA InsertWritten ==
  ASSUME Types, ConnInv, JobInv, WritePacket
  PROVE  /\ Head(todo) = "exec" <=> doing = "exec"
         /\ doing = "exec" => todo = ToExec /\ todo' = ToExecHeader
         /\ todo # << >> /\ toServer # << >> => OnlyCloses(toServer)
         /\ Flies(toServer) = 0
<1>1. todo # << >> /\ Head(todo) \in WriteTask /\ todo' = Tail(todo)
  BY DEF WritePacket, Writing
<1>2. Awaits(doing, Tail(todo), Head(todo))
  BY <1>1, PlaceIs, WritesAre
<1>3. Head(todo) = "exec" <=> doing = "exec"
  BY <1>2 DEF Awaits
<1>4. ASSUME doing = "exec" PROVE todo = ToExec /\ todo' = ToExecHeader
  <2>1. AtExec(todo, << >>)
    BY <1>1, <1>4, PlaceIs DEF At
  <2>2. todo = ToExec
    BY <1>1, <2>1, OtherScripts, KindsOfTasks DEF AtExec, AtLists
  <2>3. QED
    BY <1>1, <2>2, OtherScripts
<1>5. ~Asked
  BY <1>1, AwaitsAre DEF Asked
<1>6. QED
  BY <1>3, <1>4, <1>5, FliesWhen DEF ConnInv, Still, Killed, Answered

LEMMA WritePacketKeepsJobs ==
  ASSUME Types, Types', ConnInv, JobInv, WritePacket
  PROVE  JobInv'
<1>1. UNCHANGED sqlVars
  BY DEF WritePacket
<1>2. CASE attempts' = attempts
  BY <1>1, <1>2, SameJobs
<1>3. CASE attempts' = [attempts EXCEPT ![job] = @ + 1] /\ Head(todo) = "exec"
  <2>1. doing = "exec" /\ kind = "bill" /\ job \in Job
    BY <1>3, InsertWritten DEF JobInv
  <2>2. \A j \in Job : j # job => attempts'[j] = attempts[j]
    BY <1>3 DEF Types, Counts
  <2>3. \A j \in Job : j > job => j # job
    BY <2>1 DEF Job
  <2>4. QED
    BY <1>1, <2>1, <2>2, <2>3 DEF JobInv, sqlVars
<1>4. QED
  BY <1>2, <1>3 DEF WritePacket

LEMMA ReturnsBadKeepsJobs ==
  ASSUME Types, Types', ConnInv, JobInv, ReturnsBad, todo # << >>
  PROVE  JobInv'
<1>1. attempts' = attempts
  BY DEF ReturnsBad
<1>2. CASE doing \in {"open", "prepare", "exec", "query"} /\ TryAgain
  <2>1. kind # "none"
    BY <1>2 DEF JobInv
  <2>2. QED
    BY <1>1, <1>2, <2>1, TryAgainKeepsJobs
<1>3. CASE doing = "next" /\ RowsEnd("failed")
  BY <1>1, <1>3, RowsEndKeepsJobs DEF JobInv, Asking
<1>4. CASE doing = "close" /\ Finish("failed") /\ UNCHANGED job
  <2>1. kind # "none"
    BY <1>4 DEF JobInv
  <2>2. QED
    BY <1>1, <1>4, <2>1, FinishKeepsJobs
<1>5. QED
  BY <1>2, <1>3, <1>4 DEF ReturnsBad, Broken

LEMMA ReadKeepsJobs ==
  ASSUME Types, Types', ConnInv, JobInv, Read
  PROVE  JobInv'
<1>1. attempts' = attempts
  BY DEF Read
<1>2. doing # "none"
  BY PlaceIs DEF Read, Reading, Calls
<1>3. CASE todo' # << >>
  BY <1>1, <1>3, SameJobs DEF Read
<1>4. CASE todo' = << >> /\ doing = "next" /\ RowsEnd("ok")
  BY <1>1, <1>4, RowsEndKeepsJobs DEF JobInv, Asking
<1>5. CASE todo' = << >> /\ Succeeds
  BY <1>1, <1>2, <1>5, SucceedsKeepsJobs
<1>6. QED
  BY <1>3, <1>4, <1>5 DEF Read

LEMMA DriverKeepsJobs ==
  ASSUME Types, Types', ConnInv, JobInv, Driver
  PROVE  JobInv'
<1>1. CASE WriteFails \/ ReadFails
  BY <1>1, ReturnsBadKeepsJobs DEF WriteFails, ReadFails, Writing, Reading
<1>2. CASE Receive \/ ReadPart
  BY <1>2, SameJobs DEF Receive, ReadPart, histVars
<1>3. CASE OutOfSync
  BY <1>3, RefusedKeepsJobs DEF OutOfSync
<1>4. CASE ReadError
  BY <1>4, RefusedKeepsJobs DEF ReadError
<1>5. QED
  BY <1>1, <1>2, <1>3, <1>4, WritePacketKeepsJobs, ReadKeepsJobs DEF Driver

LEMMA StartKeepsJobs ==
  ASSUME Types, Types', JobInv, Start
  PROVE  JobInv'
<1>1. /\ kind = "none" /\ job < NJobs /\ job' = job + 1
      /\ kind' \in Kinds[job']
      /\ UNCHANGED <<doing, outcome, attempts>>
  BY DEF Start, histVars
<1>2. job' \in Job /\ job' > job /\ \A j \in Job : j > job' => j > job
  BY <1>1, MysqlAssumption DEF Types, SqlTypes, JobOrNone, Job
<1>3. doing = "none"
  BY <1>1 DEF JobInv
<1>4. kind' \in {"bill", "lookup", "load"}
  BY <1>1, <1>2, MysqlAssumption DEF Job
<1>5. attempts'[job'] = 0 /\ outcome'[job'] = "none"
  BY <1>1, <1>2 DEF JobInv
<1>6. doing' \notin Asking
  BY <1>1, <1>3 DEF Asking
<1>7. \A j \in Job : j > job' => attempts'[j] = 0 /\ outcome'[j] = "none"
  BY <1>1, <1>2 DEF JobInv
<1>8. QED
  BY <1>1, <1>2, <1>3, <1>4, <1>5, <1>6, <1>7 DEF JobInv

\* The steps in which a call of the driver begins.
LEMMA CallKeepsJobs ==
  ASSUME Types, JobInv, kind # "none", NEW what, NEW tasks, Call(what, tasks),
         what = "exec" => kind = "bill",
         what \in Asking => kind \in {"lookup", "load"},
         what # "close" => outcome[job] = "none"
  PROVE  JobInv'
<1>1. doing' = what /\ UNCHANGED <<job, kind, outcome, attempts>>
  BY DEF Call, histVars
<1>2. QED
  BY <1>1, JobGoesOn

LEMMA SqlKeepsJobs ==
  ASSUME Types, Types', ConnInv, JobInv, Sql
  PROVE  JobInv'
<1>1. Ready => kind # "none" /\ outcome[job] = "none" /\ doing = "none"
  BY DEF Ready, JobInv
<1>2. CASE Open
  <2>1. "open" \notin Asking /\ "open" # "exec"
    BY DEF Asking
  <2>2. QED
    BY <1>1, <1>2, <2>1, CallKeepsJobs DEF Open
<1>3. CASE OpenFails
  <2>1. Ready /\ outcome' = [outcome EXCEPT ![job] = "failed"] /\ EndJob
        /\ UNCHANGED <<job, attempts>>
    BY <1>3 DEF OpenFails, histVars
  <2>2. "none" \notin Asking
    BY DEF Asking
  <2>3. QED
    BY <1>1, <2>1, <2>2, OutcomeOf, JobGoesOn DEF EndJob
<1>4. CASE Ask
  <2>1. Ready
    BY <1>4 DEF Ask
  <2>2. CASE Call("prepare", <<"prepare", "prepared">>)
    <3>1. "prepare" \notin Asking /\ "prepare" # "exec"
      BY DEF Asking
    <3>2. QED
      BY <1>1, <2>1, <2>2, <3>1, CallKeepsJobs
  <2>3. CASE kind = "bill" /\ Call("exec", <<"exec", "execHeader">>)
    <3>1. "exec" \notin Asking
      BY DEF Asking
    <3>2. QED
      BY <1>1, <2>1, <2>3, <3>1, CallKeepsJobs
  <2>4. CASE kind \in {"lookup", "load"}
             /\ Call("query", <<"query", "queryHeader">>)
    BY <1>1, <2>1, <2>4, CallKeepsJobs
  <2>5. QED
    BY <1>4, <2>2, <2>3, <2>4 DEF Ask
<1>5. CASE AskClosed
  BY <1>1, <1>5, TryAgainKeepsJobs DEF AskClosed, histVars
<1>6. CASE NextRow
  <2>1. kind \in {"lookup", "load"}
    BY <1>6 DEF NextRow, JobInv, Asking
  <2>2. QED
    BY <1>6, <2>1, CallKeepsJobs DEF NextRow
<1>7. CASE CloseRows
  <2>1. kind \in {"lookup", "load"}
    BY <1>7 DEF CloseRows, JobInv, Asking
  <2>2. CASE Call("close", <<"eof", "discard">>)
    BY <2>1, <2>2, CallKeepsJobs
  <2>3. CASE Finish("ok") /\ UNCHANGED <<job, attempts>>
    <3>1. kind # "none"
      BY <2>1
    <3>2. QED
      BY <2>3, <3>1, FinishKeepsJobs
  <2>4. QED
    BY <1>7, <2>2, <2>3 DEF CloseRows, histVars
<1>8. CASE CloseStmt
  <2>1. /\ doing = "closeStmt" /\ EndJob /\ UNCHANGED <<job, outcome, attempts>>
    BY <1>8 DEF CloseStmt, histVars
  <2>2. kind # "none" /\ "none" \notin Asking
    BY <2>1 DEF JobInv, Asking
  <2>3. QED
    BY <2>1, <2>2, JobGoesOn DEF EndJob
<1>9. QED
  BY <1>2, <1>3, <1>4, <1>5, <1>6, <1>7, <1>8, StartKeepsJobs DEF Sql

LEMMA NextKeepsJobs ==
  ASSUME Types, Types', ConnInv, JobInv, [Next]_vars
  PROVE  JobInv'
<1>1. ASSUME NEW j \in Job, ServeLate(j) PROVE JobInv'
  BY <1>1, SameJobs DEF ServeLate, histVars
<1>2. CASE Serve \/ Break \/ Kill
  BY <1>2, SameJobs DEF Serve, Break, Kill, histVars
<1>3. CASE UNCHANGED vars
  BY <1>3, SameJobs DEF vars, histVars
<1>4. QED
  BY <1>1, <1>2, <1>3, DriverKeepsJobs, SqlKeepsJobs DEF Next

------------------------------------------------------------------------------
(* What a step does to the bills.                                          *)

LEMMA DoubtsOf ==
  ASSUME Types, Types', NEW j \in Job
  PROVE  /\ Doubts[j] = late[j] + IF j = job THEN Flies(toServer) ELSE 0
         /\ Doubts'[j] = late'[j] + IF j = job' THEN Flies(toServer') ELSE 0
         /\ Doubts[j] \in Nat /\ Doubts'[j] \in Nat
         /\ executed[j] \in Nat /\ executed'[j] \in Nat
         /\ lost[j] \in Nat /\ lost'[j] \in Nat
         /\ attempts[j] \in Nat /\ attempts'[j] \in Nat
         /\ late[j] \in Nat /\ late'[j] \in Nat
<1>1. Flies(toServer) \in {0, 1} /\ Flies(toServer') \in {0, 1}
  BY DEF Flies
<1>2. /\ Doubts[j] = late[j] + IF j = job THEN Flies(toServer) ELSE 0
      /\ Doubts'[j] = late'[j] + IF j = job' THEN Flies(toServer') ELSE 0
  BY DoubtsAre
<1>3. /\ executed[j] \in Nat /\ executed'[j] \in Nat
      /\ lost[j] \in Nat /\ lost'[j] \in Nat
      /\ attempts[j] \in Nat /\ attempts'[j] \in Nat
      /\ late[j] \in Nat /\ late'[j] \in Nat
  BY DEF Types, Counts
<1>4. QED
  BY <1>1, <1>2, <1>3

LEMMA SameDoubts ==
  ASSUME UNCHANGED late,
         job' = job \/ Flies(toServer) = 0,
         Flies(toServer') = Flies(toServer)
  PROVE  Doubts' = Doubts
<1>1. \A j \in Job : (IF j = job' THEN Flies(toServer') ELSE 0)
                     = (IF j = job THEN Flies(toServer) ELSE 0)
  OBVIOUS
<1>2. QED
  BY <1>1, DoubtsAre

\* A connection that is dropped leaves its insert in doubt.
LEMMA DropKeepsDoubts ==
  ASSUME Types, Types', Drop, job' = job, job \in Job
  PROVE  Doubts' = Doubts
<1>1. Flies(toServer') = 0
  BY NothingFlies DEF Drop
<1>2. late' = [late EXCEPT ![job] = @ + Flies(toServer)]
  BY InFlightFlies DEF Drop
<1>3. late \in Counts /\ Flies(toServer) \in Nat
  BY DEF Types, Flies
<1>4. \A j \in Job : late'[j] + (IF j = job' THEN Flies(toServer') ELSE 0)
                     = late[j] + (IF j = job THEN Flies(toServer) ELSE 0)
  <2> SUFFICES ASSUME NEW j \in Job
               PROVE  late'[j] + (IF j = job' THEN Flies(toServer') ELSE 0)
                      = late[j] + (IF j = job THEN Flies(toServer) ELSE 0)
    OBVIOUS
  <2>1. late[j] \in Nat /\ late'[j] = IF j = job THEN late[j] + Flies(toServer)
                                                ELSE late[j]
    BY <1>2, <1>3 DEF Counts
  <2>2. QED
    BY <1>1, <1>3, <2>1
<1>5. QED
  BY <1>4, DoubtsAre

\* The call of sqlClient in progress is told how its insert ended, or is
\* not about a bill.
Reports ==
  /\ UNCHANGED <<executed, attempts>> /\ Doubts' = Doubts /\ doing' # "exec"
  /\ \A j \in Job :
       \/ outcome'[j] = outcome[j] /\ lost'[j] = lost[j] /\ ~Trying(j)
       \/ /\ j = job /\ outcome'[j] = "ok" /\ lost'[j] = lost[j]
          /\ attempts[j] = 0 \/ (executed[j] > 0 /\ outcome[j] = "none")
       \/ /\ j = job /\ outcome'[j] # "ok" /\ outcome[j] = "none"
          /\ executed[j] + Doubts[j] =< lost'[j]

LEMMA ReportsKeepBills ==
  ASSUME Types, Types', BillInv, Reports
  PROVE  BillInv'
<1>1. ~Told' /\ \A j : ~Trying(j)'
  BY DEF Reports, Told, Trying
<1>2. ASSUME NEW j \in Job
      PROVE  /\ outcome'[j] = "ok" /\ attempts'[j] > 0 => executed'[j] > 0
             /\ executed'[j] + Doubts'[j] =< lost'[j] + 1
             /\ outcome'[j] # "ok" => executed'[j] + Doubts'[j] =< lost'[j]
  <2>1. /\ outcome[j] = "ok" /\ attempts[j] > 0 => executed[j] > 0
        /\ executed[j] + Doubts[j] =< lost[j] + 1
        /\ outcome[j] # "ok" /\ ~Trying(j) => executed[j] + Doubts[j] =< lost[j]
    BY DEF BillInv
  <2>2. UNCHANGED <<executed, attempts>> /\ Doubts' = Doubts
    BY DEF Reports
  <2>3. \/ outcome'[j] = outcome[j] /\ lost'[j] = lost[j] /\ ~Trying(j)
        \/ /\ outcome'[j] = "ok" /\ lost'[j] = lost[j]
           /\ attempts[j] = 0 \/ executed[j] > 0
        \/ /\ outcome'[j] # "ok" /\ executed[j] + Doubts[j] =< lost'[j]
    BY DEF Reports
  <2>4. QED
    BY <2>1, <2>2, <2>3, DoubtsOf
<1>3. doing' # "exec"
  BY DEF Reports
<1>4. QED
  BY <1>1, <1>2, <1>3 DEF BillInv

\* The bills are as before, and what is done about them goes on.
Quiet ==
  /\ UNCHANGED <<executed, attempts, lost, outcome>> /\ Doubts' = Doubts
  /\ \A j \in Job : Trying(j)' => Trying(j)
  /\ \A j \in Job : Trying(j) => Trying(j)'

LEMMA QuietKeepsBills ==
  ASSUME Types, Types', BillInv, Quiet,
         doing' = "exec" /\ todo' \notin {ToExec, ToExecHeader}
           => executed[job'] > 0,
         Told' => Told /\ job' = job /\ Arriving'[1] = Arriving[1]
  PROVE  BillInv'
<1>1. ASSUME NEW j \in Job
      PROVE  /\ outcome'[j] = "ok" /\ attempts'[j] > 0 => executed'[j] > 0
             /\ executed'[j] + Doubts'[j] =< lost'[j] + 1
             /\ outcome'[j] # "ok" /\ ~Trying(j)'
                  => executed'[j] + Doubts'[j] =< lost'[j]
  BY DEF BillInv, Quiet
<1>2. Told' => IF Arriving'[1].kind = "err"
                 THEN executed'[job'] + Doubts'[job'] =< lost'[job']
                 ELSE executed'[job'] > 0
  <2>1. executed' = executed /\ lost' = lost /\ Doubts' = Doubts
    BY DEF Quiet
  <2>2. Told => IF Arriving[1].kind = "err"
                  THEN executed[job] + Doubts[job] =< lost[job]
                  ELSE executed[job] > 0
    BY DEF BillInv
  <2>3. QED
    BY <2>1, <2>2
<1>3. executed' = executed
  BY DEF Quiet
<1>4. QED
  BY <1>1, <1>2, <1>3 DEF BillInv

\* The server does an insert, or never will.
Serves ==
  /\ UNCHANGED <<attempts, lost, outcome, job, doing, todo>>
  /\ \A j \in Job :
       /\ executed'[j] >= executed[j]
       /\ executed'[j] + Doubts'[j] =< executed[j] + Doubts[j]

LEMMA ServesKeepsBills ==
  ASSUME Types, Types', JobInv, BillInv, Serves,
         Told' => \/ Told /\ Arriving'[1] = Arriving[1]
                  \/ IF Arriving'[1].kind = "err"
                       THEN executed'[job] + Doubts'[job] =< lost[job]
                       ELSE executed'[job] > 0
  PROVE  BillInv'
<1>1. ASSUME NEW j \in Job PROVE Trying(j)' <=> Trying(j)
  BY DEF Serves, Trying
<1>2. ASSUME NEW j \in Job
      PROVE  /\ executed'[j] >= executed[j]
             /\ executed'[j] + Doubts'[j] =< executed[j] + Doubts[j]
             /\ attempts'[j] = attempts[j] /\ lost'[j] = lost[j]
             /\ outcome'[j] = outcome[j]
             /\ executed[j] > 0 => executed'[j] > 0
  <2>1. /\ executed'[j] >= executed[j]
        /\ executed'[j] + Doubts'[j] =< executed[j] + Doubts[j]
        /\ attempts'[j] = attempts[j] /\ lost'[j] = lost[j]
        /\ outcome'[j] = outcome[j]
    BY DEF Serves
  <2>2. QED
    BY <2>1, DoubtsOf
<1>3. ASSUME NEW j \in Job
      PROVE  /\ outcome'[j] = "ok" /\ attempts'[j] > 0 => executed'[j] > 0
             /\ executed'[j] + Doubts'[j] =< lost'[j] + 1
             /\ outcome'[j] # "ok" /\ ~Trying(j)'
                  => executed'[j] + Doubts'[j] =< lost'[j]
  <2>1. /\ outcome[j] = "ok" /\ attempts[j] > 0 => executed[j] > 0
        /\ executed[j] + Doubts[j] =< lost[j] + 1
        /\ outcome[j] # "ok" /\ ~Trying(j) => executed[j] + Doubts[j] =< lost[j]
    BY DEF BillInv
  <2>2. QED
    BY <1>1, <1>2, <2>1, DoubtsOf
<1>4. doing = "exec" => job \in Job
  BY DEF JobInv
<1>5. UNCHANGED <<job, doing, todo, lost>>
  BY DEF Serves
<1>6. doing' = "exec" /\ todo' \notin {ToExec, ToExecHeader}
      => executed'[job'] > 0
  BY <1>2, <1>4, <1>5 DEF BillInv
<1>7. ASSUME Told'
      PROVE  IF Arriving'[1].kind = "err"
               THEN executed'[job'] + Doubts'[job'] =< lost'[job']
               ELSE executed'[job'] > 0
  <2>1. job \in Job
    BY <1>4, <1>5, <1>7 DEF Told
  <2>2. CASE Told /\ Arriving'[1] = Arriving[1]
    <3>1. IF Arriving'[1].kind = "err"
            THEN executed[job] + Doubts[job] =< lost[job]
            ELSE executed[job] > 0
      BY <2>2 DEF BillInv
    <3>2. QED
      BY <1>2, <1>5, <2>1, <3>1, DoubtsOf
  <2>3. QED
    BY <1>5, <1>7, <2>2
<1>8. QED
  BY <1>3, <1>6, <1>7 DEF BillInv

------------------------------------------------------------------------------
(* The bills, as the driver goes on.                                       *)

\* The insert of the job in progress is written.
Attempts ==
  /\ UNCHANGED <<executed, outcome>>
  /\ job \in Job /\ outcome[job] = "none"
  /\ \A j \in Job : j # job => attempts'[j] = attempts[j]
  /\ Doubts' = Doubts \/ Doubts' = [Doubts EXCEPT ![job] = @ + 1]

LEMMA WritePacketOfBills ==
  ASSUME Types, Types', ConnInv, JobInv, BillInv, WritePacket
  PROVE  BillInv' /\ (Quiet \/ Attempts)
<1> DEFINE c == Head(todo)
           o == [command |-> c, cmd |-> cmd + 1, seq |-> FirstSeq(c)]
<1>1. /\ UNCHANGED <<job, doing, outcome, executed, late, lost>>
      /\ todo # << >> /\ Arriving' = Arriving
  BY DEF WritePacket, Writing, sqlVars, serverVars, Arriving
<1>2. Flies(toServer) = 0
  BY InsertWritten
<1>3. /\ toServer' = toServer \/ toServer' = Append(toServer, o)
      /\ toServer \in Seq(Order)
  BY Packets DEF WritePacket
<1>4. o.command = c /\ o \in Order
  <2>1. c \in Command
    BY DEF WritePacket, Writing, WriteTask
  <2>2. FirstSeq(c) \in Nat
    BY Packets DEF FirstSeq
  <2>3. cmd + 1 \in Nat
    BY DEF Types
  <2>4. QED
    BY <2>1, <2>2, <2>3 DEF Order
<1> HIDE DEF o
<1>5. Flies(toServer') = IF c = "exec" /\ toServer' # toServer THEN 1 ELSE 0
  BY <1>2, <1>3, <1>4, FliesBehind, FliesIs
<1>6. CASE doing # "exec"
  <2>1. c # "exec"
    BY <1>6, InsertWritten
  <2>2. Doubts' = Doubts
    BY <1>1, <1>2, <1>5, <2>1, SameDoubts
  <2>3. attempts' = attempts
    BY <2>1 DEF WritePacket
  <2>4. Quiet
    BY <1>1, <1>6, <2>2, <2>3 DEF Quiet, Trying
  <2>5. BillInv'
    BY <1>1, <1>6, <2>4, QuietKeepsBills DEF Told
  <2>6. QED
    BY <2>4, <2>5
<1>7. CASE doing = "exec"
  <2>1. c = "exec" /\ todo = ToExec /\ todo' = ToExecHeader
    BY <1>7, InsertWritten
  <2>2. job \in Job /\ outcome[job] = "none"
    BY <1>7 DEF JobInv
  <2>3. /\ attempts' = [attempts EXCEPT ![job] = @ + 1]
        /\ \A j \in Job : j # job => attempts'[j] = attempts[j]
    BY <2>1 DEF WritePacket, Types, Counts
  <2>4. \A j \in Job : IF j = job THEN Doubts'[j] =< Doubts[j] + 1
                                  ELSE Doubts'[j] = Doubts[j]
    BY <1>1, <1>2, <1>5, DoubtsOf
  <2>5. Doubts' = Doubts \/ Doubts' = [Doubts EXCEPT ![job] = @ + 1]
    <3>1. CASE toServer' = toServer
      BY <1>1, <1>2, <1>5, <3>1, SameDoubts
    <3>2. CASE toServer' # toServer
      <4>1. /\ Doubts = [j \in Job |-> late[j] + IF j = job THEN 0 ELSE 0]
            /\ Doubts' = [j \in Job |-> late[j] + IF j = job THEN 1 ELSE 0]
        BY <1>1, <1>2, <1>5, <2>1, <3>2, DoubtsAre
      <4>2. late \in Counts
        BY DEF Types
      <4>3. QED
        BY <2>2, <4>1, <4>2 DEF Counts
    <3>3. QED
      BY <3>1, <3>2
  <2>6. Attempts
    BY <1>1, <2>2, <2>3, <2>5 DEF Attempts
  <2>7. ~Told'
    <3>1. CASE Arriving = << >>
      BY <1>1, <3>1 DEF Told
    <3>2. CASE Arriving # << >>
      <4>1. ~Still /\ ~Asked
        BY <3>2 DEF Still, Asked
      <4>2. ~Answered
        <5>1. Answered => At(doing, todo, Arriving)
          BY <1>1, BusyOrNot DEF Answered, Place
        <5>2. c \in WriteTask
          BY DEF WritePacket, Writing
        <5>3. QED
          BY <3>2, <5>1, <5>2, WritesAre
      <4>3. Arriving[1].seq = 0
        BY <4>1, <4>2 DEF ConnInv, Killed
      <4>4. sequence' = (0 + 1) % SequenceSize
        BY <2>1 DEF WritePacket, FirstSeq, IsAuth
      <4>5. 1 % SequenceSize = 1 /\ 0 + 1 = 1
        BY MysqlAssumption
      <4>6. sequence' = 1
        BY <4>4, <4>5
      <4>7. QED
        BY <1>1, <4>3, <4>6 DEF Told
    <3>3. QED
      BY <3>1, <3>2
  <2>8. ASSUME NEW j \in Job
        PROVE  /\ outcome'[j] = "ok" /\ attempts'[j] > 0 => executed'[j] > 0
               /\ executed'[j] + Doubts'[j] =< lost'[j] + 1
               /\ outcome'[j] # "ok" /\ ~Trying(j)'
                    => executed'[j] + Doubts'[j] =< lost'[j]
    <3>1. /\ outcome[j] = "ok" /\ attempts[j] > 0 => executed[j] > 0
          /\ executed[j] + Doubts[j] =< lost[j] + 1
          /\ outcome[j] # "ok" /\ ~Trying(j)
               => executed[j] + Doubts[j] =< lost[j]
      BY DEF BillInv
    <3>2. ~Trying(j)
      BY <2>1 DEF Trying
    <3>3. CASE j # job
      BY <1>1, <2>3, <2>4, <3>1, <3>2, <3>3
    <3>4. CASE j = job
      <4>1. Trying(j)'
        <5>1. ToExecHeader # ToExec
          BY OtherScripts
        <5>2. QED
          BY <1>1, <1>7, <2>1, <3>4, <5>1 DEF Trying
      <4>2. executed[j] + Doubts[j] =< lost[j] /\ Doubts'[j] =< Doubts[j] + 1
        BY <2>2, <2>4, <3>1, <3>2, <3>4
      <4>3. QED
        BY <1>1, <2>2, <3>4, <4>1, <4>2, DoubtsOf
    <3>5. QED
      BY <3>3, <3>4
  <2>9. BillInv'
    BY <2>1, <2>7, <2>8 DEF BillInv
  <2>10. QED
    BY <2>6, <2>9
<1>8. QED
  BY <1>6, <1>7

\* A failure, unless something is reported of the job yet.
LEMMA ReportsFailure ==
  ASSUME Types, Types', JobInv, BillInv, kind # "none",
         UNCHANGED <<executed, attempts>>, Doubts' = Doubts, doing' # "exec",
         \A j \in Job : j # job => /\ outcome'[j] = outcome[j]
                                   /\ lost'[j] = lost[j],
         outcome'[job] \in {outcome[job], "failed"},
         outcome[job] # "none" => outcome'[job] = outcome[job],
         IF doing = "exec" THEN executed[job] + Doubts[job] =< lost'[job]
                           ELSE lost' = lost
  PROVE  Reports
<1>1. job \in Job
  BY DEF JobInv
<1>2. ASSUME NEW j \in Job, j # job
      PROVE  outcome'[j] = outcome[j] /\ lost'[j] = lost[j] /\ ~Trying(j)
  BY <1>2 DEF Trying
<1>3. CASE outcome[job] # "none"
  <2>1. doing # "exec"
    BY <1>3 DEF JobInv
  <2>2. outcome'[job] = outcome[job] /\ lost'[job] = lost[job] /\ ~Trying(job)
    BY <1>3, <2>1 DEF Trying
  <2>3. QED
    BY <1>2, <2>2 DEF Reports
<1>4. CASE outcome[job] = "none"
  <2>1. outcome'[job] # "ok"
    BY <1>4
  <2>2. executed[job] + Doubts[job] =< lost'[job]
    <3>1. CASE doing = "exec"
      BY <3>1
    <3>2. CASE doing # "exec"
      <4>1. ~Trying(job) /\ lost' = lost
        BY <3>2 DEF Trying
      <4>2. QED
        BY <1>1, <1>4, <4>1 DEF BillInv
    <3>3. QED
      BY <3>1, <3>2
  <2>3. QED
    BY <1>2, <1>4, <2>1, <2>2 DEF Reports
<1>5. QED
  BY <1>3, <1>4

\* A success: the insert is done, or the job is not about a bill.
LEMMA ReportsSuccess ==
  ASSUME Types, JobInv, kind # "none",
         UNCHANGED <<executed, attempts, lost>>, Doubts' = Doubts,
         doing' # "exec",
         \A j \in Job : j # job => outcome'[j] = outcome[j],
         \/ outcome'[job] = outcome[job] /\ doing # "exec"
         \/ /\ outcome'[job] = "ok"
            /\ attempts[job] = 0 \/ (executed[job] > 0 /\ outcome[job] = "none")
  PROVE  Reports
<1>1. ASSUME NEW j \in Job, j # job
      PROVE  outcome'[j] = outcome[j] /\ lost'[j] = lost[j] /\ ~Trying(j)
  BY <1>1 DEF Trying
<1>2. doing # "exec" => ~Trying(job)
  BY DEF Trying
<1>3. QED
  BY <1>1, <1>2 DEF Reports

LEMMA UnansweredIs ==
  ASSUME Types, JobInv, kind # "none", Unanswered
  PROVE  /\ \A j \in Job : j # job => lost'[j] = lost[j]
         /\ lost'[job] = IF doing = "exec" THEN lost[job] + 1 ELSE lost[job]
         /\ doing # "exec" => lost' = lost
<1>1. job \in Job /\ lost \in Counts
  BY DEF JobInv, Types
<1>2. QED
  BY <1>1 DEF Unanswered, Counts

\* The insert that is lost is the one there was without an answer.
LEMMA LostEnough ==
  ASSUME Types, Types', JobInv, BillInv, kind # "none", Unanswered,
         doing = "exec"
  PROVE  executed[job] + Doubts[job] =< lost'[job]
<1>1. job \in Job
  BY DEF JobInv
<1>2. executed[job] + Doubts[job] =< lost[job] + 1
  BY <1>1 DEF BillInv
<1>3. QED
  BY <1>2, UnansweredIs

LEMMA ReturnsBadReports ==
  ASSUME Types, Types', ConnInv, JobInv, BillInv, ReturnsBad, todo # << >>
  PROVE  Reports
<1>1. attempts' = attempts /\ Unanswered /\ kind # "none"
  BY PlaceIs DEF ReturnsBad, JobInv, Calls
<1>2. doing = "exec" => executed[job] + Doubts[job] =< lost'[job]
  BY <1>1, LostEnough
<1>3. /\ \A j \in Job : j # job => lost'[j] = lost[j]
      /\ doing # "exec" => lost' = lost
  BY <1>1, UnansweredIs
<1>4. CASE doing \in {"open", "prepare", "exec", "query"} /\ Drop /\ TryAgain
  <2>1. outcome[job] = "none" /\ job \in Job
    BY <1>1, <1>4 DEF JobInv
  <2>2. Doubts' = Doubts /\ executed' = executed
    BY <1>1, <1>4, <2>1, DropKeepsDoubts, TryAgainIs DEF Drop
  <2>3. /\ doing' # "exec" /\ outcome'[job] \in {outcome[job], "failed"}
        /\ \A j \in Job : j # job => outcome'[j] = outcome[j]
    BY <1>1, <1>4, TryAgainIs
  <2>4. QED
    BY <1>1, <1>2, <1>3, <2>1, <2>2, <2>3, ReportsFailure
<1>5. CASE doing \in {"next", "close"} /\ CloseConn /\ job' = job
  <2>1. Doubts' = Doubts /\ executed' = executed
    BY <1>5, SameDoubts DEF CloseConn, serverVars
  <2>2. CASE doing = "next" /\ RowsEnd("failed")
    <3>1. outcome[job] = "none"
      BY <1>1, <2>2 DEF JobInv
    <3>2. /\ doing' # "exec" /\ outcome'[job] \in {outcome[job], "failed"}
          /\ \A j \in Job : j # job => outcome'[j] = outcome[j]
      BY <1>1, <2>2, RowsEndIs
    <3>3. QED
      BY <1>1, <1>2, <1>3, <2>1, <3>1, <3>2, ReportsFailure
  <2>3. CASE doing = "close" /\ Finish("failed")
    <3>1. /\ doing' # "exec" /\ outcome'[job] \in {outcome[job], "failed"}
          /\ outcome[job] # "none" => outcome'[job] = outcome[job]
          /\ \A j \in Job : j # job => outcome'[j] = outcome[j]
      BY <1>1, <2>3, FinishIs
    <3>2. QED
      BY <1>1, <1>2, <1>3, <2>1, <3>1, ReportsFailure
  <2>4. QED
    BY <1>5, <2>2, <2>3 DEF ReturnsBad, Broken
<1>6. QED
  BY <1>4, <1>5 DEF ReturnsBad, Broken, RowsEnd

LEMMA RefusedReports ==
  ASSUME Types, Types', JobInv, BillInv, Refused,
         UNCHANGED <<executed, attempts>>, Doubts' = Doubts,
         \A j \in Job : j # job => lost'[j] = lost[j],
         IF doing = "exec" THEN executed[job] + Doubts[job] =< lost'[job]
                           ELSE lost' = lost
  PROVE  Reports
<1>1. CASE doing = "next" /\ RowsEnd("failed")
  <2>1. kind # "none" /\ outcome[job] = "none"
    BY <1>1 DEF JobInv
  <2>2. /\ doing' # "exec" /\ outcome'[job] \in {outcome[job], "failed"}
        /\ \A j \in Job : j # job => outcome'[j] = outcome[j]
    BY <1>1, <2>1, RowsEndIs
  <2>3. QED
    BY <2>1, <2>2, ReportsFailure
<1>2. CASE /\ doing \in {"open", "prepare", "exec", "query", "close"}
           /\ Finish("failed")
  <2>1. kind # "none"
    BY <1>2 DEF JobInv
  <2>2. /\ doing' # "exec" /\ outcome'[job] \in {outcome[job], "failed"}
        /\ outcome[job] # "none" => outcome'[job] = outcome[job]
        /\ \A j \in Job : j # job => outcome'[j] = outcome[j]
    BY <1>2, <2>1, FinishIs
  <2>3. QED
    BY <2>1, <2>2, ReportsFailure
<1>3. QED
  BY <1>1, <1>2 DEF Refused

LEMMA RefusedKeepsJob == Refused => job' = job
BY DEF Refused, RowsEnd

LEMMA OutOfSyncReports ==
  ASSUME Types, Types', ConnInv, JobInv, BillInv, OutOfSync
  PROVE  Reports
<1>1. /\ todo # << >> /\ attempts' = attempts /\ Unanswered /\ Refused
      /\ IF doing = "open" THEN Drop
         ELSE UNCHANGED <<toServer, executed, late>>
  BY DEF OutOfSync, Reading, netVars, serverVars
<1>2. kind # "none" /\ job \in Job /\ job' = job
  BY <1>1, PlaceIs, RefusedKeepsJob DEF JobInv, Calls
<1>3. executed' = executed
  BY <1>1 DEF Drop
<1>4. Doubts' = Doubts
  BY <1>1, <1>2, DropKeepsDoubts, SameDoubts
<1>5. doing = "exec" => executed[job] + Doubts[job] =< lost'[job]
  BY <1>1, <1>2, LostEnough
<1>6. QED
  BY <1>1, <1>2, <1>3, <1>4, <1>5, UnansweredIs, RefusedReports

LEMMA ReceiveJoins ==
  ASSUME Types, Receive
  PROVE  Arriving' = Arriving
<1>1. buffer = << >> /\ toClient \in Seq(Arrival)
  BY Packets DEF Receive
<1>2. PICK n \in 1 .. Len(toClient) :
        /\ buffer' = SubSeq(toClient, 1, n)
        /\ toClient' = SubSeq(toClient, n + 1, Len(toClient))
  BY DEF Receive
<1>3. buffer' \o toClient' = toClient
  BY <1>1, <1>2, Together
<1>4. QED
  BY <1>1, <1>3, ArrivingIs DEF Arriving

\* A step that the bills are not concerned in.
LEMMA IdleQuiet ==
  ASSUME UNCHANGED <<executed, attempts, lost, outcome, late, job, doing, todo>>,
         Flies(toServer') = Flies(toServer)
  PROVE  Quiet
<1>1. Doubts' = Doubts
  BY SameDoubts
<1>2. QED
  BY <1>1 DEF Quiet, Trying

LEMMA ReceiveOfBills ==
  ASSUME Types, Types', ConnInv, JobInv, BillInv, Receive
  PROVE  BillInv' /\ Quiet
<1>1. /\ UNCHANGED <<executed, attempts, lost, outcome, late, job, doing, todo>>
      /\ toServer' = toServer /\ sequence' = sequence
  BY DEF Receive, serverVars, sqlVars, histVars
<1>2. Quiet
  BY <1>1, IdleQuiet
<1>3. Arriving' = Arriving
  BY ReceiveJoins
<1>4. Told' => Told
  BY <1>1, <1>3 DEF Told
<1>5. doing' = "exec" /\ todo' \notin {ToExec, ToExecHeader}
      => executed[job'] > 0
  BY <1>1 DEF BillInv
<1>6. QED
  BY <1>1, <1>2, <1>3, <1>4, <1>5, QuietKeepsBills

\* An insert is not answered by rows alone.
LEMMA ReadPartOfBills ==
  ASSUME Types, Types', ConnInv, JobInv, BillInv, ReadPart
  PROVE  BillInv' /\ Quiet
<1>1. /\ UNCHANGED <<executed, attempts, lost, outcome, late, job, doing, todo>>
      /\ toServer' = toServer /\ buffer # << >> /\ Head(buffer).full
  BY DEF ReadPart, serverVars, sqlVars, histVars, netVars
<1>2. Quiet
  BY <1>1, IdleQuiet
<1>3. At(doing, todo, Arriving)
  BY InOrder DEF ReadPart
<1>4. Arriving # << >> /\ Arriving[1].full
  BY <1>1, ArrivingIs
<1>5. doing # "exec"
  <2> DEFINE s == Arriving
  <2> HIDE DEF s
  <2>1. s # << >> /\ s[1].full
    BY <1>4 DEF s
  <2>2. ~E(s) /\ ~DE(s) /\ ~EDE(s) /\ ~DEDE(s) /\ ~Result(s)
    BY <2>1 DEF E, DE, EDE, DEDE, Result, Alone, Starts
  <2>3. ~AtExec(todo, s)
    BY <2>1, <2>2 DEF AtExec, AtLists
  <2>4. QED
    BY <1>3, <2>3 DEF At, s
<1>6. QED
  BY <1>1, <1>2, <1>5, QuietKeepsBills DEF Told

\* What an insert reads: its answer says it is done, or rows follow that do.
LEMMA ExecRead ==
  ASSUME NEW w, NEW s, NEW new, s # << >>, AtExec(w, s),
         GoesOn(Head(w), s[1], Tail(w), new)
  PROVE  /\ w # ToExec
         /\ new \notin {ToExec, ToExecHeader}
         /\ w = ToExecHeader => s[1].kind # "err"
<1>1. ToExec # << >> /\ ToExecHeader # << >> /\ ToExec # ToEofs
      /\ ToExecHeader # ToEofs /\ ToExec # ToEof /\ ToExecHeader # ToEof
      /\ ToExec # ToExecHeader
  BY OtherScripts, SomethingToDo
<1>2. CASE w = ToExecHeader /\ Result(s)
  <2>1. \/ s[1].kind = "ok" /\ new = Discard(s[1].more)
        \/ s[1].kind = "columns" /\ new = ToEofs
    BY <1>2, OtherScripts, ResultTasks
  <2>2. s[1].kind = "ok" => new = << >>
    BY <1>2, <2>1, ResultRead, EndsAre
  <2>3. QED
    BY <1>1, <1>2, <2>1, <2>2
<1>3. CASE AtLists(w, s)
  <2>1. AtLists(new, Tail(s)) \/ new = << >>
    BY <1>3, ListsRead
  <2>2. new \in {ToEof, ToEofs, << >>} /\ w \in {ToEof, ToEofs}
    BY <1>3, <2>1 DEF AtLists
  <2>3. QED
    BY <1>1, <2>2
<1>4. QED
  BY <1>2, <1>3 DEF AtExec

LEMMA ReadOfBills ==
  ASSUME Types, Types', ConnInv, JobInv, BillInv, Read
  PROVE  BillInv' /\ (Quiet \/ Reports)
<1> DEFINE p == Head(buffer)
<1>1. /\ todo # << >> /\ buffer # << >> /\ InSync(p)
      /\ GoesOn(Head(todo), p, Tail(todo), todo')
      /\ UNCHANGED <<executed, late, attempts, lost, toServer>>
      /\ IF todo' = << >>
           THEN (doing = "next" /\ RowsEnd("ok")) \/ Succeeds
           ELSE UNCHANGED <<doing, job, outcome>>
  BY DEF Read, Reading, netVars, serverVars, sqlVars
<1>2. /\ At(doing, todo, Arriving) /\ Arriving # << >> /\ Arriving[1] = p
      /\ Arriving[1].seq = sequence
  BY <1>1, InOrder, ArrivingIs DEF InSync, Read
<1>3. kind # "none" /\ job \in Job
  BY <1>1, PlaceIs DEF JobInv, Calls
<1>4. job' = job
  BY <1>1 DEF RowsEnd, Succeeds
<1>5. Doubts' = Doubts
  BY <1>1, <1>4, SameDoubts
<1> HIDE DEF p
<1>6. ASSUME doing = "exec"
      PROVE  /\ todo # ToExec /\ todo' \notin {ToExec, ToExecHeader}
             /\ executed[job] > 0 /\ outcome[job] = "none"
  <2>1. AtExec(todo, Arriving)
    BY <1>2, <1>6 DEF At
  <2>2. /\ todo # ToExec /\ todo' \notin {ToExec, ToExecHeader}
        /\ todo = ToExecHeader => Arriving[1].kind # "err"
    BY <1>1, <1>2, <2>1, ExecRead
  <2>3. ASSUME todo = ToExecHeader PROVE executed[job] > 0
    BY <1>2, <1>6, <2>2, <2>3 DEF BillInv, Told
  <2>4. ASSUME todo # ToExecHeader PROVE executed[job] > 0
    BY <1>6, <2>2, <2>4 DEF BillInv
  <2>5. outcome[job] = "none"
    BY <1>3, <1>6 DEF JobInv
  <2>6. QED
    BY <2>2, <2>3, <2>4, <2>5
<1>7. CASE todo' # << >>
  <2>1. UNCHANGED <<doing, job, outcome>>
    BY <1>1, <1>7
  <2>2. Quiet
    BY <1>1, <1>5, <1>6, <2>1 DEF Quiet, Trying
  <2>3. BillInv'
    BY <1>6, <2>1, <2>2, QuietKeepsBills DEF Told
  <2>4. QED
    BY <2>2, <2>3
<1>8. CASE todo' = << >>
  <2>1. Reports
    <3>1. CASE doing = "next" /\ RowsEnd("ok")
      <4>1. attempts[job] = 0
        BY <3>1 DEF JobInv, Asking
      <4>2. /\ outcome'[job] = "ok" /\ doing' # "exec"
            /\ \A j \in Job : j # job => outcome'[j] = outcome[j]
        BY <1>3, <3>1, RowsEndIs
      <4>3. QED
        BY <1>1, <1>3, <1>5, <4>1, <4>2, ReportsSuccess
    <3>2. CASE doing \in {"exec", "close"} /\ Finish("ok")
      <4>1. /\ outcome'[job] \in {outcome[job], "ok"} /\ doing' # "exec"
            /\ outcome[job] = "none" => outcome'[job] = "ok"
            /\ \A j \in Job : j # job => outcome'[j] = outcome[j]
        BY <1>3, <3>2, FinishIs
      <4>2. doing = "close" => attempts[job] = 0
        BY DEF JobInv, Asking
      <4>3. QED
        BY <1>1, <1>3, <1>5, <1>6, <3>2, <4>1, <4>2, ReportsSuccess
    <3>3. CASE /\ doing \in {"open", "prepare", "query", "next"}
               /\ doing' # "exec" /\ outcome' = outcome
      BY <1>1, <1>3, <1>5, <3>3, ReportsSuccess
    <3>4. QED
      BY <1>1, <1>8, <3>1, <3>2, <3>3 DEF Succeeds
  <2>2. QED
    BY <2>1, ReportsKeepBills
<1>9. QED
  BY <1>7, <1>8

LEMMA ReadErrorReports ==
  ASSUME Types, Types', ConnInv, JobInv, BillInv, ReadError
  PROVE  Reports
<1> DEFINE p == Head(buffer)
<1>1. /\ todo # << >> /\ buffer # << >> /\ InSync(p) /\ Head(todo) # "eof"
      /\ p.kind \in Errors /\ attempts' = attempts /\ lost' = lost /\ Refused
      /\ IF doing = "open" THEN Drop
         ELSE UNCHANGED <<toServer, executed, late>>
  BY DEF ReadError, Reading, netVars, serverVars
<1>2. kind # "none" /\ job \in Job /\ job' = job
  BY <1>1, PlaceIs, RefusedKeepsJob DEF JobInv, Calls
<1>3. executed' = executed
  BY <1>1 DEF Drop
<1>4. Doubts' = Doubts
  BY <1>1, <1>2, DropKeepsDoubts, SameDoubts
<1>5. ASSUME doing = "exec" PROVE executed[job] + Doubts[job] =< lost'[job]
  <2>1. /\ AtExec(todo, Arriving) /\ Arriving # << >> /\ Arriving[1] = p
        /\ Arriving[1].seq = sequence
    BY <1>1, <1>5, InOrder, ArrivingIs DEF InSync, ReadError, At
  <2>2. todo = ToExecHeader /\ Result(Arriving)
    BY <1>1, <2>1, OtherScripts DEF AtExec, AtLists
  <2>3. p.kind = "err"
    BY <1>1, <2>1, <2>2, ResultRead DEF Errors
  <2>4. QED
    BY <1>1, <1>5, <2>1, <2>2, <2>3 DEF BillInv, Told
<1>6. QED
  BY <1>1, <1>2, <1>3, <1>4, <1>5, RefusedReports

LEMMA DriverOfBills ==
  ASSUME Types, Types', ConnInv, JobInv, BillInv, Driver
  PROVE  BillInv' /\ (Quiet \/ Attempts \/ Reports)
<1>1. CASE WriteFails \/ ReadFails
  <2>1. Reports
    BY <1>1, ReturnsBadReports DEF WriteFails, ReadFails, Writing, Reading
  <2>2. QED
    BY <2>1, ReportsKeepBills
<1>2. CASE OutOfSync \/ ReadError
  BY <1>2, OutOfSyncReports, ReadErrorReports, ReportsKeepBills
<1>3. QED
  BY <1>1, <1>2, WritePacketOfBills, ReceiveOfBills, ReadPartOfBills,
     ReadOfBills DEF Driver

------------------------------------------------------------------------------
(* The bills, as database/sql and sqlClient go on.                         *)

\* No insert is being tried.
LEMMA RestsReports ==
  ASSUME doing # "exec", doing' # "exec",
         UNCHANGED <<executed, attempts, lost, outcome>>, Doubts' = Doubts
  PROVE  Reports
<1>1. \A j \in Job : ~Trying(j)
  BY DEF Trying
<1>2. QED
  BY <1>1 DEF Reports

LEMMA NoneFlies ==
  ASSUME Types, ConnInv, doing # "exec"
  PROVE  Flies(toServer) = 0
BY FliesWhen

LEMMA CallReports ==
  ASSUME Types, Types', ConnInv, doing # "exec", NEW what, NEW tasks,
         Call(what, tasks), what # "exec",
         UNCHANGED <<executed, late, toServer>>
  PROVE  Reports
<1>1. /\ doing' = what /\ UNCHANGED <<job, outcome, attempts, lost>>
  BY DEF Call, histVars
<1>2. Doubts' = Doubts
  BY <1>1, SameDoubts
<1>3. QED
  BY <1>1, <1>2, RestsReports

LEMMA AskOfBills ==
  ASSUME Types, Types', ConnInv, JobInv, BillInv, Ask
  PROVE  BillInv' /\ Quiet
<1>1. /\ doing = "none" /\ UNCHANGED <<job, outcome, attempts, lost>>
      /\ UNCHANGED <<executed, late, toServer>>
      /\ doing' = "exec" => todo' = ToExec
  BY DEF Ask, Ready, Call, histVars, serverVars, netVars, ToExec
<1>2. Doubts' = Doubts
  BY <1>1, SameDoubts
<1>3. \A j \in Job : ~Trying(j) /\ ~Trying(j)'
  BY <1>1 DEF Trying
<1>4. Quiet
  BY <1>1, <1>2, <1>3 DEF Quiet
<1>5. ~Told'
  <2>1. ToExec # ToExecHeader
    BY OtherScripts
  <2>2. QED
    BY <1>1, <2>1 DEF Told
<1>6. QED
  BY <1>1, <1>4, <1>5, QuietKeepsBills

LEMMA AskClosedReports ==
  ASSUME Types, Types', ConnInv, JobInv, BillInv, AskClosed
  PROVE  Reports
<1>1. /\ kind # "none" /\ doing = "none" /\ Drop /\ TryAgain
      /\ UNCHANGED <<attempts, lost, executed>>
  BY DEF AskClosed, Ready, histVars, Drop
<1>2. outcome[job] = "none" /\ job \in Job
  BY <1>1 DEF JobInv
<1>3. /\ job' = job /\ doing' # "exec"
      /\ outcome'[job] \in {outcome[job], "failed"}
      /\ \A j \in Job : j # job => outcome'[j] = outcome[j]
  BY <1>1, TryAgainIs
<1>4. Doubts' = Doubts
  BY <1>1, <1>2, <1>3, DropKeepsDoubts
<1>5. QED
  BY <1>1, <1>2, <1>3, <1>4, ReportsFailure

LEMMA OpenFailsReports ==
  ASSUME Types, Types', ConnInv, JobInv, BillInv, OpenFails
  PROVE  Reports
<1>1. /\ kind # "none" /\ doing = "none" /\ doing' # "exec"
      /\ outcome' = [outcome EXCEPT ![job] = "failed"]
      /\ UNCHANGED <<job, attempts, lost, executed, late, toServer>>
  BY DEF OpenFails, Ready, EndJob, histVars, serverVars, netVars
<1>2. outcome[job] = "none"
  BY <1>1 DEF JobInv
<1>3. /\ outcome'[job] = "failed"
      /\ \A j \in Job : j # job => outcome'[j] = outcome[j]
  BY <1>1, OutcomeOf
<1>4. Doubts' = Doubts
  BY <1>1, SameDoubts
<1>5. QED
  BY <1>1, <1>2, <1>3, <1>4, ReportsFailure

LEMMA CloseRowsReports ==
  ASSUME Types, Types', ConnInv, JobInv, BillInv, CloseRows
  PROVE  Reports
<1>1. /\ doing \in {"read", "rows"}
      /\ UNCHANGED <<executed, late, toServer>>
  BY DEF CloseRows, serverVars, netVars
<1>2. CASE Call("close", <<"eof", "discard">>)
  BY <1>1, <1>2, CallReports
<1>3. CASE Finish("ok") /\ UNCHANGED <<job, attempts, lost>>
  <2>1. kind # "none" /\ attempts[job] = 0
    BY <1>1 DEF JobInv, Asking
  <2>2. /\ outcome'[job] \in {outcome[job], "ok"} /\ doing' # "exec"
        /\ \A j \in Job : j # job => outcome'[j] = outcome[j]
    BY <1>3, <2>1, FinishIs
  <2>3. Doubts' = Doubts
    BY <1>1, <1>3, SameDoubts
  <2>4. QED
    BY <1>1, <1>3, <2>1, <2>2, <2>3, ReportsSuccess
<1>4. QED
  BY <1>2, <1>3 DEF CloseRows, histVars

LEMMA CloseStmtReports ==
  ASSUME Types, Types', ConnInv, JobInv, BillInv, CloseStmt
  PROVE  Reports
<1> DEFINE o == [command |-> "stmtClose", cmd |-> cmd, seq |-> 0]
<1>1. /\ doing = "closeStmt" /\ doing' = "none"
      /\ UNCHANGED <<job, outcome, attempts, lost, executed, late>>
      /\ toServer' = toServer \/ toServer' = Append(toServer, o)
  BY DEF CloseStmt, EndJob, histVars, serverVars
<1>2. toServer \in Seq(Order) /\ o \in Order /\ o.command # "exec"
  BY Packets, CommandIs DEF Order, Types
<1> HIDE DEF o
<1>3. Flies(toServer') = Flies(toServer)
  BY <1>1, <1>2, FliesBehind
<1>4. Doubts' = Doubts
  BY <1>1, <1>3, SameDoubts
<1>5. QED
  BY <1>1, <1>4, RestsReports

LEMMA StartReports ==
  ASSUME Types, Types', ConnInv, JobInv, Start
  PROVE  Reports
<1>1. /\ kind = "none" /\ doing' = doing
      /\ UNCHANGED <<outcome, attempts, lost, executed, late, toServer>>
  BY DEF Start, histVars, serverVars, netVars
<1>2. doing = "none"
  BY <1>1 DEF JobInv
<1>3. Doubts' = Doubts
  BY <1>1, <1>2, NoneFlies, SameDoubts
<1>4. QED
  BY <1>1, <1>2, <1>3, RestsReports

LEMMA SqlOfBills ==
  ASSUME Types, Types', ConnInv, JobInv, BillInv, Sql
  PROVE  BillInv' /\ (Quiet \/ Reports)
<1>1. CASE Open
  BY <1>1, CallReports, ReportsKeepBills DEF Open, Ready, serverVars
<1>2. CASE NextRow
  BY <1>2, CallReports, ReportsKeepBills DEF NextRow, serverVars, netVars
<1>3. CASE Ask
  BY <1>3, AskOfBills
<1>4. CASE AskClosed \/ OpenFails \/ CloseRows \/ CloseStmt \/ Start
  BY <1>4, AskClosedReports, OpenFailsReports, CloseRowsReports,
     CloseStmtReports, StartReports, ReportsKeepBills
<1>5. QED
  BY <1>1, <1>2, <1>3, <1>4 DEF Sql

------------------------------------------------------------------------------
(* The bills, as the server and the network go on.                         *)

\* A try of job j is in doubt no more.
Settles(j) ==
  /\ Doubts[j] > 0 /\ Doubts' = [Doubts EXCEPT ![j] = @ - 1]
  /\ executed' \in {executed, [executed EXCEPT ![j] = @ + 1]}
  /\ UNCHANGED <<attempts, lost, outcome>>

LEMMA OneDoubtLess ==
  ASSUME Types, Types', NEW j \in Job,
         \A i \in Job : Doubts'[i] = IF i = j THEN Doubts[i] - 1 ELSE Doubts[i]
  PROVE  Doubts' = [Doubts EXCEPT ![j] = @ - 1]
<1>1. Doubts = [i \in Job |-> Doubts[i]] /\ Doubts' = [i \in Job |-> Doubts'[i]]
  BY DEF Doubts
<1>2. QED
  BY <1>1

LEMMA SettlesServes ==
  ASSUME Types, Types', NEW j \in Job, Settles(j),
         UNCHANGED <<job, doing, todo>>
  PROVE  Serves
<1>1. ASSUME NEW i \in Job
      PROVE  /\ executed'[i] >= executed[i]
             /\ executed'[i] + Doubts'[i] =< executed[i] + Doubts[i]
  <2>1. Doubts'[i] = IF i = j THEN Doubts[i] - 1 ELSE Doubts[i]
    BY DEF Settles, Doubts
  <2>2. \/ executed'[i] = executed[i]
        \/ i = j /\ executed'[i] = executed[i] + 1
    BY DEF Settles, Types, Counts
  <2>3. QED
    BY <2>1, <2>2, DoubtsOf
<1>2. QED
  BY <1>1 DEF Serves, Settles

LEMMA ServeLateSettles ==
  ASSUME Types, Types', ConnInv, JobInv, BillInv, NEW j \in Job, ServeLate(j)
  PROVE  BillInv' /\ Settles(j)
<1>1. /\ late[j] > 0 /\ late' = [late EXCEPT ![j] = @ - 1]
      /\ executed' \in {executed, [executed EXCEPT ![j] = @ + 1]}
      /\ UNCHANGED <<job, doing, todo, outcome, attempts, lost, toServer,
                     sequence, buffer, toClient>>
  BY DEF ServeLate, connVars, netVars, sqlVars, histVars
<1>2. Doubts[j] > 0
  BY <1>1, DoubtsOf DEF Flies
<1>3. Doubts' = [Doubts EXCEPT ![j] = @ - 1]
  <2>1. late \in Counts /\ Flies(toServer) \in {0, 1}
    BY DEF Types, Flies
  <2>2. ASSUME NEW i \in Job
        PROVE  Doubts'[i] = IF i = j THEN Doubts[i] - 1 ELSE Doubts[i]
    <3>1. late'[i] = IF i = j THEN late[i] - 1 ELSE late[i]
      BY <1>1, <2>1 DEF Counts
    <3>2. QED
      BY <1>1, <2>1, <3>1, DoubtsOf
  <2>3. QED
    BY <2>2, OneDoubtLess
<1>4. Settles(j)
  BY <1>1, <1>2, <1>3 DEF Settles
<1>5. Arriving' = Arriving
  BY <1>1 DEF Arriving
<1>6. Told' => Told /\ Arriving'[1] = Arriving[1]
  BY <1>1, <1>5 DEF Told
<1>7. QED
  BY <1>1, <1>4, <1>6, SettlesServes, ServesKeepsBills

LEMMA LandedSettles ==
  ASSUME Types, Types', job' = job, job \in Job, late' = late,
         Flies(toServer) = 1, Flies(toServer') = 0,
         executed' \in {executed, [executed EXCEPT ![job] = @ + 1]},
         UNCHANGED <<attempts, lost, outcome>>
  PROVE  Settles(job)
<1>1. Doubts[job] > 0
  BY DoubtsOf
<1>2. ASSUME NEW i \in Job
      PROVE  Doubts'[i] = IF i = job THEN Doubts[i] - 1 ELSE Doubts[i]
  BY DoubtsOf
<1>3. Doubts' = [Doubts EXCEPT ![job] = @ - 1]
  BY <1>2, OneDoubtLess
<1>4. QED
  BY <1>1, <1>3 DEF Settles

LEMMA KillReports ==
  ASSUME Types, Types', ConnInv, Kill
  PROVE  Reports
<1>1. /\ doing' = doing /\ todo = << >>
      /\ UNCHANGED <<job, outcome, attempts, lost, executed, late, toServer>>
  BY DEF Kill, connVars, serverVars, sqlVars, histVars
<1>2. doing # "exec"
  BY <1>1, PlaceIs DEF Resting
<1>3. Doubts' = Doubts
  BY <1>1, SameDoubts
<1>4. QED
  BY <1>1, <1>2, <1>3, RestsReports

LEMMA BreakCuts ==
  ASSUME Types, Break
  PROVE  \E k \in 0 .. Len(Arriving) : Arriving' = SubSeq(Arriving, 1, k)
<1>1. PICK n \in 0 .. Len(toClient) : toClient' = SubSeq(toClient, 1, n)
  BY DEF Break
<1>2. buffer \in Seq(Arrival) /\ toClient \in Seq(Arrival)
  BY Packets
<1>3. \E k \in 0 .. Len(buffer \o toClient) :
        buffer \o SubSeq(toClient, 1, n) = SubSeq(buffer \o toClient, 1, k)
  BY <1>2, CutBehind
<1>4. Arriving' = buffer \o SubSeq(toClient, 1, n)
  BY <1>1 DEF Break, connVars, Arriving
<1>5. QED
  BY <1>3, <1>4 DEF Arriving

LEMMA BreakOfBills ==
  ASSUME Types, Types', ConnInv, JobInv, BillInv, Break
  PROVE  BillInv' /\ (Quiet \/ (job \in Job /\ Settles(job)))
<1>1. UNCHANGED <<executed, attempts, lost, outcome, late, job, doing, todo,
                  sequence>>
  BY DEF Break, connVars, serverVars, sqlVars, histVars
<1>2. PICK m \in 0 .. Len(toServer) : toServer' = SubSeq(toServer, 1, m)
  BY DEF Break
<1>3. toServer \in Seq(Order) /\ Arriving \in Seq(Arrival)
  BY Packets, ArrivingIs
<1>4. PICK k \in 0 .. Len(Arriving) : Arriving' = SubSeq(Arriving, 1, k)
  BY BreakCuts
<1>5. Arriving' # << >> => Arriving # << >> /\ Arriving'[1] = Arriving[1]
  BY <1>3, <1>4
<1>6. Told' => Told /\ Arriving'[1] = Arriving[1]
  BY <1>1, <1>5 DEF Told
<1>7. /\ Flies(toServer) \in {0, 1} /\ Flies(toServer') \in {0, 1}
      /\ Flies(toServer') =< Flies(toServer)
  BY <1>2, <1>3, FliesCut DEF Flies
<1>8. CASE Flies(toServer') = Flies(toServer)
  <2>1. Quiet
    BY <1>1, <1>8, IdleQuiet
  <2>2. doing' = "exec" /\ todo' \notin {ToExec, ToExecHeader}
        => executed[job'] > 0
    BY <1>1 DEF BillInv
  <2>3. QED
    BY <1>1, <1>6, <2>1, <2>2, QuietKeepsBills
<1>9. CASE Flies(toServer) = 1 /\ Flies(toServer') = 0
  <2>1. job \in Job
    BY <1>9, FliesWhen DEF JobInv
  <2>2. Settles(job)
    BY <1>1, <1>9, <2>1, LandedSettles
  <2>3. QED
    BY <1>1, <1>6, <2>1, <2>2, SettlesServes, ServesKeepsBills
<1>10. QED
  BY <1>7, <1>8, <1>9

\* The server gets an insert, or a statement to close, while one is tried.
LEMMA ServesInserts ==
  ASSUME Types, ConnInv, doing = "exec", toServer # << >>
  PROVE  /\ Head(toServer).command \in {"exec", "stmtClose"}
         /\ Head(toServer).command = "exec" => Tail(toServer) = << >>
<1> DEFINE n == Len(toServer)
<1>1. /\ toServer \in Seq(Order) /\ n \in Nat \ {0}
      /\ Head(toServer) = toServer[1] /\ Len(Tail(toServer)) = n - 1
      /\ Tail(toServer) \in Seq(Order)
  BY Packets, Parts
<1>2. CASE Still
  <2>1. 1 \in 1 .. n
    BY <1>1
  <2>2. toServer[1].command = "stmtClose"
    BY <1>2, <2>1 DEF Still, OnlyCloses
  <2>3. QED
    BY <1>1, <2>2
<1>3. CASE Asked
  <2>1. /\ Awaits(doing, todo, toServer[n].command)
        /\ \A i \in 1 .. n - 1 : toServer[i].command = "stmtClose"
    BY <1>3 DEF Asked
  <2>2. toServer[n].command = "exec"
    BY <2>1 DEF Awaits
  <2>3. CASE n = 1
    <3>1. Len(Tail(toServer)) = 0
      BY <1>1, <2>3
    <3>2. Tail(toServer) = << >>
      BY <1>1, <3>1, EmptySeq
    <3>3. QED
      BY <1>1, <2>2, <2>3, <3>2
  <2>4. CASE n # 1
    <3>1. 1 \in 1 .. n - 1
      BY <1>1, <2>4
    <3>2. toServer[1].command = "stmtClose"
      BY <2>1, <3>1
    <3>3. QED
      BY <1>1, <3>2
  <2>5. QED
    BY <2>3, <2>4
<1>4. QED
  BY <1>2, <1>3 DEF ConnInv, Killed, Answered

LEMMA ServedTo ==
  ASSUME Types, ConnInv, Serve
  PROVE  Arriving = << >> /\ toClient = << >> /\ buffer = << >>
<1>1. Arriving = << >>
  BY DEF Serve, ConnInv, Still, Killed, Asked, Answered
<1>2. QED
  BY <1>1, ArrivingIs

LEMMA ServeOfBills ==
  ASSUME Types, Types', ConnInv, JobInv, BillInv, Serve
  PROVE  BillInv' /\ (Quiet \/ (job \in Job /\ Settles(job)))
<1> DEFINE c == Head(toServer)
<1>1. PICK reply \in Replies[c.command] :
        /\ toClient' = IF link = "cut" THEN toClient
                       ELSE toClient \o [i \in 1 .. Len(reply) |->
                                           Sent(reply[i], c.cmd, c.seq + i)]
        /\ executed' = IF c.command = "exec" /\ reply[1].kind # "err"
                         THEN [executed EXCEPT ![job] = @ + 1] ELSE executed
  BY DEF Serve
<1>2. /\ toServer # << >> /\ toServer' = Tail(toServer)
      /\ UNCHANGED <<attempts, lost, outcome, late, job, doing, todo, sequence,
                     buffer>>
  BY DEF Serve, connVars, sqlVars, histVars
<1>3. Arriving = << >> /\ toClient = << >> /\ buffer = << >>
  BY ServedTo
<1>4. toServer \in Seq(Order) /\ c \in Order /\ c = toServer[1]
      /\ Len(toServer) \in Nat \ {0}
  BY <1>2, Packets, Parts
<1>5. c.command \in Command /\ c.cmd \in Nat /\ c.seq \in Nat
  BY <1>4 DEF Order
<1>6. reply \in Seq(Pack)
  BY <1>5, RepliesTyped
<1>7. Arriving' = toClient'
  BY <1>2, <1>3, ConcatEmptySeq DEF Arriving, Types
<1>8. CASE c.command # "exec"
  <2>1. Flies(toServer') = Flies(toServer)
    BY <1>2, <1>4, <1>8, FliesOn
  <2>2. executed' = executed
    BY <1>1, <1>8
  <2>3. Quiet
    BY <1>2, <2>1, <2>2, IdleQuiet
  <2>4. ~Told'
    <3> SUFFICES ASSUME doing = "exec" PROVE Arriving' = << >>
      BY <1>2 DEF Told
    <3>1. c.command = "stmtClose"
      BY <1>2, <1>8, ServesInserts
    <3>2. reply = << >>
      BY <3>1 DEF Replies
    <3> DEFINE z == [i \in 1 .. Len(reply) |-> Sent(reply[i], c.cmd, c.seq + i)]
    <3>3. z = << >>
      <4>1. Len(reply) = 0
        BY <3>2
      <4>2. QED
        BY <4>1
    <3>4. toClient' = IF link = "cut" THEN toClient ELSE toClient \o z
      BY <1>1
    <3> HIDE DEF z
    <3>5. << >> \o << >> = << >>
      OBVIOUS
    <3>6. QED
      BY <1>3, <1>7, <3>3, <3>4, <3>5
  <2>5. doing' = "exec" /\ todo' \notin {ToExec, ToExecHeader}
        => executed[job'] > 0
    BY <1>2 DEF BillInv
  <2>6. QED
    BY <2>3, <2>4, <2>5, QuietKeepsBills
<1>9. CASE c.command = "exec"
  <2>1. Flies(toServer) = 1
    <3>1. 1 \in 1 .. Len(toServer)
      BY <1>4
    <3>2. QED
      BY <1>4, <1>9, <3>1, FliesIs
  <2>2. doing = "exec" /\ todo = ToExecHeader
    BY <2>1, FliesWhen
  <2>3. job \in Job
    BY <2>2 DEF JobInv
  <2>4. toServer' = << >> /\ Flies(toServer') = 0
    BY <1>2, <1>9, <2>2, ServesInserts, NothingFlies
  <2>5. executed' = IF reply[1].kind # "err"
                      THEN [executed EXCEPT ![job] = @ + 1] ELSE executed
    BY <1>1, <1>9
  <2>6. Settles(job)
    BY <1>2, <2>1, <2>3, <2>4, <2>5, LandedSettles
  <2>7. ASSUME Arriving' # << >> PROVE Arriving'[1].kind = reply[1].kind
    <3> DEFINE z == [i \in 1 .. Len(reply) |-> Sent(reply[i], c.cmd, c.seq + i)]
    <3>1. z \in Seq(Arrival)
      BY <1>5, <1>6, ReplySentTyped
    <3>2. toClient' = << >> \/ toClient' = << >> \o z
      BY <1>1, <1>3
    <3>3. /\ Len(z) = Len(reply)
          /\ \A i \in 1 .. Len(reply) : z[i] = Sent(reply[i], c.cmd, c.seq + i)
      BY <1>6
    <3> HIDE DEF z
    <3>4. << >> \o z = z
      BY <3>1, ConcatEmptySeq
    <3>5. Arriving' = z /\ z # << >>
      BY <1>7, <2>7, <3>2, <3>4
    <3>6. 1 \in 1 .. Len(reply)
      BY <1>6, <3>1, <3>3, <3>5, EmptySeq
    <3>7. z[1] = Sent(reply[1], c.cmd, c.seq + 1)
      BY <3>3, <3>6
    <3>8. QED
      BY <3>5, <3>7 DEF Sent
  <2>8. IF reply[1].kind = "err"
          THEN executed'[job] + Doubts'[job] =< lost[job]
          ELSE executed'[job] > 0
    <3>1. executed[job] + Doubts[job] =< lost[job] + 1
      BY <2>3 DEF BillInv
    <3>2. Doubts'[job] = Doubts[job] - 1
      BY <2>3, <2>6 DEF Settles, Doubts
    <3>3. executed \in Counts
      BY DEF Types
    <3>4. CASE reply[1].kind = "err"
      BY <2>3, <2>5, <3>1, <3>2, <3>4, DoubtsOf
    <3>5. CASE reply[1].kind # "err"
      BY <2>3, <2>5, <3>3, <3>5, DoubtsOf DEF Counts
    <3>6. QED
      BY <3>4, <3>5
  <2>9. Told' => IF Arriving'[1].kind = "err"
                   THEN executed'[job] + Doubts'[job] =< lost[job]
                   ELSE executed'[job] > 0
    BY <2>7, <2>8 DEF Told
  <2>10. QED
    BY <1>2, <2>3, <2>6, <2>9, SettlesServes, ServesKeepsBills
<1>10. QED
  BY <1>8, <1>9

------------------------------------------------------------------------------
(* What is reported of a bill.                                             *)

BillStep ==
  \/ Quiet \/ Attempts \/ Reports
  \/ \E j \in Job : Settles(j)

LEMMA SameBills ==
  ASSUME JobInv, BillInv, UNCHANGED vars
  PROVE  BillInv' /\ Quiet
<1>1. UNCHANGED <<executed, attempts, lost, outcome, late, job, doing, todo,
                  toServer, sequence, buffer, toClient>>
  BY DEF vars, connVars, netVars, serverVars, sqlVars, histVars
<1>2. Quiet
  BY <1>1, IdleQuiet
<1>3. Arriving' = Arriving /\ Doubts' = Doubts
  BY <1>1, <1>2 DEF Arriving, Quiet
<1>4. Told' = Told /\ \A j : Trying(j)' = Trying(j)
  BY <1>1, <1>3 DEF Told, Trying
<1>5. QED
  BY <1>1, <1>2, <1>3, <1>4 DEF BillInv

LEMMA NextOfBills ==
  ASSUME Types, Types', ConnInv, JobInv, BillInv, [Next]_vars
  PROVE  BillInv' /\ BillStep
<1>1. ASSUME NEW j \in Job, ServeLate(j) PROVE BillInv' /\ BillStep
  BY <1>1, ServeLateSettles DEF BillStep
<1>2. CASE Serve \/ Break
  BY <1>2, ServeOfBills, BreakOfBills DEF BillStep
<1>3. CASE Kill
  BY <1>3, KillReports, ReportsKeepBills DEF BillStep
<1>4. CASE UNCHANGED vars
  BY <1>4, SameBills DEF BillStep
<1>5. CASE Driver \/ Sql
  BY <1>5, DriverOfBills, SqlOfBills DEF BillStep
<1>6. QED
  BY <1>1, <1>2, <1>3, <1>4, <1>5 DEF Next

LEMMA InitBills == Init => JobInv /\ BillInv
<1> SUFFICES ASSUME Init PROVE JobInv /\ BillInv
  OBVIOUS
<1>1. Doubts = [j \in Job |-> 0]
  BY DoubtsAre, NothingFlies DEF Init
<1>2. JobInv
  BY DEF Init, JobInv, Asking
<1>3. BillInv
  BY <1>1 DEF Init, BillInv, Told
<1>4. QED
  BY <1>2, <1>3

BillsInv == Types /\ ConnInv /\ JobInv /\ BillInv

LEMMA BillsAlways == Spec => []BillsInv
<1>1. Init => BillsInv
  BY InitTyped, InitConn, InitBills DEF BillsInv
<1>2. BillsInv /\ [Next]_vars => BillsInv'
  BY NextTyped, NextConn, NextKeepsJobs, NextOfBills DEF BillsInv
<1>3. QED
  BY <1>1, <1>2, PTL DEF Spec

\* A bill that is reported stored is stored; of one reported failed no more
\* inserts are or will be done than tries that got no answer; and a bill is
\* stored no more often than it had such tries, and once (database/sql's tries
\* after ErrBadConn).
THEOREM StoredIsAsReported == Spec => []StoredAsReported
<1>1. BillsInv => StoredAsReported
  <2> SUFFICES ASSUME BillsInv, NEW j \in Job
               PROVE  /\ outcome[j] = "ok" /\ attempts[j] > 0 => executed[j] > 0
                      /\ outcome[j] = "failed" => executed[j] + late[j] =< lost[j]
                      /\ executed[j] + late[j] =< lost[j] + 1
    BY DEF StoredAsReported
  <2>1. Types /\ JobInv /\ BillInv
    BY DEF BillsInv
  <2>2. /\ executed[j] \in Nat /\ late[j] \in Nat /\ lost[j] \in Nat
        /\ Doubts[j] >= late[j] /\ Doubts[j] \in Nat
    <3>1. Flies(toServer) \in {0, 1}
      BY DEF Flies
    <3>2. executed[j] \in Nat /\ late[j] \in Nat /\ lost[j] \in Nat
      BY <2>1 DEF Types, Counts
    <3>3. Doubts[j] = late[j] + IF j = job THEN Flies(toServer) ELSE 0
      BY DoubtsAre
    <3>4. QED
      BY <3>1, <3>2, <3>3
  <2>3. ASSUME outcome[j] = "failed" PROVE ~Trying(j)
    BY <2>1, <2>3 DEF Trying, JobInv
  <2>4. /\ outcome[j] = "ok" /\ attempts[j] > 0 => executed[j] > 0
        /\ executed[j] + Doubts[j] =< lost[j] + 1
        /\ outcome[j] # "ok" /\ ~Trying(j) => executed[j] + Doubts[j] =< lost[j]
    BY <2>1 DEF BillInv
  <2>5. QED
    BY <2>2, <2>3, <2>4
<1>2. QED
  BY <1>1, BillsAlways, PTL

------------------------------------------------------------------------------
(* The inserts do what RetriedInsert promises.                             *)

\* The outcome that RetriedInsert speaks of.
Shown == [j \in Job |-> IF attempts[j] = 0 THEN "none" ELSE outcome[j]]

\* The steps of RetriedInsert, of a job j.
Tried(j) ==
  /\ Shown[j] = "none" /\ Doubts' = [Doubts EXCEPT ![j] = @ + 1]
  /\ executed' = executed /\ Shown' = Shown
Stored(j) ==
  /\ Doubts[j] > 0 /\ Doubts' = [Doubts EXCEPT ![j] = @ - 1]
  /\ executed' = [executed EXCEPT ![j] = @ + 1] /\ Shown' = Shown
Given(j) ==
  /\ Doubts[j] > 0 /\ Doubts' = [Doubts EXCEPT ![j] = @ - 1]
  /\ executed' = executed /\ Shown' = Shown
Reported(j) ==
  /\ Shown[j] = "none"
  /\ \/ executed[j] > 0 /\ Shown' = [Shown EXCEPT ![j] = "ok"]
     \/ Shown' = [Shown EXCEPT ![j] = "failed"]
  /\ Doubts' = Doubts /\ executed' = executed

LEMMA PromisedSteps ==
  /\ UNCHANGED <<Doubts, executed, Shown>> => UNCHANGED Inserts!vars
  /\ \A j \in Job : Tried(j) \/ Stored(j) \/ Given(j) \/ Reported(j)
                    => Inserts!Next
<1>1. UNCHANGED <<Doubts, executed, Shown>> => UNCHANGED Inserts!vars
  BY DEF Inserts!vars, Doubts, Shown
<1>2. ASSUME NEW j \in Job, Tried(j) PROVE Inserts!Try(j)
  BY <1>2 DEF Tried, Inserts!Try, Doubts, Shown
<1>3. ASSUME NEW j \in Job, Stored(j) PROVE Inserts!Store(j)
  BY <1>3 DEF Stored, Inserts!Store, Doubts, Shown
<1>4. ASSUME NEW j \in Job, Given(j) PROVE Inserts!Never(j)
  BY <1>4 DEF Given, Inserts!Never, Doubts, Shown
<1>5. ASSUME NEW j \in Job, Reported(j) PROVE Inserts!Report(j)
  BY <1>5 DEF Reported, Inserts!Report, Doubts, Shown
<1>6. QED
  BY <1>1, <1>2, <1>3, <1>4, <1>5 DEF Inserts!Next

LEMMA ShownOf ==
  ASSUME NEW j \in Job
  PROVE  /\ Shown[j] = IF attempts[j] = 0 THEN "none" ELSE outcome[j]
         /\ Shown'[j] = IF attempts'[j] = 0 THEN "none" ELSE outcome'[j]
BY DEF Shown

LEMMA SameShown ==
  ASSUME \A j \in Job : Shown'[j] = Shown[j]
  PROVE  Shown' = Shown
<1>1. /\ Shown = [j \in Job |-> Shown[j]] /\ Shown' = [j \in Job |-> Shown'[j]]
  BY DEF Shown
<1>2. QED
  BY <1>1

LEMMA OneShown ==
  ASSUME NEW i \in Job, NEW o,
         \A j \in Job : Shown'[j] = IF j = i THEN o ELSE Shown[j]
  PROVE  Shown' = [Shown EXCEPT ![i] = o]
<1>1. /\ Shown = [j \in Job |-> Shown[j]] /\ Shown' = [j \in Job |-> Shown'[j]]
  BY DEF Shown
<1>2. QED
  BY <1>1

LEMMA QuietRefines ==
  ASSUME Quiet
  PROVE  UNCHANGED <<Doubts, executed, Shown>>
BY DEF Quiet, Shown

LEMMA AttemptsRefines ==
  ASSUME Attempts
  PROVE  UNCHANGED <<Doubts, executed, Shown>> \/ Tried(job)
<1>1. /\ executed' = executed /\ outcome' = outcome
      /\ job \in Job /\ outcome[job] = "none"
      /\ \A j \in Job : j # job => attempts'[j] = attempts[j]
  BY DEF Attempts
<1>2. Shown[job] = "none" /\ Shown'[job] = "none"
  BY <1>1, ShownOf
<1>3. ASSUME NEW j \in Job PROVE Shown'[j] = Shown[j]
  BY <1>1, <1>2, ShownOf
<1>4. Shown' = Shown
  BY <1>3, SameShown
<1>5. QED
  BY <1>1, <1>2, <1>4 DEF Attempts, Tried

LEMMA ReportsRefines ==
  ASSUME Types', Reports
  PROVE  \/ UNCHANGED <<Doubts, executed, Shown>>
         \/ job \in Job /\ Reported(job)
<1>1. UNCHANGED <<executed, attempts>> /\ Doubts' = Doubts
  BY DEF Reports
<1>2. ASSUME NEW j \in Job, j # job PROVE Shown'[j] = Shown[j]
  <2>1. outcome'[j] = outcome[j]
    BY <1>2 DEF Reports
  <2>2. QED
    BY <1>1, <2>1, ShownOf
<1>3. CASE job \in Job /\ Shown'[job] # Shown[job]
  <2>1. \/ outcome'[job] = outcome[job]
        \/ /\ outcome'[job] = "ok"
           /\ attempts[job] = 0 \/ (executed[job] > 0 /\ outcome[job] = "none")
        \/ /\ outcome'[job] # "ok" /\ outcome[job] = "none"
    BY <1>3 DEF Reports
  <2>2. /\ Shown[job] = IF attempts[job] = 0 THEN "none" ELSE outcome[job]
        /\ Shown'[job] = IF attempts[job] = 0 THEN "none" ELSE outcome'[job]
    BY <1>1, <1>3, ShownOf
  <2>3. attempts[job] # 0 /\ outcome[job] = "none" /\ Shown[job] = "none"
    BY <1>3, <2>1, <2>2
  <2>4. \/ outcome'[job] = "ok" /\ executed[job] > 0
        \/ outcome'[job] = "failed"
    <3>1. outcome'[job] \in {"none", "ok", "failed"}
      BY <1>3 DEF Types, SqlTypes, Outcomes
    <3>2. QED
      BY <1>3, <2>1, <2>2, <2>3, <3>1
  <2>5. Shown' = [Shown EXCEPT ![job] = outcome'[job]]
    <3>1. ASSUME NEW j \in Job
          PROVE  Shown'[j] = IF j = job THEN outcome'[job] ELSE Shown[j]
      BY <1>2, <2>2, <2>3
    <3>2. QED
      BY <1>3, <3>1, OneShown
  <2>6. QED
    BY <1>1, <1>3, <2>3, <2>4, <2>5 DEF Reported
<1>4. CASE job \notin Job \/ Shown'[job] = Shown[job]
  <2>1. ASSUME NEW j \in Job PROVE Shown'[j] = Shown[j]
    BY <1>2, <1>4
  <2>2. Shown' = Shown
    BY <2>1, SameShown
  <2>3. QED
    BY <1>1, <2>2
<1>5. QED
  BY <1>3, <1>4

LEMMA InitRefines == Init => Inserts!Init
<1> SUFFICES ASSUME Init PROVE Inserts!Init
  OBVIOUS
<1>1. Doubts = [j \in Job |-> 0]
  BY DoubtsAre, NothingFlies DEF Init
<1>2. Shown = [j \in Job |-> "none"] /\ executed = [j \in Job |-> 0]
  BY DEF Init, Shown
<1>3. QED
  BY <1>1, <1>2 DEF Inserts!Init, Doubts, Shown

LEMMA NextRefines ==
  ASSUME Types, Types', BillStep
  PROVE  [Inserts!Next]_Inserts!vars
<1>1. CASE Quiet
  BY <1>1, QuietRefines, PromisedSteps
<1>2. CASE Attempts
  BY <1>2, AttemptsRefines, PromisedSteps DEF Attempts
<1>3. CASE Reports
  BY <1>3, ReportsRefines, PromisedSteps
<1>4. ASSUME NEW j \in Job, Settles(j) PROVE Inserts!Next
  <2>1. Shown' = Shown
    BY <1>4 DEF Settles, Shown
  <2>2. Stored(j) \/ Given(j)
    BY <1>4, <2>1 DEF Settles, Stored, Given
  <2>3. QED
    BY <2>2, PromisedSteps
<1>5. QED
  BY <1>1, <1>2, <1>3, <1>4 DEF BillStep

\* The inserts of the bills do what module RetriedInsert promises: a try is in
\* doubt from being written (WritePacket) until the server has done it, has
\* refused it or will never get it, stores the bill at most once, and success
\* is reported only of a bill that is stored.
THEOREM ImplementsRetriedInsert == Spec => BillsAreRetried
<1>1. Init => Inserts!Init
  BY InitRefines
<1>2. BillsInv /\ BillsInv' /\ [Next]_vars => [Inserts!Next]_Inserts!vars
  BY NextOfBills, NextRefines DEF BillsInv
<1>3. QED
  BY <1>1, <1>2, BillsAlways, PTL DEF Spec, BillsAreRetried, Inserts!Spec

=============================================================================
