------------------------- MODULE LianjiaServerProofs -------------------------
(***************************************************************************)
(* Theorems about LianjiaServer for every set of calls, every set of       *)
(* faults, any number of goroutines running at once and any number of      *)
(* kills.                                                                  *)
(***************************************************************************)
EXTENDS LianjiaServer, TLAPS

------------------------------------------------------------------------------
(* The programs of the goroutines are sequences of instructions.           *)

LEMMA Tuples ==
  \A S :
    /\ << >> \in Seq(S)
    /\ \A a \in S : <<a>> \in Seq(S)
    /\ \A a, b \in S : <<a, b>> \in Seq(S)
    /\ \A a, b, c \in S : <<a, b, c>> \in Seq(S)
    /\ \A a, b, c, d \in S : <<a, b, c, d>> \in Seq(S)
OBVIOUS

LEMMA Concatenation ==
  \A S : \A s, t \in Seq(S) : s \o t \in Seq(S)
OBVIOUS

\* What a sequence holds when one element is added to it or taken from it.
LEMMA Contents ==
  ASSUME NEW S, NEW s \in Seq(S), NEW b \in S
  PROVE  /\ Append(s, b) \in Seq(S) /\ Append(s, b) # << >>
         /\ Len(Append(s, b)) = Len(s) + 1
         /\ Range(Append(s, b)) = Range(s) \cup {b}
         /\ s # << >> => /\ Head(s) \in Range(s) /\ Head(s) \in S
                        /\ Tail(s) \in Seq(S) /\ Len(Tail(s)) = Len(s) - 1
                        /\ Range(Tail(s)) \subseteq Range(s)
<1>1. /\ Append(s, b) \in Seq(S) /\ Append(s, b) # << >>
      /\ Len(Append(s, b)) = Len(s) + 1
  <2>1. /\ Append(s, b) \in Seq(S) /\ Len(s) \in Nat
        /\ Len(Append(s, b)) = Len(s) + 1
    OBVIOUS
  <2>2. Len(Append(s, b)) # 0 /\ Len(<< >>) = 0
    BY <2>1
  <2>3. QED
    BY <2>1, <2>2
<1>2. Range(Append(s, b)) = Range(s) \cup {b}
  <2>1. /\ DOMAIN Append(s, b) = 1 .. Len(s) + 1 /\ DOMAIN s = 1 .. Len(s)
        /\ Len(s) \in Nat /\ Append(s, b)[Len(s) + 1] = b
        /\ \A i \in 1 .. Len(s) : Append(s, b)[i] = s[i]
    OBVIOUS
  <2>2. QED
    BY <2>1 DEF Range
<1>3. ASSUME s # << >>
      PROVE  /\ Head(s) \in Range(s) /\ Head(s) \in S
             /\ Tail(s) \in Seq(S) /\ Len(Tail(s)) = Len(s) - 1
             /\ Range(Tail(s)) \subseteq Range(s)
  <2>1. /\ Len(s) \in Nat \ {0} /\ Head(s) = s[1] /\ Head(s) \in S
        /\ Tail(s) \in Seq(S) /\ Len(Tail(s)) = Len(s) - 1
        /\ \A i \in 1 .. Len(s) - 1 : Tail(s)[i] = s[i + 1]
    BY <1>3
  <2>2. DOMAIN s = 1 .. Len(s) /\ DOMAIN Tail(s) = 1 .. Len(s) - 1
    BY <1>3, <2>1
  <2>3. QED
    BY <2>1, <2>2 DEF Range
<1>4. QED
  BY <1>1, <1>2, <1>3

LEMMA InCallProcTyped ==
  \A c \in Calls : InCallProc(c) \in Seq(Instr)
<1>1. /\ \A o \in {"newcall", "start", "find", "bind", "lookup", "extcheck"} :
           Do(o, "") \in Instr
      /\ \A r \in Request : Do("ask", r) \in Instr
  BY DEF Do, Instr
<1>2. /\ Do("ask", "accept") \in Instr
      /\ Do("ask", "getdtmf") \in Instr
  BY <1>1 DEF Request
<1>3. InCallProcByMobile \in Seq(Instr)
  BY <1>1, Tuples DEF InCallProcByMobile
<1>4. <<Do("bind", ""), Do("newcall", ""), Do("ask", "getdtmf"),
        Do("start", "")>> \in Seq(Instr)
  BY <1>1, <1>2, Tuples
<1>5. <<Do("ask", "accept")>> \in Seq(Instr)
  BY <1>2, Tuples
<1>6. QED
  BY <1>3, <1>4, <1>5, Concatenation DEF InCallProc

LEMMA DtmfProcTyped ==
  \A ext \in BOOLEAN : DtmfProc(ext) \in Seq(Instr)
<1>1. /\ Do("find", "") \in Instr
      /\ Do("dtmf", "ext") \in Instr
      /\ Do("lookup", "") \in Instr
      /\ Do("callee", "") \in Instr
  BY DEF Do, Instr
<1>2. Do("result", "NOEXT_SYS_HANGUP") \in Instr
  BY DEF Do, Instr, Result
<1>3. Play \in Instr
  BY DEF Play, Do, Instr, Request
<1>4. <<Do("find", ""), Do("dtmf", "ext"), Do("lookup", "")>> \in Seq(Instr)
  BY <1>1, Tuples
<1>5. <<Do("find", ""), Do("callee", ""),
        Do("result", "NOEXT_SYS_HANGUP"), Play>> \in Seq(Instr)
  BY <1>1, <1>2, <1>3, Tuples
<1>6. QED
  BY <1>4, <1>5 DEF DtmfProc

LEMMA AfterLookupTyped ==
  AfterLookup \subseteq Seq(Instr)
<1>1. /\ Do("callee", "") \in Instr
      /\ Do("callee", "agent") \in Instr
  BY DEF Do, Instr
<1>2. \A r \in LookupReason : Do("result", r) \in Instr
  BY DEF Do, Instr, LookupReason, Result
<1>3. Play \in Instr /\ Do("ask", "transfer") \in Instr
  BY DEF Play, Do, Instr, Request
<1>4. \A r \in LookupReason :
        <<Do("callee", ""), Play, Do("result", r)>> \in Seq(Instr)
  BY <1>1, <1>2, <1>3, Tuples
<1>5. <<Do("callee", "agent"), Do("ask", "transfer")>> \in Seq(Instr)
  BY <1>1, <1>3, Tuples
<1>6. QED
  BY <1>4, <1>5 DEF AfterLookup

LEMMA StatProcsTyped ==
  /\ CallStatFailed \subseteq Seq(Instr)
  /\ AnswerProc \in Seq(Instr)
  /\ HangupProc \in Seq(Instr)
<1>1. \A r \in StatReason \cup {"NO_ANSWER", "OTHER", "HANGUP"} :
        Do("result", r) \in Instr
  BY DEF Do, Instr, StatReason, Result
<1>2. Do("end", "") \in Instr /\ Play \in Instr
  BY DEF Play, Do, Instr, Request
<1>3. Do("answer", "ANSWERED") \in Instr
  BY DEF Do, Instr, Result
<1>4. \A r \in StatReason : <<Play, Do("result", r)>> \in Seq(Instr)
  BY <1>1, <1>2, Tuples
<1>5. NoAnswerProc \in Seq(Instr)
  BY <1>1, <1>2, Tuples DEF NoAnswerProc
<1>6. <<Do("result", "OTHER"), Play>> \in Seq(Instr)
  BY <1>1, <1>2, Tuples
<1>7. CallStatFailed \subseteq Seq(Instr)
  BY <1>4, <1>5, <1>6 DEF CallStatFailed
<1>8. AnswerProc \in Seq(Instr) /\ HangupProc \in Seq(Instr)
  BY <1>1, <1>2, <1>3, Tuples DEF AnswerProc, HangupProc
<1>9. QED
  BY <1>7, <1>8

LEMMA EndProcsTyped ==
  /\ \A leg \in {"agent", "user"}, file \in BOOLEAN :
       EndCallProc(leg, file) \in Seq(Instr)
  /\ CallPlayVoiceDone \in Seq(Instr)
<1>1. /\ Do("end", "") \in Instr
      /\ Do("end", "url") \in Instr
      /\ Do("extcheck", "") \in Instr
      /\ Do("ask", "hangup") \in Instr
  BY DEF Do, Instr, Request
<1>2. /\ <<Do("end", "url")>> \in Seq(Instr)
      /\ <<Do("extcheck", ""), Do("end", "")>> \in Seq(Instr)
      /\ <<Do("ask", "hangup")>> \in Seq(Instr)
      /\ << >> \in Seq(Instr)
  BY <1>1, Tuples
<1>3. \A leg \in {"agent", "user"}, file \in BOOLEAN :
        EndCallProc(leg, file) \in Seq(Instr)
  BY <1>2, Concatenation DEF EndCallProc
<1>4. QED
  BY <1>2, <1>3 DEF CallPlayVoiceDone

------------------------------------------------------------------------------
(* The platform: its steps keep its variables in range, and a call whose   *)
(* bill was notified stays in that phase.                                  *)

BilledStays == \A c \in Calls : phase[c] = "billed" => phase'[c] = "billed"

LEMMA MoveTyped ==
  ASSUME PlatformTypeOK, NEW c \in Calls,
         NEW p \in Phase \ {"billed"}, NEW q \in Phase, Move(c, p, q)
  PROVE  phase' \in [Calls -> Phase] /\ BilledStays
BY DEF PlatformTypeOK, Move, BilledStays

LEMMA CarryTyped ==
  ASSUME PlatformTypeOK, NEW c \in Calls, NEW r \in Request, Carry(r, c)
  PROVE  PlatformTypeOK' /\ BilledStays
<1>1. From(r) \subseteq Phase \ {"billed"}
  BY DEF Request, From, OnLine, Phase
<1>2. \A p \in Phase : Goal(r, p) \in Phase
  BY DEF Request, Goal, Phase
<1>3. phase' = [phase EXCEPT ![c] = Goal(r, phase[c])]
  BY DEF Carry
<1>4. phase[c] \in Phase \ {"billed"}
  BY <1>1 DEF Carry
<1>5. phase' \in [Calls -> Phase] /\ BilledStays
  BY <1>2, <1>3, <1>4 DEF PlatformTypeOK, BilledStays
<1>6. endedBy' \in [Calls -> {"", "user", "server"}]
  BY DEF PlatformTypeOK, Carry
<1>7. QED
  BY <1>5, <1>6 DEF PlatformTypeOK, Carry

LEMMA AskTyped ==
  ASSUME PlatformTypeOK, NEW c \in Calls, NEW r \in Request,
         NEW ok \in BOOLEAN, Ask(r, c, ok)
  PROVE  PlatformTypeOK' /\ BilledStays
<1>1. CASE UNCHANGED platformVars
  BY <1>1 DEF PlatformTypeOK, BilledStays, platformVars
<1>2. CASE Carry(r, c)
  BY <1>2, CarryTyped
<1>3. QED
  BY <1>1, <1>2 DEF Ask

LEMMA PartiesTyped ==
  ASSUME PlatformTypeOK, NEW c \in Calls,
         \/ Dial(c) \/ DigitsDone(c) \/ PlayDone(c) \/ AgentFails(c)
         \/ AgentLeaves(c) \/ AgentAnswers(c) \/ Cleared(c) \/ Billed(c)
         \/ \E p \in OnLine \cup {"offered"} : UserLeaves(c, p)
  PROVE  PlatformTypeOK' /\ BilledStays
<1>1. CASE \/ Dial(c) \/ DigitsDone(c) \/ PlayDone(c) \/ AgentFails(c)
           \/ AgentLeaves(c) \/ Billed(c)
  BY <1>1, MoveTyped
  DEF Dial, DigitsDone, PlayDone, AgentFails, AgentLeaves, Billed, Phase,
      PlatformTypeOK
<1>2. CASE AgentAnswers(c)
  BY <1>2, MoveTyped DEF AgentAnswers, Phase, PlatformTypeOK
<1>3. CASE Cleared(c)
  BY <1>3 DEF Cleared, Phase, PlatformTypeOK, BilledStays
<1>4. ASSUME NEW p \in OnLine \cup {"offered"}, UserLeaves(c, p)
      PROVE  PlatformTypeOK' /\ BilledStays
  <2>1. p \in Phase \ {"billed"}
    BY DEF OnLine, Phase
  <2>2. (IF p = "talking" THEN "releasedRec" ELSE "released") \in Phase
    BY DEF Phase
  <2>3. phase' \in [Calls -> Phase] /\ BilledStays
    BY <1>4, <2>1, <2>2, MoveTyped DEF UserLeaves
  <2>4. QED
    BY <1>4, <2>3 DEF UserLeaves, PlatformTypeOK
<1>5. QED
  BY <1>1, <1>2, <1>3, <1>4

------------------------------------------------------------------------------
(* The server's variables.                                                 *)

LEMMA AppliedTyped ==
  ASSUME NEW i \in Instr, i.op \in Update, NEW v \in CallInfo
  PROVE  Applied(i, v) \in CallInfo
<1>1. /\ i.op = "callee" => i.arg \in {"", "agent"}
      /\ i.op = "dtmf" => i.arg = "ext"
      /\ i.op \in {"result", "answer"} => i.arg \in Result
      /\ i.op = "end" => i.arg \in {"", "url"}
  BY DEF Instr
<1>2. CASE i.op = "start"
  BY <1>2 DEF Applied, UpdateCallStartTime, CallInfo, CallStatus, Stamp
<1>3. CASE i.op = "callee"
  BY <1>1, <1>3 DEF Applied, UpdateCallee, CallInfo, CallStatus
<1>4. CASE i.op = "dtmf"
  BY <1>1, <1>4 DEF Applied, SetCallDtmf, CallInfo
<1>5. CASE i.op = "result"
  BY <1>1, <1>5 DEF Applied, UpdateCallResult, CallInfo
<1>6. CASE i.op = "answer"
  BY <1>1, <1>6 DEF Applied, UpdateCallAnswerTime, CallInfo, CallStatus, Stamp
<1>7. CASE i.op = "end"
  BY <1>1, <1>7 DEF Applied, UpdateCallEndTime, CallInfo, Stamp
<1>8. QED
  BY <1>2, <1>3, <1>4, <1>5, <1>6, <1>7 DEF Update

LEMMA BecomeTyped ==
  ASSUME TypeOK, NEW c \in Calls, NEW h \in Handler, NEW s \in Seq(Instr),
         Become(c, h, s)
  PROVE  todo' \in [Calls -> [Handler -> Seq(Instr)]]
BY DEF TypeOK, Become

LEMMA HeadTyped ==
  ASSUME TypeOK, NEW c \in Calls, NEW h \in Handler, todo[c][h] # << >>
  PROVE  /\ Head(todo[c][h]) \in Instr
         /\ Tail(todo[c][h]) \in Seq(Instr)
<1>1. todo[c][h] \in Seq(Instr)
  BY DEF TypeOK
<1>2. QED
  BY <1>1

LEMMA ProceedTyped ==
  ASSUME TypeOK, NEW c \in Calls, NEW h \in Handler, todo[c][h] # << >>,
         Proceed(c, h)
  PROVE  todo' \in [Calls -> [Handler -> Seq(Instr)]]
BY HeadTyped, BecomeTyped DEF Proceed

LEMMA HaltTyped ==
  ASSUME TypeOK, Halt, PlatformTypeOK', kills' \in 0 .. MaxKills
  PROVE  TypeOK'
<1>1. todo' \in [Calls -> [Handler -> Seq(Instr)]]
  BY Tuples DEF Halt, NoGoroutines
<1>2. val' \in [Calls -> [Handler -> CallInfo \cup {NoCall}]]
  BY DEF Halt, NoCopies
<1>3. QED
  BY <1>1, <1>2 DEF TypeOK, Halt, BillPc, sqlVars

LEMMA StartedTyped ==
  ASSUME TypeOK, NEW c \in Calls, Started(c) \/ UNCHANGED overlapped
  PROVE  overlapped' \subseteq Calls
BY DEF TypeOK, Started

LEMMA NotifyTyped ==
  ASSUME TypeOK, PlatformTypeOK', NEW c \in Calls, NEW h \in Handler,
         NEW s \in Seq(Instr), Notify(c, h, s)
  PROVE  TypeOK'
<1>1. todo' \in [Calls -> [Handler -> Seq(Instr)]]
  BY BecomeTyped DEF Notify, TypeOK
<1>2. overlapped' \subseteq Calls
  BY StartedTyped DEF Notify
<1>3. QED
  BY <1>1, <1>2 DEF Notify, TypeOK, listVars, billVars, sqlVars

(* The steps of the goroutines.                                            *)

LEMMA StepTyped ==
  ASSUME TypeOK, NEW c \in Calls, NEW h \in Handler, Step(c, h)
  PROVE  TypeOK' /\ BilledStays
<1>1. CASE CopyOut(c, h)
  <2>1. todo[c][h] # << >>
    BY <1>1 DEF CopyOut, At
  <2>2. \/ Proceed(c, h) /\ UNCHANGED val
        \/ /\ val' = [val EXCEPT ![c][h] = callList[c]]
           /\ UNCHANGED todo
    BY <1>1 DEF CopyOut
  <2>3. todo' \in [Calls -> [Handler -> Seq(Instr)]]
    <3>1. todo \in [Calls -> [Handler -> Seq(Instr)]]
      BY DEF TypeOK
    <3>2. QED
      BY <2>1, <2>2, <3>1, ProceedTyped
  <2>4. val' \in [Calls -> [Handler -> CallInfo \cup {NoCall}]]
    <3>1. /\ val \in [Calls -> [Handler -> CallInfo \cup {NoCall}]]
          /\ callList[c] \in CallInfo \cup {NoCall}
      BY DEF TypeOK
    <3>2. CASE UNCHANGED val
      BY <3>1, <3>2
    <3>3. CASE val' = [val EXCEPT ![c][h] = callList[c]]
      BY <3>1, <3>3
    <3>4. QED
      BY <2>2, <3>2, <3>3
  <2>5. QED
    BY <1>1, <2>3, <2>4
    DEF CopyOut, TypeOK, PlatformTypeOK, BilledStays, listVars, billVars,
        sqlVars, platformVars
<1>2. CASE StoreBack(c, h)
  <2>1. todo[c][h] # << >> /\ Head(todo[c][h]).op \in Update
    BY <1>2 DEF StoreBack, At
  <2>2. todo' \in [Calls -> [Handler -> Seq(Instr)]]
    BY <1>2, <2>1, ProceedTyped DEF StoreBack
  <2>3. val[c][h] \in CallInfo
    BY <1>2 DEF StoreBack, TypeOK
  <2>4. Applied(Head(todo[c][h]), val[c][h]) \in CallInfo
    BY <2>1, <2>3, HeadTyped, AppliedTyped
  <2>5. callList' \in [Calls -> CallInfo \cup {NoCall}]
    BY <1>2, <2>4 DEF StoreBack, TypeOK
  <2>6. val' \in [Calls -> [Handler -> CallInfo \cup {NoCall}]]
    BY <1>2 DEF StoreBack, TypeOK
  <2>7. QED
    BY <1>2, <2>2, <2>5, <2>6
    DEF StoreBack, TypeOK, PlatformTypeOK, BilledStays, billVars, sqlVars,
        platformVars
<1>3. CASE InNewCall(c, h)
  <2>1. todo' \in [Calls -> [Handler -> Seq(Instr)]]
    BY <1>3, ProceedTyped DEF InNewCall, At
  <2>2. NewCall \in CallInfo
    BY DEF NewCall, CallInfo, CallStatus, Stamp, Result
  <2>3. callList' \in [Calls -> CallInfo \cup {NoCall}]
    BY <1>3, <2>2 DEF InNewCall, TypeOK
  <2>4. QED
    BY <1>3, <2>1, <2>3
    DEF InNewCall, TypeOK, PlatformTypeOK, BilledStays, billVars, sqlVars,
        platformVars
<1>4. CASE FindCall(c, h)
  <2>1. todo' \in [Calls -> [Handler -> Seq(Instr)]]
    BY <1>4, ProceedTyped, BecomeTyped, Tuples DEF FindCall, At
  <2>2. QED
    BY <1>4, <2>1
    DEF FindCall, TypeOK, PlatformTypeOK, BilledStays, listVars, billVars,
        sqlVars, platformVars
<1>5. CASE ExtCheck(c, h)
  <2>1. \A r \in {"HANGUP", "NOEXT_USER_HANGUP"} :
          <<Do("result", r)>> \in Seq(Instr)
    <3>1. \A r \in {"HANGUP", "NOEXT_USER_HANGUP"} : Do("result", r) \in Instr
      BY DEF Do, Instr, Result
    <3>2. QED
      BY <3>1, Tuples
  <2>2. Tail(todo[c][h]) \in Seq(Instr)
    BY <1>5, HeadTyped DEF ExtCheck, At
  <2>3. PICK r \in {"HANGUP", "NOEXT_USER_HANGUP"} :
          Become(c, h, <<Do("result", r)>> \o Tail(todo[c][h]))
    BY <1>5 DEF ExtCheck
  <2>4. <<Do("result", r)>> \o Tail(todo[c][h]) \in Seq(Instr)
    BY <2>1, <2>2, Concatenation
  <2>5. todo' \in [Calls -> [Handler -> Seq(Instr)]]
    BY <2>3, <2>4, BecomeTyped
  <2>6. QED
    BY <1>5, <2>5
    DEF ExtCheck, TypeOK, PlatformTypeOK, BilledStays, listVars, billVars,
        sqlVars, platformVars
<1>6. CASE ChangeBindNumber(c, h)
  <2>1. <<Play>> \in Seq(Instr)
    <3>1. Play \in Instr
      BY DEF Play, Do, Instr, Request
    <3>2. QED
      BY <3>1, Tuples
  <2>2. todo' \in [Calls -> [Handler -> Seq(Instr)]]
    BY <1>6, <2>1, ProceedTyped, BecomeTyped DEF ChangeBindNumber, At
  <2>3. QED
    BY <1>6, <2>2
    DEF ChangeBindNumber, TypeOK, PlatformTypeOK, BilledStays, listVars,
        billVars, sqlVars, platformVars
<1>7. CASE GetServiceNum(c, h)
  <2>1. PICK s \in AfterLookup : Become(c, h, s)
    BY <1>7 DEF GetServiceNum
  <2>2. todo' \in [Calls -> [Handler -> Seq(Instr)]]
    BY <2>1, AfterLookupTyped, BecomeTyped
  <2>3. QED
    BY <1>7, <2>2
    DEF GetServiceNum, TypeOK, PlatformTypeOK, BilledStays, listVars, billVars,
        sqlVars, platformVars
<1>8. CASE GetServiceNumPanics(c, h)
  <2>1. PlatformTypeOK' /\ BilledStays /\ kills' \in 0 .. MaxKills
    BY <1>8
    DEF GetServiceNumPanics, TypeOK, PlatformTypeOK, BilledStays,
        platformVars
  <2>2. QED
    BY <1>8, <2>1, HaltTyped DEF GetServiceNumPanics
<1>9. CASE SendRequest(c, h)
  <2>1. todo[c][h] # << >> /\ Head(todo[c][h]).op = "ask"
    BY <1>9 DEF SendRequest, At
  <2>2. Head(todo[c][h]).arg \in Request
    BY <2>1, HeadTyped DEF Instr
  <2>3. <<Do("result", "OTHER"), Play>> \in Seq(Instr)
    <3>1. Play \in Instr /\ Do("result", "OTHER") \in Instr
      BY DEF Play, Do, Instr, Request, Result
    <3>2. QED
      BY <3>1, Tuples
  <2>4. PICK ok \in BOOLEAN :
          /\ Ask(Head(todo[c][h]).arg, c, ok)
          /\ \/ Become(c, h, << >>)
             \/ Become(c, h, <<Do("result", "OTHER"), Play>>)
             \/ Proceed(c, h)
    BY <1>9 DEF SendRequest
  <2>5. todo' \in [Calls -> [Handler -> Seq(Instr)]]
    BY <2>1, <2>3, <2>4, ProceedTyped, BecomeTyped, Tuples
  <2>6. PlatformTypeOK' /\ BilledStays
    BY <2>2, <2>4, AskTyped DEF TypeOK
  <2>7. QED
    BY <1>9, <2>5, <2>6 DEF SendRequest, TypeOK, listVars, billVars, sqlVars
<1>10. QED
  BY <1>1, <1>2, <1>3, <1>4, <1>5, <1>6, <1>7, <1>8, <1>9 DEF Step

LEMMA BillStepTyped ==
  ASSUME TypeOK, BillInv, NEW c \in Calls, BillStep(c)
  PROVE  TypeOK' /\ BilledStays
<1>0. CASE Bill2SqlPanics(c)
  <2>1. PlatformTypeOK' /\ BilledStays /\ kills' \in 0 .. MaxKills
    BY <1>0
    DEF Bill2SqlPanics, TypeOK, PlatformTypeOK, BilledStays, platformVars
  <2>2. QED
    BY <1>0, <2>1, HaltTyped DEF Bill2SqlPanics
<1>1. CASE BillCopyOut(c)
  BY <1>1
  DEF BillCopyOut, BillAt, BillTo, Local, TypeOK, BillPc, PlatformTypeOK,
      BilledStays, listVars, threadVars, sqlVars, platformVars
<1>2. CASE BillStoreBack(c)
  <2>1. billCall[c] \in CallInfo
    BY <1>2 DEF BillStoreBack, BillAt, BillInv, BillInOrder, TypeOK
  <2>2. UpdateCallBill(billCall[c]) \in CallInfo
    BY <2>1 DEF UpdateCallBill, CallInfo, Stamp
  <2>3. QED
    BY <1>2, <2>2
    DEF BillStoreBack, BillTo, Local, TypeOK, BillPc, PlatformTypeOK,
        BilledStays, threadVars, sqlVars, platformVars
<1>3. CASE WaitForSound(c)
  BY <1>3
  DEF WaitForSound, BillAt, BillTo, TypeOK, BillPc, PlatformTypeOK,
      BilledStays, listVars, threadVars, sqlVars, platformVars
<1>4. CASE BillFind(c)
  BY <1>4
  DEF BillFind, BillAt, BillTo, Local, TypeOK, BillPc, PlatformTypeOK,
      BilledStays, listVars, threadVars, sqlVars, platformVars
<1>5. CASE Bill2Sql(c)
  <2>1. billCall[c] \in CallInfo
    BY <1>5 DEF Bill2Sql, BillAt, BillInv, BillInOrder, TypeOK
  <2>2. rows' \in [Calls -> Seq(CallInfo)]
    <3>1. Append(rows[c], billCall[c]) \in Seq(CallInfo)
      BY <2>1 DEF TypeOK
    <3>2. QED
      BY <1>5, <3>1 DEF Bill2Sql, TypeOK
  <2>3. QED
    BY <1>5, <2>2
    DEF Bill2Sql, BillTo, TypeOK, BillPc, PlatformTypeOK, BilledStays,
        listVars, threadVars, platformVars
<1>6. CASE PostBill(c)
  <2>1. billCall[c] \in CallInfo /\ tries[c] + 1 \in 0 .. PostTries
    <3>1. billPc[c] = "post"
      BY <1>6 DEF PostBill, BillAt
    <3>2. billCall[c] # NoCall /\ tries[c] < PostTries
      BY <3>1 DEF BillInv, BillInOrder
    <3>3. billCall[c] \in CallInfo \cup {NoCall} /\ tries[c] \in 0 .. PostTries
      BY DEF TypeOK
    <3>4. QED
      BY <3>2, <3>3 DEF PostTries
  <2>2. tries' \in [Calls -> 0 .. PostTries]
    BY <1>6, <2>1 DEF PostBill, TypeOK
  <2>3. PICK ok \in BOOLEAN, pc \in {"post", "del"} :
          /\ acked' = [acked EXCEPT ![c] = ok]
          /\ \/ received' = [received EXCEPT ![c] = @ \cup {billCall[c]}]
             \/ received' = received
          /\ billPc' = [billPc EXCEPT ![c] = pc]
    <3>1. PICK ok \in BOOLEAN, arrives \in BOOLEAN :
            /\ acked' = [acked EXCEPT ![c] = ok]
            /\ received' =
                 IF arrives
                   THEN [received EXCEPT ![c] = @ \cup {billCall[c]}]
                   ELSE received
            /\ billPc' = [billPc EXCEPT
                            ![c] = IF ok \/ LastTry(c) THEN "del" ELSE "post"]
      BY <1>6 DEF PostBill, BillTo, PostedBill
    <3>2. QED
      BY <3>1
  <2>4. received' \in [Calls -> SUBSET CallInfo]
    <3>1. received \in [Calls -> SUBSET CallInfo]
      BY DEF TypeOK
    <3>2. received[c] \cup {billCall[c]} \in SUBSET CallInfo
      BY <2>1, <3>1
    <3>3. QED
      BY <2>3, <3>1, <3>2
  <2>5. acked' \in [Calls -> BOOLEAN] /\ billPc' \in [Calls -> BillPc]
    BY <2>3 DEF TypeOK, BillPc
  <2>6. QED
    BY <1>6, <2>2, <2>4, <2>5
    DEF PostBill, TypeOK, PlatformTypeOK, BilledStays, listVars, threadVars,
        sqlVars, platformVars
<1>7. CASE DelCall(c)
  BY <1>7
  DEF DelCall, BillAt, BillTo, Local, TypeOK, BillPc, PlatformTypeOK,
      BilledStays, threadVars, sqlVars, platformVars
<1>8. CASE InsertLost(c)
  <2>1. billCall[c] \in CallInfo
    BY <1>8 DEF InsertLost, BillAt, BillInv, BillInOrder, TypeOK
  <2>2. Append(doubt[c], billCall[c]) \in Seq(CallInfo)
    BY <2>1, Contents DEF TypeOK
  <2>3. lost[c] + 1 \in 0 .. MaxTries
    BY <1>8, ServerAssumption DEF InsertLost, TypeOK
  <2>4. QED
    BY <1>8, <2>2, <2>3
    DEF InsertLost, TypeOK, PlatformTypeOK, BilledStays, listVars,
        threadVars, platformVars
<1>9. QED
  BY <1>0, <1>1, <1>2, <1>3, <1>4, <1>5, <1>6, <1>7, <1>8 DEF BillStep

LEMMA LateInsertTyped ==
  ASSUME TypeOK, NEW c \in Calls, LateInsert(c)
  PROVE  TypeOK' /\ BilledStays
<1>1. /\ rows[c] \in Seq(CallInfo)
      /\ doubt[c] \in Seq(CallInfo)
      /\ doubt[c] # << >>
  BY DEF TypeOK, LateInsert
<1>2. Head(doubt[c]) \in CallInfo /\ Tail(doubt[c]) \in Seq(CallInfo)
  BY <1>1
<1>3. Append(rows[c], Head(doubt[c])) \in Seq(CallInfo)
  BY <1>1, <1>2
<1>4. QED
  BY <1>2, <1>3
  DEF LateInsert, TypeOK, PlatformTypeOK, BilledStays, listVars, threadVars,
      platformVars

LEMMA PlatformStepTyped ==
  ASSUME TypeOK, NEW c \in Calls, PlatformStep(c)
  PROVE  TypeOK' /\ BilledStays
<1>1. /\ "incall" \in Handler /\ "dtmf" \in Handler /\ "stat" \in Handler
      /\ "playover" \in Handler /\ "agentend" \in Handler
      /\ "userend" \in Handler
  BY DEF Handler
<1>2. PlatformTypeOK
  BY DEF TypeOK
<1>3. PlatformTypeOK' /\ BilledStays
  <2>1. \/ Dial(c) \/ DigitsDone(c) \/ PlayDone(c) \/ AgentFails(c)
        \/ AgentLeaves(c) \/ AgentAnswers(c) \/ Cleared(c) \/ Billed(c)
        \/ \E p \in OnLine \cup {"offered"} : UserLeaves(c, p)
    BY DEF PlatformStep, InCallNotified, DtmfNotified, FailureNotified,
           AnswerNotified, HangupNotified, UserLeavesUnnotified,
           PlayOverNotified, AgentEndNotified, UserEndNotified, BillNotified,
           ParseBillPanics, OnLine
  <2>2. QED
    BY <1>2, <2>1, PartiesTyped
<1>4. ASSUME NEW h \in Handler, NEW s \in Seq(Instr), Notify(c, h, s)
      PROVE  TypeOK'
  BY <1>3, <1>4, NotifyTyped
<1>5. CASE InCallNotified(c)
  BY <1>1, <1>3, <1>4, <1>5, InCallProcTyped DEF InCallNotified
<1>6. CASE DtmfNotified(c)
  BY <1>1, <1>3, <1>4, <1>6, DtmfProcTyped DEF DtmfNotified
<1>7. CASE FailureNotified(c) \/ AnswerNotified(c) \/ HangupNotified(c)
  BY <1>1, <1>3, <1>4, <1>7, StatProcsTyped
  DEF FailureNotified, AnswerNotified, HangupNotified
<1>8. CASE UserLeavesUnnotified(c)
  BY <1>3, <1>8
  DEF UserLeavesUnnotified, TypeOK, serverVars, listVars, threadVars, billVars,
      sqlVars
<1>9. CASE PlayOverNotified(c)
  BY <1>1, <1>3, <1>4, <1>9, EndProcsTyped DEF PlayOverNotified
<1>10. CASE AgentEndNotified(c)
  <2>1. PICK file \in BOOLEAN :
          Notify(c, "agentend", EndCallProc("agent", file))
    BY <1>10 DEF AgentEndNotified
  <2>2. QED
    BY <1>1, <1>3, <1>4, <2>1, EndProcsTyped
<1>11. CASE UserEndNotified(c)
  <2>1. PICK file \in BOOLEAN :
          Notify(c, "userend", EndCallProc("user", file))
    BY <1>11 DEF UserEndNotified
  <2>2. QED
    BY <1>1, <1>3, <1>4, <2>1, EndProcsTyped
<1>12. CASE BillNotified(c)
  <2>1. overlapped' \subseteq Calls
    BY <1>12, StartedTyped DEF BillNotified
  <2>2. QED
    BY <1>3, <1>12, <2>1
    DEF BillNotified, BillTo, TypeOK, BillPc, listVars, threadVars, sqlVars
<1>13. CASE ParseBillPanics(c)
  <2>1. kills' \in 0 .. MaxKills
    BY <1>13 DEF ParseBillPanics, TypeOK
  <2>2. QED
    BY <1>3, <1>13, <2>1, HaltTyped DEF ParseBillPanics
<1>14. QED
  BY <1>5, <1>6, <1>7, <1>8, <1>9, <1>10, <1>11, <1>12, <1>13
  DEF PlatformStep

LEMMA ProcessStepTyped ==
  ASSUME TypeOK, MapThrow \/ Kill \/ Start
  PROVE  TypeOK' /\ BilledStays
<1>1. PlatformTypeOK' /\ BilledStays
  BY DEF MapThrow, Kill, Start, TypeOK, PlatformTypeOK, BilledStays,
         platformVars
<1>2. CASE MapThrow
  BY <1>1, <1>2, HaltTyped DEF MapThrow, TypeOK
<1>3. CASE Kill
  <2>1. kills' \in 0 .. MaxKills
    BY <1>3, ServerAssumption DEF Kill, TypeOK
  <2>2. QED
    BY <1>1, <1>3, <2>1, HaltTyped DEF Kill
<1>4. CASE Start
  BY <1>1, <1>4 DEF Start, TypeOK, threadVars, billVars, sqlVars
<1>5. QED
  BY <1>2, <1>3, <1>4

------------------------------------------------------------------------------
(* BillInv: first the steps that do not belong to billMsgProc.             *)

\* The count of a call's inserts: its rows, those in doubt and the answers lost.
LEMMA Counting ==
  \A r, d, l \in Nat :
    /\ r + d <= l => r + d <= l + 1
    /\ r + d <= l + 1 => r <= l + 1
    /\ r + d <= l => r + (d + 1) <= l + 1 /\ (r + 1) + d <= l + 1
    /\ d # 0 => (r + 1) + (d - 1) = r + d
OBVIOUS

\* The state of a call's bill, when everything it is made of stays.
LEMMA BillStays ==
  ASSUME NEW c \in Calls, BillInOrder(c),
         rows'[c] = rows[c], doubt'[c] = doubt[c], lost'[c] = lost[c],
         received'[c] = received[c], tries'[c] = tries[c],
         acked'[c] = acked[c], billPc'[c] = billPc[c],
         billCall'[c] = billCall[c],
         phase'[c] # "billed" => phase[c] # "billed",
         up' = TRUE \/ (up' = up /\ callList' = callList)
  PROVE  BillInOrder(c)'
<1>1. (Early(c))' => Early(c)
  BY DEF Early
<1>2. (BillsOf(c))' = BillsOf(c)
  BY DEF BillsOf, Rows
<1>3. QED
  BY <1>1, <1>2 DEF BillInOrder

LEMMA OtherStepsKeepBills ==
  ASSUME TypeOK, BillInv, BilledStays, PlatformTypeOK', UNCHANGED billVars,
         up' = TRUE \/ UNCHANGED listVars
  PROVE  BillInv'
<1>1. \A c \in Calls : phase'[c] # "billed" => phase[c] # "billed"
  BY DEF BilledStays
<1>2. QED
  BY <1>1, BillStays DEF BillInv, billVars, sqlVars, listVars

LEMMA AtMostOneMore ==
  ASSUME TypeOK, NEW c \in Calls, BillInOrder(c)
  PROVE  /\ Len(rows[c]) + Len(doubt[c]) <= lost[c] + 1
         /\ Len(rows[c]) <= lost[c] + 1
<1>1. /\ Len(rows[c]) \in Nat /\ Len(doubt[c]) \in Nat
      /\ lost[c] \in Nat
  BY DEF TypeOK
<1>2. \/ Len(rows[c]) + Len(doubt[c]) <= lost[c]
      \/ Len(rows[c]) + Len(doubt[c]) <= lost[c] + 1
  BY DEF BillInOrder
<1>3. QED
  BY <1>1, <1>2, Counting

LEMMA HaltKeepsBills ==
  ASSUME TypeOK, BillInv, BilledStays, Halt
  PROVE  BillInv'
<1> SUFFICES ASSUME NEW c \in Calls
             PROVE  BillInOrder(c)'
  BY DEF BillInv
<1>1. phase'[c] # "billed" => phase[c] # "billed"
  BY DEF BilledStays
<1>2. /\ billPc'[c] = "idle" /\ callList'[c] = NoCall
      /\ rows' = rows /\ doubt' = doubt /\ lost' = lost
      /\ UNCHANGED <<tries, acked, received>>
  BY DEF Halt, sqlVars
<1>3. BillInOrder(c)
  BY DEF BillInv
<1>4. (Early(c))' => Early(c)
  BY <1>1, <1>2, <1>3 DEF Early, BillInOrder
<1>5. (BillsOf(c))' = BillsOf(c)
  BY <1>2 DEF BillsOf, Rows
<1>6. Len(rows[c]) + Len(doubt[c]) <= lost[c] + 1
  BY <1>3, AtMostOneMore
<1>7. QED
  BY <1>2, <1>3, <1>4, <1>5, <1>6 DEF BillInOrder

LEMMA StepKeepsBills ==
  ASSUME TypeOK, BillInv, NEW c \in Calls, NEW h \in Handler, Step(c, h)
  PROVE  BillInv'
<1>1. TypeOK' /\ BilledStays
  BY StepTyped
<1>2. PlatformTypeOK'
  BY <1>1 DEF TypeOK
<1>3. CASE GetServiceNumPanics(c, h)
  BY <1>1, <1>3, HaltKeepsBills DEF GetServiceNumPanics
<1>4. CASE ~GetServiceNumPanics(c, h)
  <2>1. up' = TRUE /\ UNCHANGED billVars
    BY <1>4
    DEF Step, CopyOut, StoreBack, InNewCall, FindCall, ExtCheck,
        ChangeBindNumber, GetServiceNum, SendRequest, At, TypeOK, listVars
  <2>2. QED
    BY <1>1, <1>2, <2>1, OtherStepsKeepBills
<1>5. QED
  BY <1>3, <1>4

LEMMA ProcessStepKeepsBills ==
  ASSUME TypeOK, BillInv, MapThrow \/ Kill \/ Start
  PROVE  BillInv'
<1>1. TypeOK' /\ BilledStays
  BY ProcessStepTyped
<1>2. PlatformTypeOK'
  BY <1>1 DEF TypeOK
<1>3. CASE MapThrow \/ Kill
  BY <1>1, <1>3, HaltKeepsBills DEF MapThrow, Kill
<1>4. CASE Start
  BY <1>1, <1>2, <1>4, OtherStepsKeepBills DEF Start
<1>5. QED
  BY <1>3, <1>4

LEMMA PlatformStepKeepsBills ==
  ASSUME TypeOK, BillInv, NEW c \in Calls, PlatformStep(c)
  PROVE  BillInv'
<1>1. TypeOK' /\ BilledStays
  BY PlatformStepTyped
<1>2. PlatformTypeOK'
  BY <1>1 DEF TypeOK
<1>3. CASE ParseBillPanics(c)
  BY <1>1, <1>3, HaltKeepsBills DEF ParseBillPanics
<1>4. CASE BillNotified(c)
  <2>1. phase[c] = "cleared" /\ phase' = [phase EXCEPT ![c] = "billed"]
    BY <1>4 DEF BillNotified, Billed, Move
  <2>2. BillInOrder(c) /\ billPc[c] = "idle" /\ Early(c)
    BY <2>1 DEF BillInv, BillInOrder, Early
  <2>3. /\ \/ up /\ billPc' = [billPc EXCEPT ![c] = "bill_r"]
           \/ UNCHANGED billPc
        /\ UNCHANGED <<up, callList, billCall, tries, acked, received>>
        /\ rows' = rows /\ doubt' = doubt /\ lost' = lost
    BY <1>4 DEF BillNotified, BillTo, listVars, sqlVars
  <2>4. \A d \in Calls : phase'[d] # "billed" => d # c /\ phase[d] # "billed"
    BY <2>1 DEF TypeOK, PlatformTypeOK
  <2>5. \A d \in Calls : d # c => billPc'[d] = billPc[d]
    BY <2>3 DEF TypeOK
  <2>6. billPc'[c] \in {"idle", "bill_r"} /\ (~up => billPc'[c] = "idle")
    BY <2>2, <2>3 DEF TypeOK
  <2>7. ASSUME NEW d \in Calls, d # c
        PROVE  BillInOrder(d)'
    <3>1. BillInOrder(d)
      BY DEF BillInv
    <3>2. QED
      BY <2>3, <2>4, <2>5, <2>7, <3>1, BillStays
  <2>8. BillInOrder(c)'
    <3>1. (BillsOf(c))' = BillsOf(c)
      BY <2>3 DEF BillsOf, Rows
    <3>2. phase'[c] = "billed"
      BY <2>4
    <3>3. QED
      BY <2>2, <2>3, <2>6, <3>1, <3>2 DEF BillInOrder, Early
  <2>9. QED
    BY <2>7, <2>8 DEF BillInv
<1>5. CASE ~ParseBillPanics(c) /\ ~BillNotified(c)
  <2>1. UNCHANGED listVars /\ UNCHANGED billVars
    BY <1>5
    DEF PlatformStep, InCallNotified, DtmfNotified, FailureNotified,
        AnswerNotified, HangupNotified, UserLeavesUnnotified,
        PlayOverNotified, AgentEndNotified, UserEndNotified, Notify,
        serverVars
  <2>2. QED
    BY <1>1, <1>2, <2>1, OtherStepsKeepBills
<1>6. QED
  BY <1>3, <1>4, <1>5

(* The steps of billMsgProc.  Each changes the bill of one call.           *)

LEMMA BillStepKeepsBills ==
  ASSUME TypeOK, BillInv, NEW c \in Calls, BillStep(c)
  PROVE  BillInv'
<1>1. TypeOK' /\ BilledStays
  BY BillStepTyped
<1>2. BillInOrder(c) /\ up /\ billPc[c] # "idle" /\ phase[c] = "billed"
  <2>1. up /\ billPc[c] # "idle"
    BY DEF BillStep, BillCopyOut, BillStoreBack, WaitForSound, BillFind,
           InsertLost, Bill2Sql, Bill2SqlPanics, PostBill, DelCall, BillAt
  <2>2. QED
    BY <2>1 DEF BillInv, BillInOrder
<1>3. CASE Bill2SqlPanics(c)
  BY <1>1, <1>3, HaltKeepsBills DEF Bill2SqlPanics
<1>4. ASSUME ~Bill2SqlPanics(c)
      PROVE  BillInv'
  <2>1. UNCHANGED phase /\ up' = TRUE
    BY <1>2, <1>4
    DEF BillStep, BillCopyOut, BillStoreBack, WaitForSound, BillFind,
        InsertLost, Bill2Sql, PostBill, DelCall, TypeOK, listVars,
        platformVars
  <2>2. ASSUME NEW d \in Calls, d # c
        PROVE  BillInOrder(d)'
    <3>1. /\ billPc'[d] = billPc[d] /\ billCall'[d] = billCall[d]
          /\ tries'[d] = tries[d] /\ acked'[d] = acked[d]
          /\ rows'[d] = rows[d] /\ received'[d] = received[d]
          /\ doubt'[d] = doubt[d] /\ lost'[d] = lost[d]
      BY <1>4, <2>2
      DEF BillStep, BillCopyOut, BillStoreBack, WaitForSound, BillFind,
          InsertLost, Bill2Sql, PostBill, DelCall, TypeOK, BillTo, Local,
          sqlVars
    <3>2. BillInOrder(d)
      BY DEF BillInv
    <3>3. QED
      BY <2>1, <3>1, <3>2, BillStays
  <2>3. BillInOrder(c)'
    <3>1. CASE BillCopyOut(c) \/ BillStoreBack(c) \/ WaitForSound(c)
               \/ BillFind(c)
      <4>1. /\ billPc[c] \in {"bill_r", "bill_w", "wait", "find"}
            /\ billPc'[c] \in {"bill_w", "wait", "find", "store", "idle"}
            /\ billPc'[c] \in {"bill_w", "store"} => billCall'[c] # NoCall
            /\ UNCHANGED <<tries, acked, received>>
            /\ rows' = rows /\ doubt' = doubt /\ lost' = lost
        BY <3>1
        DEF BillCopyOut, BillStoreBack, WaitForSound, BillFind, BillAt,
            BillTo, Local, TypeOK, sqlVars
      <4>2. /\ rows[c] = << >> /\ doubt[c] = << >> /\ lost[c] = 0
            /\ received[c] = {} /\ tries[c] = 0 /\ acked[c] = FALSE
            /\ Len(rows[c]) = 0 /\ Len(doubt[c]) = 0
        BY <1>2, <4>1 DEF BillInOrder, Early
      <4>3. (BillsOf(c))' = {}
        BY <4>1, <4>2 DEF BillsOf, Rows, Range
      <4>4. QED
        BY <1>2, <2>1, <4>1, <4>2, <4>3 DEF BillInOrder, Early
    <3>2. CASE InsertLost(c) \/ Bill2Sql(c)
      <4>1. billPc[c] = "store" /\ ~Early(c) /\ billCall[c] # NoCall
            /\ billCall[c] \in CallInfo
        BY <1>2, <3>2
        DEF InsertLost, Bill2Sql, BillAt, BillInOrder, Early, TypeOK
      <4>2. /\ Len(rows[c]) + Len(doubt[c]) <= lost[c]
            /\ \A b \in BillsOf(c) : b = billCall[c]
            /\ received[c] = {} /\ tries[c] = 0 /\ acked[c] = FALSE
        BY <1>2, <4>1 DEF BillInOrder
      <4>3. /\ rows[c] \in Seq(CallInfo) /\ doubt[c] \in Seq(CallInfo)
            /\ Len(rows[c]) \in Nat /\ Len(doubt[c]) \in Nat
            /\ lost[c] \in Nat
        BY DEF TypeOK
      <4>4. UNCHANGED <<tries, acked, received, billCall>>
        BY <3>2 DEF InsertLost, Bill2Sql
      <4>5. CASE InsertLost(c)
        <5>1. /\ doubt'[c] = Append(doubt[c], billCall[c])
              /\ lost'[c] = lost[c] + 1
              /\ rows' = rows /\ billPc' = billPc
          BY <4>5 DEF InsertLost, TypeOK
        <5>2. /\ Range(doubt'[c]) = Range(doubt[c]) \cup {billCall[c]}
              /\ Len(doubt'[c]) = Len(doubt[c]) + 1
          BY <4>1, <4>3, <5>1, Contents
        <5>3. (BillsOf(c))' = BillsOf(c) \cup {billCall[c]}
          BY <4>4, <5>1, <5>2 DEF BillsOf, Rows
        <5>4. Len(rows'[c]) + Len(doubt'[c]) <= lost'[c]
          <6>1. Len(rows[c]) + (Len(doubt[c]) + 1) <= lost[c] + 1
            BY <4>2, <4>3, Counting
          <6>2. rows'[c] = rows[c]
            BY <5>1
          <6>3. lost'[c] = lost[c] + 1 /\ Len(doubt'[c]) = Len(doubt[c]) + 1
            BY <5>1, <5>2
          <6>4. QED
            BY <6>1, <6>2, <6>3
        <5>5. billPc'[c] = "store" /\ ~(Early(c))'
          BY <4>1, <5>1 DEF Early
        <5>6. \A b \in (BillsOf(c))' : b = billCall'[c]
          BY <4>2, <4>4, <5>3
        <5>7. QED
          BY <1>2, <2>1, <4>1, <4>2, <4>4, <5>4, <5>5, <5>6
          DEF BillInOrder
      <4>6. CASE Bill2Sql(c)
        <5>1. /\ rows'[c] = Append(rows[c], billCall[c])
              /\ doubt' = doubt /\ lost' = lost /\ billPc'[c] = "post"
          BY <4>6 DEF Bill2Sql, BillTo, TypeOK
        <5>2. /\ Range(rows'[c]) = Range(rows[c]) \cup {billCall[c]}
              /\ Len(rows'[c]) = Len(rows[c]) + 1 /\ rows'[c] # << >>
          BY <4>1, <4>3, <5>1, Contents
        <5>3. (BillsOf(c))' = BillsOf(c) \cup {billCall[c]}
          BY <4>4, <5>1, <5>2 DEF BillsOf, Rows
        <5>4. Len(rows'[c]) + Len(doubt'[c]) <= lost'[c] + 1
          BY <4>2, <4>3, <5>1, <5>2, Counting
        <5>5. billPc'[c] = "post" /\ ~(Early(c))' /\ rows'[c] # << >>
          BY <5>1, <5>2 DEF Early
        <5>6. \A b \in (BillsOf(c))' : b = billCall'[c]
          BY <4>2, <4>4, <5>3
        <5>7. tries'[c] < PostTries
          BY <4>2, <4>4 DEF PostTries
        <5>8. QED
          BY <1>2, <2>1, <4>1, <4>2, <4>4, <5>4, <5>5, <5>6, <5>7
          DEF BillInOrder
      <4>7. QED
        BY <3>2, <4>5, <4>6
    <3>3. CASE PostBill(c)
      <4>1. /\ billPc[c] = "post" /\ rows[c] # << >> /\ ~Early(c)
            /\ billCall[c] # NoCall /\ \A b \in BillsOf(c) : b = billCall[c]
        BY <1>2, <3>3 DEF PostBill, BillAt, BillInOrder, Early
      <4>2. tries[c] \in 0 .. PostTries /\ tries[c] < PostTries
            /\ tries'[c] = tries[c] + 1
        BY <1>2, <3>3, <4>1 DEF PostBill, BillInOrder, TypeOK
      <4>3. PICK ok \in BOOLEAN :
              /\ acked'[c] = ok
              /\ billPc'[c] = IF ok \/ tries[c] + 1 = PostTries
                                THEN "del" ELSE "post"
              /\ received'[c] \subseteq received[c] \cup {billCall[c]}
        BY <3>3 DEF PostBill, BillTo, PostedBill, LastTry, TypeOK
      <4>4. /\ billCall'[c] = billCall[c]
            /\ rows' = rows /\ doubt' = doubt /\ lost' = lost
        BY <3>3 DEF PostBill, sqlVars
      <4>5. (BillsOf(c))' \subseteq BillsOf(c) \cup {billCall[c]}
        BY <4>3, <4>4 DEF BillsOf, Rows
      <4>6. Len(rows[c]) + Len(doubt[c]) <= lost[c] + 1
        BY <1>2, <4>1 DEF BillInOrder
      <4>7. tries'[c] = PostTries \/ tries'[c] < PostTries
        BY <4>2 DEF PostTries
      <4>8. billPc'[c] \in {"post", "del"} /\ ~(Early(c))'
        BY <4>3 DEF Early
      <4>9. /\ billPc'[c] = "post" => tries'[c] < PostTries /\ ~acked'[c]
            /\ billPc'[c] = "del" => tries'[c] = PostTries \/ acked'[c]
        BY <4>2, <4>3, <4>7
      <4>10. acked'[c] \in BOOLEAN
        BY <4>3
      <4>11. QED
        BY <1>2, <2>1, <4>1, <4>4, <4>5, <4>6, <4>8, <4>9, <4>10
        DEF BillInOrder
    <3>4. CASE DelCall(c)
      <4>1. /\ billPc[c] = "del" /\ billPc'[c] = "idle"
            /\ rows' = rows /\ doubt' = doubt /\ lost' = lost
            /\ UNCHANGED <<tries, acked, received>>
        BY <3>4 DEF DelCall, BillAt, BillTo, TypeOK, sqlVars
      <4>2. (BillsOf(c))' = BillsOf(c)
        BY <4>1 DEF BillsOf, Rows
      <4>3. QED
        BY <1>2, <2>1, <4>1, <4>2 DEF BillInOrder, Early
    <3>5. QED
      BY <1>4, <3>1, <3>2, <3>3, <3>4 DEF BillStep
  <2>4. QED
    BY <2>2, <2>3 DEF BillInv
<1>5. QED
  BY <1>3, <1>4

\* A late insert finds a bill that was inserted before, and repeats it.
LEMMA LateInsertKeepsBills ==
  ASSUME TypeOK, BillInv, NEW c \in Calls, LateInsert(c)
  PROVE  BillInv'
<1>1. /\ UNCHANGED <<up, callList, billPc, billCall, tries, acked, received>>
      /\ UNCHANGED phase /\ lost' = lost
  BY DEF LateInsert, listVars, platformVars
<1>2. ASSUME NEW d \in Calls, d # c
      PROVE  BillInOrder(d)'
  <2>1. rows'[d] = rows[d] /\ doubt'[d] = doubt[d]
    BY <1>2 DEF LateInsert, TypeOK
  <2>2. BillInOrder(d)
    BY DEF BillInv
  <2>3. up' = up /\ callList' = callList
    BY <1>1
  <2>4. QED
    BY <1>1, <2>1, <2>2, <2>3, BillStays
<1>3. BillInOrder(c)'
  <2>1. /\ rows[c] \in Seq(CallInfo) /\ doubt[c] \in Seq(CallInfo)
        /\ Len(rows[c]) \in Nat /\ Len(doubt[c]) \in Nat
        /\ doubt[c] # << >> /\ BillInOrder(c)
    BY DEF TypeOK, LateInsert, BillInv
  <2>2. rows'[c] = Append(rows[c], Head(doubt[c]))
        /\ doubt'[c] = Tail(doubt[c])
    BY DEF LateInsert, TypeOK
  <2>3. Head(doubt[c]) \in CallInfo
    BY <2>1
  <2>4. /\ Head(doubt[c]) \in Range(doubt[c])
        /\ Range(doubt'[c]) \subseteq Range(doubt[c])
        /\ Len(doubt'[c]) = Len(doubt[c]) - 1
    BY <2>1, <2>2, <2>3, Contents
  <2>5. /\ Range(rows'[c]) = Range(rows[c]) \cup {Head(doubt[c])}
        /\ Len(rows'[c]) = Len(rows[c]) + 1 /\ rows'[c] # << >>
    BY <2>1, <2>2, <2>3, Contents
  <2>6. (BillsOf(c))' \subseteq BillsOf(c)
    BY <1>1, <2>4, <2>5 DEF BillsOf, Rows
  <2>7. Len(rows'[c]) + Len(doubt'[c]) = Len(rows[c]) + Len(doubt[c])
    <3>1. Len(doubt[c]) # 0
      BY <2>1
    <3>2. QED
      BY <2>1, <2>4, <2>5, <3>1, Counting
  <2>8. ~Early(c) /\ ~(Early(c))'
    BY <1>1, <2>1 DEF BillInOrder, Early
  <2>9. QED
    BY <1>1, <2>1, <2>5, <2>6, <2>7, <2>8 DEF BillInOrder
<1>4. QED
  BY <1>2, <1>3 DEF BillInv

------------------------------------------------------------------------------
(* The theorems.                                                           *)

Inv == TypeOK /\ BillInv

LEMMA InitInv == Init => Inv
<1> SUFFICES ASSUME Init PROVE Inv
  OBVIOUS
<1>1. PlatformTypeOK
  BY DEF Init, PlatformInit, PlatformTypeOK, Phase
<1>2. todo \in [Calls -> [Handler -> Seq(Instr)]]
  BY Tuples DEF Init, NoGoroutines
<1>3. rows \in [Calls -> Seq(CallInfo)] /\ doubt \in [Calls -> Seq(CallInfo)]
  BY Tuples DEF Init
<1>4. 0 \in 0 .. MaxKills /\ 0 \in 0 .. PostTries /\ 0 \in 0 .. MaxTries
  BY ServerAssumption DEF PostTries
<1>5. TypeOK
  BY <1>1, <1>2, <1>3, <1>4 DEF Init, TypeOK, NoCopies, BillPc
<1>6. ASSUME NEW c \in Calls
      PROVE  BillInOrder(c)
  <2>1. /\ rows[c] = << >> /\ doubt[c] = << >> /\ received[c] = {}
        /\ lost[c] = 0 /\ tries[c] = 0 /\ acked[c] = FALSE
        /\ billPc[c] = "idle" /\ callList[c] = NoCall
    BY DEF Init
  <2>2. BillsOf(c) = {} /\ Len(rows[c]) = 0 /\ Len(doubt[c]) = 0
    BY <2>1 DEF BillsOf, Rows, Range
  <2>3. QED
    BY <2>1, <2>2 DEF BillInOrder
<1>7. QED
  BY <1>5, <1>6 DEF Inv, BillInv

LEMMA NextInv == Inv /\ [Next]_vars => Inv'
<1> SUFFICES ASSUME Inv, [Next]_vars PROVE Inv'
  OBVIOUS
<1>1. TypeOK /\ BillInv
  BY DEF Inv
<1>2. ASSUME NEW c \in Calls, PlatformStep(c)
      PROVE  Inv'
  BY <1>1, <1>2, PlatformStepTyped, PlatformStepKeepsBills DEF Inv
<1>3. ASSUME NEW c \in Calls, BillStep(c)
      PROVE  Inv'
  BY <1>1, <1>3, BillStepTyped, BillStepKeepsBills DEF Inv
<1>4. ASSUME NEW c \in Calls, LateInsert(c)
      PROVE  Inv'
  BY <1>1, <1>4, LateInsertTyped, LateInsertKeepsBills DEF Inv
<1>5. ASSUME NEW c \in Calls, NEW h \in Handler, Step(c, h)
      PROVE  Inv'
  BY <1>1, <1>5, StepTyped, StepKeepsBills DEF Inv
<1>6. CASE MapThrow \/ Kill \/ Start
  BY <1>1, <1>6, ProcessStepTyped, ProcessStepKeepsBills DEF Inv
<1>7. CASE UNCHANGED vars
  <2>1. TypeOK'
    BY <1>1, <1>7
    DEF TypeOK, PlatformTypeOK, vars, serverVars, listVars, threadVars,
        billVars, sqlVars, platformVars
  <2>2. BillInv'
    BY <1>1, <1>7, BillStays
    DEF BillInv, vars, serverVars, listVars, billVars, sqlVars, platformVars
  <2>3. QED
    BY <2>1, <2>2 DEF Inv
<1>8. QED
  BY <1>2, <1>3, <1>4, <1>5, <1>6, <1>7 DEF Next

\* Inv is inductive: it holds in every reachable state.
LEMMA Invariance == Spec => []Inv
<1>1. Init => Inv
  BY InitInv
<1>2. Inv /\ [Next]_vars => Inv'
  BY NextInv
<1>3. QED
  BY <1>1, <1>2, PTL DEF Spec

\* Every variable stays in its range: in particular a goroutine never stores
\* back a record it did not find, billMsgProc never posts a seventh time, and
\* what it stores and posts is a record of the call.
THEOREM TypeCorrect == Spec => []TypeOK
<1>1. Inv => TypeOK
  BY DEF Inv
<1>2. QED
  BY <1>1, Invariance, PTL

\* However often the insert of a bill or its post is repeated, every row of a
\* call and every bill of it the customer got are the same; nothing is posted
\* before there is a row; and a call has at most one row more than inserts
\* whose answer was lost.
THEOREM BillsAlwaysAgree == Spec => []BillsAgree
<1>1. Inv => BillsAgree
  <2> SUFFICES ASSUME Inv, NEW c \in Calls
               PROVE  /\ Len(rows[c]) <= lost[c] + 1
                      /\ received[c] # {} => rows[c] # << >>
                      /\ \A a, b \in Rows(c) \cup received[c] : a = b
    BY DEF BillsAgree
  <2>1. BillInOrder(c)
    BY DEF Inv, BillInv
  <2>2. Len(rows[c]) <= lost[c] + 1
    BY <2>1, AtMostOneMore DEF Inv
  <2>3. Rows(c) \cup received[c] \subseteq BillsOf(c)
    BY DEF BillsOf
  <2>4. QED
    BY <2>1, <2>2, <2>3 DEF BillInOrder
<1>2. QED
  BY <1>1, Invariance, PTL

\* The order of a bill: no row and no post before Bill2Sql, no step of
\* billMsgProc before the bill was notified, none at all while the process is
\* down.
THEOREM BillsInOrder == Spec => []BillInv
<1>1. Inv => BillInv
  BY DEF Inv
<1>2. QED
  BY <1>1, Invariance, PTL

------------------------------------------------------------------------------
(* How a step changes callList, and what becomes of billMsgProc.           *)

LEMMA StepWritesList ==
  ASSUME Inv, NEW c \in Calls, NEW h \in Handler, Step(c, h)
  PROVE  \/ Halt
         \/ /\ UNCHANGED billVars
            /\ \/ UNCHANGED callList
               \/ \E v \in CallInfo : callList' = [callList EXCEPT ![c] = v]
<1>0. TypeOK
  BY DEF Inv
<1>1. CASE StoreBack(c, h)
  <2>1. todo[c][h] # << >> /\ Head(todo[c][h]).op \in Update
    BY <1>1 DEF StoreBack, At
  <2>2. val[c][h] \in CallInfo
    BY <1>0, <1>1 DEF StoreBack, TypeOK
  <2>3. Applied(Head(todo[c][h]), val[c][h]) \in CallInfo
    BY <1>0, <2>1, <2>2, HeadTyped, AppliedTyped
  <2>4. QED
    BY <1>1, <2>3 DEF StoreBack
<1>2. CASE InNewCall(c, h)
  <2>1. NewCall \in CallInfo
    BY DEF NewCall, CallInfo, CallStatus, Stamp, Result
  <2>2. QED
    BY <1>2, <2>1 DEF InNewCall
<1>3. CASE ~StoreBack(c, h) /\ ~InNewCall(c, h)
  BY <1>3
  DEF Step, CopyOut, FindCall, ExtCheck, ChangeBindNumber, GetServiceNum,
      GetServiceNumPanics, SendRequest, listVars
<1>4. QED
  BY <1>1, <1>2, <1>3

LEMMA PlatformWritesNoList ==
  ASSUME NEW c \in Calls, PlatformStep(c)
  PROVE  \/ Halt
         \/ /\ UNCHANGED <<callList, tries, acked, received, sqlVars>>
            /\ UNCHANGED billPc \/ BillNotified(c)
BY
DEF PlatformStep, InCallNotified, DtmfNotified, FailureNotified,
    AnswerNotified, HangupNotified, UserLeavesUnnotified, PlayOverNotified,
    AgentEndNotified, UserEndNotified, BillNotified, ParseBillPanics, Notify,
    BillTo, serverVars, listVars, billVars, sqlVars

LEMMA BillWrite ==
  ASSUME Inv, NEW c \in Calls, BillStoreBack(c)
  PROVE  \E v \in CallInfo : callList' = [callList EXCEPT ![c] = v]
<1>1. billCall[c] \in CallInfo
  BY DEF Inv, BillStoreBack, BillAt, BillInv, BillInOrder, TypeOK
<1>2. UpdateCallBill(billCall[c]) \in CallInfo
  BY <1>1 DEF UpdateCallBill, CallInfo, Stamp
<1>3. QED
  BY <1>2 DEF BillStoreBack

------------------------------------------------------------------------------
(* A record disappears only by DelCall or with the process.                *)

LEMMA DeleteStep ==
  ASSUME Inv, [Next]_vars, NEW c \in Calls,
         callList[c] # NoCall, callList'[c] = NoCall, up'
  PROVE  rows[c] # << >> /\ (acked[c] \/ tries[c] = PostTries)
<1>0. /\ callList \in [Calls -> CallInfo \cup {NoCall}]
      /\ \A v \in CallInfo : v # NoCall
      /\ BillInOrder(c)
  BY NoCallAssumption DEF Inv, TypeOK, BillInv
<1>1. ~UNCHANGED callList
  OBVIOUS
<1>2. ~Halt
  BY DEF Halt
<1>3. ASSUME NEW d \in Calls, NEW v \in CallInfo,
             callList' = [callList EXCEPT ![d] = v]
      PROVE  FALSE
  BY <1>0, <1>3
<1>4. ASSUME NEW d \in Calls, BillStep(d)
      PROVE  rows[c] # << >> /\ (acked[c] \/ tries[c] = PostTries)
  <2>1. ~BillStoreBack(d)
    BY <1>3, BillWrite
  <2>2. DelCall(d)
    BY <1>1, <1>2, <1>4, <2>1
    DEF BillStep, BillCopyOut, WaitForSound, BillFind, InsertLost, Bill2Sql,
        Bill2SqlPanics, PostBill, listVars
  <2>3. d = c
    BY <1>0, <2>2 DEF DelCall
  <2>4. billPc[c] = "del"
    BY <2>2, <2>3 DEF DelCall, BillAt
  <2>5. QED
    BY <1>0, <2>4 DEF BillInOrder
<1>5. ASSUME NEW d \in Calls, NEW h \in Handler
      PROVE  ~Step(d, h)
  BY <1>1, <1>2, <1>3, StepWritesList
<1>6. ASSUME NEW d \in Calls
      PROVE  ~PlatformStep(d)
  BY <1>1, <1>2, PlatformWritesNoList
<1>7. ASSUME NEW d \in Calls
      PROVE  ~LateInsert(d)
  BY <1>1 DEF LateInsert, listVars
<1>8. ~(MapThrow \/ Kill \/ Start) /\ ~UNCHANGED vars
  BY <1>1, <1>2 DEF MapThrow, Kill, Start, vars, serverVars, listVars
<1>9. QED
  BY <1>4, <1>5, <1>6, <1>7, <1>8 DEF Next

\* While the process runs, no call is forgotten before its bill is stored and
\* either confirmed or posted six times.
THEOREM DeletesOnlyWhenSettled == Spec => DeleteOnlyWhenSettled
<1>1. Inv /\ [Next]_vars =>
        [\A c \in Calls :
           callList[c] # NoCall /\ callList'[c] = NoCall /\ up'
             => rows[c] # << >> /\ (acked[c] \/ tries[c] = PostTries)]_vars
  BY DeleteStep
<1>2. QED
  BY <1>1, Invariance, PTL DEF Spec, DeleteOnlyWhenSettled

------------------------------------------------------------------------------
(* LianjiaServer implements Billing.                                       *)

LEMMA InitRefines == Init => B!Init
<1> SUFFICES ASSUME Init PROVE B!Init
  OBVIOUS
<1>1. \A c \in Calls : BillState(c) = "open"
  BY DEF Init, PlatformInit, BillState, Early
<1>2. QED
  BY <1>1 DEF Init, B!Init

\* The process ends: no call is being sent any more, and no other bill is
\* given up than that of a call whose bill is being notified.
LEMMA HaltIsCrash ==
  ASSUME Inv, Halt, BilledStays
  PROVE  B!Crash
<1> DEFINE open    == {c \in Calls : BillState(c) = "open"}
           closing == {c \in open : phase'[c] = "billed"}
<1>1. ASSUME NEW c \in Calls
      PROVE  (BillState(c))' = IF BillState(c) = "sending" \/ c \in closing
                                 THEN "closed" ELSE BillState(c)
  <2>1. BillInOrder(c) /\ billPc[c] \in BillPc /\ billPc'[c] = "idle"
        /\ (phase[c] = "billed" => phase'[c] = "billed")
    BY DEF Inv, BillInv, TypeOK, Halt, BilledStays
  <2>2. QED
    BY <2>1 DEF BillState, Early, BillInOrder, BillPc
<1>2. closing \in SUBSET open
  OBVIOUS
<1>3. [c \in Calls |-> (BillState(c))'] =
        [c \in Calls |->
           IF [d \in Calls |-> BillState(d)][c] = "sending" \/ c \in closing
             THEN "closed" ELSE [d \in Calls |-> BillState(d)][c]]
  BY <1>1
<1>4. open = {c \in Calls : [d \in Calls |-> BillState(d)][c] = "open"}
  OBVIOUS
<1>5. \E x \in SUBSET {c \in Calls :
                         [d \in Calls |-> BillState(d)][c] = "open"} :
        [c \in Calls |-> (BillState(c))'] =
          [c \in Calls |->
             IF [d \in Calls |-> BillState(d)][c] = "sending" \/ c \in x
               THEN "closed" ELSE [d \in Calls |-> BillState(d)][c]]
  BY <1>2, <1>3, <1>4
<1>6. [c \in Calls |-> callList'[c] # NoCall] = [c \in Calls |-> FALSE]
  BY DEF Halt
<1>7. QED
  BY <1>5, <1>6 DEF Halt, sqlVars, B!Crash

LEMMA SameBilling ==
  ASSUME UNCHANGED <<callList, tries, acked, received, sqlVars>>,
         \A d \in Calls : (BillState(d))' = BillState(d)
  PROVE  UNCHANGED B!billingVars
BY DEF B!billingVars, sqlVars

\* Only the two notifications of a bill make a call a billed one.
BilledSame ==
  \A c \in Calls : (phase'[c] = "billed") = (phase[c] = "billed")

LEMMA SameState ==
  ASSUME BilledSame, UNCHANGED billPc
  PROVE  \A d \in Calls : (BillState(d))' = BillState(d)
BY DEF BilledSame, BillState, Early

LEMMA StepBillsNobody ==
  ASSUME TypeOK, NEW c \in Calls, NEW h \in Handler, Step(c, h)
  PROVE  BilledSame
<1>1. CASE SendRequest(c, h)
  <2>1. todo[c][h] # << >> /\ Head(todo[c][h]).op = "ask"
    BY <1>1 DEF SendRequest, At
  <2>2. Head(todo[c][h]).arg \in Request
    BY <2>1, HeadTyped DEF Instr
  <2>3. PICK ok \in BOOLEAN : Ask(Head(todo[c][h]).arg, c, ok)
    BY <1>1 DEF SendRequest
  <2>4. CASE UNCHANGED phase
    BY <2>4 DEF BilledSame
  <2>5. CASE Carry(Head(todo[c][h]).arg, c)
    <3>1. phase[c] # "billed"
      BY <2>2, <2>5 DEF Carry, Request, From, OnLine
    <3>2. \A r \in Request, p \in Phase : Goal(r, p) # "billed"
      BY DEF Request, Goal
    <3>3. phase' = [phase EXCEPT ![c] = Goal(Head(todo[c][h]).arg, phase[c])]
      BY <2>5 DEF Carry
    <3>4. QED
      BY <2>2, <3>1, <3>2, <3>3 DEF BilledSame, TypeOK, PlatformTypeOK
  <2>6. QED
    BY <2>3, <2>4, <2>5 DEF Ask, platformVars
<1>2. CASE ~SendRequest(c, h)
  BY <1>2
  DEF Step, CopyOut, StoreBack, InNewCall, FindCall, ExtCheck,
      ChangeBindNumber, GetServiceNum, GetServiceNumPanics, BilledSame,
      platformVars
<1>3. QED
  BY <1>1, <1>2

LEMMA PlatformBillsNobody ==
  ASSUME TypeOK, NEW c \in Calls, PlatformStep(c),
         ~BillNotified(c), ~ParseBillPanics(c)
  PROVE  BilledSame
<1>1. \/ Dial(c) \/ DigitsDone(c) \/ PlayDone(c) \/ AgentFails(c)
      \/ AgentLeaves(c) \/ AgentAnswers(c) \/ Cleared(c)
      \/ \E p \in OnLine \cup {"offered"} : UserLeaves(c, p)
  BY DEF PlatformStep, InCallNotified, DtmfNotified, FailureNotified,
         AnswerNotified, HangupNotified, UserLeavesUnnotified,
         PlayOverNotified, AgentEndNotified, UserEndNotified, OnLine
<1>2. PICK q : /\ phase[c] # "billed" /\ q # "billed"
               /\ phase' = [phase EXCEPT ![c] = q]
  BY <1>1
  DEF Dial, DigitsDone, PlayDone, AgentFails, AgentLeaves, AgentAnswers,
      Cleared, UserLeaves, Move, OnLine
<1>3. QED
  BY <1>2 DEF BilledSame, TypeOK, PlatformTypeOK

\* Storing a record back is no step of Billing, or the first one of a call.
LEMMA ListWriteRefines ==
  ASSUME Inv, NEW c \in Calls, NEW v \in CallInfo,
         callList' = [callList EXCEPT ![c] = v],
         UNCHANGED <<tries, acked, received, sqlVars>>,
         \A d \in Calls : (BillState(d))' = BillState(d)
  PROVE  B!Register(c) \/ UNCHANGED B!billingVars
<1>1. callList \in [Calls -> CallInfo \cup {NoCall}] /\ v # NoCall
  BY NoCallAssumption DEF Inv, TypeOK
<1>2. \A d \in Calls :
        (callList'[d] # NoCall) = (d = c \/ callList[d] # NoCall)
  BY <1>1
<1>3. CASE callList[c] = NoCall
  <2>1. [d \in Calls |-> callList'[d] # NoCall] =
          [[d \in Calls |-> callList[d] # NoCall] EXCEPT ![c] = TRUE]
    BY <1>2
  <2>2. [d \in Calls |-> (BillState(d))'] = [d \in Calls |-> BillState(d)]
    OBVIOUS
  <2>3. QED
    BY <1>3, <2>1, <2>2 DEF B!Register, sqlVars
<1>4. CASE callList[c] # NoCall
  <2>1. \A d \in Calls :
          (callList'[d] # NoCall) = (callList[d] # NoCall)
    BY <1>2, <1>4
  <2>2. QED
    BY <2>1 DEF B!billingVars, sqlVars
<1>5. QED
  BY <1>3, <1>4

\* A step of billMsgProc for one call changes the state of that call alone.
LEMMA OneState ==
  ASSUME Inv, NEW c \in Calls, UNCHANGED phase,
         NEW pc \in BillPc, billPc' = [billPc EXCEPT ![c] = pc]
  PROVE  [d \in Calls |-> (BillState(d))'] =
           [[d \in Calls |-> BillState(d)] EXCEPT ![c] = (BillState(c))']
<1>1. \A d \in Calls : d # c => (BillState(d))' = BillState(d)
  BY DEF Inv, TypeOK, BillState, Early
<1>2. QED
  BY <1>1

LEMMA BillStepRefines ==
  ASSUME Inv, NEW c \in Calls, BillStep(c)
  PROVE  B!Next \/ UNCHANGED B!billingVars
<1>0. TypeOK /\ BillInv /\ BillInOrder(c) /\ BilledStays
  BY BillStepTyped DEF Inv, BillInv
<1>1. CASE Bill2SqlPanics(c)
  BY <1>0, <1>1, HaltIsCrash DEF Bill2SqlPanics, B!Next
<1>2. CASE BillCopyOut(c) \/ WaitForSound(c) \/ BillFind(c)
  <2>1. PICK pc \in {"bill_w", "find", "store", "idle"} :
          billPc' = [billPc EXCEPT ![c] = pc]
    BY <1>2 DEF BillCopyOut, WaitForSound, BillFind, BillTo
  <2>2. /\ billPc[c] \in {"bill_r", "wait", "find"} /\ phase[c] = "billed"
        /\ UNCHANGED <<phase, callList, tries, acked, received, sqlVars>>
    BY <1>0, <1>2
    DEF BillCopyOut, WaitForSound, BillFind, BillAt, BillInOrder, listVars,
        platformVars
  <2>3. BillState(c) = "open" /\ billPc'[c] = pc /\ phase'[c] = "billed"
    BY <1>0, <2>1, <2>2 DEF BillState, Early, TypeOK
  <2>4. (BillState(c))' = IF pc = "idle" THEN "closed" ELSE "open"
    BY <2>3 DEF BillState, Early
  <2>5. [d \in Calls |-> (BillState(d))'] =
          [[d \in Calls |-> BillState(d)] EXCEPT ![c] = (BillState(c))']
    BY <2>1, <2>2, OneState DEF BillPc
  <2>6. CASE pc = "idle"
    <3>1. B!GiveUp(c)
      BY <2>2, <2>3, <2>4, <2>5, <2>6 DEF B!GiveUp, sqlVars
    <3>2. QED
      BY <3>1 DEF B!Next
  <2>7. CASE pc # "idle"
    <3>1. \A d \in Calls : (BillState(d))' = BillState(d)
      BY <2>3, <2>4, <2>5, <2>7
    <3>2. QED
      BY <2>2, <3>1, SameBilling
  <2>8. QED
    BY <2>6, <2>7
<1>3. CASE BillStoreBack(c)
  <2>1. /\ billPc[c] = "bill_w" /\ billPc' = [billPc EXCEPT ![c] = "wait"]
        /\ UNCHANGED <<phase, tries, acked, received, sqlVars>>
    BY <1>3 DEF BillStoreBack, BillAt, BillTo, platformVars
  <2>2. \A d \in Calls : (BillState(d))' = BillState(d)
    BY <1>0, <2>1 DEF BillState, Early, TypeOK
  <2>3. QED
    BY <1>3, <2>1, <2>2, BillWrite, ListWriteRefines DEF B!Next
<1>4. CASE InsertLost(c) \/ Bill2Sql(c)
  <2>1. /\ billPc[c] = "store" /\ lost[c] < MaxTries
        /\ UNCHANGED <<phase, callList, tries, acked, received>>
    BY <1>4 DEF InsertLost, Bill2Sql, BillAt, listVars, platformVars
  <2>2. /\ rows[c] \in Seq(CallInfo) /\ doubt[c] \in Seq(CallInfo)
        /\ billCall[c] \in CallInfo
        /\ Range(rows[c]) \cup Range(doubt[c]) \subseteq {billCall[c]}
    BY <1>0, <2>1 DEF TypeOK, BillInOrder, BillsOf, Rows
  <2>3. B!MayInsert(c, billCall[c])
    BY <2>1, <2>2 DEF B!MayInsert, B!Range, Range
  <2>4. BillState(c) = "open"
    BY <2>1 DEF BillState
  <2>5. [d \in Calls |-> callList'[d] # NoCall] =
          [d \in Calls |-> callList[d] # NoCall]
    BY <2>1
  <2>6. CASE InsertLost(c)
    <3>1. /\ doubt' = [doubt EXCEPT ![c] = Append(@, billCall[c])]
          /\ lost' = [lost EXCEPT ![c] = @ + 1]
          /\ rows' = rows /\ billPc' = billPc
      BY <2>6 DEF InsertLost
    <3>2. billCall[c] \in Range(doubt'[c])
      BY <1>0, <2>2, <3>1, Contents DEF TypeOK
    <3>3. [d \in Calls |-> (BillState(d))'] = [d \in Calls |-> BillState(d)]
      BY <2>1, <3>1 DEF BillState, Early
    <3>4. B!Lose(c)
      BY <2>1, <2>3, <2>4, <2>5, <3>1, <3>2, <3>3 DEF B!Lose, B!Range, Range
    <3>5. QED
      BY <3>4 DEF B!Next
  <2>7. CASE Bill2Sql(c)
    <3>1. /\ rows' = [rows EXCEPT ![c] = Append(@, billCall[c])]
          /\ doubt' = doubt /\ lost' = lost
          /\ billPc' = [billPc EXCEPT ![c] = "post"]
      BY <2>7 DEF Bill2Sql, BillTo
    <3>2. billCall[c] \in Range(rows'[c])
      BY <1>0, <2>2, <3>1, Contents DEF TypeOK
    <3>3. (BillState(c))' = "sending"
      BY <1>0, <3>1 DEF BillState, TypeOK
    <3>4. [d \in Calls |-> (BillState(d))'] =
            [[d \in Calls |-> BillState(d)] EXCEPT ![c] = "sending"]
      BY <2>1, <3>1, <3>3, OneState DEF BillPc
    <3>5. B!Store(c)
      BY <2>1, <2>3, <2>4, <2>5, <3>1, <3>2, <3>4 DEF B!Store, B!Range, Range
    <3>6. QED
      BY <3>5 DEF B!Next
  <2>8. QED
    BY <1>4, <2>6, <2>7
<1>5. CASE PostBill(c)
  <2>1. /\ billPc[c] = "post" /\ rows[c] # << >>
        /\ \A b \in Range(rows[c]) : b = billCall[c]
    BY <1>0, <1>5 DEF PostBill, BillAt, BillInOrder, BillsOf, Rows
  <2>2. Head(rows[c]) = billCall[c]
    <3>1. billCall[c] \in CallInfo
      BY <1>0, <2>1 DEF TypeOK, BillInOrder
    <3>2. QED
      BY <1>0, <2>1, <3>1, Contents DEF TypeOK
  <2>3. tries[c] \in Nat /\ tries[c] < PostTries
    BY <1>0, <2>1 DEF TypeOK, BillInOrder
  <2>4. PICK ok \in BOOLEAN, arrives \in BOOLEAN :
          /\ ok => arrives
          /\ acked' = [acked EXCEPT ![c] = ok]
          /\ received' =
               IF arrives THEN [received EXCEPT ![c] = @ \cup {billCall[c]}]
                          ELSE received
          /\ BillTo(c, IF ok \/ LastTry(c) THEN "del" ELSE "post")
    BY <1>5 DEF PostBill, PostedBill
  <2>5. UNCHANGED <<phase, callList, sqlVars>>
        /\ tries' = [tries EXCEPT ![c] = @ + 1]
    BY <1>5 DEF PostBill, listVars, platformVars
  <2>6. BillState(c) = "sending"
    BY <2>1 DEF BillState
  <2>7. (BillState(c))' =
          IF ok \/ tries[c] + 1 = PostTries THEN "closed" ELSE "sending"
    BY <1>0, <2>4 DEF BillState, Early, BillTo, LastTry, TypeOK
  <2>8. [d \in Calls |-> (BillState(d))'] =
          [[d \in Calls |-> BillState(d)] EXCEPT ![c] = (BillState(c))']
    <3>1. (IF ok \/ LastTry(c) THEN "del" ELSE "post") \in BillPc
      BY DEF BillPc
    <3>2. QED
      BY <2>4, <2>5, <3>1, OneState DEF BillTo
  <2>9. [d \in Calls |-> (BillState(d))'] =
          [[d \in Calls |-> BillState(d)] EXCEPT
             ![c] = IF ok \/ tries[c] + 1 = PostTries THEN "closed" ELSE @]
    BY <2>6, <2>7, <2>8
  <2>10. \/ received' = [received EXCEPT ![c] = @ \cup {Head(rows[c])}]
         \/ ~ok /\ UNCHANGED received
    BY <2>2, <2>4
  <2>11. B!Send(c)
    BY <2>3, <2>4, <2>5, <2>6, <2>9, <2>10 DEF B!Send, sqlVars
  <2>12. QED
    BY <2>11 DEF B!Next
<1>6. CASE DelCall(c)
  <2>1. billPc[c] = "del" /\ rows[c] # << >>
        /\ (acked[c] \/ tries[c] = PostTries)
    BY <1>0, <1>6 DEF DelCall, BillAt, BillInOrder
  <2>2. callList' = [callList EXCEPT ![c] = NoCall]
        /\ UNCHANGED <<phase, tries, acked, received, sqlVars>>
    BY <1>6 DEF DelCall, platformVars
  <2>3. \A d \in Calls : (BillState(d))' = BillState(d)
    <3>1. billPc' = [billPc EXCEPT ![c] = "idle"]
      BY <1>6 DEF DelCall, BillTo
    <3>2. phase[c] = "billed"
      BY <1>0, <2>1 DEF BillInOrder
    <3>3. QED
      BY <1>0, <2>1, <2>2, <3>1, <3>2 DEF BillState, Early, TypeOK
  <2>4. CASE callList[c] = NoCall
    BY <1>0, <2>2, <2>3, <2>4, SameBilling DEF TypeOK
  <2>5. CASE callList[c] # NoCall
    <3>1. [d \in Calls |-> callList'[d] # NoCall] =
            [[d \in Calls |-> callList[d] # NoCall] EXCEPT ![c] = FALSE]
      BY <1>0, <2>2 DEF TypeOK
    <3>2. [d \in Calls |-> (BillState(d))'] = [d \in Calls |-> BillState(d)]
      BY <2>3
    <3>3. B!Forget(c)
      BY <2>1, <2>2, <2>5, <3>1, <3>2 DEF B!Forget, sqlVars
    <3>4. QED
      BY <3>3 DEF B!Next
  <2>6. QED
    BY <2>4, <2>5
<1>7. QED
  BY <1>1, <1>2, <1>3, <1>4, <1>5, <1>6 DEF BillStep

LEMMA BillNotifiedRefines ==
  ASSUME Inv, NEW c \in Calls, BillNotified(c)
  PROVE  B!Next \/ UNCHANGED B!billingVars
<1>0. TypeOK /\ BillInOrder(c)
  BY DEF Inv, BillInv
<1>1. /\ phase[c] = "cleared" /\ phase' = [phase EXCEPT ![c] = "billed"]
      /\ \/ billPc' = [billPc EXCEPT ![c] = "bill_r"]
         \/ UNCHANGED billPc
      /\ UNCHANGED <<callList, tries, acked, received, sqlVars>>
  BY DEF BillNotified, Billed, Move, BillTo, listVars
<1>2. /\ billPc[c] = "idle" /\ phase'[c] = "billed"
      /\ BillState(c) = "open"
  BY <1>0, <1>1
  DEF BillInOrder, BillState, Early, TypeOK, PlatformTypeOK
<1>3. \A d \in Calls : d # c => (BillState(d))' = BillState(d)
  BY <1>0, <1>1 DEF BillState, Early, TypeOK, PlatformTypeOK
<1>4. CASE billPc' = [billPc EXCEPT ![c] = "bill_r"]
  <2>1. (BillState(c))' = "open"
    BY <1>0, <1>4 DEF BillState, Early, TypeOK
  <2>2. QED
    BY <1>1, <1>2, <1>3, <2>1, SameBilling
<1>5. CASE UNCHANGED billPc
  <2>1. (BillState(c))' = "closed"
    BY <1>2, <1>5 DEF BillState, Early
  <2>2. [d \in Calls |-> (BillState(d))'] =
          [[d \in Calls |-> BillState(d)] EXCEPT ![c] = "closed"]
    BY <1>3, <2>1
  <2>3. B!GiveUp(c)
    BY <1>1, <1>2, <2>2 DEF B!GiveUp, sqlVars
  <2>4. QED
    BY <2>3 DEF B!Next
<1>6. QED
  BY <1>1, <1>4, <1>5

LEMMA LateInsertRefines ==
  ASSUME Inv, NEW c \in Calls, LateInsert(c)
  PROVE  B!Next
<1>1. [d \in Calls |-> (BillState(d))'] = [d \in Calls |-> BillState(d)]
  BY DEF LateInsert, BillState, Early, platformVars
<1>2. B!Late(c)
  BY <1>1 DEF LateInsert, B!Late, listVars
<1>3. QED
  BY <1>2 DEF B!Next

LEMMA NextRefines ==
  Inv /\ [Next]_vars => B!Next \/ UNCHANGED B!billingVars
<1> SUFFICES ASSUME Inv, [Next]_vars
             PROVE  B!Next \/ UNCHANGED B!billingVars
  OBVIOUS
<1>0. TypeOK
  BY DEF Inv
<1>1. Halt /\ BilledStays => B!Next
  BY HaltIsCrash DEF B!Next
<1>2. ASSUME NEW c \in Calls, BillStep(c)
      PROVE  B!Next \/ UNCHANGED B!billingVars
  BY <1>2, BillStepRefines
<1>3. ASSUME NEW c \in Calls, NEW h \in Handler, Step(c, h)
      PROVE  B!Next \/ UNCHANGED B!billingVars
  <2>1. BilledStays /\ BilledSame
    BY <1>0, <1>3, StepTyped, StepBillsNobody
  <2>2. ASSUME UNCHANGED billVars
        PROVE  /\ UNCHANGED <<tries, acked, received, sqlVars>>
               /\ \A d \in Calls : (BillState(d))' = BillState(d)
    BY <2>1, <2>2, SameState DEF billVars
  <2>3. CASE UNCHANGED billVars /\ UNCHANGED callList
    BY <2>2, <2>3, SameBilling
  <2>4. ASSUME UNCHANGED billVars, NEW v \in CallInfo,
               callList' = [callList EXCEPT ![c] = v]
        PROVE  B!Next \/ UNCHANGED B!billingVars
    BY <2>2, <2>4, ListWriteRefines DEF B!Next
  <2>5. QED
    BY <1>1, <1>3, <2>1, <2>3, <2>4, StepWritesList
<1>4. ASSUME NEW c \in Calls, PlatformStep(c)
      PROVE  B!Next \/ UNCHANGED B!billingVars
  <2>1. CASE Halt
    BY <1>0, <1>1, <1>4, <2>1, PlatformStepTyped
  <2>2. CASE BillNotified(c)
    BY <2>2, BillNotifiedRefines
  <2>3. CASE ~Halt /\ ~BillNotified(c)
    <3>1. BilledSame
      BY <1>0, <1>4, <2>3, PlatformBillsNobody DEF ParseBillPanics
    <3>2. QED
      BY <1>4, <2>3, <3>1, PlatformWritesNoList, SameState, SameBilling
  <2>4. QED
    BY <2>1, <2>2, <2>3
<1>5. CASE MapThrow \/ Kill
  BY <1>0, <1>1, <1>5, ProcessStepTyped DEF MapThrow, Kill
<1>6. CASE Start \/ UNCHANGED vars
  <2>1. UNCHANGED <<phase, callList, billVars>>
    BY <1>6 DEF Start, vars, serverVars, listVars, platformVars
  <2>2. \A d \in Calls : (BillState(d))' = BillState(d)
    BY <2>1, SameState DEF BilledSame, billVars
  <2>3. QED
    BY <2>1, <2>2, SameBilling DEF billVars
<1>7. ASSUME NEW c \in Calls, LateInsert(c)
      PROVE  B!Next
  BY <1>7, LateInsertRefines
<1>8. QED
  BY <1>2, <1>3, <1>4, <1>5, <1>6, <1>7 DEF Next

\* Whatever the interleaving, the faults and the crashes, and however often
\* an insert is sent again, the server does with the bills what module
\* Billing promises.
THEOREM ImplementsBilling == Spec => KeepsBillingPromise
<1>1. Init => B!Init
  BY InitRefines
<1>2. Inv /\ [Next]_vars => [B!Next]_B!billingVars
  BY NextRefines
<1>3. QED
  BY <1>1, <1>2, Invariance, PTL DEF Spec, KeepsBillingPromise, B!Spec

==============================================================================
