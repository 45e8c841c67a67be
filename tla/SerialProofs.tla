---------------------------- MODULE SerialProofs ----------------------------
(***************************************************************************)
(* Theorems about LianjiaServer for every set of calls, every set of       *)
(* faults, any number of goroutines running at once and any number of      *)
(* kills.  They are about the calls of which no goroutine was started      *)
(* while another was running, whatever the other calls do: what a bill     *)
(* says is complete and true, and the first result of a call stays.        *)
(***************************************************************************)
EXTENDS CallSound

------------------------------------------------------------------------------
(* The inductive invariant.                                                *)

\* Goroutine h of call c is at line l, and no other one runs.
AtLine(c, h, l) ==
  /\ l \in Lines(c, h) \cup {"rest"}
  /\ todo[c][h] \in Code(c, h, l)
  /\ \A g \in Handler \ {h} : todo[c][g] = << >>
  /\ up \/ l = "rest"

\* Its copy is not stale.
Fresh(c, h, l) ==
  /\ \A g \in Handler \ {h} : val[c][g] = NoCall
  /\ val[c][h] # NoCall =>
       /\ l # "rest" /\ Head(todo[c][h]).op \in Update
       /\ val[c][h] = callList[c]
       /\ Head(todo[c][h]).op = "result" => callList[c].result = ""

\* What billMsgProc has in hand, and what it has stored, is true.
Bills(c) ==
  /\ billPc[c] = "bill_w" => billCall[c] = callList[c]
  /\ billPc[c] \in {"wait", "find"} =>
       callList[c] # NoCall /\ callList[c].bill = "set"
  /\ billPc[c] = "find" => CallInfoSoundReady(callList[c])
  /\ billPc[c] = "store" => BillIsTrue(c, endedBy[c], talked, billCall[c])
  /\ \A b \in Rows(c) \cup Range(doubt[c]) :
       BillIsTrue(c, endedBy[c], talked, b)

Goes(c, h, l) ==
  /\ AtLine(c, h, l) /\ Fresh(c, h, l)
  /\ Sound(c, phase[c], endedBy[c], talked, h, l, callList[c])

CallInv(c) ==
  /\ \E h \in Handler : \E l \in Lines(c, h) \cup {"rest"} : Goes(c, h, l)
  /\ Bills(c)

SerialInv == \A c \in Calls \ overlapped : CallInv(c)

------------------------------------------------------------------------------
(* Where the goroutine of a call is.                                       *)

LEMMA NotResting ==
  ASSUME NEW c, NEW h \in Handler, NEW l \in Lines(c, h)
  PROVE  l # "rest"
BY LinesOfAll DEF AllLines, LookupLines

LEMMA RestCode ==
  ASSUME NEW c, NEW h, NEW s \in Code(c, h, "rest")
  PROVE  s = << >>
BY DEF Code

LEMMA Where ==
  ASSUME NEW c \in Calls, CallInv(c), NEW h \in Handler, todo[c][h] # << >>
  PROVE  \E l \in Lines(c, h) : Goes(c, h, l)
<1>0. PICK g \in Handler :
          \E l \in Lines(c, g) \cup {"rest"} : Goes(c, g, l)
  BY DEF CallInv
<1>1. PICK l \in Lines(c, g) \cup {"rest"} : Goes(c, g, l)
  BY <1>0
<1>2. g = h
  BY <1>1 DEF Goes, AtLine
<1>3. l # "rest"
  BY <1>1, <1>2, RestCode DEF Goes, AtLine
<1>4. QED
  BY <1>1, <1>2, <1>3

LEMMA Idle ==
  ASSUME NEW c \in Calls, CallInv(c), \A g \in Handler : todo[c][g] = << >>
  PROVE  \E h \in Handler : Goes(c, h, "rest")
<1>0. PICK h \in Handler :
          \E l \in Lines(c, h) \cup {"rest"} : Goes(c, h, l)
  BY DEF CallInv
<1>1. PICK l \in Lines(c, h) \cup {"rest"} : Goes(c, h, l)
  BY <1>0
<1>2. l = "rest"
  BY <1>1, Listing DEF Goes, AtLine
<1>3. QED
  BY <1>1, <1>2

\* While the process is down no goroutine runs.
LEMMA Down ==
  ASSUME NEW c \in Calls, CallInv(c), ~up
  PROVE  \E h \in Handler : Goes(c, h, "rest")
<1>1. PICK h \in Handler :
          \E l \in Lines(c, h) \cup {"rest"} : Goes(c, h, l)
  BY DEF CallInv
<1>2. QED
  BY <1>1 DEF Goes, AtLine

\* A call none of whose goroutines runs has no copy of its record either.
LEMMA NoCopyAtRest ==
  ASSUME NEW c, NEW h, NEW g \in Handler, Goes(c, h, "rest")
  PROVE  val[c][g] = NoCall /\ todo[c][g] = << >>
BY RestCode DEF Goes, AtLine, Fresh

------------------------------------------------------------------------------
(* Steps that leave a call alone.                                          *)

Same(d) ==
  /\ phase'[d] = phase[d] /\ endedBy'[d] = endedBy[d]
  /\ (d \in talked') = (d \in talked)
  /\ todo'[d] = todo[d] /\ val'[d] = val[d] /\ callList'[d] = callList[d]
  /\ billPc'[d] = billPc[d] /\ billCall'[d] = billCall[d]
  /\ rows'[d] = rows[d] /\ doubt'[d] = doubt[d]

Elsewhere(c) == \A d \in Calls \ {c} : Same(d)

LEMMA SameKeeps ==
  ASSUME NEW d \in Calls, CallInv(d), Same(d), up' \/ up' = up
  PROVE  CallInv(d)'
<1>1. PICK h \in Handler :
          \E l \in Lines(d, h) \cup {"rest"} : Goes(d, h, l)
  BY DEF CallInv
<1>2. PICK l \in Lines(d, h) \cup {"rest"} : Goes(d, h, l)
  BY <1>1
<1>3. AtLine(d, h, l)' /\ Fresh(d, h, l)'
  BY <1>2 DEF Goes, AtLine, Fresh, Same
<1>4. Sound(d, phase'[d], endedBy'[d], talked', h, l, callList'[d])
  BY <1>2, SoundCongruent DEF Goes, Same
<1>5. Goes(d, h, l)'
  BY <1>3, <1>4 DEF Goes
<1>6. Bills(d)'
  <2>1. Bills(d)
    BY DEF CallInv
  <2>2. \A v : BillIsTrue(d, endedBy[d], talked, v) =>
               BillIsTrue(d, endedBy'[d], talked', v)
    BY BillCongruent DEF Same
  <2>3. (Rows(d))' = Rows(d)
    BY DEF Rows, Same
  <2>4. QED
    BY <2>1, <2>2, <2>3 DEF Bills, Same
<1>7. QED
  BY <1>5, <1>6 DEF CallInv

LEMMA OthersKeep ==
  ASSUME SerialInv, NEW c \in Calls, Elsewhere(c), up' \/ up' = up,
         overlapped \subseteq overlapped', c \in overlapped' \/ CallInv(c)'
  PROVE  SerialInv'
BY SameKeeps DEF SerialInv, Elsewhere

------------------------------------------------------------------------------
(* The steps of a goroutine.                                               *)

\* A call with a goroutine is not billed yet.
LEMMA NotBilled ==
  ASSUME NEW c \in Calls, NEW h \in Handler, NEW l, l # "rest", Goes(c, h, l)
  PROVE  phase[c] # "billed"
BY DEF Goes, Sound, InTime

LEMMA UnbilledBills ==
  ASSUME BillInv, NEW c \in Calls, phase[c] # "billed",
         billPc'[c] = billPc[c] \/ billPc'[c] \in {"idle", "bill_r"},
         rows'[c] = rows[c], doubt'[c] = doubt[c]
  PROVE  Bills(c)'
<1>1. billPc[c] = "idle" /\ rows[c] = << >> /\ doubt[c] = << >>
  BY DEF BillInv, BillInOrder, Early
<1>2. (Rows(c))' = {} /\ Range(doubt'[c]) = {}
  BY <1>1 DEF Rows, Range
<1>3. QED
  BY <1>1, <1>2 DEF Bills

\* The goroutine at line l comes to line m.
LEMMA Arrives ==
  ASSUME TypeOK, BillInv, NEW c \in Calls, NEW h \in Handler,
         NEW l \in Lines(c, h), Goes(c, h, l),
         NEW m \in Lines(c, h) \cup {"rest"}, NEW s \in Code(c, h, m),
         Become(c, h, s), up',
         val' = [val EXCEPT ![c][h] = NoCall],
         UNCHANGED <<billPc, rows, doubt>>,
         Sound(c, phase'[c], endedBy'[c], talked', h, m, callList'[c])
  PROVE  CallInv(c)'
<1>1. /\ todo'[c][h] = s
      /\ \A g \in Handler \ {h} : todo'[c][g] = todo[c][g]
      /\ \A g \in Handler \ {h} : val'[c][g] = val[c][g]
      /\ val'[c][h] = NoCall
  BY DEF Become, TypeOK
<1>2. AtLine(c, h, m)'
  BY <1>1 DEF Goes, AtLine
<1>3. Fresh(c, h, m)'
  BY <1>1 DEF Goes, Fresh
<1>4. Bills(c)'
  BY NotResting, NotBilled, UnbilledBills
<1>5. QED
  BY <1>2, <1>3, <1>4 DEF Goes, CallInv

\* Which lines make which calls.
OpFacts(l, i) ==
  /\ i.op \in Update => l \in UpdateLines
  /\ i.op = "newcall" => l = "newcall"
  /\ i.op = "find" => l \in {"find", "nodigits"}
  /\ i.op = "bind" => l = "bind"
  /\ i.op = "lookup" => l = "lookup"
  /\ i.op = "extcheck" => l = "check"
  /\ i.op = "ask" => \/ l = "accept" /\ i.arg = "accept"
                     \/ l = "getdtmf" /\ i.arg = "getdtmf"
                     \/ l = "transfer" /\ i.arg = "transfer"
                     \/ l \in {"play", "sorry"} /\ i.arg = "play"
                     \/ l = "hangup" /\ i.arg = "hangup"

LEMMA OpIs ==
  ASSUME NEW l \in AllLines, NEW i \in First(l)
  PROVE  OpFacts(l, i)
<1>1. CASE l \in UpdateLines
  BY <1>1, FirstCall, CallTyped DEF OpFacts, Update
<1>2. CASE l \notin UpdateLines
  <2>1. /\ l = "accept" => i = Do("ask", "accept")
        /\ l = "bind" => i = Do("bind", "")
        /\ l = "newcall" => i = Do("newcall", "")
        /\ l = "getdtmf" => i = Do("ask", "getdtmf")
        /\ l = "lookup" => i = Do("lookup", "")
        /\ l \in {"sorry", "play"} => i = Do("ask", "play")
        /\ l = "transfer" => i = Do("ask", "transfer")
        /\ l \in {"find", "nodigits"} => i = Do("find", "")
        /\ l = "check" => i = Do("extcheck", "")
        /\ l = "hangup" => i = Do("ask", "hangup")
    BY DEF First, Play
  <2>2. \A o, a : i = Do(o, a) => i.op = o /\ i.arg = a
    BY DEF Do
  <2>3. l \in {"accept", "bind", "newcall", "getdtmf", "lookup", "sorry",
               "play", "transfer", "find", "nodigits", "check", "hangup"}
    BY <1>2 DEF AllLines, LookupLines, UpdateLines, ResultLines
  <2>4. /\ l \in {"accept", "getdtmf", "sorry", "play", "transfer", "hangup"} =>
             i.op = "ask"
        /\ l = "accept" => i.arg = "accept"
        /\ l = "getdtmf" => i.arg = "getdtmf"
        /\ l = "transfer" => i.arg = "transfer"
        /\ l \in {"play", "sorry"} => i.arg = "play"
        /\ l = "hangup" => i.arg = "hangup"
    BY <2>1, <2>2, Zenon
  <2>5. /\ l = "bind" => i.op = "bind"
        /\ l = "newcall" => i.op = "newcall"
        /\ l = "lookup" => i.op = "lookup"
        /\ l \in {"find", "nodigits"} => i.op = "find"
        /\ l = "check" => i.op = "extcheck"
    BY <2>1, <2>2, Zenon
  <2>6. CASE l \in {"bind", "newcall", "lookup", "find", "nodigits", "check"}
    BY <2>5, <2>6 DEF OpFacts, Update
  <2>7. CASE l \in {"accept", "getdtmf", "sorry", "play", "transfer", "hangup"}
    <3>1. i.op = "ask"
      BY <2>4, <2>7
    <3>2. \/ l = "accept" /\ i.arg = "accept"
          \/ l = "getdtmf" /\ i.arg = "getdtmf"
          \/ l = "transfer" /\ i.arg = "transfer"
          \/ l \in {"play", "sorry"} /\ i.arg = "play"
          \/ l = "hangup" /\ i.arg = "hangup"
      <4>1. \/ l = "accept" \/ l = "getdtmf" \/ l = "transfer"
            \/ l \in {"play", "sorry"} \/ l = "hangup"
        BY <2>7
      <4>2. QED
        BY <2>4, <4>1, Zenon
    <3>3. /\ i.op \notin Update /\ i.op # "newcall" /\ i.op # "find"
          /\ i.op # "bind" /\ i.op # "lookup" /\ i.op # "extcheck"
      BY <3>1 DEF Update
    <3>4. QED
      BY <3>2, <3>3, Zenon DEF OpFacts
  <2>8. QED
    BY <2>3, <2>6, <2>7
<1>3. QED
  BY <1>1, <1>2

LEMMA FactsOfLine ==
  ASSUME NEW c, NEW h, NEW l, LineFacts(c, h, l)
  PROVE  l \in Lines(c, h) \cup {"rest"}
<1>1. CASE h = "incall" /\ c \in Mobile
  BY <1>1 DEF LineFacts, Lines, LookupLines
<1>2. CASE h = "incall" /\ c \notin Mobile
  BY <1>2 DEF LineFacts, Lines
<1>3. CASE h = "dtmf"
  BY <1>3 DEF LineFacts, Lines, LookupLines
<1>4. CASE h \in {"stat", "playover", "agentend", "userend"}
  BY <1>4 DEF LineFacts, Lines
<1>5. QED
  BY <1>1, <1>2, <1>3, <1>4 DEF LineFacts

\* The next line belongs to the goroutine.
LEMMA AfterLine ==
  ASSUME NEW c, NEW h \in Handler, NEW l \in Lines(c, h)
  PROVE  After(c, h, l) \in Lines(c, h) \cup {"rest"}
<1> DEFINE m == After(c, h, l)
<1>1. LineFacts(c, h, l) /\ AfterFacts(c, h, l, m)
  BY LinesOf, AfterIs
<1> HIDE DEF m
<1>2. l # "rest"
  BY NotResting
<1>3. LineFacts(c, h, m)
  BY <1>1, <1>2 DEF LineFacts, AfterFacts
<1>4. QED
  BY <1>3, FactsOfLine DEF m

\* What a step of a goroutine starts from.
Does(c, h, l) ==
  /\ Goes(c, h, l) /\ up /\ l # "rest"
  /\ Head(todo[c][h]) \in First(l)
  /\ Tail(todo[c][h]) \in Code(c, h, After(c, h, l))
  /\ OpFacts(l, Head(todo[c][h]))
  /\ LineFacts(c, h, l) /\ AfterFacts(c, h, l, After(c, h, l))
  /\ After(c, h, l) \in Lines(c, h) \cup {"rest"}

LEMMA Doing ==
  ASSUME NEW c \in Calls, CallInv(c), NEW h \in Handler, NEW S, At(c, h, S)
  PROVE  \E l \in Lines(c, h) : Does(c, h, l)
<1>1. todo[c][h] # << >> /\ up
  BY DEF At
<1>2. PICK l \in Lines(c, h) : Goes(c, h, l)
  BY <1>1, Where
<1>3. /\ Head(todo[c][h]) \in First(l)
      /\ Tail(todo[c][h]) \in Code(c, h, After(c, h, l))
  BY <1>2, Listing DEF Goes, AtLine
<1>4. OpFacts(l, Head(todo[c][h])) /\ l # "rest"
  BY <1>3, OpIs, LinesOfAll, NotResting
<1>5. LineFacts(c, h, l) /\ AfterFacts(c, h, l, After(c, h, l))
  BY LinesOf, AfterIs
<1>6. QED
  BY <1>1, <1>2, <1>3, <1>4, <1>5, AfterLine DEF Does

\* Arrives, for a call that is not an update.
LEMMA Moves ==
  ASSUME TypeOK, BillInv, NEW c \in Calls, NEW h \in Handler,
         NEW l \in Lines(c, h), Does(c, h, l),
         Head(todo[c][h]).op \notin Update,
         NEW m \in Lines(c, h) \cup {"rest"}, NEW s \in Code(c, h, m),
         Become(c, h, s), UNCHANGED <<up, val, billVars>>,
         Sound(c, phase'[c], endedBy'[c], talked', h, m, callList'[c])
  PROVE  CallInv(c)'
<1>1. Goes(c, h, l) /\ up'
  BY DEF Does
<1>2. val[c][h] = NoCall
  BY <1>1 DEF Goes, Fresh
<1>3. val' = [val EXCEPT ![c][h] = NoCall]
  BY <1>2 DEF TypeOK
<1>4. QED
  BY <1>1, <1>3, Arrives DEF billVars, sqlVars

LEMMA CopyOutSerial ==
  ASSUME TypeOK, BillInv, NEW c \in Calls, CallInv(c), NEW h \in Handler,
         CopyOut(c, h)
  PROVE  CallInv(c)'
<1> DEFINE i == Head(todo[c][h])
           R == \/ callList[c] = NoCall
                \/ i.op = "result" /\ callList[c].result # ""
<1>0. /\ val[c][h] = NoCall /\ i.op \in Update /\ up /\ up'
      /\ UNCHANGED <<callList, billPc, billCall, rows, doubt>>
      /\ UNCHANGED <<phase, endedBy, talked>>
  BY DEF CopyOut, At, listVars, billVars, sqlVars, platformVars
<1>1. PICK l \in Lines(c, h) : Does(c, h, l)
  BY Doing DEF CopyOut
<1>2. l \in UpdateLines /\ (i.op = "result" => l \in ResultLines)
  BY <1>0, <1>1, FirstCall, CallTyped DEF OpFacts, Does
<1>3. CASE R
  <2>1. Proceed(c, h) /\ UNCHANGED val
    BY <1>3 DEF CopyOut, ResultIsKnown
  <2>2. Sound(c, phase[c], endedBy[c], talked, h, After(c, h, l), callList[c])
    BY <1>1, <1>2, <1>3, SkipSound DEF Goes, Does
  <2>3. val' = [val EXCEPT ![c][h] = NoCall]
    BY <1>0, <2>1 DEF TypeOK
  <2>4. QED
    BY <1>0, <1>1, <2>1, <2>2, <2>3, Arrives DEF Does, Proceed
<1>4. CASE ~R
  <2>1. val' = [val EXCEPT ![c][h] = callList[c]] /\ UNCHANGED todo
    BY <1>4 DEF CopyOut, ResultIsKnown
  <2>2. /\ val'[c][h] = callList'[c]
        /\ \A g \in Handler \ {h} : val'[c][g] = val[c][g]
    BY <1>0, <2>1 DEF TypeOK
  <2>3. AtLine(c, h, l)'
    BY <1>0, <1>1, <2>1 DEF Does, Goes, AtLine
  <2>4. Fresh(c, h, l)'
    BY <1>0, <1>1, <1>4, <2>1, <2>2 DEF Does, Goes, Fresh
  <2>5. Goes(c, h, l)'
    BY <1>0, <1>1, <2>3, <2>4 DEF Does, Goes
  <2>6. Bills(c)'
    BY <1>0, <1>1, NotBilled, UnbilledBills DEF Does
  <2>7. QED
    BY <2>5, <2>6 DEF CallInv
<1>5. QED
  BY <1>3, <1>4

LEMMA StoreBackSerial ==
  ASSUME TypeOK, BillInv, NEW c \in Calls, CallInv(c), NEW h \in Handler,
         StoreBack(c, h)
  PROVE  CallInv(c)'
<1> DEFINE i == Head(todo[c][h])
           r == callList[c]
           w == Applied(i, r)
<1>0. /\ val[c][h] # NoCall /\ i.op \in Update /\ up /\ up' /\ Proceed(c, h)
      /\ callList' = [callList EXCEPT ![c] = Applied(i, val[c][h])]
      /\ val' = [val EXCEPT ![c][h] = NoCall]
      /\ UNCHANGED <<billPc, rows, doubt, phase, endedBy, talked>>
  BY DEF StoreBack, At, billVars, sqlVars, platformVars
<1>1. PICK l \in Lines(c, h) : Does(c, h, l)
  BY Doing DEF StoreBack
<1>2. /\ l \in UpdateLines /\ CallAt(l, i) /\ i \in Instr
      /\ (i.op = "result" <=> l \in ResultLines)
  BY <1>0, <1>1, FirstCall, CallTyped, CallInstr DEF OpFacts, Does
<1>3. val[c][h] = r /\ (i.op = "result" => r.result = "")
  BY <1>0, <1>1 DEF Does, Goes, Fresh
<1>4. r \in CallInfo /\ r # NoCall
  BY <1>0, <1>3 DEF TypeOK
<1>5. w \in CallInfo /\ w # NoCall
  BY <1>0, <1>2, <1>4, AppliedTyped, NoCallAssumption
<1>6. Updates(l, r, w)
  BY <1>2, <1>3, <1>4, <1>5, AppliedEffect DEF Updates
<1>7. callList'[c] = w
  BY <1>0, <1>3 DEF TypeOK
<1>8. Sound(c, phase[c], endedBy[c], talked, h, After(c, h, l), w)
  BY <1>1, <1>6, UpdateSound DEF Goes, Does
<1>9. QED
  BY <1>0, <1>1, <1>7, <1>8, Arrives DEF Does, Proceed

LEMMA InNewCallSerial ==
  ASSUME TypeOK, BillInv, NEW c \in Calls, CallInv(c), NEW h \in Handler,
         InNewCall(c, h)
  PROVE  CallInv(c)'
<1> DEFINE i == Head(todo[c][h])
<1>0. /\ i.op = "newcall" /\ Proceed(c, h) /\ UNCHANGED <<up, val, billVars>>
      /\ callList' = [callList EXCEPT ![c] = NewCall]
      /\ UNCHANGED <<phase, endedBy, talked>>
  BY DEF InNewCall, At, platformVars
<1>1. PICK l \in Lines(c, h) : Does(c, h, l)
  BY Doing DEF InNewCall
<1>2. l = "newcall"
  BY <1>0, <1>1 DEF OpFacts, Does
<1>3. NewCall \in CallInfo
  BY DEF NewCall, CallInfo, CallStatus, Stamp, Result
<1>4. callList'[c] = NewCall
  BY <1>0 DEF TypeOK
<1>5. Sound(c, phase[c], endedBy[c], talked, h, After(c, h, l), NewCall)
  BY <1>1, <1>2, <1>3, NewCallSound, NoCallAssumption DEF Goes, Does
<1>6. i.op \notin Update
  BY <1>0 DEF Update
<1>7. QED
  BY <1>0, <1>1, <1>4, <1>5, <1>6, Moves DEF Does, Proceed

LEMMA FindCallSerial ==
  ASSUME TypeOK, BillInv, NEW c \in Calls, CallInv(c), NEW h \in Handler,
         FindCall(c, h)
  PROVE  CallInv(c)'
<1> DEFINE i == Head(todo[c][h])
<1>0. /\ i.op = "find" /\ UNCHANGED <<up, callList, val, billVars>>
      /\ UNCHANGED <<phase, endedBy, talked>>
  BY DEF FindCall, At, listVars, platformVars
<1>1. PICK l \in Lines(c, h) : Does(c, h, l)
  BY Doing DEF FindCall
<1>2. l \in {"find", "nodigits"} /\ i.op \notin Update
  BY <1>0, <1>1 DEF OpFacts, Does, Update
<1>3. CASE callList[c] = NoCall
  <2>1. Sound(c, phase[c], endedBy[c], talked, h, "rest", callList[c])
    BY <1>1, <1>2, <1>3, FindSound DEF Goes, Does
  <2>2. Become(c, h, << >>) /\ << >> \in Code(c, h, "rest")
    BY <1>3 DEF FindCall, Code
  <2>3. QED
    BY <1>0, <1>1, <1>2, <2>1, <2>2, Moves
<1>4. CASE callList[c] # NoCall
  <2>1. Sound(c, phase[c], endedBy[c], talked, h, After(c, h, l), callList[c])
    BY <1>1, <1>2, <1>4, FindSound DEF Goes, Does
  <2>2. Proceed(c, h)
    BY <1>4 DEF FindCall
  <2>3. QED
    BY <1>0, <1>1, <1>2, <2>1, <2>2, Moves DEF Does, Proceed
<1>5. QED
  BY <1>3, <1>4

LEMMA BindSerial ==
  ASSUME TypeOK, BillInv, NEW c \in Calls, CallInv(c), NEW h \in Handler,
         ChangeBindNumber(c, h)
  PROVE  CallInv(c)'
<1> DEFINE i == Head(todo[c][h])
<1>0. /\ i.op = "bind" /\ UNCHANGED <<up, callList, val, billVars>>
      /\ UNCHANGED <<phase, endedBy, talked>>
  BY DEF ChangeBindNumber, At, listVars, platformVars
<1>1. PICK l \in Lines(c, h) : Does(c, h, l)
  BY Doing DEF ChangeBindNumber
<1>2. l = "bind" /\ i.op \notin Update
  BY <1>0, <1>1 DEF OpFacts, Does, Update
<1>3. /\ Sound(c, phase[c], endedBy[c], talked, h, After(c, h, l), callList[c])
      /\ Sound(c, phase[c], endedBy[c], talked, h, "play", callList[c])
  BY <1>1, <1>2, BindSound DEF Goes, Does
<1>4. CASE Proceed(c, h)
  BY <1>0, <1>1, <1>2, <1>3, <1>4, Moves DEF Does, Proceed
<1>5. CASE Become(c, h, <<Play>>)
  <2>1. <<Play>> \in Code(c, h, "play")
    BY DEF Code
  <2>2. LineFacts(c, h, "play")
    BY <1>1, <1>2 DEF Does, LineFacts
  <2>3. QED
    BY <1>0, <1>1, <1>2, <1>3, <1>5, <2>1, <2>2, FactsOfLine, Moves
<1>6. QED
  BY <1>4, <1>5 DEF ChangeBindNumber

LEMMA Pair ==
  \A a, b : <<a>> \o <<b>> = <<a, b>>
<1> TAKE a, b
<1> DEFINE p == <<a>> \o <<b>>
<1>1. /\ p \in Seq({a, b}) /\ Len(p) = 2 /\ p[1] = a /\ p[2] = b
  OBVIOUS
<1> HIDE DEF p
<1>2. p = <<a, b>>
  BY <1>1
<1>3. QED
  BY <1>2 DEF p

LEMMA PairsJoined ==
  \A a, b \in Instr : \A X \in Seq(Instr) :
    <<a>> \o (<<b>> \o X) = <<a, b>> \o X
<1> TAKE a \in Instr, b \in Instr
<1> TAKE X \in Seq(Instr)
<1>1. <<a>> \in Seq(Instr) /\ <<b>> \in Seq(Instr)
  OBVIOUS
<1>2. <<a>> \o <<b>> = <<a, b>>
  BY Pair
<1>3. (<<a>> \o <<b>>) \o X = <<a>> \o (<<b>> \o X)
  BY <1>1, ConcatAssociative
<1>4. QED
  BY <1>2, <1>3

LEMMA ExtCheckSerial ==
  ASSUME TypeOK, BillInv, NEW c \in Calls, CallInv(c), NEW h \in Handler,
         ExtCheck(c, h)
  PROVE  CallInv(c)'
<1> DEFINE i == Head(todo[c][h])
           dialled == callList[c] # NoCall /\ callList[c].dtmf = "ext"
           q == IF dialled THEN "HANGUP" ELSE "NOEXT_USER_HANGUP"
           m == IF dialled THEN "gaveup" ELSE "nodial"
           X == IF h = "agentend" THEN <<Do("ask", "hangup")>> ELSE << >>
           s == <<Do("result", q)>> \o Tail(todo[c][h])
<1>0. /\ i.op = "extcheck" /\ UNCHANGED <<up, callList, val, billVars>>
      /\ Become(c, h, s) /\ UNCHANGED <<phase, endedBy, talked>>
  BY DEF ExtCheck, At, listVars, platformVars
<1>1. PICK l \in Lines(c, h) : Does(c, h, l)
  BY Doing DEF ExtCheck
<1>2. l = "check" /\ i.op \notin Update
  BY <1>0, <1>1 DEF OpFacts, Does, Update
<1>3. m \in Lines(c, h)
  <2>1. LineFacts(c, h, m) /\ m # "rest"
    BY <1>1, <1>2 DEF Does, LineFacts
  <2>2. QED
    BY <2>1, FactsOfLine
<1>4. s \in Code(c, h, m)
  <2>1. /\ Do("end", "") \in Instr /\ Do("result", q) \in Instr
        /\ X \in Seq(Instr)
    <3>1. Do("end", "") \in Instr /\ Do("ask", "hangup") \in Instr
      BY DEF Do, Instr, Request
    <3>2. Do("result", q) \in Instr
      BY DEF Do, Instr, Result
    <3>3. QED
      BY <3>1, <3>2, Tuples
  <2>2. Tail(todo[c][h]) = <<Do("end", "")>> \o X
    <3>1. Tail(todo[c][h]) \in Code(c, h, "end")
      BY <1>1, <1>2 DEF Does, AfterFacts
    <3>2. QED
      BY <3>1 DEF Code, HangsUp
  <2> HIDE DEF X
  <2>3. s = <<Do("result", q), Do("end", "")>> \o X
    <3> DEFINE a == Do("result", q)
               b == Do("end", "")
    <3>1. a \in Instr /\ b \in Instr
      BY <2>1
    <3> HIDE DEF a, b
    <3>2. <<a>> \o (<<b>> \o X) = <<a, b>> \o X
      BY <2>1, <3>1, PairsJoined, Zenon
    <3>3. s = <<a>> \o Tail(todo[c][h]) /\ Tail(todo[c][h]) = <<b>> \o X
      BY <2>2 DEF a, b
    <3>4. s = <<a, b>> \o X
      BY <3>2, <3>3, Zenon
    <3>5. QED
      BY <3>4, Zenon DEF a, b
  <2> HIDE DEF s
  <2>4. CASE dialled
    <3>1. Code(c, h, "gaveup") =
            {<<Do("result", "HANGUP"), Do("end", "")>> \o X}
      BY DEF Code, HangsUp, X
    <3>2. QED
      BY <2>3, <2>4, <3>1
  <2>5. CASE ~dialled
    <3>1. Code(c, h, "nodial") =
            {<<Do("result", "NOEXT_USER_HANGUP"), Do("end", "")>> \o X}
      BY DEF Code, HangsUp, X
    <3>2. QED
      BY <2>3, <2>5, <3>1
  <2>6. QED
    BY <2>4, <2>5
<1>5. Sound(c, phase[c], endedBy[c], talked, h, m, callList[c])
  <2>1. callList[c] # NoCall => callList[c].dtmf \in {"", "ext"}
    BY DEF TypeOK, CallInfo
  <2> DEFINE Snd(k) ==
               Sound(c, phase[c], endedBy[c], talked, h, k, callList[c])
  <2>2. /\ dialled => Snd("gaveup")
        /\ (callList[c] # NoCall => callList[c].dtmf = "") => Snd("nodial")
    BY <1>1, <1>2, CheckSound DEF Goes, Does
  <2> HIDE DEF Snd
  <2>3. Snd(m)
    BY <2>1, <2>2
  <2>4. QED
    BY <2>3 DEF Snd
<1> HIDE DEF s, m
<1>6. QED
  BY <1>0, <1>1, <1>2, <1>3, <1>4, <1>5, Moves

LEMMA LookupSerial ==
  ASSUME TypeOK, BillInv, NEW c \in Calls, CallInv(c), NEW h \in Handler,
         GetServiceNum(c, h)
  PROVE  CallInv(c)'
<1> DEFINE i == Head(todo[c][h])
<1>0. /\ i.op = "lookup" /\ UNCHANGED <<up, callList, val, billVars>>
      /\ UNCHANGED <<phase, endedBy, talked>>
  BY DEF GetServiceNum, At, listVars, platformVars
<1>1. PICK l \in Lines(c, h) : Does(c, h, l)
  BY Doing DEF GetServiceNum
<1>2. l = "lookup" /\ i.op \notin Update
  BY <1>0, <1>1 DEF OpFacts, Does, Update
<1>3. /\ Sound(c, phase[c], endedBy[c], talked, h, "nobody", callList[c])
      /\ Sound(c, phase[c], endedBy[c], talked, h, "agent", callList[c])
  BY <1>1, <1>2, LookupSound DEF Goes, Does
<1>4. "nobody" \in Lines(c, h) /\ "agent" \in Lines(c, h)
  <2>1. LineFacts(c, h, "nobody") /\ LineFacts(c, h, "agent")
    BY <1>1, <1>2 DEF Does, LineFacts
  <2>2. QED
    BY <2>1, FactsOfLine
<1>5. PICK s \in AfterLookup : Become(c, h, s)
  BY DEF GetServiceNum
<1>6. s \in Code(c, h, "nobody") \/ s \in Code(c, h, "agent")
  BY DEF AfterLookup, Code, Alike
<1>7. QED
  BY <1>0, <1>1, <1>2, <1>3, <1>4, <1>5, <1>6, Moves

\* What a request may do to its call, and to no other.
Asked(c, q, ok) ==
  /\ \/ /\ ~ok /\ phase'[c] = phase[c] /\ endedBy'[c] = endedBy[c]
     \/ /\ phase[c] \in From(q) /\ phase'[c] = Goal(q, phase[c])
        /\ endedBy'[c] = IF q = "hangup" THEN "server" ELSE endedBy[c]
  /\ talked' = talked
  /\ \A d \in Calls \ {c} :
       phase'[d] = phase[d] /\ endedBy'[d] = endedBy[d]

LEMMA AskIs ==
  ASSUME TypeOK, NEW c \in Calls, NEW q, NEW ok \in BOOLEAN, Ask(q, c, ok)
  PROVE  Asked(c, q, ok)
<1>1. CASE ~ok /\ UNCHANGED platformVars
  BY <1>1 DEF platformVars, Asked
<1>2. CASE Carry(q, c)
  BY <1>2 DEF Carry, Asked, TypeOK, PlatformTypeOK
<1>3. QED
  BY <1>1, <1>2 DEF Ask

LEMMA SendRequestSerial ==
  ASSUME TypeOK, BillInv, NEW c \in Calls, CallInv(c), NEW h \in Handler,
         SendRequest(c, h)
  PROVE  CallInv(c)'
<1> DEFINE i == Head(todo[c][h])
<1>0. i.op = "ask" /\ UNCHANGED <<up, callList, val, billVars>>
  BY DEF SendRequest, At, listVars
<1>1. PICK l \in Lines(c, h) : Does(c, h, l)
  BY Doing DEF SendRequest
<1> DEFINE m == After(c, h, l)
           Snd(p, e, k) == Sound(c, p, e, talked, h, k, callList[c])
<1>2. PICK ok \in BOOLEAN :
        /\ Asked(c, i.arg, ok)
        /\ CASE i.arg = "accept" /\ ~ok   -> Become(c, h, << >>)
             [] i.arg = "transfer" /\ ~ok ->
                  Become(c, h, <<Do("result", "OTHER"), Play>>)
             [] OTHER                     -> Proceed(c, h)
  BY AskIs DEF SendRequest
<1>3. i.op \notin Update /\ talked' = talked /\ callList'[c] = callList[c]
  BY <1>0, <1>2 DEF Update, Asked
<1>4. /\ m \in Lines(c, h) \cup {"rest"}
      /\ Tail(todo[c][h]) \in Code(c, h, m)
      /\ << >> \in Code(c, h, "rest")
      /\ <<Do("result", "OTHER"), Play>> \in Code(c, h, "other")
  BY <1>1 DEF Does, Code
<1>5. ASSUME NEW k \in Lines(c, h) \cup {"rest"}, NEW s \in Code(c, h, k),
             Become(c, h, s), Snd(phase'[c], endedBy'[c], k)
      PROVE  CallInv(c)'
  BY <1>0, <1>1, <1>3, <1>5, Moves
<1>6. /\ LineFacts(c, h, l) /\ AfterFacts(c, h, l, m)
      /\ Snd(phase[c], endedBy[c], l)
  BY <1>1 DEF Does, Goes
<1> HIDE DEF m, Snd
<1>7. CASE l = "accept" /\ i.arg = "accept"
  <2>1. /\ Snd(phase[c], endedBy[c], "rest")
        /\ phase[c] = "offered" => Snd("open", endedBy[c], m)
        /\ phase[c] = "offered" => Snd("open", endedBy[c], "rest")
    BY <1>6, <1>7, AcceptSound DEF Snd
  <2>2. CASE ok
    <3>1. phase'[c] = "open" /\ phase[c] = "offered" /\ endedBy'[c] = endedBy[c]
      BY <1>2, <1>7, <2>2 DEF Asked, From, Goal
    <3>2. QED
      BY <1>2, <1>4, <1>5, <1>7, <2>1, <2>2, <3>1 DEF Proceed
  <2>3. CASE ~ok
    <3>1. /\ endedBy'[c] = endedBy[c]
          /\ \/ phase'[c] = phase[c]
             \/ phase'[c] = "open" /\ phase[c] = "offered"
      BY <1>2, <1>7, <2>3 DEF Asked, From, Goal
    <3>2. Snd(phase'[c], endedBy'[c], "rest")
      BY <2>1, <3>1
    <3>3. QED
      BY <1>2, <1>4, <1>5, <1>7, <2>3, <3>2
  <2>4. QED
    BY <2>2, <2>3
<1>8. CASE l = "transfer" /\ i.arg = "transfer"
  <2>1. /\ Snd(phase[c], endedBy[c], "other")
        /\ phase[c] = "open" => Snd("dialing", endedBy[c], m)
        /\ phase[c] = "open" => Snd("dialing", endedBy[c], "other")
    BY <1>6, <1>8, TransferSound DEF Snd
  <2>2. CASE ok
    <3>1. phase'[c] = "dialing" /\ phase[c] = "open" /\ endedBy'[c] = endedBy[c]
      BY <1>2, <1>8, <2>2 DEF Asked, From, Goal
    <3>2. QED
      BY <1>2, <1>4, <1>5, <1>8, <2>1, <2>2, <3>1 DEF Proceed
  <2>3. CASE ~ok
    <3>1. /\ endedBy'[c] = endedBy[c]
          /\ \/ phase'[c] = phase[c]
             \/ phase'[c] = "dialing" /\ phase[c] = "open"
      BY <1>2, <1>8, <2>3 DEF Asked, From, Goal
    <3>2. Snd(phase'[c], endedBy'[c], "other")
      BY <2>1, <3>1
    <3>3. "other" \in Lines(c, h)
      <4>1. LineFacts(c, h, "other")
        BY <1>6, <1>8 DEF LineFacts
      <4>2. QED
        BY <4>1, FactsOfLine
    <3>4. QED
      BY <1>2, <1>4, <1>5, <1>8, <2>3, <3>2, <3>3
  <2>4. QED
    BY <2>2, <2>3
<1>9. CASE \/ l = "getdtmf" /\ i.arg = "getdtmf"
           \/ l \in {"play", "sorry"} /\ i.arg = "play"
           \/ l = "hangup" /\ i.arg = "hangup"
  <2>1. Proceed(c, h)
    BY <1>2, <1>9
  <2>2. Snd(phase'[c], endedBy'[c], m)
    <3>1. CASE l = "getdtmf" /\ i.arg = "getdtmf"
      <4>1. /\ Snd(phase[c], endedBy[c], m)
            /\ phase[c] = "open" => Snd("menu", endedBy[c], m)
        BY <1>6, <3>1, MenuSound DEF Snd
      <4>2. /\ endedBy'[c] = endedBy[c]
            /\ \/ phase'[c] = phase[c]
               \/ phase'[c] = "menu" /\ phase[c] = "open"
        BY <1>2, <3>1 DEF Asked, From, Goal
      <4>3. QED
        BY <4>1, <4>2
    <3>2. CASE l \in {"play", "sorry"} /\ i.arg = "play"
      <4>1. /\ Snd(phase[c], endedBy[c], m)
            /\ phase[c] \in {"open", "agentGone"} =>
                 Snd("playing", endedBy[c], m)
        BY <1>6, <3>2, PlaySound DEF Snd
      <4>2. /\ endedBy'[c] = endedBy[c]
            /\ \/ phase'[c] = phase[c]
               \/ phase'[c] = "playing" /\ phase[c] \in {"open", "agentGone"}
        BY <1>2, <3>2 DEF Asked, From, Goal
      <4>3. QED
        BY <4>1, <4>2
    <3>3. CASE l = "hangup" /\ i.arg = "hangup"
      <4>1. /\ Snd(phase[c], endedBy[c], m)
            /\ phase[c] = "talking" => Snd("releasedRec", "server", m)
            /\ phase[c] \in OnLine \ {"talking"} =>
                 Snd("released", "server", m)
        BY <1>6, <3>3, HangUpSound DEF Snd
      <4>2. \/ phase'[c] = phase[c] /\ endedBy'[c] = endedBy[c]
            \/ /\ phase[c] \in OnLine /\ endedBy'[c] = "server"
               /\ phase'[c] = IF phase[c] = "talking" THEN "releasedRec"
                                                      ELSE "released"
        BY <1>2, <3>3 DEF Asked, From, Goal
      <4>3. QED
        BY <4>1, <4>2
    <3>4. QED
      BY <1>9, <3>1, <3>2, <3>3
  <2>3. QED
    BY <1>4, <1>5, <2>1, <2>2 DEF Proceed
<1>10. QED
  BY <1>0, <1>1, <1>7, <1>8, <1>9 DEF Does, OpFacts

\* A goroutine works on its own call only.
LEMMA StepElsewhere ==
  ASSUME TypeOK, NEW c \in Calls, NEW h \in Handler, Step(c, h),
         ~GetServiceNumPanics(c, h)
  PROVE  Elsewhere(c) /\ UNCHANGED <<up, overlapped>>
<1>0. UNCHANGED <<up, overlapped>>
  BY DEF Step, CopyOut, StoreBack, InNewCall, FindCall, ExtCheck,
         ChangeBindNumber, GetServiceNum, SendRequest, listVars
<1> SUFFICES ASSUME NEW d \in Calls \ {c}
             PROVE  Same(d)
  BY <1>0 DEF Elsewhere
<1>1. \A s : Become(c, h, s) => todo'[d] = todo[d]
  BY DEF Become, TypeOK
<1>2. CASE CopyOut(c, h)
  BY <1>1, <1>2
  DEF CopyOut, Proceed, Same, listVars, billVars, platformVars, TypeOK, sqlVars
<1>3. CASE StoreBack(c, h)
  BY <1>1, <1>3
  DEF StoreBack, Proceed, Same, billVars, platformVars, TypeOK, sqlVars
<1>4. CASE InNewCall(c, h)
  BY <1>1, <1>4
  DEF InNewCall, Proceed, Same, billVars, platformVars, TypeOK, sqlVars
<1>5. CASE FindCall(c, h)
  BY <1>1, <1>5
  DEF FindCall, Proceed, Same, listVars, billVars, platformVars, sqlVars
<1>6. CASE ExtCheck(c, h)
  BY <1>1, <1>6 DEF ExtCheck, Same, listVars, billVars, platformVars, sqlVars
<1>7. CASE ChangeBindNumber(c, h)
  BY <1>1, <1>7
  DEF ChangeBindNumber, Proceed, Same, listVars, billVars, platformVars,
      sqlVars
<1>8. CASE GetServiceNum(c, h)
  BY <1>1, <1>8
  DEF GetServiceNum, Same, listVars, billVars, platformVars, sqlVars
<1>9. CASE SendRequest(c, h)
  <2> DEFINE q == Head(todo[c][h]).arg
  <2>1. PICK ok \in BOOLEAN :
          /\ Ask(q, c, ok)
          /\ CASE q = "accept" /\ ~ok   -> Become(c, h, << >>)
               [] q = "transfer" /\ ~ok ->
                    Become(c, h, <<Do("result", "OTHER"), Play>>)
               [] OTHER                 -> Proceed(c, h)
    BY <1>9 DEF SendRequest
  <2>2. Asked(c, q, ok)
    BY <2>1, AskIs
  <2>3. todo'[d] = todo[d]
    <3>1. CASE q = "accept" /\ ~ok
      BY <1>1, <2>1, <3>1
    <3>2. CASE q = "transfer" /\ ~ok
      BY <1>1, <2>1, <3>2
    <3>3. CASE ~(q = "accept" /\ ~ok) /\ ~(q = "transfer" /\ ~ok)
      BY <1>1, <2>1, <3>3 DEF Proceed
    <3>4. QED
      BY <3>1, <3>2, <3>3
  <2>4. QED
    BY <1>9, <2>2, <2>3
    DEF SendRequest, Asked, Same, listVars, billVars, sqlVars
<1>10. QED
  BY <1>2, <1>3, <1>4, <1>5, <1>6, <1>7, <1>8, <1>9 DEF Step

------------------------------------------------------------------------------
(* The end of the process.                                                 *)

\* Every call loses its goroutine and its record; what is stored stays true.
LEMMA HaltLeaves ==
  ASSUME NEW c \in Calls, Bills(c), Halt, NEW h \in Handler,
         Sound(c, phase'[c], endedBy'[c], talked', h, "rest", NoCall),
         endedBy'[c] = endedBy[c], (c \in talked') = (c \in talked)
  PROVE  CallInv(c)'
<1>1. /\ callList'[c] = NoCall /\ billPc'[c] = "idle"
      /\ rows'[c] = rows[c] /\ doubt'[c] = doubt[c]
      /\ \A g \in Handler : todo'[c][g] = << >> /\ val'[c][g] = NoCall
  BY DEF Halt, NoGoroutines, NoCopies, sqlVars
<1>2. << >> \in Code(c, h, "rest")
  BY DEF Code
<1>3. Goes(c, h, "rest")'
  BY <1>1, <1>2 DEF Goes, AtLine, Fresh
<1>4. Bills(c)'
  <2>1. \A b \in Rows(c) \cup Range(doubt[c]) :
          BillIsTrue(c, endedBy'[c], talked', b)
    BY BillCongruent DEF Bills
  <2>2. (Rows(c))' = Rows(c)
    BY <1>1 DEF Rows
  <2>3. QED
    BY <1>1, <2>1, <2>2 DEF Bills
<1>5. QED
  BY <1>3, <1>4 DEF CallInv

LEMMA HaltSerial ==
  ASSUME SerialInv, Halt, UNCHANGED platformVars
  PROVE  SerialInv'
<1> SUFFICES ASSUME NEW c \in Calls \ overlapped
             PROVE  CallInv(c)'
  BY DEF SerialInv, Halt
<1>1. PICK h \in Handler :
          \E l \in Lines(c, h) \cup {"rest"} : Goes(c, h, l)
  BY DEF SerialInv, CallInv
<1>2. PICK l \in Lines(c, h) \cup {"rest"} : Goes(c, h, l)
  BY <1>1
<1>3. Sound(c, phase[c], endedBy[c], talked, h, "rest", NoCall)
  BY <1>2, LinesOf, LossSound DEF Goes
<1>4. QED
  BY <1>3, HaltLeaves DEF SerialInv, CallInv, platformVars

LEMMA StepSerial ==
  ASSUME TypeOK, BillInv, SerialInv, NEW c \in Calls, NEW h \in Handler,
         Step(c, h)
  PROVE  SerialInv'
<1>1. CASE GetServiceNumPanics(c, h)
  BY <1>1, HaltSerial DEF GetServiceNumPanics
<1>2. CASE ~GetServiceNumPanics(c, h)
  <2>1. c \in overlapped \/ CallInv(c)
    BY DEF SerialInv
  <2>2. CallInv(c) => CallInv(c)'
    BY <1>2, CopyOutSerial, StoreBackSerial, InNewCallSerial, FindCallSerial,
       ExtCheckSerial, BindSerial, LookupSerial, SendRequestSerial DEF Step
  <2>3. QED
    BY <1>2, <2>1, <2>2, StepElsewhere, OthersKeep
<1>3. QED
  BY <1>1, <1>2

------------------------------------------------------------------------------
(* The steps of billMsgProc.  They meet a billed call, whose goroutines are *)
(* done.                                                                    *)

LEMMA BilledRests ==
  ASSUME BillInv, NEW c \in Calls, CallInv(c), billPc[c] # "idle"
  PROVE  \E h \in Handler : Goes(c, h, "rest") /\ phase[c] = "billed"
<1>1. phase[c] = "billed"
  BY DEF BillInv, BillInOrder
<1>2. PICK h \in Handler :
          \E l \in Lines(c, h) \cup {"rest"} : Goes(c, h, l)
  BY DEF CallInv
<1>3. PICK l \in Lines(c, h) \cup {"rest"} : Goes(c, h, l)
  BY <1>2
<1>4. l = "rest"
  BY <1>1, <1>3, NotBilled
<1>5. QED
  BY <1>1, <1>3, <1>4

LEMMA BillStepElsewhere ==
  ASSUME TypeOK, NEW c \in Calls, BillStep(c), ~Bill2SqlPanics(c)
  PROVE  /\ Elsewhere(c)
         /\ UNCHANGED <<up, threadVars, overlapped, platformVars>>
<1>1. UNCHANGED <<up, threadVars, overlapped, platformVars>>
  BY DEF BillStep, BillCopyOut, BillStoreBack, WaitForSound, BillFind,
         InsertLost, Bill2Sql, PostBill, DelCall, listVars
<1>2. \A d \in Calls \ {c} :
        /\ callList'[d] = callList[d] /\ billPc'[d] = billPc[d]
        /\ billCall'[d] = billCall[d]
        /\ rows'[d] = rows[d] /\ doubt'[d] = doubt[d]
  BY DEF BillStep, BillCopyOut, BillStoreBack, WaitForSound, BillFind,
         InsertLost, Bill2Sql, PostBill, DelCall, listVars, BillTo, Local,
         TypeOK, sqlVars
<1>3. QED
  BY <1>1, <1>2 DEF Elsewhere, Same, threadVars, platformVars

LEMMA BillStepSound ==
  ASSUME TypeOK, BillInv, NEW c \in Calls, CallInv(c), BillStep(c),
         ~Bill2SqlPanics(c)
  PROVE  CallInv(c)'
<1> DEFINE r == callList[c]
<1>1. billPc[c] # "idle"
  BY DEF BillStep, BillCopyOut, BillStoreBack, WaitForSound, BillFind,
         InsertLost, Bill2Sql, PostBill, DelCall, BillAt
<1>2. PICK h \in Handler : Goes(c, h, "rest") /\ phase[c] = "billed"
  BY <1>1, BilledRests
<1>3. /\ UNCHANGED <<up, todo, val, phase, endedBy, talked>>
      /\ Sound(c, "billed", endedBy[c], talked, h, "rest", r)
      /\ AtLine(c, h, "rest")' /\ \A g \in Handler : val'[c][g] = NoCall
  <2>1. UNCHANGED <<up, todo, val, phase, endedBy, talked>>
    BY BillStepElsewhere DEF threadVars, platformVars
  <2>2. QED
    BY <1>2, <2>1, NoCopyAtRest DEF Goes, AtLine
<1>4. ASSUME Sound(c, "billed", endedBy[c], talked, h, "rest", callList'[c]),
             Bills(c)'
      PROVE  CallInv(c)'
  BY <1>2, <1>3, <1>4 DEF CallInv, Goes, Fresh
<1>5. Bills(c) /\ BillInOrder(c) /\ (r = NoCall \/ r \in CallInfo)
  BY DEF CallInv, BillInv, TypeOK
<1> DEFINE Kept == rows' = rows /\ doubt' = doubt
<1>6. CASE BillCopyOut(c)
  <2>1. /\ callList' = callList /\ Kept /\ billCall'[c] = r
        /\ billPc'[c] \in {"idle", "bill_w"}
    BY <1>6 DEF BillCopyOut, BillTo, Local, listVars, TypeOK, sqlVars
  <2>2. Bills(c)'
    BY <1>3, <1>5, <2>1 DEF Bills, Rows
  <2>3. QED
    BY <1>3, <1>4, <2>1, <2>2
<1>7. CASE BillStoreBack(c)
  <2>1. billCall[c] = r /\ r # NoCall /\ r \in CallInfo
    BY <1>5, <1>7 DEF BillStoreBack, BillAt, Bills, BillInOrder
  <2>2. UpdateCallBill(r) \in CallInfo
    BY <2>1 DEF UpdateCallBill, CallInfo, Stamp
  <2>3. /\ Sound(c, "billed", endedBy[c], talked, h, "rest", UpdateCallBill(r))
        /\ UpdateCallBill(r).bill = "set" /\ UpdateCallBill(r) # NoCall
    BY <1>3, <2>1, <2>2, ChargeSound, NoCallAssumption
  <2>4. /\ callList'[c] = UpdateCallBill(r) /\ Kept
        /\ billPc'[c] = "wait"
    BY <1>7, <2>1 DEF BillStoreBack, BillTo, TypeOK, sqlVars
  <2>5. Bills(c)'
    BY <1>3, <1>5, <2>3, <2>4 DEF Bills, Rows
  <2>6. QED
    BY <1>4, <2>3, <2>4, <2>5
<1>8. CASE WaitForSound(c)
  <2>1. /\ callList' = callList /\ Kept /\ billPc'[c] = "find"
        /\ billPc[c] = "wait" /\ CallInfoSoundReady(r)
    BY <1>8 DEF WaitForSound, BillAt, BillTo, listVars, TypeOK, sqlVars
  <2>2. Bills(c)'
    BY <1>3, <1>5, <2>1 DEF Bills, Rows
  <2>3. QED
    BY <1>3, <1>4, <2>1, <2>2
<1>9. CASE BillFind(c)
  <2>1. /\ r # NoCall /\ r.bill = "set" /\ CallInfoSoundReady(r)
        /\ r \in CallInfo
    BY <1>5, <1>9 DEF BillFind, BillAt, Bills
  <2>2. BillIsTrue(c, endedBy[c], talked, r)
    BY <1>3, <2>1, SoundBill
  <2>3. /\ callList' = callList /\ Kept /\ billPc'[c] = "store"
        /\ billCall'[c] = r
    BY <1>9, <2>1 DEF BillFind, BillTo, Local, listVars, TypeOK, sqlVars
  <2>4. Bills(c)'
    BY <1>3, <1>5, <2>2, <2>3 DEF Bills, Rows
  <2>5. QED
    BY <1>3, <1>4, <2>3, <2>4
<1>10. CASE Bill2Sql(c) \/ InsertLost(c)
  <2>1. /\ callList' = callList /\ billPc[c] = "store"
        /\ billPc'[c] \in {"store", "post"} /\ billCall' = billCall
        /\ \/ rows'[c] = Append(rows[c], billCall[c]) /\ doubt' = doubt
           \/ rows' = rows /\ doubt'[c] = Append(doubt[c], billCall[c])
    BY <1>10
    DEF Bill2Sql, InsertLost, BillAt, BillTo, listVars, TypeOK
  <2>2. /\ BillIsTrue(c, endedBy[c], talked, billCall[c])
        /\ billCall[c] \in CallInfo
        /\ rows[c] \in Seq(CallInfo) /\ doubt[c] \in Seq(CallInfo)
    BY <1>5, <2>1 DEF Bills, BillInOrder, TypeOK
  <2>3. (Rows(c))' \cup Range(doubt'[c]) \subseteq
          Rows(c) \cup Range(doubt[c]) \cup {billCall[c]}
    <3>1. /\ Range(Append(rows[c], billCall[c])) = Rows(c) \cup {billCall[c]}
          /\ Range(Append(doubt[c], billCall[c])) =
               Range(doubt[c]) \cup {billCall[c]}
      BY <2>2, Contents DEF Rows
    <3>2. (Rows(c))' = Range(rows'[c])
      BY DEF Rows
    <3>3. QED
      BY <2>1, <3>1, <3>2 DEF Rows
  <2>4. Bills(c)'
    BY <1>3, <1>5, <2>1, <2>2, <2>3 DEF Bills
  <2>5. QED
    BY <1>3, <1>4, <2>1, <2>4
<1>11. CASE PostBill(c)
  <2>1. /\ callList' = callList /\ Kept
        /\ billPc'[c] \in {"post", "del"}
    BY <1>11 DEF PostBill, BillTo, listVars, TypeOK, sqlVars
  <2>2. Bills(c)'
    BY <1>3, <1>5, <2>1 DEF Bills, Rows
  <2>3. QED
    BY <1>3, <1>4, <2>1, <2>2
<1>12. CASE DelCall(c)
  <2>1. callList'[c] = NoCall /\ Kept /\ billPc'[c] = "idle"
    BY <1>12 DEF DelCall, BillTo, TypeOK, sqlVars
  <2>2. Bills(c)'
    BY <1>3, <1>5, <2>1 DEF Bills, Rows
  <2>3. LineFacts(c, h, "rest")
    BY LinesOf
  <2>4. Sound(c, "billed", endedBy[c], talked, h, "rest", NoCall)
    BY <1>3, <2>3, LossSound
  <2>5. QED
    BY <1>4, <2>1, <2>2, <2>4
<1>13. QED
  BY <1>6, <1>7, <1>8, <1>9, <1>10, <1>11, <1>12 DEF BillStep

LEMMA BillStepSerial ==
  ASSUME TypeOK, BillInv, SerialInv, NEW c \in Calls, BillStep(c)
  PROVE  SerialInv'
<1>1. CASE Bill2SqlPanics(c)
  BY <1>1, HaltSerial DEF Bill2SqlPanics
<1>2. CASE ~Bill2SqlPanics(c)
  <2>1. c \in overlapped \/ CallInv(c)
    BY DEF SerialInv
  <2>2. CallInv(c) => CallInv(c)'
    BY <1>2, BillStepSound
  <2>3. QED
    BY <1>2, <2>1, <2>2, BillStepElsewhere, OthersKeep
<1>3. QED
  BY <1>1, <1>2

\* A late insert stores what was true when it was sent.
LEMMA LateInsertSerial ==
  ASSUME TypeOK, SerialInv, NEW c \in Calls, LateInsert(c)
  PROVE  SerialInv'
<1>1. /\ UNCHANGED <<up, callList, todo, val, billPc, billCall, overlapped>>
      /\ UNCHANGED <<phase, endedBy, talked>>
  BY DEF LateInsert, listVars, threadVars, platformVars
<1>2. Elsewhere(c)
  BY <1>1 DEF LateInsert, Elsewhere, Same, TypeOK
<1>3. ASSUME CallInv(c)
      PROVE  CallInv(c)'
  <2>1. /\ rows[c] \in Seq(CallInfo) /\ doubt[c] \in Seq(CallInfo)
        /\ doubt[c] # << >> /\ Head(doubt[c]) \in CallInfo
        /\ rows'[c] = Append(rows[c], Head(doubt[c]))
        /\ doubt'[c] = Tail(doubt[c])
    BY DEF LateInsert, TypeOK
  <2>2. (Rows(c))' \cup Range(doubt'[c]) \subseteq Rows(c) \cup Range(doubt[c])
    BY <2>1, Contents DEF Rows
  <2>3. Bills(c)'
    BY <1>1, <1>3, <2>2 DEF CallInv, Bills
  <2>4. PICK h \in Handler :
            \E l \in Lines(c, h) \cup {"rest"} : Goes(c, h, l)
    BY <1>3 DEF CallInv
  <2>5. PICK l \in Lines(c, h) \cup {"rest"} : Goes(c, h, l)
    BY <2>4
  <2>6. Goes(c, h, l)'
    BY <1>1, <2>5 DEF Goes, AtLine, Fresh
  <2>7. QED
    BY <2>3, <2>6 DEF CallInv
<1>4. QED
  BY <1>1, <1>2, <1>3, OthersKeep DEF SerialInv

------------------------------------------------------------------------------
(* The notifications.                                                      *)

\* What a party or a timer does concerns one call.
Alone(c) ==
  \A d \in Calls \ {c} :
    /\ phase'[d] = phase[d] /\ endedBy'[d] = endedBy[d]
    /\ (d \in talked') = (d \in talked)

\* History only grows, and a call that stays out of it had no goroutine when
\* this one was started.
LEMMA Lonely ==
  ASSUME NEW c \in Calls,
         \/ up /\ Started(c)
         \/ ~up /\ UNCHANGED overlapped
  PROVE  /\ overlapped \subseteq overlapped'
         /\ c \notin overlapped' => c \notin overlapped /\ (up => Running(c) = {})
BY DEF Started

LEMMA RestsBefore ==
  ASSUME SerialInv, NEW c \in Calls, NEW h \in Handler,
         NEW s, Notify(c, h, s), c \notin overlapped'
  PROVE  \E g \in Handler : Goes(c, g, "rest")
<1>1. CallInv(c) /\ (up => Running(c) = {})
  BY Lonely DEF Notify, SerialInv
<1>2. CASE up
  BY <1>1, <1>2, Idle DEF Running
<1>3. CASE ~up
  BY <1>1, <1>3, Down
<1>4. QED
  BY <1>2, <1>3

LEMMA NotifyElsewhere ==
  ASSUME TypeOK, NEW c \in Calls, NEW h \in Handler, NEW s, Notify(c, h, s),
         Alone(c)
  PROVE  Elsewhere(c) /\ up' = up /\ overlapped \subseteq overlapped'
<1>1. /\ UNCHANGED <<up, callList, val, billVars>>
      /\ \A d \in Calls \ {c} : todo'[d] = todo[d]
  BY DEF Notify, listVars, Become, TypeOK
<1>2. Elsewhere(c)
  BY <1>1 DEF Elsewhere, Same, Alone, billVars, sqlVars
<1>3. QED
  BY <1>1, <1>2, Lonely DEF Notify

\* A goroutine starts at its first line, or the notification is lost.
LEMMA Notified ==
  ASSUME TypeOK, BillInv, SerialInv, NEW c \in Calls, NEW h \in Handler,
         NEW g \in Handler, Goes(c, g, "rest"),
         NEW l, LineFacts(c, h, l), NEW s \in Code(c, h, l), Notify(c, h, s),
         phase[c] # "billed", Alone(c), c \notin overlapped',
         Sound(c, phase'[c], endedBy'[c], talked', h, l, callList[c]),
         Sound(c, phase'[c], endedBy'[c], talked', h, "rest", NoCall)
  PROVE  SerialInv'
<1>1. /\ UNCHANGED <<up, callList, val, billVars>>
      /\ \A d \in Calls \ {c} : todo'[d] = todo[d]
  BY DEF Notify, listVars, Become, TypeOK
<1> SUFFICES CallInv(c)'
  BY <1>1, NotifyElsewhere, OthersKeep
<1>2. \A f \in Handler : val[c][f] = NoCall /\ todo[c][f] = << >>
  BY NoCopyAtRest
<1>3. Bills(c)'
  BY <1>1, UnbilledBills DEF billVars, sqlVars
<1>4. CASE up /\ Become(c, h, s)
  <2>1. /\ todo'[c][h] = s
        /\ \A f \in Handler \ {h} : todo'[c][f] = << >>
    BY <1>2, <1>4 DEF Become, TypeOK
  <2>2. Goes(c, h, l)'
    BY <1>1, <1>2, <1>4, <2>1, FactsOfLine DEF Goes, AtLine, Fresh
  <2>3. QED
    BY <1>3, <2>2, FactsOfLine DEF CallInv
<1>5. CASE ~up /\ UNCHANGED todo
  <2>1. callList[c] = NoCall
    BY <1>5 DEF BillInv, BillInOrder
  <2>2. << >> \in Code(c, h, "rest")
    BY DEF Code
  <2>3. Goes(c, h, "rest")'
    BY <1>1, <1>2, <1>5, <2>1, <2>2 DEF Goes, AtLine, Fresh
  <2>4. QED
    BY <1>3, <2>3 DEF CallInv
<1>6. QED
  BY <1>4, <1>5 DEF Notify

\* The phases a call moves between.
LEMMA MoveIs ==
  ASSUME TypeOK, NEW c \in Calls, NEW p, NEW q, Move(c, p, q)
  PROVE  /\ phase[c] = p /\ phase'[c] = q
         /\ \A d \in Calls \ {c} : phase'[d] = phase[d]
BY DEF Move, TypeOK, PlatformTypeOK

LEMMA InCallStarts ==
  ASSUME TypeOK, BillInv, SerialInv, NEW c \in Calls, InCallNotified(c),
         c \notin overlapped'
  PROVE  SerialInv'
<1>1. /\ phase[c] = "new" /\ phase'[c] = "offered" /\ endedBy' = endedBy
      /\ talked' = talked /\ Notify(c, "incall", InCallProc(c)) /\ Alone(c)
  BY MoveIs DEF InCallNotified, Dial, Alone
<1>2. "incall" \in Handler
  BY DEF Handler
<1>3. PICK g \in Handler : Goes(c, g, "rest")
  BY <1>1, <1>2, RestsBefore
<1>4. /\ Sound(c, "offered", endedBy[c], talked, "incall", "accept",
               callList[c])
      /\ Sound(c, "offered", endedBy[c], talked, "incall", "rest", NoCall)
  BY <1>1, <1>3, InCallSound DEF Goes
<1>5. LineFacts(c, "incall", "accept")
  BY DEF LineFacts
<1>6. InCallProc(c) \in Code(c, "incall", "accept")
  BY DEF Code
<1>7. QED
  BY <1>1, <1>2, <1>3, <1>4, <1>5, <1>6, Notified

LEMMA AnswerStarts ==
  ASSUME TypeOK, BillInv, SerialInv, NEW c \in Calls, AnswerNotified(c),
         c \notin overlapped'
  PROVE  SerialInv'
<1>1. /\ phase[c] = "dialing" /\ phase'[c] = "talking" /\ endedBy' = endedBy
      /\ talked' = talked \cup {c} /\ Alone(c)
      /\ Notify(c, "stat", AnswerProc)
  BY MoveIs DEF AnswerNotified, AgentAnswers, Alone
<1>2. "stat" \in Handler
  BY DEF Handler
<1>3. PICK g \in Handler : Goes(c, g, "rest")
  BY <1>1, <1>2, RestsBefore
<1>4. /\ Sound(c, "talking", endedBy[c], talked \cup {c}, "stat", "answer",
               callList[c])
      /\ Sound(c, "talking", endedBy[c], talked \cup {c}, "stat", "rest", NoCall)
  BY <1>1, <1>3, AnswerSound DEF Goes
<1>5. LineFacts(c, "stat", "answer")
  BY DEF LineFacts
<1>6. AnswerProc \in Code(c, "stat", "answer")
  BY DEF Code
<1>7. QED
  BY <1>1, <1>2, <1>3, <1>4, <1>5, <1>6, Notified

LEMMA PlayOverStarts ==
  ASSUME TypeOK, BillInv, SerialInv, NEW c \in Calls, PlayOverNotified(c),
         c \notin overlapped'
  PROVE  SerialInv'
<1>1. /\ phase[c] = "playing" /\ phase'[c] = "open" /\ endedBy' = endedBy
      /\ talked' = talked /\ Alone(c)
      /\ Notify(c, "playover", CallPlayVoiceDone)
  BY MoveIs DEF PlayOverNotified, PlayDone, Alone
<1>2. "playover" \in Handler
  BY DEF Handler
<1>3. PICK g \in Handler : Goes(c, g, "rest")
  BY <1>1, <1>2, RestsBefore
<1>4. /\ Sound(c, "open", endedBy[c], talked, "playover", "hangup",
               callList[c])
      /\ Sound(c, "open", endedBy[c], talked, "playover", "rest", NoCall)
  BY <1>1, <1>3, PlayOverSound DEF Goes
<1>5. LineFacts(c, "playover", "hangup")
  BY DEF LineFacts
<1>6. CallPlayVoiceDone \in Code(c, "playover", "hangup")
  BY DEF Code, CallPlayVoiceDone
<1>7. QED
  BY <1>1, <1>2, <1>3, <1>4, <1>5, <1>6, Notified

LEMMA HangupStarts ==
  ASSUME TypeOK, BillInv, SerialInv, NEW c \in Calls, HangupNotified(c),
         c \notin overlapped'
  PROVE  SerialInv'
<1>1. /\ phase[c] = "dialing" /\ phase'[c] = "released" /\ endedBy'[c] = "user"
      /\ talked' = talked /\ Alone(c)
      /\ Notify(c, "stat", HangupProc)
  <2>1. Move(c, "dialing", "released")
    BY DEF HangupNotified, UserLeaves
  <2>2. /\ endedBy' = [endedBy EXCEPT ![c] = "user"] /\ talked' = talked
        /\ Notify(c, "stat", HangupProc)
    BY DEF HangupNotified, UserLeaves
  <2>3. /\ endedBy'[c] = "user"
        /\ \A d \in Calls \ {c} : endedBy'[d] = endedBy[d]
    BY <2>2 DEF TypeOK, PlatformTypeOK
  <2>4. QED
    BY <2>1, <2>2, <2>3, MoveIs DEF Alone
<1>2. "stat" \in Handler
  BY DEF Handler
<1>3. PICK g \in Handler : Goes(c, g, "rest")
  BY <1>1, <1>2, RestsBefore
<1>4. /\ Sound(c, "released", "user", talked, "stat", "gaveup",
               callList[c])
      /\ Sound(c, "released", "user", talked, "stat", "rest", NoCall)
  BY <1>1, <1>3, HangupSound DEF Goes
<1>5. LineFacts(c, "stat", "gaveup")
  BY DEF LineFacts
<1>6. HangupProc \in Code(c, "stat", "gaveup")
  <2>1. Code(c, "stat", "gaveup")
          = {<<Do("result", "HANGUP"), Do("end", "")>> \o << >>}
    BY DEF Code, HangsUp
  <2>2. /\ Do("result", "HANGUP") \in Instr /\ Do("end", "") \in Instr
    BY DEF Do, Instr, Result
  <2>3. HangupProc \in Seq(Instr)
    BY StatProcsTyped
  <2>4. HangupProc \o << >> = HangupProc
    BY <2>3, ConcatEmptySeq
  <2>5. QED
    BY <2>1, <2>4 DEF HangupProc
<1>7. QED
  BY <1>1, <1>2, <1>3, <1>4, <1>5, <1>6, Notified

LEMMA DtmfStarts ==
  ASSUME TypeOK, BillInv, SerialInv, NEW c \in Calls, DtmfNotified(c),
         c \notin overlapped'
  PROVE  SerialInv'
<1>1. PICK ext \in BOOLEAN :
        /\ phase[c] = "menu" /\ phase'[c] = "open" /\ endedBy' = endedBy
        /\ talked' = talked /\ Alone(c)
        /\ Notify(c, "dtmf", DtmfProc(ext))
  BY MoveIs DEF DtmfNotified, DigitsDone, Alone
<1>2. "dtmf" \in Handler
  BY DEF Handler
<1>3. PICK g \in Handler : Goes(c, g, "rest")
  BY <1>1, <1>2, RestsBefore
<1>4. /\ Sound(c, "open", endedBy[c], talked, "dtmf", "find", callList[c])
      /\ Sound(c, "open", endedBy[c], talked, "dtmf", "nodigits", callList[c])
      /\ Sound(c, "open", endedBy[c], talked, "dtmf", "rest", NoCall)
  BY <1>1, <1>3, DigitsSound DEF Goes
<1>5. LineFacts(c, "dtmf", "find") /\ LineFacts(c, "dtmf", "nodigits")
  BY DEF LineFacts
<1>6. /\ DtmfProc(TRUE) \in Code(c, "dtmf", "find")
      /\ DtmfProc(FALSE) \in Code(c, "dtmf", "nodigits")
  BY DEF Code
<1>7. CASE ext = TRUE
  BY <1>1, <1>2, <1>3, <1>4, <1>5, <1>6, <1>7, Notified
<1>8. CASE ext = FALSE
  BY <1>1, <1>2, <1>3, <1>4, <1>5, <1>6, <1>8, Notified
<1>9. QED
  BY <1>7, <1>8

LEMMA FailureStarts ==
  ASSUME TypeOK, BillInv, SerialInv, NEW c \in Calls, FailureNotified(c),
         c \notin overlapped'
  PROVE  SerialInv'
<1>1. PICK s \in CallStatFailed :
        /\ phase[c] = "dialing" /\ phase'[c] = "open" /\ endedBy' = endedBy
        /\ talked' = talked /\ Alone(c) /\ Notify(c, "stat", s)
  BY MoveIs DEF FailureNotified, AgentFails, Alone
<1>2. "stat" \in Handler
  BY DEF Handler
<1>3. PICK g \in Handler : Goes(c, g, "rest")
  BY <1>1, <1>2, RestsBefore
<1>4. /\ Sound(c, "open", endedBy[c], talked, "stat", "sorry", callList[c])
      /\ Sound(c, "open", endedBy[c], talked, "stat", "noanswer", callList[c])
      /\ Sound(c, "open", endedBy[c], talked, "stat", "other", callList[c])
      /\ Sound(c, "open", endedBy[c], talked, "stat", "rest", NoCall)
  BY <1>1, <1>3, FailureSound DEF Goes
<1>5. /\ LineFacts(c, "stat", "sorry") /\ LineFacts(c, "stat", "noanswer")
      /\ LineFacts(c, "stat", "other")
  BY DEF LineFacts
<1>6. \/ s \in Code(c, "stat", "sorry") \/ s \in Code(c, "stat", "noanswer")
      \/ s \in Code(c, "stat", "other")
  BY DEF CallStatFailed, Code, Alike
<1>7. CASE s \in Code(c, "stat", "sorry")
  BY <1>1, <1>2, <1>3, <1>4, <1>5, <1>7, Notified
<1>8. CASE s \in Code(c, "stat", "noanswer")
  BY <1>1, <1>2, <1>3, <1>4, <1>5, <1>8, Notified
<1>9. CASE s \in Code(c, "stat", "other")
  BY <1>1, <1>2, <1>3, <1>4, <1>5, <1>9, Notified
<1>10. QED
  BY <1>6, <1>7, <1>8, <1>9

\* The programs of a call's end, as the code of their first lines.
LEMMA EndCode ==
  ASSUME NEW c
  PROVE  /\ EndCallProc("agent", TRUE) \in Code(c, "agentend", "file")
         /\ EndCallProc("agent", FALSE) \in Code(c, "agentend", "check")
         /\ EndCallProc("user", TRUE) \in Code(c, "userend", "file")
         /\ EndCallProc("user", FALSE) \in Code(c, "userend", "check")
BY DEF EndCallProc, Code, HangsUp

LEMMA AgentEndStarts ==
  ASSUME TypeOK, BillInv, SerialInv, NEW c \in Calls, AgentEndNotified(c),
         c \notin overlapped'
  PROVE  SerialInv'
<1>1. PICK file \in BOOLEAN :
        /\ phase[c] = "talking" /\ phase'[c] = "agentGone"
        /\ endedBy' = endedBy /\ talked' = talked /\ Alone(c)
        /\ Notify(c, "agentend", EndCallProc("agent", file))
  BY MoveIs DEF AgentEndNotified, AgentLeaves, Alone
<1>2. "agentend" \in Handler
  BY DEF Handler
<1>3. PICK g \in Handler : Goes(c, g, "rest")
  BY <1>1, <1>2, RestsBefore
<1> DEFINE Snd(l, r) ==
             Sound(c, "agentGone", endedBy[c], talked, "agentend", l, r)
<1>4. Snd("file", callList[c]) /\ Snd("check", callList[c])
      /\ Snd("rest", NoCall)
  BY <1>1, <1>3, AgentEndSound DEF Goes
<1>5. LineFacts(c, "agentend", "file") /\ LineFacts(c, "agentend", "check")
  BY DEF LineFacts
<1>6. CASE file = TRUE
  BY <1>1, <1>2, <1>3, <1>4, <1>5, <1>6, EndCode, Notified
<1>7. CASE file = FALSE
  BY <1>1, <1>2, <1>3, <1>4, <1>5, <1>7, EndCode, Notified
<1>8. QED
  BY <1>6, <1>7

LEMMA UserEndStarts ==
  ASSUME TypeOK, BillInv, SerialInv, NEW c \in Calls, UserEndNotified(c),
         c \notin overlapped'
  PROVE  SerialInv'
<1>1. PICK file \in BOOLEAN :
        /\ phase[c] \in {"released", "releasedRec"} /\ phase'[c] = "cleared"
        /\ phase[c] # "releasedRec" => file = FALSE
        /\ endedBy' = endedBy /\ talked' = talked /\ Alone(c)
        /\ Notify(c, "userend", EndCallProc("user", file))
  BY DEF UserEndNotified, Cleared, Alone, TypeOK, PlatformTypeOK
<1>2. "userend" \in Handler
  BY DEF Handler
<1>3. PICK g \in Handler : Goes(c, g, "rest")
  BY <1>1, <1>2, RestsBefore
<1> DEFINE Snd(l, r) ==
             Sound(c, "cleared", endedBy[c], talked, "userend", l, r)
<1>4. /\ phase[c] = "releasedRec" => Snd("file", callList[c])
      /\ Snd("check", callList[c]) /\ Snd("rest", NoCall)
  BY <1>1, <1>3, UserEndSound DEF Goes
<1>5. LineFacts(c, "userend", "file") /\ LineFacts(c, "userend", "check")
  BY DEF LineFacts
<1>6. CASE file = TRUE
  BY <1>1, <1>2, <1>3, <1>4, <1>5, <1>6, EndCode, Notified
<1>7. CASE file = FALSE
  BY <1>1, <1>2, <1>3, <1>4, <1>5, <1>7, EndCode, Notified
<1>8. QED
  BY <1>6, <1>7

\* The caller leaves while a goroutine is at any of its lines.
LEMMA LeaveSerial ==
  ASSUME TypeOK, BillInv, SerialInv, NEW c \in Calls, UserLeavesUnnotified(c)
  PROVE  SerialInv'
<1>1. PICK p \in (OnLine \ {"dialing"}) \cup {"offered"} : UserLeaves(c, p)
  BY DEF UserLeavesUnnotified
<1>2. /\ phase[c] = p /\ endedBy'[c] = "user" /\ talked' = talked
      /\ phase'[c] = IF p = "talking" THEN "releasedRec" ELSE "released"
      /\ Alone(c)
  <2>1. /\ endedBy' = [endedBy EXCEPT ![c] = "user"] /\ talked' = talked
        /\ Move(c, p, IF p = "talking" THEN "releasedRec" ELSE "released")
    BY <1>1 DEF UserLeaves
  <2>2. /\ endedBy'[c] = "user"
        /\ \A d \in Calls \ {c} : endedBy'[d] = endedBy[d]
    BY <2>1 DEF TypeOK, PlatformTypeOK
  <2>3. QED
    BY <2>1, <2>2, MoveIs DEF Alone
<1>3. /\ UNCHANGED <<up, callList, todo, val, billPc, billCall, rows, doubt>>
      /\ UNCHANGED overlapped
  BY DEF UserLeavesUnnotified, serverVars, listVars, threadVars, billVars,
         sqlVars
<1>4. Elsewhere(c)
  BY <1>2, <1>3 DEF Elsewhere, Same, Alone
<1>5. ASSUME CallInv(c)
      PROVE  CallInv(c)'
  <2>1. PICK h \in Handler :
            \E l \in Lines(c, h) \cup {"rest"} : Goes(c, h, l)
    BY <1>5 DEF CallInv
  <2>2. PICK l \in Lines(c, h) \cup {"rest"} : Goes(c, h, l)
    BY <2>1
  <2>3. LineFacts(c, h, l)
    BY LinesOf
  <2>4. Sound(c, phase'[c], "user", talked, h, l, callList[c])
    <3>1. Sound(c, p, endedBy[c], talked, h, l, callList[c])
      BY <1>2, <2>2 DEF Goes
    <3>2. /\ p = "talking" =>
               Sound(c, "releasedRec", "user", talked, h, l, callList[c])
          /\ p \in (OnLine \ {"dialing", "talking"}) \cup {"offered"} =>
               Sound(c, "released", "user", talked, h, l, callList[c])
      BY <2>3, <3>1, LeaveSound
    <3>3. QED
      BY <1>2, <3>2
  <2>5. Goes(c, h, l)'
    BY <1>2, <1>3, <2>2, <2>4 DEF Goes, AtLine, Fresh
  <2>6. Bills(c)'
    <3>1. phase[c] # "billed"
      BY <1>2 DEF OnLine
    <3>2. QED
      BY <1>3, <3>1, UnbilledBills
  <2>7. QED
    BY <2>5, <2>6 DEF CallInv
<1>6. QED
  BY <1>3, <1>4, <1>5, OthersKeep DEF SerialInv

\* The platform bills a call: no other call is concerned.
LEMMA BillNotifiedElsewhere ==
  ASSUME TypeOK, NEW c \in Calls, BillNotified(c)
  PROVE  /\ phase[c] = "cleared" /\ phase'[c] = "billed"
         /\ endedBy' = endedBy /\ talked' = talked
         /\ UNCHANGED <<up, callList, todo, val, billCall, rows, doubt>>
         /\ billPc'[c] = billPc[c] \/ billPc'[c] = "bill_r"
         /\ overlapped \subseteq overlapped'
         /\ c \notin overlapped' =>
              c \notin overlapped /\ (up => Running(c) = {})
         /\ Elsewhere(c)
<1>1. /\ phase[c] = "cleared" /\ phase'[c] = "billed" /\ endedBy' = endedBy
      /\ talked' = talked /\ Alone(c)
  BY MoveIs DEF BillNotified, Billed, Alone
<1>2. /\ UNCHANGED <<up, callList, todo, val, billCall, rows, doubt>>
      /\ billPc'[c] = billPc[c] \/ billPc'[c] = "bill_r"
      /\ \A d \in Calls \ {c} : billPc'[d] = billPc[d]
  BY DEF BillNotified, BillTo, listVars, threadVars, sqlVars, TypeOK
<1>3. /\ overlapped \subseteq overlapped'
      /\ c \notin overlapped' =>
           c \notin overlapped /\ (up => Running(c) = {})
  BY Lonely DEF BillNotified
<1>4. Elsewhere(c)
  BY <1>1, <1>2 DEF Elsewhere, Same, Alone
<1>5. QED
  BY <1>1, <1>2, <1>3, <1>4

LEMMA BillStarts ==
  ASSUME TypeOK, BillInv, SerialInv, NEW c \in Calls, BillNotified(c)
  PROVE  SerialInv'
<1>1. ASSUME c \notin overlapped'
      PROVE  CallInv(c)'
  <2>1. CallInv(c) /\ (up => Running(c) = {})
    BY <1>1, BillNotifiedElsewhere DEF SerialInv
  <2>2. PICK h \in Handler : Goes(c, h, "rest")
    <3>1. CASE up
      BY <2>1, <3>1, Idle DEF Running
    <3>2. CASE ~up
      BY <2>1, <3>2, Down
    <3>3. QED
      BY <3>1, <3>2
  <2>3. Sound(c, "billed", endedBy[c], talked, h, "rest", callList[c])
    BY <2>2, BillNotifiedElsewhere, BilledSound DEF Goes
  <2>4. Goes(c, h, "rest")'
    BY <2>2, <2>3, BillNotifiedElsewhere DEF Goes, AtLine, Fresh
  <2>5. Bills(c)'
    BY BillNotifiedElsewhere, UnbilledBills
  <2>6. QED
    BY <2>4, <2>5 DEF CallInv
<1>2. QED
  BY <1>1, BillNotifiedElsewhere, OthersKeep

LEMMA ParsePanicSerial ==
  ASSUME TypeOK, BillInv, SerialInv, NEW c \in Calls, ParseBillPanics(c)
  PROVE  SerialInv'
<1>1. /\ phase[c] = "cleared" /\ phase'[c] = "billed" /\ endedBy' = endedBy
      /\ talked' = talked /\ Alone(c) /\ Halt
  BY MoveIs DEF ParseBillPanics, Billed, Alone
<1> SUFFICES ASSUME NEW d \in Calls \ overlapped
             PROVE  CallInv(d)'
  BY <1>1 DEF SerialInv, Halt
<1>2. PICK h \in Handler :
          \E l \in Lines(d, h) \cup {"rest"} : Goes(d, h, l)
  BY DEF SerialInv, CallInv
<1>3. PICK l \in Lines(d, h) \cup {"rest"} : Goes(d, h, l)
  BY <1>2
<1>4. Sound(d, phase[d], endedBy[d], talked, h, "rest", NoCall)
  BY <1>3, LinesOf, LossSound DEF Goes
<1>5. d = c => Sound(d, "billed", endedBy[d], talked, h, "rest", NoCall)
  BY <1>1, <1>4, BilledSound
<1>6. Sound(d, phase'[d], endedBy'[d], talked', h, "rest", NoCall)
  BY <1>1, <1>4, <1>5 DEF Alone
<1>7. QED
  BY <1>1, <1>6, HaltLeaves DEF SerialInv, CallInv

\* A second goroutine of a call starts: the other calls are not concerned.
LEMMA OverlapStarts ==
  ASSUME TypeOK, SerialInv, NEW c \in Calls, PlatformStep(c),
         ~UserLeavesUnnotified(c), ~BillNotified(c), ~ParseBillPanics(c),
         c \in overlapped'
  PROVE  SerialInv'
<1>1. \E h \in Handler : \E s : Notify(c, h, s)
  BY DEF PlatformStep, InCallNotified, DtmfNotified, FailureNotified,
         AnswerNotified, HangupNotified, PlayOverNotified, AgentEndNotified,
         UserEndNotified, Handler
<1>2. Alone(c)
  <2>1. CASE InCallNotified(c)
    BY <2>1, MoveIs DEF InCallNotified, Dial, Alone
  <2>2. CASE DtmfNotified(c)
    BY <2>2, MoveIs DEF DtmfNotified, DigitsDone, Alone
  <2>3. CASE FailureNotified(c)
    BY <2>3, MoveIs DEF FailureNotified, AgentFails, Alone
  <2>4. CASE AnswerNotified(c)
    BY <2>4, MoveIs DEF AnswerNotified, AgentAnswers, Alone
  <2>5. CASE HangupNotified(c)
    <3>1. /\ Move(c, "dialing", "released") /\ talked' = talked
          /\ endedBy' = [endedBy EXCEPT ![c] = "user"]
      BY <2>5 DEF HangupNotified, UserLeaves
    <3>2. \A d \in Calls \ {c} : endedBy'[d] = endedBy[d]
      BY <3>1 DEF TypeOK, PlatformTypeOK
    <3>3. QED
      BY <3>1, <3>2, MoveIs DEF Alone
  <2>6. CASE PlayOverNotified(c)
    BY <2>6, MoveIs DEF PlayOverNotified, PlayDone, Alone
  <2>7. CASE AgentEndNotified(c)
    BY <2>7, MoveIs DEF AgentEndNotified, AgentLeaves, Alone
  <2>8. CASE UserEndNotified(c)
    BY <2>8 DEF UserEndNotified, Cleared, Alone, TypeOK, PlatformTypeOK
  <2>9. QED
    BY <2>1, <2>2, <2>3, <2>4, <2>5, <2>6, <2>7, <2>8 DEF PlatformStep
<1>3. QED
  BY <1>1, <1>2, NotifyElsewhere, OthersKeep

------------------------------------------------------------------------------
(* The theorems.                                                           *)

LEMMA InitSerial ==
  Init => SerialInv
<1> SUFFICES ASSUME Init, NEW c \in Calls
             PROVE  CallInv(c)
  BY DEF SerialInv
<1>1. /\ phase[c] = "new" /\ endedBy[c] = "" /\ talked = {} /\ up
      /\ callList[c] = NoCall /\ billPc[c] = "idle"
      /\ rows[c] = << >> /\ doubt[c] = << >>
      /\ \A h \in Handler : todo[c][h] = << >> /\ val[c][h] = NoCall
  BY DEF Init, PlatformInit, NoGoroutines, NoCopies
<1>2. "incall" \in Handler /\ << >> \in Code(c, "incall", "rest")
  BY DEF Handler, Code
<1>3. Sound(c, "new", "", {}, "incall", "rest", NoCall)
  BY DEF Sound, InTime, Begun, Talked, Rings, Reasoned, Dialled, Known
<1>4. Goes(c, "incall", "rest")
  BY <1>1, <1>2, <1>3 DEF Goes, AtLine, Fresh
<1>5. Bills(c)
  <2>1. Range(<< >>) = {}
    BY DEF Range
  <2>2. QED
    BY <1>1, <2>1 DEF Bills, Rows
<1>6. QED
  BY <1>2, <1>4, <1>5 DEF CallInv

LEMMA NextSerial ==
  Inv /\ SerialInv /\ [Next]_vars => SerialInv'
<1> SUFFICES ASSUME Inv, SerialInv, [Next]_vars
             PROVE  SerialInv'
  OBVIOUS
<1>1. TypeOK /\ BillInv
  BY DEF Inv
<1>2. ASSUME NEW c \in Calls, PlatformStep(c)
      PROVE  SerialInv'
  <2>1. CASE c \notin overlapped'
    BY <1>1, <1>2, <2>1, InCallStarts, DtmfStarts, FailureStarts,
       AnswerStarts, HangupStarts, LeaveSerial, PlayOverStarts,
       AgentEndStarts, UserEndStarts, BillStarts, ParsePanicSerial
    DEF PlatformStep
  <2>2. CASE c \in overlapped'
    BY <1>1, <1>2, <2>2, LeaveSerial, BillStarts, ParsePanicSerial,
       OverlapStarts
  <2>3. QED
    BY <2>1, <2>2
<1>3. ASSUME NEW c \in Calls, BillStep(c)
      PROVE  SerialInv'
  BY <1>1, <1>3, BillStepSerial
<1>4. ASSUME NEW c \in Calls, NEW h \in Handler, Step(c, h)
      PROVE  SerialInv'
  BY <1>1, <1>4, StepSerial
<1>5. ASSUME NEW c \in Calls, LateInsert(c)
      PROVE  SerialInv'
  BY <1>1, <1>5, LateInsertSerial
<1>6. CASE MapThrow \/ Kill
  BY <1>6, HaltSerial DEF MapThrow, Kill
<1>7. CASE Start \/ UNCHANGED vars
  <2>1. /\ \A d \in Calls : Same(d)
        /\ overlapped' = overlapped
    BY <1>7 DEF Start, vars, serverVars, listVars, threadVars, billVars,
                sqlVars, platformVars, Same
  <2>2. up' \/ up' = up
    BY <1>7 DEF Start, vars, serverVars, listVars
  <2>3. QED
    BY <2>1, <2>2, SameKeeps DEF SerialInv
<1>8. QED
  BY <1>2, <1>3, <1>4, <1>5, <1>6, <1>7 DEF Next

LEMMA SerialInvariance ==
  Spec => []SerialInv
BY InitSerial, NextSerial, Invariance, PTL DEF Spec

LEMMA RowIsTrue ==
  ASSUME SerialInv, NEW c \in Calls \ overlapped, NEW row \in Rows(c)
  PROVE  BillIsTrue(c, endedBy[c], talked, row)
BY DEF SerialInv, CallInv, Bills

\* Every row of a call that never had two goroutines at once has a start
\* time, an end time, a charge and a result.  (insertCallBill writes whatever
\* the record holds; nothing in the code asks whether it is complete.)
THEOREM RowsComplete ==
  Spec => []RowComplete
<1>1. SerialInv => RowComplete
  BY RowIsTrue DEF BillIsTrue, RowComplete
<1>2. QED
  BY <1>1, SerialInvariance, PTL

\* A bill of such a call says ANSWERED, names the agent and has an answer time
\* and a recording when the agent did answer, and otherwise neither says
\* ANSWERED nor has a recording.
THEOREM AnsweredOnlyIfTalked ==
  Spec => []AnsweredMeansTalked
<1>1. SerialInv => AnsweredMeansTalked
  <2> SUFFICES ASSUME SerialInv, NEW c \in Calls \ overlapped,
                      NEW row \in Rows(c)
               PROVE  IF c \in talked
                        THEN /\ row.result = "ANSWERED"
                             /\ row.callee = "agent"
                             /\ row.answerTime = "set"
                             /\ row.record = "url"
                        ELSE row.result # "ANSWERED" /\ row.record = ""
    BY DEF AnsweredMeansTalked
  <2>1. BillIsTrue(c, endedBy[c], talked, row)
    BY RowIsTrue
  <2>2. QED
    BY <2>1 DEF BillIsTrue
<1>2. QED
  BY <1>1, SerialInvariance, PTL

\* A bill of such a call blames the caller only when the caller left first,
\* and says NOEXT only of a call to a fixed line whose caller dialled no
\* extension.
THEOREM ReasonsAreTrue ==
  Spec => []ReasonIsTrue
<1>1. SerialInv => ReasonIsTrue
  <2> SUFFICES ASSUME SerialInv, NEW c \in Calls \ overlapped,
                      NEW row \in Rows(c)
               PROVE  /\ row.result \in EndReason => endedBy[c] = "user"
                      /\ row.result \in NoExtReason
                           => c \notin Mobile /\ row.dtmf = ""
    BY DEF ReasonIsTrue, EndReason, NoExtReason
  <2>1. BillIsTrue(c, endedBy[c], talked, row)
    BY RowIsTrue
  <2>2. QED
    BY <2>1 DEF BillIsTrue
<1>2. QED
  BY <1>1, SerialInvariance, PTL

------------------------------------------------------------------------------
(* The first result of a call stays.                                       *)

ResultStays(c) ==
  callList[c] # NoCall /\ callList[c].result # "" /\ callList'[c] # NoCall
    => callList'[c].result \in {callList[c].result, "ANSWERED"}

LEMMA StoreBackKeepsResult ==
  ASSUME TypeOK, NEW c \in Calls, CallInv(c), NEW h \in Handler,
         StoreBack(c, h)
  PROVE  ResultStays(c)
<1> DEFINE i == Head(todo[c][h])
           r == callList[c]
           w == Applied(i, r)
<1>1. /\ val[c][h] # NoCall /\ i.op \in Update
      /\ callList' = [callList EXCEPT ![c] = Applied(i, val[c][h])]
  BY DEF StoreBack, At
<1>2. PICK l \in Lines(c, h) : Does(c, h, l)
  BY Doing DEF StoreBack
<1>3. /\ l \in UpdateLines /\ CallAt(l, i) /\ i \in Instr
      /\ (i.op = "result" <=> l \in ResultLines)
  BY <1>1, <1>2, FirstCall, CallTyped, CallInstr DEF OpFacts, Does
<1>4. val[c][h] = r /\ (i.op = "result" => r.result = "")
  BY <1>1, <1>2 DEF Does, Goes, Fresh
<1>5. r \in CallInfo /\ r # NoCall
  BY <1>1, <1>4 DEF TypeOK
<1>6. Effect(l, r, w)
  BY <1>1, <1>3, <1>5, AppliedTyped, NoCallAssumption, AppliedEffect
<1>7. r.result # "" => w.result \in {r.result, "ANSWERED"}
  BY <1>3, <1>4, <1>6 DEF Effect
<1>8. callList' = [callList EXCEPT ![c] = w]
  BY <1>1, <1>4
<1> HIDE DEF w
<1>9. QED
  BY <1>7, <1>8 DEF ResultStays, TypeOK

LEMMA StepKeepsResult ==
  ASSUME TypeOK, SerialInv, NEW c \in Calls, NEW h \in Handler, Step(c, h),
         NEW d \in Calls \ overlapped
  PROVE  ResultStays(d)
<1>1. CASE StoreBack(c, h)
  <2>1. CASE c = d
    BY <1>1, <2>1, StoreBackKeepsResult DEF SerialInv
  <2>2. CASE c # d
    BY <1>1, <2>2 DEF StoreBack, ResultStays, TypeOK
  <2>3. QED
    BY <2>1, <2>2
<1>2. CASE InNewCall(c, h)
  <2>1. CASE c = d
    <3>1. PICK l \in Lines(c, h) : Does(c, h, l)
      BY <1>2, <2>1, Doing DEF InNewCall, SerialInv
    <3>2. l = "newcall"
      BY <1>2, <3>1 DEF InNewCall, At, OpFacts, Does
    <3>3. callList[c] = NoCall
      BY <3>1, <3>2 DEF Does, Goes, Sound, Begun
    <3>4. QED
      BY <2>1, <3>3 DEF ResultStays
  <2>2. CASE c # d
    BY <1>2, <2>2 DEF InNewCall, ResultStays, TypeOK
  <2>3. QED
    BY <2>1, <2>2
<1>3. CASE UNCHANGED callList \/ Halt
  BY <1>3 DEF ResultStays, Halt
<1>4. QED
  BY <1>1, <1>2, <1>3
  DEF Step, CopyOut, FindCall, ExtCheck, ChangeBindNumber, GetServiceNum,
      GetServiceNumPanics, SendRequest, listVars

LEMMA BillStepKeepsResult ==
  ASSUME TypeOK, BillInv, SerialInv, NEW c \in Calls, BillStep(c),
         NEW d \in Calls \ overlapped
  PROVE  ResultStays(d)
<1>1. CASE BillStoreBack(c)
  <2>1. CASE c = d
    <3>1. billCall[c] = callList[c] /\ billCall[c] \in CallInfo
      BY <1>1, <2>1
      DEF BillStoreBack, BillAt, SerialInv, CallInv, Bills, BillInv,
          BillInOrder, TypeOK
    <3>2. callList' = [callList EXCEPT ![c] = UpdateCallBill(callList[c])]
      BY <1>1, <3>1 DEF BillStoreBack
    <3>3. UpdateCallBill(callList[c]).result = callList[c].result
      BY <3>1 DEF UpdateCallBill, CallInfo
    <3>4. QED
      BY <2>1, <3>2, <3>3 DEF ResultStays, TypeOK
  <2>2. CASE c # d
    BY <1>1, <2>2 DEF BillStoreBack, ResultStays, TypeOK
  <2>3. QED
    BY <2>1, <2>2
<1>2. CASE DelCall(c)
  BY <1>2 DEF DelCall, ResultStays, TypeOK
<1>3. CASE UNCHANGED callList \/ Halt
  BY <1>3 DEF ResultStays, Halt
<1>4. QED
  BY <1>1, <1>2, <1>3
  DEF BillStep, BillCopyOut, WaitForSound, BillFind, InsertLost, Bill2Sql,
      Bill2SqlPanics, PostBill, listVars

\* The first result of a call that never had two goroutines at once stays,
\* unless the agent answers after all: what the comment of UpdateCallResult
\* asks for.
THEOREM FirstResultsStay ==
  Spec => FirstResultStays
<1>1. ASSUME Inv, SerialInv, [Next]_vars, NEW d \in Calls \ overlapped
      PROVE  ResultStays(d)
  <2>1. TypeOK /\ BillInv
    BY <1>1 DEF Inv
  <2>2. ASSUME NEW c \in Calls, NEW h \in Handler, Step(c, h)
        PROVE  ResultStays(d)
    BY <1>1, <2>1, <2>2, StepKeepsResult
  <2>3. ASSUME NEW c \in Calls, BillStep(c)
        PROVE  ResultStays(d)
    BY <1>1, <2>1, <2>3, BillStepKeepsResult
  <2>4. ASSUME NEW c \in Calls, PlatformStep(c)
        PROVE  ResultStays(d)
    BY <2>4, PlatformWritesNoList DEF ResultStays, Halt
  <2>5. ASSUME NEW c \in Calls, LateInsert(c)
        PROVE  ResultStays(d)
    BY <2>5 DEF LateInsert, listVars, ResultStays
  <2>6. CASE MapThrow \/ Kill \/ Start \/ UNCHANGED vars
    BY <2>6
    DEF MapThrow, Kill, Start, Halt, vars, serverVars, listVars, ResultStays
  <2>7. QED
    BY <1>1, <2>2, <2>3, <2>4, <2>5, <2>6 DEF Next
<1>2. Inv /\ SerialInv /\ [Next]_vars =>
        [\A c \in Calls \ overlapped :
           /\ callList[c] # NoCall /\ callList[c].result # ""
           /\ callList'[c] # NoCall
           => callList'[c].result \in {callList[c].result, "ANSWERED"}]_vars
  BY <1>1 DEF ResultStays
<1>3. QED
  BY <1>2, Invariance, SerialInvariance, PTL DEF Spec, FirstResultStays

=============================================================================
