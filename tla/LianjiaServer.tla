---------------------------- MODULE LianjiaServer ----------------------------
(***************************************************************************)
(* Package server: the process that answers the platform's notifications.  *)
(* eventProc acknowledges a notification and starts a goroutine for it;    *)
(* the goroutine works on callList (package callManager), sends requests   *)
(* to the platform (package ipccRequest), looks numbers up and posts bills *)
(* (package ljClient) and stores bills (package sqlClient).                *)
(*                                                                         *)
(* A goroutine is the sequence of calls it still has to make.  A call that *)
(* updates callList takes two steps, the copy out and the store back, so   *)
(* that the goroutines of a call interleave as finely as the unlocked map  *)
(* lets them.  billMsgProc, which waits and retries, has a program counter *)
(* of its own.                                                             *)
(*                                                                         *)
(* Bounds: Calls, Reasons, MaxThreads and MaxKills below; the platform     *)
(* notifies each thing once, so a call has at most one goroutine of a kind.*)
(***************************************************************************)
EXTENDS CallManager, IpccPlatform, Naturals, Sequences, FiniteSets,
        Functions

CONSTANTS Mobile,    \* the calls to virtual mobile numbers; the rest go to
                     \* fixed line numbers, which begin with "0"
          MaxThreads, \* how many goroutines of one call may be running when
                      \* the next notification starts one more
          MaxKills,  \* how often the process is killed from outside
          MaxTries,  \* how often database/sql sends an insert: 3
          Reasons    \* the results considered of those in Alike

\* The results of a call that got no agent which the code treats alike: they
\* are written once and decide nothing.
LookupReason == {"TP_ERROR", "TP_NO_BINDING"}
StatReason   == {"REJECT", "INVALID_NUMBER", "BUSY", "POWER_OFF", "SUSPEND",
                 "NETWORK_ERROR"}
Alike == LookupReason \cup StatReason

ASSUME ServerAssumption ==
  /\ Mobile \subseteq Calls
  /\ MaxThreads \in Nat
  /\ MaxKills \in Nat
  /\ MaxTries \in Nat \ {0}
  /\ Reasons \subseteq Alike

VARIABLES
  up,        \* the process is running
  callList,  \* CallList, NoCall where the key is missing
  todo,      \* todo[c][h]: what goroutine h of call c still has to do
  val,       \* val[c][h]: the copy it is about to store back, or NoCall
  billPc,    \* where billMsgProc of call c is, "idle" when not running
  billCall,  \* its local copy of the call
  tries,     \* how often it called PostBill
  acked,     \* whether PostBill returned true
  rows,      \* the rows of call c in the bill table
  doubt,     \* its inserts without an answer which MySQL may still do
  lost,      \* how many of its inserts had no answer
  received,  \* the bills of call c the customer's server got
  kills,
  overlapped \* history: the calls that had two goroutines at once

listVars   == <<up, callList>>
threadVars == <<todo, val>>
sqlVars    == <<rows, doubt, lost>>
billVars   == <<billPc, billCall, tries, acked, received, sqlVars>>
serverVars == <<listVars, threadVars, billVars, kills, overlapped>>
vars       == <<serverVars, platformVars>>

------------------------------------------------------------------------------
(* The calls a goroutine makes, and its program.                           *)

Handler == {"incall", "dtmf", "stat", "playover", "agentend", "userend"}

Instr ==
       [op : {"newcall", "start", "find", "bind", "lookup", "extcheck"},
        arg : {""}]
  \cup [op : {"ask"},     arg : Request]
  \cup [op : {"callee"},  arg : {"", "agent"}]
  \cup [op : {"dtmf"},    arg : {"ext"}]
  \cup [op : {"result", "answer"}, arg : Result]
  \cup [op : {"end"},     arg : {"", "url"}]

Do(o, a) == [op |-> o, arg |-> a]
Play     == Do("ask", "play")

\* The calls that copy a record out of callList and store it back.
Update == {"start", "callee", "dtmf", "result", "answer", "end"}

Applied(i, v) ==
  CASE i.op = "start"  -> UpdateCallStartTime(v)
    [] i.op = "callee" -> UpdateCallee(v, i.arg)
    [] i.op = "dtmf"   -> SetCallDtmf(v, i.arg)
    [] i.op = "result" -> UpdateCallResult(v, i.arg)
    [] i.op = "answer" -> UpdateCallAnswerTime(v, i.arg)
    [] i.op = "end"    -> UpdateCallEndTime(v, i.arg)

InCallProcByMobile ==
  <<Do("newcall", ""), Do("start", ""), Do("lookup", "")>>

InCallProc(c) ==
  <<Do("ask", "accept")>> \o
  IF c \in Mobile
    THEN InCallProcByMobile
    ELSE <<Do("bind", ""), Do("newcall", ""), Do("ask", "getdtmf"),
           Do("start", "")>>

\* ext: whether the digits are a complete extension.
DtmfProc(ext) ==
  IF ext
    THEN <<Do("find", ""), Do("dtmf", "ext"), Do("lookup", "")>>
    ELSE <<Do("find", ""), Do("callee", ""),
           Do("result", "NOEXT_SYS_HANGUP"), Play>>

\* What both flows do with the number service's answer: no usable answer or
\* an error number, no binding, or the agent's number.
AfterLookup ==
  {<<Do("callee", ""), Play, Do("result", r)>> :
     r \in LookupReason \cap Reasons}
  \cup {<<Do("callee", "agent"), Do("ask", "transfer")>>}

\* A mutant of NoAnswerProc: the result is left to the end of the call.
NoAnswerWithoutResult == <<Do("end", ""), Play>>
NoAnswerProc == <<Do("result", "NO_ANSWER"), Do("end", ""), Play>>

HangupProc == <<Do("result", "HANGUP"), Do("end", "")>>

AnswerProc == <<Do("answer", "ANSWERED")>>

\* The call states that say the agent was not reached.  Status 5, for which
\* the code does nothing, is taken to change nothing.
CallStatFailed ==
  {<<Play, Do("result", r)>> :
     r \in StatReason \cap Reasons}
  \cup {NoAnswerProc, <<Do("result", "OTHER"), Play>>}

\* A mutant of EndCallProc: the end time is set only with the recording.
EndTimeWithFileOnly(leg, file) ==
  (IF file THEN <<Do("end", "url")>> ELSE <<Do("extcheck", "")>>)
  \o (IF leg = "agent" THEN <<Do("ask", "hangup")>> ELSE << >>)

\* file: whether the notification names a recording; leg: who hung up.
EndCallProc(leg, file) ==
  (IF file THEN <<Do("end", "url")>>
           ELSE <<Do("extcheck", ""), Do("end", "")>>)
  \o (IF leg = "agent" THEN <<Do("ask", "hangup")>> ELSE << >>)

CallPlayVoiceDone == <<Do("ask", "hangup")>>

------------------------------------------------------------------------------
PostTries == 6

BillPc ==
  {"idle", "bill_r", "bill_w", "wait", "find", "store", "post", "del"}

TypeOK ==
  /\ PlatformTypeOK
  /\ up \in BOOLEAN
  /\ callList \in [Calls -> CallInfo \cup {NoCall}]
  /\ todo \in [Calls -> [Handler -> Seq(Instr)]]
  /\ val \in [Calls -> [Handler -> CallInfo \cup {NoCall}]]
  /\ billPc \in [Calls -> BillPc]
  /\ billCall \in [Calls -> CallInfo \cup {NoCall}]
  /\ tries \in [Calls -> 0 .. PostTries]
  /\ acked \in [Calls -> BOOLEAN]
  /\ rows \in [Calls -> Seq(CallInfo)]
  /\ doubt \in [Calls -> Seq(CallInfo)]
  /\ lost \in [Calls -> 0 .. MaxTries]
  /\ received \in [Calls -> SUBSET CallInfo]
  /\ kills \in 0 .. MaxKills
  /\ overlapped \subseteq Calls

NoGoroutines == [c \in Calls |-> [h \in Handler |-> << >>]]
NoCopies     == [c \in Calls |-> [h \in Handler |-> NoCall]]

Init ==
  /\ PlatformInit
  /\ up = TRUE
  /\ callList = [c \in Calls |-> NoCall]
  /\ todo = NoGoroutines
  /\ val = NoCopies
  /\ billPc = [c \in Calls |-> "idle"]
  /\ billCall = [c \in Calls |-> NoCall]
  /\ tries = [c \in Calls |-> 0]
  /\ acked = [c \in Calls |-> FALSE]
  /\ rows = [c \in Calls |-> << >>]
  /\ doubt = [c \in Calls |-> << >>]
  /\ lost = [c \in Calls |-> 0]
  /\ received = [c \in Calls |-> {}]
  /\ kills = 0
  /\ overlapped = {}

------------------------------------------------------------------------------
(* The process ends, and starts again with an empty callList.              *)

Halt ==
  /\ up' = FALSE
  /\ callList' = [c \in Calls |-> NoCall]
  /\ todo' = NoGoroutines
  /\ val' = NoCopies
  /\ billPc' = [c \in Calls |-> "idle"]
  /\ billCall' = [c \in Calls |-> NoCall]
  /\ UNCHANGED <<tries, acked, received, sqlVars, overlapped>>

Kill ==
  /\ up
  /\ kills < MaxKills
  /\ kills' = kills + 1
  /\ Halt
  /\ UNCHANGED platformVars

Start ==
  /\ ~up
  /\ up' = TRUE
  /\ UNCHANGED <<callList, threadVars, billVars, kills, overlapped,
                 platformVars>>

------------------------------------------------------------------------------
(* One step of goroutine h of call c.                                      *)

At(c, h, ops) == up /\ todo[c][h] # << >> /\ Head(todo[c][h]).op \in ops

Become(c, h, s) == todo' = [todo EXCEPT ![c][h] = s]
Proceed(c, h)   == Become(c, h, Tail(todo[c][h]))

\* The first half of an update, and the whole of one that finds no record
\* or, for a result, a record that has one.
CopyOut(c, h) ==
  LET Returns == \/ callList[c] = NoCall
                 \/ /\ Head(todo[c][h]).op = "result"
                    /\ ResultIsKnown(callList[c])
  IN
  /\ At(c, h, Update)
  /\ val[c][h] = NoCall
  /\ IF Returns
       THEN Proceed(c, h) /\ UNCHANGED val
       ELSE val' = [val EXCEPT ![c][h] = callList[c]] /\ UNCHANGED todo
  /\ UNCHANGED <<listVars, billVars, kills, overlapped, platformVars>>

StoreBack(c, h) ==
  /\ At(c, h, Update)
  /\ val[c][h] # NoCall
  /\ callList' =
       [callList EXCEPT ![c] = Applied(Head(todo[c][h]), val[c][h])]
  /\ val' = [val EXCEPT ![c][h] = NoCall]
  /\ Proceed(c, h)
  /\ UNCHANGED <<up, billVars, kills, overlapped, platformVars>>

InNewCall(c, h) ==
  /\ At(c, h, {"newcall"})
  /\ callList' = [callList EXCEPT ![c] = NewCall]
  /\ Proceed(c, h)
  /\ UNCHANGED <<up, val, billVars, kills, overlapped, platformVars>>

\* dtmfProc gives up when the call is unknown.
FindCall(c, h) ==
  /\ At(c, h, {"find"})
  /\ IF callList[c] = NoCall THEN Become(c, h, << >>) ELSE Proceed(c, h)
  /\ UNCHANGED <<listVars, val, billVars, kills, overlapped, platformVars>>

\* endCallProc picks the result of a call that ends without a recording.
ExtCheck(c, h) ==
  LET dialled == callList[c] # NoCall /\ callList[c].dtmf = "ext"
      r       == IF dialled THEN "HANGUP" ELSE "NOEXT_USER_HANGUP"
  IN
  /\ At(c, h, {"extcheck"})
  /\ Become(c, h, <<Do("result", r)>> \o Tail(todo[c][h]))
  /\ UNCHANGED <<listVars, val, billVars, kills, overlapped, platformVars>>

\* Without the 400 number of the access number the caller is told that the
\* number does not exist, and no record of the call is made.
ChangeBindNumber(c, h) ==
  /\ At(c, h, {"bind"})
  /\ \/ Proceed(c, h)
     \/ "bind" \in Faulty /\ Become(c, h, <<Play>>)
  /\ UNCHANGED <<listVars, val, billVars, kills, overlapped, platformVars>>

\* The number service answers.
GetServiceNum(c, h) ==
  /\ At(c, h, {"lookup"})
  /\ \E s \in AfterLookup : Become(c, h, s)
  /\ UNCHANGED <<listVars, val, billVars, kills, overlapped, platformVars>>

\* The number service does not answer, or not with status 200: the log line
\* before the test of err dereferences the response that is not there.
GetServiceNumPanics(c, h) ==
  /\ At(c, h, {"lookup"})
  /\ "lookup" \in Faulty
  /\ Halt
  /\ UNCHANGED <<kills, platformVars>>

\* A request to the platform.  Only two replies are looked at: a call that
\* was not accepted is dropped, a failed transfer is announced.
SendRequest(c, h) ==
  LET r == Head(todo[c][h]).arg
  IN
  /\ At(c, h, {"ask"})
  /\ \E ok \in BOOLEAN :
       /\ Ask(r, c, ok)
       /\ CASE r = "accept" /\ ~ok   -> Become(c, h, << >>)
            [] r = "transfer" /\ ~ok ->
                 Become(c, h, <<Do("result", "OTHER"), Play>>)
            [] OTHER                 -> Proceed(c, h)
  /\ UNCHANGED <<listVars, val, billVars, kills, overlapped>>

Step(c, h) ==
  \/ CopyOut(c, h)       \/ StoreBack(c, h)        \/ InNewCall(c, h)
  \/ FindCall(c, h)      \/ ExtCheck(c, h)         \/ ChangeBindNumber(c, h)
  \/ GetServiceNum(c, h) \/ GetServiceNumPanics(c, h)
  \/ SendRequest(c, h)

------------------------------------------------------------------------------
(* billMsgProc: put the charge into the record, wait for the recording,    *)
(* store the bill, post it, forget the call.                               *)

BillAt(c, pc) == up /\ billPc[c] = pc
BillTo(c, pc) == billPc' = [billPc EXCEPT ![c] = pc]
Local(c, v)   == billCall' = [billCall EXCEPT ![c] = v]

\* A mutant of BillCopyOut: the error of UpdateCallBill is not looked at.
BillCopyOutUnchecked(c) ==
  /\ BillAt(c, "bill_r")
  /\ BillTo(c, "bill_w")
  /\ Local(c, callList[c])
  /\ UNCHANGED <<listVars, threadVars, tries, acked, received, sqlVars,
                 kills, overlapped, platformVars>>

\* Copy the record out, or return when there is none.
BillCopyOut(c) ==
  /\ BillAt(c, "bill_r")
  /\ BillTo(c, IF callList[c] = NoCall THEN "idle" ELSE "bill_w")
  /\ Local(c, callList[c])
  /\ UNCHANGED <<listVars, threadVars, tries, acked, received, sqlVars,
                 kills, overlapped, platformVars>>

BillStoreBack(c) ==
  /\ BillAt(c, "bill_w")
  /\ callList' = [callList EXCEPT ![c] = UpdateCallBill(billCall[c])]
  /\ Local(c, NoCall)
  /\ BillTo(c, "wait")
  /\ UNCHANGED <<up, threadVars, tries, acked, received, sqlVars, kills,
                 overlapped, platformVars>>

\* It looks every second.
WaitForSound(c) ==
  /\ BillAt(c, "wait")
  /\ CallInfoSoundReady(callList[c])
  /\ BillTo(c, "find")
  /\ UNCHANGED <<listVars, threadVars, billCall, tries, acked, received,
                 sqlVars, kills, overlapped, platformVars>>

BillFind(c) ==
  /\ BillAt(c, "find")
  /\ BillTo(c, IF callList[c] = NoCall THEN "idle" ELSE "store")
  /\ Local(c, callList[c])
  /\ UNCHANGED <<listVars, threadVars, tries, acked, received, sqlVars,
                 kills, overlapped, platformVars>>

\* stmt.Exec.  database/sql sends the insert again while its answer is lost
\* and MaxTries are not used up.
InsertLost(c) ==
  /\ BillAt(c, "store")
  /\ "lost" \in Faulty
  /\ lost[c] < MaxTries
  /\ lost' = [lost EXCEPT ![c] = @ + 1]
  /\ doubt' = [doubt EXCEPT ![c] = Append(@, billCall[c])]
  /\ UNCHANGED <<listVars, threadVars, billPc, billCall, tries, acked,
                 received, rows, kills, overlapped, platformVars>>

Bill2Sql(c) ==
  /\ BillAt(c, "store")
  /\ lost[c] < MaxTries
  /\ rows' = [rows EXCEPT ![c] = Append(@, billCall[c])]
  /\ BillTo(c, "post")
  /\ UNCHANGED <<listVars, threadVars, billCall, tries, acked, received,
                 doubt, lost, kills, overlapped, platformVars>>

\* A mutant of Bill2SqlPanics: the failure is logged, as the code means to.
Bill2SqlLogs(c) ==
  /\ BillAt(c, "store")
  /\ "store" \in Faulty \/ lost[c] = MaxTries
  /\ BillTo(c, "post")
  /\ UNCHANGED <<listVars, threadVars, billCall, tries, acked, received,
                 sqlVars, kills, overlapped, platformVars>>

\* The insert is refused, or no try was answered: the log line takes the text
\* of an err that is nil.
Bill2SqlPanics(c) ==
  /\ BillAt(c, "store")
  /\ "store" \in Faulty \/ lost[c] = MaxTries
  /\ Halt
  /\ UNCHANGED <<kills, platformVars>>

\* MySQL does an insert nobody waits for any more.  All of a call say the
\* same, so that it does not matter which of them is the first.
LateInsert(c) ==
  /\ doubt[c] # << >>
  /\ rows' = [rows EXCEPT ![c] = Append(@, Head(doubt[c]))]
  /\ doubt' = [doubt EXCEPT ![c] = Tail(@)]
  /\ UNCHANGED <<listVars, threadVars, billPc, billCall, tries, acked,
                 received, lost, kills, overlapped, platformVars>>

\* Mutants of LastTry: one post too few, one too many.
LastTryTooEarly(c) == tries[c] + 2 = PostTries
LastTryTooLate(c)  == tries[c] = PostTries

\* The loop ends with the sixth post.
LastTry(c) == tries[c] + 1 = PostTries

\* A mutant of PostedBill: the call is looked up again for every post, which
\* a commented-out line of makeBillParam did.
PostedBillFresh(c) == callList[c]
PostedBill(c)      == billCall[c]

\* One call of PostBill.  Without errno 0 from the customer it is made
\* again; the bill may have arrived all the same.
PostBill(c) ==
  /\ BillAt(c, "post")
  /\ tries' = [tries EXCEPT ![c] = @ + 1]
  /\ \E ok \in BOOLEAN, arrives \in BOOLEAN :
       /\ ok => arrives
       /\ ~ok => "post" \in Faulty
       /\ acked' = [acked EXCEPT ![c] = ok]
       /\ received' =
            IF arrives THEN [received EXCEPT ![c] = @ \cup {PostedBill(c)}]
                       ELSE received
       /\ BillTo(c, IF ok \/ LastTry(c) THEN "del" ELSE "post")
  /\ UNCHANGED <<listVars, threadVars, billCall, sqlVars, kills, overlapped,
                 platformVars>>

DelCall(c) ==
  /\ BillAt(c, "del")
  /\ callList' = [callList EXCEPT ![c] = NoCall]
  /\ BillTo(c, "idle")
  /\ Local(c, NoCall)
  /\ UNCHANGED <<up, threadVars, tries, acked, received, sqlVars, kills,
                 overlapped, platformVars>>

BillStep(c) ==
  \/ BillCopyOut(c)    \/ BillStoreBack(c) \/ WaitForSound(c)
  \/ BillFind(c)       \/ InsertLost(c)    \/ Bill2Sql(c)
  \/ Bill2SqlPanics(c) \/ PostBill(c)      \/ DelCall(c)

------------------------------------------------------------------------------
(* CallList has no lock.  The Go runtime ends the process when it catches  *)
(* one goroutine storing while another uses the map; it does not promise   *)
(* to catch it.                                                            *)

Thread == Handler \cup {"bill"}

Touches(c, t) ==
  IF t = "bill" THEN billPc[c] \in {"bill_r", "bill_w", "wait", "find", "del"}
                ELSE At(c, t, Update \cup {"newcall", "find", "extcheck"})

Stores(c, t) ==
  IF t = "bill" THEN billPc[c] \in {"bill_w", "del"}
                ELSE At(c, t, {"newcall"}) \/ val[c][t] # NoCall

MapThrow ==
  /\ up
  /\ \E c, d \in Calls, t, u \in Thread :
       <<c, t>> # <<d, u>> /\ Stores(c, t) /\ Touches(d, u)
  /\ Halt
  /\ UNCHANGED <<kills, platformVars>>

------------------------------------------------------------------------------
(* The platform's notifications.  One that comes while the process is down *)
(* is lost; otherwise eventProc starts a goroutine for it.                 *)

Running(c) == {h \in Handler : todo[c][h] # << >>}

\* With MaxThreads = 0 every goroutine ends before the next one starts.
Room(c) == Cardinality(Running(c)) <= MaxThreads

\* A goroutine of c starts, beside those that still run.
Started(c) ==
  overlapped' = IF Running(c) = {} THEN overlapped ELSE overlapped \cup {c}

Notify(c, h, prog) ==
  /\ \/ up /\ todo[c][h] = << >> /\ Room(c)
           /\ Become(c, h, prog)
           /\ Started(c)
     \/ ~up /\ UNCHANGED <<todo, overlapped>>
  /\ UNCHANGED <<listVars, val, billVars, kills>>

InCallNotified(c) == Dial(c) /\ Notify(c, "incall", InCallProc(c))

DtmfNotified(c) ==
  DigitsDone(c) /\ \E ext \in BOOLEAN : Notify(c, "dtmf", DtmfProc(ext))

FailureNotified(c) ==
  AgentFails(c) /\ \E s \in CallStatFailed : Notify(c, "stat", s)

AnswerNotified(c) == AgentAnswers(c) /\ Notify(c, "stat", AnswerProc)

\* Only a caller who gives up while the agent's phone rings is notified at
\* once; the end of the call is notified in any case.
HangupNotified(c) ==
  UserLeaves(c, "dialing") /\ Notify(c, "stat", HangupProc)

UserLeavesUnnotified(c) ==
  /\ \E p \in (OnLine \ {"dialing"}) \cup {"offered"} : UserLeaves(c, p)
  /\ UNCHANGED serverVars

PlayOverNotified(c) ==
  PlayDone(c) /\ Notify(c, "playover", CallPlayVoiceDone)

HasFile(file) == file \/ "record" \in Faulty

AgentEndNotified(c) ==
  /\ AgentLeaves(c)
  /\ \E file \in BOOLEAN :
       HasFile(file) /\ Notify(c, "agentend", EndCallProc("agent", file))

UserEndNotified(c) ==
  /\ Cleared(c)
  /\ \E file \in BOOLEAN :
       /\ IF phase[c] = "releasedRec" THEN HasFile(file) ELSE ~file
       /\ Notify(c, "userend", EndCallProc("user", file))

\* eventProc starts billMsgProc, which parses the bill first.
BillNotified(c) ==
  /\ Billed(c)
  /\ \/ up /\ billPc[c] = "idle" /\ Room(c)
           /\ BillTo(c, "bill_r")
           /\ Started(c)
     \/ ~up /\ UNCHANGED <<billPc, overlapped>>
  /\ UNCHANGED <<listVars, threadVars, billCall, tries, acked, received,
                 sqlVars, kills>>

\* ParseBill takes the first of the bill's details without looking whether
\* there is one.
ParseBillPanics(c) ==
  /\ "detail" \in Faulty
  /\ up
  /\ Room(c)
  /\ Billed(c)
  /\ Halt
  /\ UNCHANGED kills

PlatformStep(c) ==
  \/ InCallNotified(c)   \/ DtmfNotified(c)     \/ FailureNotified(c)
  \/ AnswerNotified(c)   \/ HangupNotified(c)   \/ UserLeavesUnnotified(c)
  \/ PlayOverNotified(c) \/ AgentEndNotified(c) \/ UserEndNotified(c)
  \/ BillNotified(c)     \/ ParseBillPanics(c)

------------------------------------------------------------------------------
Next ==
  \/ \E c \in Calls :
       \/ PlatformStep(c)
       \/ BillStep(c)
       \/ LateInsert(c)
       \/ \E h \in Handler : Step(c, h)
  \/ MapThrow
  \/ Kill
  \/ Start

Spec == Init /\ [][Next]_vars

\* Fairness for the liveness property: the scheduler runs every goroutine
\* that can run, and the platform reports what happened to a call.  A caller
\* does not stay on the line for ever.  Nothing is said of Kill and Start.
Fairness ==
  \A c \in Calls :
    /\ WF_vars(BillStep(c))
    /\ \A h \in Handler : WF_vars(Step(c, h))
    /\ WF_vars(UserLeavesUnnotified(c))
    /\ WF_vars(HangupNotified(c))
    /\ WF_vars(UserEndNotified(c))
    /\ WF_vars(BillNotified(c))

FairSpec == Spec /\ Fairness

------------------------------------------------------------------------------
(* Properties of every interleaving.                                       *)

Rows(c) == Range(rows[c])

\* What the customer is sent is what was stored: however often a bill is
\* posted again, and whatever late goroutines do to callList in between,
\* every copy the customer gets is every row of the call.  A call without a
\* row was not posted, and it has one row more than inserts whose answer was
\* lost, or fewer.  (billMsgProc takes one copy of the call for Bill2Sql and
\* all posts.)
BillsAgree ==
  \A c \in Calls :
    /\ Len(rows[c]) <= lost[c] + 1
    /\ received[c] # {} => rows[c] # << >>
    /\ \A a, b \in Rows(c) \cup received[c] : a = b

\* The bill of a call wherever it is outside the server.
BillsOf(c) == Rows(c) \cup Range(doubt[c]) \cup received[c]

\* billMsgProc has not come to Bill2Sql yet.
Early(c) ==
  \/ billPc[c] \in {"bill_r", "bill_w", "wait", "find"}
  \/ billPc[c] = "idle" /\ phase[c] # "billed"

\* The invariant behind the promises below, by what billMsgProc has done: it
\* runs only for a billed call and, since the platform bills a call once,
\* only once; before Bill2Sql there is no insert; at Bill2Sql all of them
\* are tries whose answer was lost, and afterwards one was answered; all of
\* them say what the local copy says, until the post is settled, and the
\* same to the end; before one was answered nothing was sent.
BillInOrder(c) ==
  /\ phase[c] # "billed" => billPc[c] = "idle"
  /\ Early(c) => rows[c] = << >> /\ doubt[c] = << >> /\ lost[c] = 0
  /\ Early(c) \/ billPc[c] = "store" =>
       received[c] = {} /\ tries[c] = 0 /\ acked[c] = FALSE
  /\ Len(rows[c]) + Len(doubt[c]) <=
       IF billPc[c] = "store" THEN lost[c] ELSE lost[c] + 1
  /\ billPc[c] \in {"bill_w", "store"} => billCall[c] # NoCall
  /\ billPc[c] \in {"store", "post", "del"} =>
       \A b \in BillsOf(c) : b = billCall[c]
  /\ billPc[c] \in {"post", "del"} =>
       billCall[c] # NoCall /\ rows[c] # << >>
  /\ billPc[c] = "post" => tries[c] < PostTries /\ acked[c] = FALSE
  /\ billPc[c] = "del" => tries[c] = PostTries \/ acked[c] = TRUE
  /\ rows[c] = << >> =>
       received[c] = {} /\ tries[c] = 0 /\ acked[c] = FALSE
  /\ \A a, b \in BillsOf(c) : a = b
  /\ ~up => billPc[c] = "idle" /\ callList[c] = NoCall

BillInv == \A c \in Calls : BillInOrder(c)

\* While the process runs, a call is forgotten only when its bill is stored
\* and the customer confirmed it or all six posts were made.  (DelCall is the
\* only deletion; an early return of billMsgProc leaves the record.)
DeleteOnlyWhenSettled ==
  [][\A c \in Calls :
       callList[c] # NoCall /\ callList'[c] = NoCall /\ up'
         => rows[c] # << >> /\ (acked[c] \/ tries[c] = PostTries)]_vars

BillState(c) ==
  IF billPc[c] = "post" THEN "sending"
  ELSE IF Early(c) \/ billPc[c] = "store" THEN "open" ELSE "closed"

\* The server does what module Billing promises, whatever the interleaving
\* of its goroutines, and through crashes and restarts.
B == INSTANCE Billing WITH
       Bills     <- CallInfo,
       MaxSends  <- PostTries,
       listed    <- [c \in Calls |-> callList[c] # NoCall],
       ledger    <- rows,
       state     <- [c \in Calls |-> BillState(c)],
       sends     <- tries,
       delivered <- received,
       confirmed <- acked

KeepsBillingPromise == B!Spec

(* Properties of the calls whose goroutines ran one after the other: none  *)
(* was started while another one of the call was running.                  *)

\* The columns every row needs are there: start and end time, charge, result.
RowComplete ==
  \A c \in Calls \ overlapped : \A row \in Rows(c) :
    /\ row.callStart = "set"
    /\ row.endTime = "set"
    /\ row.bill = "set"
    /\ row.result # ""

\* A bill says ANSWERED, names the agent and has an answer time and a
\* recording when the agent did answer; otherwise it neither says ANSWERED
\* nor has a recording.
AnsweredMeansTalked ==
  \A c \in Calls \ overlapped : \A row \in Rows(c) :
    IF c \in talked
      THEN /\ row.result = "ANSWERED"
           /\ row.callee = "agent"
           /\ row.answerTime = "set"
           /\ row.record = "url"
      ELSE row.result # "ANSWERED" /\ row.record = ""

\* The reason on the bill is what happened: HANGUP and NOEXT_USER_HANGUP
\* blame the caller only when the caller left first, and only a call to a
\* fixed line whose caller dialled no complete extension is a NOEXT call.
ReasonIsTrue ==
  \A c \in Calls \ overlapped : \A row \in Rows(c) :
    /\ row.result \in {"HANGUP", "NOEXT_USER_HANGUP"} => endedBy[c] = "user"
    /\ row.result \in {"NOEXT_USER_HANGUP", "NOEXT_SYS_HANGUP"}
         => c \notin Mobile /\ row.dtmf = ""

\* The first result of a call stays, unless the agent answers after all.
\* (UpdateCallResult: "once it has been updated, do not update again".  That
\* goroutines which overlap break it is ResultNotReplaced below.)
FirstResultStays ==
  [][\A c \in Calls \ overlapped :
       /\ callList[c] # NoCall /\ callList[c].result # ""
       /\ callList'[c] # NoCall
       => callList'[c].result \in {callList[c].result, "ANSWERED"}]_vars

\* Every call that gets a record loses it again: it is billed, or the process
\* ends.  Holds while the recording of an answered call is always notified.
EveryRecordRetired ==
  \A c \in Calls : callList[c] # NoCall ~> callList[c] = NoCall

------------------------------------------------------------------------------
(* What comments of the code say, and the code does not do.                *)

\* server.go, inCallProcByMobile and dtmfProc: on a timeout or an error of
\* the number service the caller hears that the number does not exist.  So
\* the goroutine that asked goes on when the answer fails to come.
LookupIsFollowedUp ==
  [][\A c \in Calls, h \in Handler :
       /\ todo[c][h] # << >>
       /\ Head(todo[c][h]).op = "lookup"
       => todo'[c][h] # << >>]_vars

\* callManager.go, UpdateCallResult: "once it has been updated, do not update
\* again"; so no result takes the place of another but ANSWERED.
ResultNotReplaced ==
  [][\A c \in Calls :
       /\ callList[c] # NoCall /\ callList[c].result # ""
       /\ callList'[c] # NoCall
       => callList'[c].result \in {"", callList[c].result, "ANSWERED"}]_vars

\* callManager.go, CallInfoSoundReady, and server.go, billMsgProc: the bill
\* of an answered call waits for the recording's address.
AnsweredRowHasRecord ==
  \A c \in Calls :
    \A row \in Rows(c) : row.result = "ANSWERED" => row.record = "url"

==============================================================================
