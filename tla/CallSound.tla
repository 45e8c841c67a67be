------------------------------ MODULE CallSound ------------------------------
(***************************************************************************)
(* What holds of a call whose goroutines run one after the other: Sound    *)
(* relates the phase the call is in, the line its goroutine is at (module  *)
(* GoroutineLines) and the record of the call.  The lemmas say that every  *)
(* step of the server and of the platform keeps it; none of them mentions  *)
(* a variable, so that the provers see one call and one step at a time.    *)
(***************************************************************************)
EXTENDS GoroutineLines

------------------------------------------------------------------------------
(* The invariant: of a call c in phase p, ended by e, with the agent        *)
(* reached by the calls in T, whose goroutine h is at line l, and whose     *)
(* record is r.                                                             *)

Known(r) == r # NoCall => r.result # ""

NoExtReason == {"NOEXT_USER_HANGUP", "NOEXT_SYS_HANGUP"}

\* A call that has not been made has no record; the end of a call is the last
\* that is notified before its bill.
InTime(p, h, l, r) ==
  /\ p = "new" => r = NoCall
  /\ p \in {"new", "billed"} => l = "rest"
  /\ p = "cleared" => l = "rest" \/ h = "userend"
  /\ h = "userend" => l = "rest" \/ p = "cleared"
  /\ r # NoCall /\ p \in {"cleared", "billed"} =>
       /\ r.endTime = "set" \/ l # "rest"
       /\ r.result # "" \/ l \in {"check", "gaveup", "nodial"}

\* The first goroutine makes the record and sets the start time.
Begun(c, p, e, h, l, r) ==
  /\ l \in {"accept", "bind", "newcall"} =>
       r = NoCall /\ p \in {"offered", "open", "released"} /\ e # "server"
  /\ r # NoCall => r.callStart = "set" \/ l \in {"getdtmf", "start"}
  /\ p = "menu" => c \notin Mobile /\ l \in {"rest", "start"}
  /\ (p = "menu" \/ l \in {"getdtmf", "start"}) /\ r # NoCall => r.result = ""
  /\ (p = "menu" \/ (h = "incall" /\ l # "rest")) /\ r # NoCall => r.dtmf = ""

\* The record says that the agent answered exactly when the agent did.
Talked(c, p, T, h, l, r) ==
  /\ p \in {"talking", "agentGone", "releasedRec"} => c \in T
  /\ c \in T =>
       /\ p \notin {"new", "offered", "menu", "dialing"}
       /\ l = "rest" \/ h \notin {"incall", "dtmf"}
       /\ r # NoCall =>
            /\ r.callee = "agent"
            /\ l # "answer" =>
                 /\ r.result = "ANSWERED" /\ r.answerTime = "set"
                 /\ r.callStatus = "ANSWER"
  /\ c \notin T =>
       /\ l \notin {"answer", "file"}
       /\ l = "rest" \/ h # "agentend"
       /\ r # NoCall => r.result # "ANSWERED" /\ r.record = ""

\* The record names the agent before the agent's phone rings.
Rings(p, h, l, r) ==
  /\ p = "dialing" /\ h \in {"incall", "dtmf"} =>
       l \in {"rest", "other", "play"}
  /\ (p = "dialing" \/ l = "transfer") /\ r # NoCall => r.callee = "agent"

\* Whoever ends the call leaves a result, the caller's only if it was he.
Reasoned(c, p, e, h, l, r) ==
  /\ IF p \in {"released", "releasedRec", "cleared", "billed"}
       THEN e \in {"user", "server"} ELSE e = ""
  /\ \/ l \in {"play", "endplay", "hangup"}
     \/ h = "stat" /\ l = "end"
     => Known(r)
  /\ p = "playing" => Known(r) \/ l = "why"
  /\ e = "server" => Known(r)
  /\ h = "stat" /\ l = "gaveup" => e = "user"
  /\ r # NoCall /\ r.result \in EndReason => e = "user"
  /\ c \in Mobile =>
       Known(r) \/ (l # "rest" /\ h \in {"incall", "stat"}) \/ p = "dialing"

\* Only calls to fixed lines whose callers dial no extension are NOEXT calls.
Dialled(c, h, l, r) ==
  /\ h = "dtmf" => l = "rest" \/ c \notin Mobile
  /\ l \in {"find", "digits"} /\ r # NoCall => r.result = ""
  /\ l \in {"nodigits", "nocallee", "noext", "nodial"} /\ r # NoCall =>
       r.dtmf = ""
  /\ r # NoCall /\ r.result \in NoExtReason => c \notin Mobile /\ r.dtmf = ""

Sound(c, p, e, T, h, l, r) ==
  /\ InTime(p, h, l, r) /\ Begun(c, p, e, h, l, r) /\ Talked(c, p, T, h, l, r)
  /\ Rings(p, h, l, r) /\ Reasoned(c, p, e, h, l, r) /\ Dialled(c, h, l, r)

\* What the bill v of call c, ended by e, must say.
BillIsTrue(c, e, T, v) ==
  /\ v.callStart = "set" /\ v.endTime = "set" /\ v.bill = "set"
  /\ v.result # ""
  /\ IF c \in T
       THEN /\ v.result = "ANSWERED" /\ v.callee = "agent"
            /\ v.answerTime = "set" /\ v.record = "url"
       ELSE v.result # "ANSWERED" /\ v.record = ""
  /\ v.result \in EndReason => e = "user"
  /\ v.result \in NoExtReason => c \notin Mobile /\ v.dtmf = ""

------------------------------------------------------------------------------
(* The updates of a record.                                                *)

ResultLines == {"why", "other", "noext", "noanswer", "gaveup", "nodial"}

UpdateLines ==
  ResultLines \cup {"start", "nobody", "nocallee", "agent", "digits", "answer",
                    "end", "endplay", "file"}

\* The update of line l makes w of record r.
Effect(l, r, w) ==
  /\ w # NoCall
  /\ w.callStart = IF l = "start" THEN "set" ELSE r.callStart
  /\ w.callee = IF l \in {"nobody", "nocallee"} THEN ""
                ELSE IF l = "agent" THEN "agent" ELSE r.callee
  /\ w.dtmf = IF l = "digits" THEN "ext" ELSE r.dtmf
  /\ w.endTime = IF l \in {"end", "endplay", "file"} THEN "set" ELSE r.endTime
  /\ w.record = IF l = "file" THEN "url" ELSE r.record
  /\ w.answerTime = IF l = "answer" THEN "set" ELSE r.answerTime
  /\ l = "why" => w.result \in Alike
  /\ l = "other" => w.result = "OTHER"
  /\ l = "noext" => w.result = "NOEXT_SYS_HANGUP"
  /\ l = "noanswer" => w.result = "NO_ANSWER"
  /\ l = "gaveup" => w.result = "HANGUP"
  /\ l = "nodial" => w.result = "NOEXT_USER_HANGUP"
  /\ l = "answer" => w.result = "ANSWERED"
  /\ l \notin ResultLines \cup {"answer"} => w.result = r.result
  /\ l = "answer" => w.callStatus = "ANSWER"
  /\ l \notin {"answer", "start", "nobody", "nocallee", "agent"} =>
       w.callStatus = r.callStatus

Updates(l, r, w) ==
  /\ l \in UpdateLines /\ r # NoCall /\ (l \in ResultLines => r.result = "")
  /\ Effect(l, r, w)

\* The call made at a line that updates the record.
CallAt(l, i) ==
  /\ l = "start" => i.op = "start"
  /\ l \in {"nobody", "nocallee"} => i.op = "callee" /\ i.arg = ""
  /\ l = "agent" => i.op = "callee" /\ i.arg = "agent"
  /\ l = "digits" => i.op = "dtmf" /\ i.arg = "ext"
  /\ l = "answer" => i.op = "answer" /\ i.arg = "ANSWERED"
  /\ l \in {"end", "endplay"} => i.op = "end" /\ i.arg = ""
  /\ l = "file" => i.op = "end" /\ i.arg = "url"
  /\ l = "why" => i.op = "result" /\ i.arg \in Alike
  /\ l = "other" => i.op = "result" /\ i.arg = "OTHER"
  /\ l = "noext" => i.op = "result" /\ i.arg = "NOEXT_SYS_HANGUP"
  /\ l = "noanswer" => i.op = "result" /\ i.arg = "NO_ANSWER"
  /\ l = "gaveup" => i.op = "result" /\ i.arg = "HANGUP"
  /\ l = "nodial" => i.op = "result" /\ i.arg = "NOEXT_USER_HANGUP"

LEMMA FirstCall ==
  ASSUME NEW l, NEW i \in First(l)
  PROVE  CallAt(l, i)
<1>1. l = "why" => i.op = "result" /\ i.arg \in Alike
  <2> SUFFICES ASSUME l = "why" PROVE i.op = "result" /\ i.arg \in Alike
    OBVIOUS
  <2>1. First(l) = {Do("result", r) : r \in Alike}
    BY DEF First
  <2>2. PICK r \in Alike : i = Do("result", r)
    BY <2>1
  <2>3. QED
    BY <2>2 DEF Do
<1>2. /\ l = "start" => i = Do("start", "")
      /\ l \in {"nobody", "nocallee"} => i = Do("callee", "")
      /\ l = "agent" => i = Do("callee", "agent")
      /\ l = "digits" => i = Do("dtmf", "ext")
      /\ l = "answer" => i = Do("answer", "ANSWERED")
      /\ l \in {"end", "endplay"} => i = Do("end", "")
      /\ l = "file" => i = Do("end", "url")
      /\ l = "other" => i = Do("result", "OTHER")
      /\ l = "noext" => i = Do("result", "NOEXT_SYS_HANGUP")
      /\ l = "noanswer" => i = Do("result", "NO_ANSWER")
      /\ l = "gaveup" => i = Do("result", "HANGUP")
      /\ l = "nodial" => i = Do("result", "NOEXT_USER_HANGUP")
  BY DEF First
<1>3. \A o, a : i = Do(o, a) => i.op = o /\ i.arg = a
  BY DEF Do
<1>4. /\ l = "start" => i.op = "start"
      /\ l \in {"nobody", "nocallee"} => i.op = "callee" /\ i.arg = ""
      /\ l = "agent" => i.op = "callee" /\ i.arg = "agent"
      /\ l = "digits" => i.op = "dtmf" /\ i.arg = "ext"
      /\ l = "answer" => i.op = "answer" /\ i.arg = "ANSWERED"
  BY <1>2, <1>3
<1>5. /\ l \in {"end", "endplay"} => i.op = "end" /\ i.arg = ""
      /\ l = "file" => i.op = "end" /\ i.arg = "url"
      /\ l = "other" => i.op = "result" /\ i.arg = "OTHER"
      /\ l = "noext" => i.op = "result" /\ i.arg = "NOEXT_SYS_HANGUP"
  BY <1>2, <1>3
<1>6. /\ l = "noanswer" => i.op = "result" /\ i.arg = "NO_ANSWER"
      /\ l = "gaveup" => i.op = "result" /\ i.arg = "HANGUP"
      /\ l = "nodial" => i.op = "result" /\ i.arg = "NOEXT_USER_HANGUP"
  BY <1>2, <1>3
<1>7. QED
  BY <1>1, <1>4, <1>5, <1>6 DEF CallAt

LEMMA CallTyped ==
  ASSUME NEW l \in UpdateLines, NEW i, CallAt(l, i)
  PROVE  i.op \in Update /\ (i.op = "result" <=> l \in ResultLines)
<1>1. l \in ResultLines => i.op = "result"
  BY DEF CallAt, ResultLines
<1>2. l \notin ResultLines =>
        i.op \in {"start", "callee", "dtmf", "answer", "end"}
  BY DEF CallAt, UpdateLines
<1>3. QED
  BY <1>1, <1>2 DEF Update

LEMMA CallInstr ==
  ASSUME NEW l \in UpdateLines, NEW i \in First(l)
  PROVE  i \in Instr
<1>1. \A r \in Alike : Do("result", r) \in Instr
  BY DEF Do, Instr, Result, Alike, LookupReason, StatReason
<1>2. l = "why" => i \in Instr
  BY <1>1 DEF First
<1>3. /\ Do("start", "") \in Instr /\ Do("callee", "") \in Instr
      /\ Do("callee", "agent") \in Instr /\ Do("dtmf", "ext") \in Instr
      /\ Do("answer", "ANSWERED") \in Instr /\ Do("end", "") \in Instr
      /\ Do("end", "url") \in Instr /\ Do("result", "OTHER") \in Instr
      /\ Do("result", "NOEXT_SYS_HANGUP") \in Instr
      /\ Do("result", "NO_ANSWER") \in Instr
      /\ Do("result", "HANGUP") \in Instr
      /\ Do("result", "NOEXT_USER_HANGUP") \in Instr
  BY DEF Do, Instr, Result
<1>4. QED
  BY <1>2, <1>3 DEF First, UpdateLines, ResultLines

LEMMA AppliedEffect ==
  ASSUME NEW l \in UpdateLines, NEW i, CallAt(l, i), NEW r \in CallInfo,
         Applied(i, r) # NoCall
  PROVE  Effect(l, r, Applied(i, r))
<1> DEFINE w == Applied(i, r)
<1>1. CASE l = "start"
  <2>1. w = UpdateCallStartTime(r)
    BY <1>1 DEF Applied, CallAt
  <2>2. QED
    BY <1>1, <2>1 DEF UpdateCallStartTime, CallInfo, Effect, ResultLines
<1>3. CASE l \in {"nobody", "nocallee", "agent"}
  <2>1. w = UpdateCallee(r, IF l = "agent" THEN "agent" ELSE "")
    BY <1>3 DEF Applied, CallAt
  <2>2. QED
    BY <1>3, <2>1 DEF UpdateCallee, CallInfo, Effect, ResultLines
<1>4. CASE l = "digits"
  <2>1. w = SetCallDtmf(r, "ext")
    BY <1>4 DEF Applied, CallAt
  <2>2. QED
    BY <1>4, <2>1 DEF SetCallDtmf, CallInfo, Effect, ResultLines
<1>5. CASE l = "answer"
  <2>1. w = UpdateCallAnswerTime(r, "ANSWERED")
    BY <1>5 DEF Applied, CallAt
  <2>2. QED
    BY <1>5, <2>1 DEF UpdateCallAnswerTime, CallInfo, Effect, ResultLines
<1>6. CASE l \in {"end", "endplay", "file"}
  <2>1. w = UpdateCallEndTime(r, IF l = "file" THEN "url" ELSE "")
    BY <1>6 DEF Applied, CallAt
  <2>2. QED
    BY <1>6, <2>1 DEF UpdateCallEndTime, CallInfo, Effect, ResultLines
<1>7. CASE l \in ResultLines
  <2>1. w = UpdateCallResult(r, i.arg)
    BY <1>7 DEF Applied, CallAt, ResultLines
  <2>2. QED
    BY <1>7, <2>1 DEF UpdateCallResult, CallInfo, Effect, ResultLines, CallAt
<1>8. QED
  BY <1>1, <1>3, <1>4, <1>5, <1>6, <1>7 DEF UpdateLines

\* An update that is made keeps each part of Sound, at the next line.
LEMMA InTimeUpdated ==
  ASSUME NEW c, NEW p, NEW e, NEW T, NEW h \in Handler, NEW l,
         LineFacts(c, h, l), NEW r, Sound(c, p, e, T, h, l, r),
         NEW m, AfterFacts(c, h, l, m), NEW w, Updates(l, r, w)
  PROVE  InTime(p, h, m, w)
BY DEF LineFacts, AfterFacts, Sound, InTime, Begun, Talked, Rings, Reasoned,
       Dialled, Known, Updates, UpdateLines, ResultLines, Effect, Alike,
       LookupReason, StatReason, NoExtReason, EndReason

LEMMA BegunUpdated ==
  ASSUME NEW c, NEW p, NEW e, NEW T, NEW h \in Handler, NEW l,
         LineFacts(c, h, l), NEW r, Sound(c, p, e, T, h, l, r),
         NEW m, AfterFacts(c, h, l, m), NEW w, Updates(l, r, w)
  PROVE  Begun(c, p, e, h, m, w)
BY ZenonT(30)
   DEF LineFacts, AfterFacts, Sound, InTime, Begun, Talked, Rings, Reasoned,
       Dialled, Known, Updates, UpdateLines, ResultLines, Effect, Alike,
       LookupReason, StatReason, NoExtReason, EndReason

LEMMA TalkedUpdated ==
  ASSUME NEW c, NEW p, NEW e, NEW T, NEW h \in Handler, NEW l,
         LineFacts(c, h, l), NEW r, Sound(c, p, e, T, h, l, r),
         NEW m, AfterFacts(c, h, l, m), NEW w, Updates(l, r, w)
  PROVE  Talked(c, p, T, h, m, w)
BY DEF LineFacts, AfterFacts, Sound, InTime, Begun, Talked, Rings, Reasoned,
       Dialled, Known, Updates, UpdateLines, ResultLines, Effect, Alike,
       LookupReason, StatReason, NoExtReason, EndReason

LEMMA RingsUpdated ==
  ASSUME NEW c, NEW p, NEW e, NEW T, NEW h \in Handler, NEW l,
         LineFacts(c, h, l), NEW r, Sound(c, p, e, T, h, l, r),
         NEW m, AfterFacts(c, h, l, m), NEW w, Updates(l, r, w)
  PROVE  Rings(p, h, m, w)
BY DEF LineFacts, AfterFacts, Sound, InTime, Begun, Talked, Rings, Reasoned,
       Dialled, Known, Updates, UpdateLines, ResultLines, Effect, Alike,
       LookupReason, StatReason, NoExtReason, EndReason

LEMMA DialledUpdated ==
  ASSUME NEW c, NEW p, NEW e, NEW T, NEW h \in Handler, NEW l,
         LineFacts(c, h, l), NEW r, Sound(c, p, e, T, h, l, r),
         NEW m, AfterFacts(c, h, l, m), NEW w, Updates(l, r, w)
  PROVE  Dialled(c, h, m, w)
BY DEF LineFacts, AfterFacts, Sound, InTime, Begun, Talked, Rings, Reasoned,
       Dialled, Known, Updates, UpdateLines, ResultLines, Effect, Alike,
       LookupReason, StatReason, NoExtReason, EndReason

LEMMA ReasonedUpdated ==
  ASSUME NEW c, NEW p, NEW e, NEW T, NEW h \in Handler, NEW l,
         LineFacts(c, h, l), NEW r, Sound(c, p, e, T, h, l, r),
         NEW m, AfterFacts(c, h, l, m), NEW w, Updates(l, r, w)
  PROVE  Reasoned(c, p, e, h, m, w)
<1>1. w # NoCall /\ r # NoCall /\ Reasoned(c, p, e, h, l, r)
  BY DEF Sound, Updates, Effect
<1>2. Known(r) => Known(w)
  BY DEF Updates, Effect, Known, ResultLines, Alike, LookupReason, StatReason
<1>3. l \in ResultLines \cup {"answer"} => Known(w)
  BY DEF Updates, Effect, Known, ResultLines, Alike, LookupReason, StatReason
<1>4. \/ m \in {"play", "endplay", "hangup"}
      \/ h = "stat" /\ m = "end"
      => Known(w)
  <2>1. m \in {"play", "endplay"} \/ m = "end" => l \in ResultLines \/ l = "endplay"
    BY DEF AfterFacts, UpdateLines, ResultLines, Updates
  <2>2. m = "hangup" => h = "agentend" /\ l \in {"file", "end"}
    BY DEF AfterFacts, UpdateLines, ResultLines, Updates
  <2>3. h = "agentend" /\ l \in {"file", "end"} => Known(r)
    BY <1>1 DEF Sound, Talked, Known
  <2>4. QED
    BY <1>1, <1>2, <1>3, <2>1, <2>2, <2>3 DEF Reasoned
<1>5. w.result \in EndReason => e = "user"
  BY <1>1 DEF LineFacts, AfterFacts, Sound, InTime, Begun, Talked, Rings,
       Reasoned, Dialled, Known, Updates, UpdateLines, ResultLines, Effect,
       Alike, LookupReason, StatReason, NoExtReason, EndReason
<1>6. c \in Mobile =>
       Known(w) \/ (m # "rest" /\ h \in {"incall", "stat"}) \/ p = "dialing"
  BY <1>1, <1>2, <1>3 DEF Reasoned, LineFacts, AfterFacts, UpdateLines,
       ResultLines, Updates
<1>7. ~(h = "stat" /\ m = "gaveup")
  BY DEF AfterFacts, UpdateLines, ResultLines, Updates
<1>8. p = "playing" => Known(w) \/ m = "why"
  BY <1>1, <1>2, <1>3 DEF Reasoned, ResultLines
<1>9. QED
  BY <1>1, <1>2, <1>4, <1>5, <1>6, <1>7, <1>8 DEF Reasoned

LEMMA UpdateSound ==
  ASSUME NEW c, NEW p, NEW e, NEW T, NEW h \in Handler, NEW l,
         LineFacts(c, h, l), NEW r, Sound(c, p, e, T, h, l, r),
         NEW m, AfterFacts(c, h, l, m), NEW w, Updates(l, r, w)
  PROVE  Sound(c, p, e, T, h, m, w)
BY InTimeUpdated, BegunUpdated, TalkedUpdated, RingsUpdated, ReasonedUpdated,
   DialledUpdated DEF Sound

\* So does one that is not made, for want of a record or because the call
\* has a result.
LEMMA SkipSound ==
  ASSUME NEW c, NEW p, NEW e, NEW T, NEW h \in Handler, NEW l,
         LineFacts(c, h, l), NEW r, Sound(c, p, e, T, h, l, r),
         NEW m, AfterFacts(c, h, l, m),
         l \in UpdateLines,
         r = NoCall \/ (l \in ResultLines /\ r.result # "")
  PROVE  Sound(c, p, e, T, h, m, r)
<1> USE DEF LineFacts, AfterFacts, Sound, InTime, Begun, Talked, Rings,
            Reasoned, Dialled, Known, NoExtReason, EndReason, UpdateLines,
            ResultLines
<1>1. InTime(p, h, m, r)
  OBVIOUS
<1>2. Begun(c, p, e, h, m, r)
  OBVIOUS
<1>3. Talked(c, p, T, h, m, r)
  OBVIOUS
<1>4. Rings(p, h, m, r)
  OBVIOUS
<1>5. Reasoned(c, p, e, h, m, r)
  OBVIOUS
<1>6. Dialled(c, h, m, r)
  OBVIOUS
<1>7. QED
  BY <1>1, <1>2, <1>3, <1>4, <1>5, <1>6

------------------------------------------------------------------------------
(* The other calls a goroutine makes.                                      *)

\* The record is made by the first goroutine, before it can be missed.
LEMMA NewCallSound ==
  ASSUME NEW c, NEW p, NEW e, NEW T, NEW h \in Handler, NEW l,
         LineFacts(c, h, l), NEW r, Sound(c, p, e, T, h, l, r),
         NEW m, AfterFacts(c, h, l, m),
         l = "newcall", NewCall # NoCall
  PROVE  Sound(c, p, e, T, h, m, NewCall)
BY DEF LineFacts, AfterFacts, Sound, InTime, Begun, Talked, Rings, Reasoned,
       Dialled, Known, NoExtReason, EndReason, NewCall

LEMMA FindSound ==
  ASSUME NEW c, NEW p, NEW e, NEW T, NEW h \in Handler, NEW l,
         LineFacts(c, h, l), NEW r, Sound(c, p, e, T, h, l, r),
         NEW m, AfterFacts(c, h, l, m),
         l \in {"find", "nodigits"}
  PROVE  /\ r # NoCall =>
              Sound(c, p, e, T, h, m, r)
         /\ r = NoCall =>
              Sound(c, p, e, T, h, "rest", r)
<1> USE DEF LineFacts, AfterFacts, Sound, InTime, Begun, Talked, Rings,
            Reasoned, Dialled, Known, NoExtReason, EndReason
<1>1. r # NoCall =>
       Sound(c, p, e, T, h, m, r)
  OBVIOUS
<1>2. r = NoCall =>
       Sound(c, p, e, T, h, "rest", r)
  OBVIOUS
<1> HIDE DEF LineFacts, AfterFacts, Sound
<1>3. QED
  BY <1>1, <1>2

LEMMA CheckSound ==
  ASSUME NEW c, NEW p, NEW e, NEW T, NEW h \in Handler, NEW l,
         LineFacts(c, h, l), NEW r, Sound(c, p, e, T, h, l, r),
         NEW m, AfterFacts(c, h, l, m),
         l = "check"
  PROVE  /\ r # NoCall /\ r.dtmf = "ext" =>
              Sound(c, p, e, T, h, "gaveup", r)
         /\ (r # NoCall => r.dtmf = "") =>
              Sound(c, p, e, T, h, "nodial", r)
<1> USE DEF LineFacts, AfterFacts, Sound, InTime, Begun, Talked, Rings,
            Reasoned, Dialled, Known, NoExtReason, EndReason
<1>1. r # NoCall /\ r.dtmf = "ext" =>
       Sound(c, p, e, T, h, "gaveup", r)
  OBVIOUS
<1>2. (r # NoCall => r.dtmf = "") =>
       Sound(c, p, e, T, h, "nodial", r)
  OBVIOUS
<1> HIDE DEF LineFacts, AfterFacts, Sound
<1>3. QED
  BY <1>1, <1>2

LEMMA BindSound ==
  ASSUME NEW c, NEW p, NEW e, NEW T, NEW h \in Handler, NEW l,
         LineFacts(c, h, l), NEW r, Sound(c, p, e, T, h, l, r),
         NEW m, AfterFacts(c, h, l, m), l = "bind"
  PROVE  /\ Sound(c, p, e, T, h, m, r)
         /\ Sound(c, p, e, T, h, "play", r)
<1> USE DEF LineFacts, AfterFacts, Sound, InTime, Begun, Talked, Rings,
            Reasoned, Dialled, Known, NoExtReason, EndReason
<1>1. Sound(c, p, e, T, h, m, r)
  OBVIOUS
<1>2. Sound(c, p, e, T, h, "play", r)
  OBVIOUS
<1> HIDE DEF LineFacts, AfterFacts, Sound
<1>3. QED
  BY <1>1, <1>2

LEMMA LookupSound ==
  ASSUME NEW c, NEW p, NEW e, NEW T, NEW h \in Handler, NEW l,
         LineFacts(c, h, l), NEW r, Sound(c, p, e, T, h, l, r),
         NEW m, AfterFacts(c, h, l, m), l = "lookup"
  PROVE  /\ Sound(c, p, e, T, h, "nobody", r)
         /\ Sound(c, p, e, T, h, "agent", r)
<1> USE DEF LineFacts, AfterFacts, Sound, InTime, Begun, Talked, Rings,
            Reasoned, Dialled, Known, NoExtReason, EndReason
<1>1. Sound(c, p, e, T, h, "nobody", r)
  OBVIOUS
<1>2. Sound(c, p, e, T, h, "agent", r)
  OBVIOUS
<1> HIDE DEF LineFacts, AfterFacts, Sound
<1>3. QED
  BY <1>1, <1>2

\* A request that is carried out moves the call to its next phase, whether
\* or not the goroutine learns of it; one that is not leaves it where it is.
LEMMA AcceptSound ==
  ASSUME NEW c, NEW p, NEW e, NEW T, NEW h \in Handler, NEW l,
         LineFacts(c, h, l), NEW r, Sound(c, p, e, T, h, l, r),
         NEW m, AfterFacts(c, h, l, m), l = "accept"
  PROVE  /\ Sound(c, p, e, T, h, "rest", r)
         /\ p = "offered" =>
              Sound(c, "open", e, T, h, m, r)
         /\ p = "offered" =>
              Sound(c, "open", e, T, h, "rest", r)
<1> USE DEF LineFacts, AfterFacts, Sound, InTime, Begun, Talked, Rings,
            Reasoned, Dialled, Known, NoExtReason, EndReason
<1>1. Sound(c, p, e, T, h, "rest", r)
  OBVIOUS
<1>2. p = "offered" =>
       Sound(c, "open", e, T, h, m, r)
  OBVIOUS
<1>3. p = "offered" =>
       Sound(c, "open", e, T, h, "rest", r)
  OBVIOUS
<1> HIDE DEF LineFacts, AfterFacts, Sound
<1>4. QED
  BY <1>1, <1>2, <1>3

LEMMA MenuSound ==
  ASSUME NEW c, NEW p, NEW e, NEW T, NEW h \in Handler, NEW l,
         LineFacts(c, h, l), NEW r, Sound(c, p, e, T, h, l, r),
         NEW m, AfterFacts(c, h, l, m), l = "getdtmf"
  PROVE  /\ Sound(c, p, e, T, h, m, r)
         /\ p = "open" =>
              Sound(c, "menu", e, T, h, m, r)
<1> USE DEF LineFacts, AfterFacts, Sound, InTime, Begun, Talked, Rings,
            Reasoned, Dialled, Known, NoExtReason, EndReason
<1>1. Sound(c, p, e, T, h, m, r)
  OBVIOUS
<1>2. p = "open" =>
       Sound(c, "menu", e, T, h, m, r)
  OBVIOUS
<1> HIDE DEF LineFacts, AfterFacts, Sound
<1>3. QED
  BY <1>1, <1>2

LEMMA TransferSound ==
  ASSUME NEW c, NEW p, NEW e, NEW T, NEW h \in Handler, NEW l,
         LineFacts(c, h, l), NEW r, Sound(c, p, e, T, h, l, r),
         NEW m, AfterFacts(c, h, l, m), l = "transfer"
  PROVE  /\ Sound(c, p, e, T, h, "other", r)
         /\ p = "open" =>
              Sound(c, "dialing", e, T, h, m, r)
         /\ p = "open" =>
              Sound(c, "dialing", e, T, h, "other", r)
<1> USE DEF LineFacts, AfterFacts, Sound, InTime, Begun, Talked, Rings,
            Reasoned, Dialled, Known, NoExtReason, EndReason
<1>1. Sound(c, p, e, T, h, "other", r)
  OBVIOUS
<1>2. p = "open" =>
       Sound(c, "dialing", e, T, h, m, r)
  OBVIOUS
<1>3. p = "open" =>
       Sound(c, "dialing", e, T, h, "other", r)
  OBVIOUS
<1> HIDE DEF LineFacts, AfterFacts, Sound
<1>4. QED
  BY <1>1, <1>2, <1>3

LEMMA PlaySound ==
  ASSUME NEW c, NEW p, NEW e, NEW T, NEW h \in Handler, NEW l,
         LineFacts(c, h, l), NEW r, Sound(c, p, e, T, h, l, r),
         NEW m, AfterFacts(c, h, l, m),
         l \in {"play", "sorry"}
  PROVE  /\ Sound(c, p, e, T, h, m, r)
         /\ p \in {"open", "agentGone"} =>
              Sound(c, "playing", e, T, h, m, r)
<1> USE DEF LineFacts, AfterFacts, Sound, InTime, Begun, Talked, Rings,
            Reasoned, Dialled, Known, NoExtReason, EndReason
<1>1. Sound(c, p, e, T, h, m, r)
  OBVIOUS
<1>2. p \in {"open", "agentGone"} =>
       Sound(c, "playing", e, T, h, m, r)
  OBVIOUS
<1> HIDE DEF LineFacts, AfterFacts, Sound
<1>3. QED
  BY <1>1, <1>2

LEMMA HangUpSound ==
  ASSUME NEW c, NEW p, NEW e, NEW T, NEW h \in Handler, NEW l,
         LineFacts(c, h, l), NEW r, Sound(c, p, e, T, h, l, r),
         NEW m, AfterFacts(c, h, l, m), l = "hangup"
  PROVE  /\ Sound(c, p, e, T, h, m, r)
         /\ p = "talking" =>
              Sound(c, "releasedRec", "server", T, h, m, r)
         /\ p \in OnLine \ {"talking"} =>
              Sound(c, "released", "server", T, h, m, r)
<1> USE DEF LineFacts, AfterFacts, Sound, InTime, Begun, Talked, Rings,
            Reasoned, Dialled, Known, NoExtReason, EndReason, OnLine
<1>1. Sound(c, p, e, T, h, m, r)
  OBVIOUS
<1>2. p = "talking" =>
       Sound(c, "releasedRec", "server", T, h, m, r)
  OBVIOUS
<1>3. p \in OnLine \ {"talking"} =>
       Sound(c, "released", "server", T, h, m, r)
  OBVIOUS
<1> HIDE DEF LineFacts, AfterFacts, Sound
<1>4. QED
  BY <1>1, <1>2, <1>3

------------------------------------------------------------------------------
(* The platform, and the loss of a record.                                 *)

\* The caller may leave while a goroutine is at any line.
LEMMA LeaveSound ==
  ASSUME NEW c, NEW p, NEW e, NEW T, NEW h \in Handler, NEW l,
         LineFacts(c, h, l), NEW r, Sound(c, p, e, T, h, l, r)
  PROVE  /\ p = "talking" =>
              Sound(c, "releasedRec", "user", T, h, l, r)
         /\ p \in (OnLine \ {"dialing", "talking"}) \cup {"offered"} =>
              Sound(c, "released", "user", T, h, l, r)
<1> USE DEF LineFacts, AfterFacts, Sound, InTime, Begun, Talked, Rings,
            Reasoned, Dialled, Known, NoExtReason, EndReason, OnLine
<1>1. p = "talking" =>
       Sound(c, "releasedRec", "user", T, h, l, r)
  OBVIOUS
<1>2. p \in (OnLine \ {"dialing", "talking"}) \cup {"offered"} =>
       Sound(c, "released", "user", T, h, l, r)
  OBVIOUS
<1> HIDE DEF LineFacts, AfterFacts, Sound
<1>3. QED
  BY <1>1, <1>2

\* A call may lose its goroutine together with its record.
LEMMA LossSound ==
  ASSUME NEW c, NEW p, NEW e, NEW T, NEW h \in Handler, NEW l, NEW r,
         LineFacts(c, h, l), Sound(c, p, e, T, h, l, r)
  PROVE  Sound(c, p, e, T, h, "rest", NoCall)
BY DEF LineFacts, AfterFacts, Sound, InTime, Begun, Talked, Rings, Reasoned,
       Dialled, Known, NoExtReason, EndReason

\* At rest it does not matter which goroutine ran last.
LEMMA RestSound ==
  ASSUME NEW c, NEW p, NEW e, NEW T, NEW h \in Handler, NEW r,
         Sound(c, p, e, T, h, "rest", r),
         NEW g \in Handler
  PROVE  Sound(c, p, e, T, g, "rest", r)
BY DEF LineFacts, AfterFacts, Sound, InTime, Begun, Talked, Rings, Reasoned,
       Dialled, Known, NoExtReason, EndReason

\* The charge is written into the record of a billed call.
LEMMA ChargeSound ==
  ASSUME NEW c, NEW p, NEW e, NEW T, NEW h \in Handler, NEW r \in CallInfo,
         Sound(c, p, e, T, h, "rest", r), r # NoCall,
         UpdateCallBill(r) # NoCall
  PROVE  /\ Sound(c, p, e, T, h, "rest", UpdateCallBill(r))
         /\ UpdateCallBill(r).bill = "set"
<1> DEFINE w == UpdateCallBill(r)
<1>1. /\ w.callStatus = r.callStatus /\ w.callee = r.callee
      /\ w.callStart = r.callStart /\ w.answerTime = r.answerTime
      /\ w.endTime = r.endTime /\ w.record = r.record
      /\ w.dtmf = r.dtmf /\ w.result = r.result /\ w.bill = "set"
  BY DEF UpdateCallBill, CallInfo
<1>2. w # NoCall
  OBVIOUS
<1> HIDE DEF w
<1> USE <1>1, <1>2
<1>3. InTime(p, h, "rest", w) /\ Begun(c, p, e, h, "rest", w)
  BY DEF Sound, InTime, Begun
<1>4. Talked(c, p, T, h, "rest", w) /\ Rings(p, h, "rest", w)
  BY DEF Sound, Talked, Rings
<1>5. Reasoned(c, p, e, h, "rest", w) /\ Dialled(c, h, "rest", w)
  BY DEF Sound, Reasoned, Dialled, Known
<1>6. Sound(c, p, e, T, h, "rest", w)
  BY <1>3, <1>4, <1>5 DEF Sound
<1>7. QED
  BY <1>6 DEF w

\* A notification starts a goroutine, or is lost while the process is down.
LEMMA InCallSound ==
  ASSUME NEW c, NEW p, NEW e, NEW T, NEW h \in Handler, NEW r,
         Sound(c, p, e, T, h, "rest", r),
         p = "new"
  PROVE  /\ Sound(c, "offered", e, T, "incall", "accept", r)
         /\ Sound(c, "offered", e, T, "incall", "rest", NoCall)
<1> USE DEF LineFacts, AfterFacts, Sound, InTime, Begun, Talked, Rings,
            Reasoned, Dialled, Known, NoExtReason, EndReason
<1>1. Sound(c, "offered", e, T, "incall", "accept", r)
  OBVIOUS
<1>2. Sound(c, "offered", e, T, "incall", "rest", NoCall)
  OBVIOUS
<1> HIDE DEF LineFacts, AfterFacts, Sound
<1>3. QED
  BY <1>1, <1>2

LEMMA DigitsSound ==
  ASSUME NEW c, NEW p, NEW e, NEW T, NEW h \in Handler, NEW r,
         Sound(c, p, e, T, h, "rest", r),
         p = "menu"
  PROVE  /\ Sound(c, "open", e, T, "dtmf", "find", r)
         /\ Sound(c, "open", e, T, "dtmf", "nodigits", r)
         /\ Sound(c, "open", e, T, "dtmf", "rest", NoCall)
<1> USE DEF LineFacts, AfterFacts, Sound, InTime, Begun, Talked, Rings,
            Reasoned, Dialled, Known, NoExtReason, EndReason
<1>1. Sound(c, "open", e, T, "dtmf", "find", r)
  OBVIOUS
<1>2. Sound(c, "open", e, T, "dtmf", "nodigits", r)
  OBVIOUS
<1>3. Sound(c, "open", e, T, "dtmf", "rest", NoCall)
  OBVIOUS
<1> HIDE DEF LineFacts, AfterFacts, Sound
<1>4. QED
  BY <1>1, <1>2, <1>3

LEMMA FailureSound ==
  ASSUME NEW c, NEW p, NEW e, NEW T, NEW h \in Handler, NEW r,
         Sound(c, p, e, T, h, "rest", r),
         p = "dialing"
  PROVE  /\ Sound(c, "open", e, T, "stat", "sorry", r)
         /\ Sound(c, "open", e, T, "stat", "noanswer", r)
         /\ Sound(c, "open", e, T, "stat", "other", r)
         /\ Sound(c, "open", e, T, "stat", "rest", NoCall)
<1> USE DEF LineFacts, AfterFacts, Sound, InTime, Begun, Talked, Rings,
            Reasoned, Dialled, Known, NoExtReason, EndReason
<1>1. Sound(c, "open", e, T, "stat", "sorry", r)
  OBVIOUS
<1>2. Sound(c, "open", e, T, "stat", "noanswer", r)
  OBVIOUS
<1>3. Sound(c, "open", e, T, "stat", "other", r)
  OBVIOUS
<1>4. Sound(c, "open", e, T, "stat", "rest", NoCall)
  OBVIOUS
<1> HIDE DEF LineFacts, AfterFacts, Sound
<1>5. QED
  BY <1>1, <1>2, <1>3, <1>4

LEMMA AnswerSound ==
  ASSUME NEW c, NEW p, NEW e, NEW T, NEW h \in Handler, NEW r,
         Sound(c, p, e, T, h, "rest", r),
         p = "dialing"
  PROVE  /\ Sound(c, "talking", e, T \cup {c}, "stat", "answer", r)
         /\ Sound(c, "talking", e, T \cup {c}, "stat", "rest", NoCall)
<1> USE DEF LineFacts, AfterFacts, Sound, InTime, Begun, Talked, Rings,
            Reasoned, Dialled, Known, NoExtReason, EndReason
<1>1. Sound(c, "talking", e, T \cup {c}, "stat", "answer", r)
  OBVIOUS
<1>2. Sound(c, "talking", e, T \cup {c}, "stat", "rest", NoCall)
  OBVIOUS
<1> HIDE DEF LineFacts, AfterFacts, Sound
<1>3. QED
  BY <1>1, <1>2

LEMMA HangupSound ==
  ASSUME NEW c, NEW p, NEW e, NEW T, NEW h \in Handler, NEW r,
         Sound(c, p, e, T, h, "rest", r),
         p = "dialing"
  PROVE  /\ Sound(c, "released", "user", T, "stat", "gaveup", r)
         /\ Sound(c, "released", "user", T, "stat", "rest", NoCall)
<1> USE DEF LineFacts, AfterFacts, Sound, InTime, Begun, Talked, Rings,
            Reasoned, Dialled, Known, NoExtReason, EndReason
<1>1. Sound(c, "released", "user", T, "stat", "gaveup", r)
  OBVIOUS
<1>2. Sound(c, "released", "user", T, "stat", "rest", NoCall)
  OBVIOUS
<1> HIDE DEF LineFacts, AfterFacts, Sound
<1>3. QED
  BY <1>1, <1>2

LEMMA PlayOverSound ==
  ASSUME NEW c, NEW p, NEW e, NEW T, NEW h \in Handler, NEW r,
         Sound(c, p, e, T, h, "rest", r),
         p = "playing"
  PROVE  /\ Sound(c, "open", e, T, "playover", "hangup", r)
         /\ Sound(c, "open", e, T, "playover", "rest", NoCall)
<1> USE DEF LineFacts, AfterFacts, Sound, InTime, Begun, Talked, Rings,
            Reasoned, Dialled, Known, NoExtReason, EndReason
<1>1. Sound(c, "open", e, T, "playover", "hangup", r)
  OBVIOUS
<1>2. Sound(c, "open", e, T, "playover", "rest", NoCall)
  OBVIOUS
<1> HIDE DEF LineFacts, AfterFacts, Sound
<1>3. QED
  BY <1>1, <1>2

LEMMA AgentEndSound ==
  ASSUME NEW c, NEW p, NEW e, NEW T, NEW h \in Handler, NEW r,
         Sound(c, p, e, T, h, "rest", r),
         p = "talking"
  PROVE  /\ Sound(c, "agentGone", e, T, "agentend", "file", r)
         /\ Sound(c, "agentGone", e, T, "agentend", "check", r)
         /\ Sound(c, "agentGone", e, T, "agentend", "rest", NoCall)
<1> USE DEF LineFacts, AfterFacts, Sound, InTime, Begun, Talked, Rings,
            Reasoned, Dialled, Known, NoExtReason, EndReason
<1>1. Sound(c, "agentGone", e, T, "agentend", "file", r)
  OBVIOUS
<1>2. Sound(c, "agentGone", e, T, "agentend", "check", r)
  OBVIOUS
<1>3. Sound(c, "agentGone", e, T, "agentend", "rest", NoCall)
  OBVIOUS
<1> HIDE DEF LineFacts, AfterFacts, Sound
<1>4. QED
  BY <1>1, <1>2, <1>3

LEMMA UserEndSound ==
  ASSUME NEW c, NEW p, NEW e, NEW T, NEW h \in Handler, NEW r,
         Sound(c, p, e, T, h, "rest", r),
         p \in {"released", "releasedRec"}
  PROVE  /\ p = "releasedRec" =>
              Sound(c, "cleared", e, T, "userend", "file", r)
         /\ Sound(c, "cleared", e, T, "userend", "check", r)
         /\ Sound(c, "cleared", e, T, "userend", "rest", NoCall)
<1> USE DEF LineFacts, AfterFacts, Sound, InTime, Begun, Talked, Rings,
            Reasoned, Dialled, Known, NoExtReason, EndReason
<1>1. p = "releasedRec" =>
       Sound(c, "cleared", e, T, "userend", "file", r)
  OBVIOUS
<1>2. Sound(c, "cleared", e, T, "userend", "check", r)
  OBVIOUS
<1>3. Sound(c, "cleared", e, T, "userend", "rest", NoCall)
  OBVIOUS
<1> HIDE DEF LineFacts, AfterFacts, Sound
<1>4. QED
  BY <1>1, <1>2, <1>3

LEMMA BilledSound ==
  ASSUME NEW c, NEW p, NEW e, NEW T, NEW h \in Handler, NEW r,
         Sound(c, p, e, T, h, "rest", r),
         p = "cleared"
  PROVE  /\ Sound(c, "billed", e, T, h, "rest", r)
         /\ Sound(c, "billed", e, T, h, "rest", NoCall)
<1> USE DEF LineFacts, AfterFacts, Sound, InTime, Begun, Talked, Rings,
            Reasoned, Dialled, Known, NoExtReason, EndReason
<1>1. Sound(c, "billed", e, T, h, "rest", r)
  OBVIOUS
<1>2. Sound(c, "billed", e, T, h, "rest", NoCall)
  OBVIOUS
<1> HIDE DEF LineFacts, AfterFacts, Sound
<1>3. QED
  BY <1>1, <1>2

\* The record of a billed call makes a true bill once it has a charge and,
\* if the agent answered, a recording.
LEMMA SoundBill ==
  ASSUME NEW c, NEW e, NEW T, NEW h \in Handler, NEW r \in CallInfo,
         Sound(c, "billed", e, T, h, "rest", r), r # NoCall, r.bill = "set",
         CallInfoSoundReady(r)
  PROVE  BillIsTrue(c, e, T, r)
BY DEF Sound, InTime, Begun, Talked, Rings, Reasoned, Dialled, Known,
       CallInfoSoundReady, CallInfo, BillIsTrue

\* Only membership of the call in T matters.
LEMMA SoundCongruent ==
  ASSUME NEW c, NEW p, NEW e, NEW T, NEW U, NEW h, NEW l, NEW r,
         (c \in T) = (c \in U), Sound(c, p, e, T, h, l, r)
  PROVE  Sound(c, p, e, U, h, l, r)
BY DEF Sound, Talked

LEMMA BillCongruent ==
  ASSUME NEW c, NEW e, NEW T, NEW U, NEW v, (c \in T) = (c \in U),
         BillIsTrue(c, e, T, v)
  PROVE  BillIsTrue(c, e, U, v)
BY DEF BillIsTrue

==============================================================================
