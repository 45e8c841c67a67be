----------------------------- MODULE CallManager -----------------------------
(***************************************************************************)
(* Package callManager: the record kept for a call in progress and the     *)
(* operations on it.  CallList is a plain Go map without a lock; its       *)
(* Update* functions copy the record out of the map, change the copy and   *)
(* store the copy back.  This module defines what the copy becomes; module *)
(* LianjiaServer decides when the copy is taken and when it is stored.     *)
(*                                                                         *)
(* Abstraction of the data.  A time stamp is "" or "set".  record is "" or *)
(* "url".  bill stands for duration, billDuration, cost and billTime,      *)
(* which are always written together.  dtmf is "" or "ext" (a complete     *)
(* extension), callee is "" or "agent".  The numbers shown to the two      *)
(* parties, nbr and bindNumber are left out.                               *)
(***************************************************************************)

CONSTANT NoCall     \* what a lookup of a missing key yields (ok == false)

Stamp == {"", "set"}

CallStatus == {"ACCEPT", "TRANSFER", "RING", "ANSWER"}

Result ==
  {"", "ANSWERED", "REJECT", "BUSY", "NO_ANSWER", "TP_NO_BINDING",
   "HANGUP", "TP_ERROR", "OTHER", "INVALID_NUMBER", "POWER_OFF", "SUSPEND",
   "NOEXT_USER_HANGUP", "NOEXT_SYS_HANGUP", "NETWORK_ERROR"}

CallInfo ==
  [callStatus : CallStatus,
   callee     : {"", "agent"},
   callStart  : Stamp,
   answerTime : Stamp,
   endTime    : Stamp,
   record     : {"", "url"},
   bill       : Stamp,
   dtmf       : {"", "ext"},
   result     : Result]

ASSUME NoCallAssumption == NoCall \notin CallInfo

------------------------------------------------------------------------------
(* The operations, each from the copy v to the copy that is stored back.   *)

NewCall ==
  [callStatus |-> "ACCEPT", callee |-> "", callStart |-> "",
   answerTime |-> "", endTime |-> "", record |-> "", bill |-> "",
   dtmf |-> "", result |-> ""]

SetCallDtmf(v, dtmf) == [v EXCEPT !.dtmf = dtmf]

UpdateCallee(v, callee) ==
  [v EXCEPT !.callee = callee, !.callStatus = "TRANSFER"]

UpdateCallStartTime(v) ==
  [v EXCEPT !.callStart = "set", !.callStatus = "RING"]

\* A mutant of UpdateCallEndTime: an empty record overwrites the url.
UpdateCallEndTimeErasing(v, record) ==
  [v EXCEPT !.endTime = "set", !.record = record]

UpdateCallEndTime(v, record) ==
  [v EXCEPT !.endTime = "set",
            !.record = IF record = "" THEN v.record ELSE record]

\* A mutant of ResultIsKnown: the early return is missing.
NeverKnown(v) == FALSE

\* The early return of UpdateCallResult, "once it has been updated, do not
\* update again": with an earlier result the copy is not stored back at all.
ResultIsKnown(v) == v.result # ""

UpdateCallResult(v, result) == [v EXCEPT !.result = result]

\* A mutant of UpdateCallAnswerTime: an earlier result stays.
AnswerTimeFirstResult(v, result) ==
  [v EXCEPT !.answerTime = "set", !.callStatus = "ANSWER",
            !.result = IF v.result = "" THEN result ELSE v.result]

UpdateCallAnswerTime(v, result) ==
  [v EXCEPT !.answerTime = "set", !.result = result,
            !.callStatus = "ANSWER"]

UpdateCallBill(v) == [v EXCEPT !.bill = "set"]

\* A mutant of CallInfoSoundReady: a recording is never waited for.
SoundReadyAtOnce(v) == v # NoCall

\* An answered call is ready when its recording is known, any other call at
\* once, a call that is not in the list never.
CallInfoSoundReady(v) ==
  /\ v # NoCall
  /\ v.callStatus = "ANSWER" => v.record # ""

==============================================================================
