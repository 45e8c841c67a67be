---------------------------- MODULE IpccPlatform ----------------------------
(***************************************************************************)
(* The telephony platform (IPCC), which is outside the repository.  It is  *)
(* modelled from the requests package ipccRequest sends it and from the    *)
(* notifications package server dispatches on (eventProc).  One call is a  *)
(* small state machine; the requests move it, and so do the caller, the    *)
(* agent and the platform's own timers.                                    *)
(*                                                                         *)
(* The two history variables say what really happened to a call, so that   *)
(* the bill can be compared with it: talked is the set of calls an agent   *)
(* answered, endedBy[c] is who released the caller's leg.                  *)
(***************************************************************************)

CONSTANTS Calls,     \* the calls that may be made
          Faulty     \* the collaborators that may fail, see FaultKind

(* request: a request to the platform or its reply is lost.                *)
(* lookup : the customer's number service times out or answers non-200.    *)
(* post   : a bill or the customer's answer to it is lost or negative.     *)
(* store  : the database refuses the insert of the bill.                   *)
(* lost   : the answer to an insert of the bill is lost.                   *)
(* bind   : reading the 400 numbers from the database fails.               *)
(* record : an answered call ends without a recording.                     *)
(* detail : a bill notification has no detail element.                     *)
FaultKind ==
  {"request", "lookup", "post", "store", "lost", "bind", "record", "detail"}

ASSUME FaultyAssumption == Faulty \subseteq FaultKind

VARIABLES phase, endedBy, talked

platformVars == <<phase, endedBy, talked>>

(* new: not made yet; offered: waiting to be accepted; open: accepted and  *)
(* idle; menu: the digits are collected; dialing: the agent's phone rings; *)
(* talking; agentGone: the agent hung up, the caller is on the line;       *)
(* playing: an announcement is played; released: the caller's leg is       *)
(* down; releasedRec: the same, and the conversation ended with it;        *)
(* cleared: the end was notified; billed: the bill was notified.           *)
Phase ==
  {"new", "offered", "open", "menu", "dialing", "talking", "agentGone",
   "playing", "released", "releasedRec", "cleared", "billed"}

OnLine == {"open", "menu", "dialing", "talking", "agentGone", "playing"}

PlatformTypeOK ==
  /\ phase \in [Calls -> Phase]
  /\ endedBy \in [Calls -> {"", "user", "server"}]
  /\ talked \in SUBSET Calls

PlatformInit ==
  /\ phase = [c \in Calls |-> "new"]
  /\ endedBy = [c \in Calls |-> ""]
  /\ talked = {}

------------------------------------------------------------------------------
(* Requests.  From which phases the platform carries a request out, and    *)
(* the phase it leads to.                                                  *)

Request == {"accept", "getdtmf", "transfer", "play", "hangup"}

From(r) ==
  CASE r = "accept"   -> {"offered"}
    [] r = "getdtmf"  -> {"open"}
    [] r = "transfer" -> {"open"}
    [] r = "play"     -> {"open", "agentGone"}
    [] r = "hangup"   -> OnLine

Goal(r, p) ==
  CASE r = "accept"   -> "open"
    [] r = "getdtmf"  -> "menu"
    [] r = "transfer" -> "dialing"
    [] r = "play"     -> "playing"
    [] r = "hangup"   -> IF p = "talking" THEN "releasedRec" ELSE "released"

Carry(r, c) ==
  /\ phase[c] \in From(r)
  /\ phase' = [phase EXCEPT ![c] = Goal(r, phase[c])]
  /\ endedBy' = IF r = "hangup" THEN [endedBy EXCEPT ![c] = "server"]
                                ELSE endedBy
  /\ UNCHANGED talked

(* Request r for call c, and whether the server gets "000000" for it.  A   *)
(* request without that reply may have been refused, may never have        *)
(* arrived, or may have been carried out with its reply lost: the caller   *)
(* of httpsPostRequst cannot tell these apart.                             *)
Ask(r, c, ok) ==
  \/ ok /\ Carry(r, c)
  \/ ~ok /\ phase[c] \notin From(r) /\ UNCHANGED platformVars
  \/ ~ok /\ "request" \in Faulty /\ UNCHANGED platformVars
  \/ ~ok /\ "request" \in Faulty /\ Carry(r, c)

------------------------------------------------------------------------------
(* What the parties and the platform's timers do.  Every step leads to one *)
(* notification, which module LianjiaServer delivers; only a caller who    *)
(* leaves without the agent's phone ringing is not notified at once.       *)

Move(c, p, q) == phase[c] = p /\ phase' = [phase EXCEPT ![c] = q]

Dial(c)       == Move(c, "new", "offered") /\ UNCHANGED <<endedBy, talked>>
DigitsDone(c) == Move(c, "menu", "open")   /\ UNCHANGED <<endedBy, talked>>
PlayDone(c)   == Move(c, "playing", "open") /\ UNCHANGED <<endedBy, talked>>
AgentFails(c) == Move(c, "dialing", "open") /\ UNCHANGED <<endedBy, talked>>
AgentLeaves(c) == Move(c, "talking", "agentGone")
                  /\ UNCHANGED <<endedBy, talked>>
AgentAnswers(c) ==
  /\ Move(c, "dialing", "talking")
  /\ talked' = talked \cup {c}
  /\ UNCHANGED endedBy

\* The caller gives up; from "dialing" this is also notified at once.
UserLeaves(c, p) ==
  /\ Move(c, p, IF p = "talking" THEN "releasedRec" ELSE "released")
  /\ endedBy' = [endedBy EXCEPT ![c] = "user"]
  /\ UNCHANGED talked

Cleared(c) ==
  /\ phase[c] \in {"released", "releasedRec"}
  /\ phase' = [phase EXCEPT ![c] = "cleared"]
  /\ UNCHANGED <<endedBy, talked>>

Billed(c) == Move(c, "cleared", "billed") /\ UNCHANGED <<endedBy, talked>>

==============================================================================
