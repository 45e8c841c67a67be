------------------------------- MODULE Billing -------------------------------
(***************************************************************************)
(* What the server promises about the bills of calls, without callList's   *)
(* contents, goroutines or the platform.  Module LianjiaServer implements  *)
(* it.  Per call:                                                          *)
(*   - one bill is made and never changed; an insert of it whose answer    *)
(*     was lost is in doubt until the database does it, which may be after *)
(*     the insert was tried again, so that the bill is stored once more,   *)
(*     at most MaxTries times;                                             *)
(*   - only a stored bill is sent, at most MaxSends times, and not again   *)
(*     once the customer confirmed it;                                     *)
(*   - the call is forgotten when its bill is confirmed or given up, and   *)
(*     otherwise only by a crash, which ends all sending for good.         *)
(***************************************************************************)
EXTENDS Naturals, Sequences, Functions

CONSTANTS Calls, Bills, MaxTries, MaxSends

VARIABLES
  listed,     \* whether the server keeps a record of the call
  state,      \* open: its bill may be inserted; sending; closed: neither
  lost,       \* how many inserts of its bill had no answer
  doubt,      \* those of them the database may still do
  ledger,     \* the stored bills
  sends,      \* how often the bill was sent
  delivered,  \* the bills of the call that reached the customer
  confirmed   \* whether the customer confirmed the bill

billingVars ==
  <<listed, state, lost, doubt, ledger, sends, delivered, confirmed>>

Init ==
  /\ listed = [c \in Calls |-> FALSE]
  /\ state = [c \in Calls |-> "open"]
  /\ lost = [c \in Calls |-> 0]
  /\ doubt = [c \in Calls |-> << >>]
  /\ ledger = [c \in Calls |-> << >>]
  /\ sends = [c \in Calls |-> 0]
  /\ delivered = [c \in Calls |-> {}]
  /\ confirmed = [c \in Calls |-> FALSE]

Register(c) ==
  /\ ~listed[c]
  /\ listed' = [listed EXCEPT ![c] = TRUE]
  /\ UNCHANGED <<state, lost, doubt, ledger, sends, delivered, confirmed>>

\* An insert of the bill b may be tried.  (The actions below look for b among
\* the bills there are afterwards, since there are few of them.)
MayInsert(c, b) ==
  /\ b \in Bills
  /\ lost[c] < MaxTries
  /\ Range(ledger[c]) \cup Range(doubt[c]) \subseteq {b}

Lose(c) ==
  /\ state[c] = "open"
  /\ lost' = [lost EXCEPT ![c] = @ + 1]
  /\ UNCHANGED <<listed, state, ledger, sends, delivered, confirmed>>
  /\ \E b \in Range(doubt'[c]) :
       MayInsert(c, b) /\ doubt' = [doubt EXCEPT ![c] = Append(@, b)]

Store(c) ==
  /\ state[c] = "open"
  /\ state' = [state EXCEPT ![c] = "sending"]
  /\ UNCHANGED <<listed, lost, doubt, sends, delivered, confirmed>>
  /\ \E b \in Range(ledger'[c]) :
       MayInsert(c, b) /\ ledger' = [ledger EXCEPT ![c] = Append(@, b)]

\* The database does an insert nobody waits for any more.
Late(c) ==
  /\ doubt[c] # << >>
  /\ ledger' = [ledger EXCEPT ![c] = Append(@, Head(doubt[c]))]
  /\ doubt' = [doubt EXCEPT ![c] = Tail(@)]
  /\ UNCHANGED <<listed, state, lost, sends, delivered, confirmed>>

Send(c) ==
  /\ state[c] = "sending"
  /\ sends' = [sends EXCEPT ![c] = @ + 1]
  /\ \E ok \in BOOLEAN :
       /\ confirmed' = [confirmed EXCEPT ![c] = ok]
       /\ state' = [state EXCEPT ![c] =
                      IF ok \/ sends[c] + 1 = MaxSends THEN "closed" ELSE @]
       /\ \/ delivered' =
               [delivered EXCEPT ![c] = @ \cup {Head(ledger[c])}]
          \/ ~ok /\ UNCHANGED delivered
  /\ UNCHANGED <<listed, lost, doubt, ledger>>

GiveUp(c) ==
  /\ state[c] = "open"
  /\ state' = [state EXCEPT ![c] = "closed"]
  /\ UNCHANGED <<listed, lost, doubt, ledger, sends, delivered, confirmed>>

Forget(c) ==
  /\ listed[c]
  /\ ledger[c] # << >>
  /\ confirmed[c] \/ sends[c] = MaxSends
  /\ listed' = [listed EXCEPT ![c] = FALSE]
  /\ UNCHANGED <<state, lost, doubt, ledger, sends, delivered, confirmed>>

\* closing: the calls that have no bill yet and will get none.
Crash ==
  /\ listed' = [c \in Calls |-> FALSE]
  /\ \E closing \in SUBSET {c \in Calls : state[c] = "open"} :
       state' = [c \in Calls |->
                  IF state[c] = "sending" \/ c \in closing THEN "closed"
                                                         ELSE state[c]]
  /\ UNCHANGED <<lost, doubt, ledger, sends, delivered, confirmed>>

Next ==
  \/ Crash
  \/ \E c \in Calls :
       \/ Register(c)
       \/ Lose(c)
       \/ Store(c)
       \/ Late(c)
       \/ Send(c)
       \/ GiveUp(c)
       \/ Forget(c)

Spec == Init /\ [][Next]_billingVars
==============================================================================
