--------------------------- MODULE RetriedInsert ---------------------------
(***************************************************************************)
(* What storing a bill promises: each try to insert it is in doubt until   *)
(* the server has done it or will never do it, and stores the bill at      *)
(* most once; success is reported only of a bill that is stored.  A bill   *)
(* may be stored more than once, and may be stored though failure is       *)
(* reported.                                                               *)
(***************************************************************************)
EXTENDS Naturals

CONSTANT Job

VARIABLES
  doubt,     \* doubt[j]: the tries that may store j yet
  stored,    \* stored[j]: how often j is stored
  outcome    \* outcome[j]: what is reported of j

vars == <<doubt, stored, outcome>>

Init ==
  /\ doubt = [j \in Job |-> 0] /\ stored = [j \in Job |-> 0]
  /\ outcome = [j \in Job |-> "none"]

Try(j) ==
  /\ outcome[j] = "none"
  /\ doubt' = [doubt EXCEPT ![j] = @ + 1]
  /\ UNCHANGED <<stored, outcome>>

Store(j) ==
  /\ doubt[j] > 0
  /\ doubt' = [doubt EXCEPT ![j] = @ - 1]
  /\ stored' = [stored EXCEPT ![j] = @ + 1]
  /\ UNCHANGED outcome

Never(j) ==
  /\ doubt[j] > 0
  /\ doubt' = [doubt EXCEPT ![j] = @ - 1]
  /\ UNCHANGED <<stored, outcome>>

Report(j) ==
  /\ outcome[j] = "none"
  /\ \/ stored[j] > 0 /\ outcome' = [outcome EXCEPT ![j] = "ok"]
     \/ outcome' = [outcome EXCEPT ![j] = "failed"]
  /\ UNCHANGED <<doubt, stored>>

Next == \E j \in Job : Try(j) \/ Store(j) \/ Never(j) \/ Report(j)

Spec == Init /\ [][Next]_vars
=============================================================================
