----------------------------- MODULE TimeSource -----------------------------
(***************************************************************************)
(* What a thread expects of a source of local time: it asks about the      *)
(* second it read from the clock and is given the time of that second.     *)
(***************************************************************************)
CONSTANTS Threads, Seconds, Zero

VARIABLES
  asked,   \* the second each thread asks about, Zero when it does not ask
  given    \* the time it is given, Zero until then

vars == <<asked, given>>

Init ==
  /\ asked = [t \in Threads |-> Zero]
  /\ given = [t \in Threads |-> Zero]

Ask(t) ==
  /\ asked[t] = Zero
  /\ \E s \in Seconds : asked' = [asked EXCEPT ![t] = s]
  /\ UNCHANGED given

Give(t) ==
  /\ asked[t] # Zero /\ given[t] = Zero
  /\ given' = [given EXCEPT ![t] = asked[t]]
  /\ UNCHANGED asked

Leave(t) ==
  /\ given[t] # Zero
  /\ asked' = [asked EXCEPT ![t] = Zero]
  /\ given' = [given EXCEPT ![t] = Zero]

Next == \E t \in Threads : Ask(t) \/ Give(t) \/ Leave(t)

Spec == Init /\ [][Next]_vars
=============================================================================
