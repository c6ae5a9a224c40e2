----------------------------- MODULE OneVerdict -----------------------------
(***************************************************************************)
(* What the evaluation harness promises of a batch of work, with processes, *)
(* deadlines and restarts left out: every item gets one verdict, a verdict  *)
(* that the item may really have, and keeps it; and in the end no item is   *)
(* without one.  WarmEvaluators implements it.                              *)
(***************************************************************************)

CONSTANTS
  Items,       \* the problems of an evaluation
  Allowed(_),  \* the verdicts an item may get
  Undecided    \* no verdict yet; Allowed to no item

VARIABLE verdict

VInit == verdict = [i \in Items |-> Undecided]

\* One item is decided, all others keep what they have.
Decide(i) ==
  /\ verdict[i] = Undecided
  /\ verdict'[i] \in Allowed(i)
  /\ verdict' = [verdict EXCEPT ![i] = verdict'[i]]

VNext == \E i \in Items : Decide(i)

VSpec == VInit /\ [][VNext]_verdict

\* In the end no item is without a verdict.
VDone == <>(\A i \in Items : verdict[i] # Undecided)
=============================================================================
