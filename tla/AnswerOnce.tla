----------------------------- MODULE AnswerOnce -----------------------------
(***************************************************************************)
(* What the warm Lean backend client promises its callers, with the        *)
(* process, the pipes, the deadlines and the restarts left out.            *)
(*                                                                         *)
(* No two callers are served together.  A call ends at most once, with an  *)
(* answer made for that very call or with the harmless outcome its method  *)
(* documents.                                                              *)
(***************************************************************************)
EXTENDS Naturals

CONSTANTS
  Threads,   \* Python threads that share the client
  MaxCalls   \* calls one thread makes (bounds the model)

ASSUME MaxCallsAssumption == MaxCalls \in Nat

\* The four tasks of the line protocol.
Kinds == {"translate", "inferTypes", "proveFile", "libraryInfo"}

\* A request's identity: the thread that asks and the number of its call.
Requests == Threads \X (0..MaxCalls)

\* How a call may end when the backend gave no usable answer: `request` runs
\* the same task one-shot, the other three return a documented substitute, and
\* any of them may raise when no backend could be started or stopped.
Substitutes(k) ==
  IF k = "translate" THEN {"oneshot", "failed", "raised"} ELSE {"fallback", "raised"}

Hows == {"none", "answer", "cached", "oneshot", "failed", "fallback", "raised"}

VARIABLES
  kind,      \* the task of each thread's open call, "none" if it has none
  asked,     \* number of calls each thread has begun
  got        \* how each thread's latest call ended, and the request it answers

avars == <<kind, asked, got>>

Open(t) == kind[t] # "none"

AInit ==
  /\ kind = [t \in Threads |-> "none"]
  /\ asked = [t \in Threads |-> 0]
  /\ got = [t \in Threads |-> [how |-> "none", for |-> <<t, 0>>]]

Begin(t, k) ==
  /\ \A u \in Threads : ~Open(u)
  /\ asked[t] < MaxCalls
  /\ kind' = [kind EXCEPT ![t] = k]
  /\ asked' = [asked EXCEPT ![t] = @ + 1]
  /\ UNCHANGED got

\* The outcome always names this call's own request.
End(t, how) ==
  /\ Open(t)
  /\ \/ how \in {"answer"} \cup Substitutes(kind[t])
     \/ how = "cached" /\ kind[t] = "libraryInfo"
  /\ kind' = [kind EXCEPT ![t] = "none"]
  /\ got' = [got EXCEPT ![t] = [how |-> how, for |-> <<t, asked[t]>>]]
  /\ UNCHANGED asked

ANext ==
  \E t \in Threads :
    \/ \E k \in Kinds : Begin(t, k)
    \/ \E how \in Hows : End(t, how)

ASpec == AInit /\ [][ANext]_avars
=============================================================================
