--------------------------- MODULE ReferenceBatch ---------------------------
(***************************************************************************)
(* guarded_ref_batch of cp_harness: the reference solution runs over a      *)
(* batch of inputs in a forked child that streams its results back.  The    *)
(* child may run out of memory or hang on any input and takes nothing with  *)
(* it but that input: the parent drops the case its stream stopped at and   *)
(* forks again for the rest.                                                *)
(***************************************************************************)
EXTENDS Naturals, Sequences, FiniteSets

CONSTANT Cases  \* the test cases of one problem, by their place in tests.json

ASSUME CasesAssumption == Cases \subseteq Nat /\ IsFiniteSet(Cases)

\* What the reference does on a case: returns at once, raises, exhausts its
\* memory, never returns, or takes about as long as a case may.
Kinds == {"value", "raises", "memory", "hangs", "slow"}

VARIABLES
  kind,     \* of each case
  batch,    \* the cases handed over, in order
  at,       \* i: the case whose result the parent waits for
  results,  \* what the parent has recorded for each place of the batch
  child,    \* the case the child is at, NoChild if there is none
  pipe,     \* results sent and not received
  forks,    \* children started for this batch
  parent    \* where the parent is

batchVars == <<kind, batch, at, results, child, pipe, forks, parent>>

NotRun == [ok |-> FALSE, why |-> "not-run", of |-> 0]
Dropped == [ok |-> FALSE, why |-> "timeout-or-oom", of |-> 0]
Value(c) == [ok |-> TRUE, why |-> "returned", of |-> c]
Raised(c) == [ok |-> FALSE, why |-> "raised", of |-> c]

\* The verdicts a case may get.
Allowed(c) ==
  CASE kind[c] = "value" -> {Value(c)}
    [] kind[c] = "raises" -> {Raised(c)}
    [] kind[c] \in {"memory", "hangs"} -> {Dropped}
    [] kind[c] = "slow" -> {Value(c), Dropped}

NoChild == 0
\* A child past the last case of its list, or dead, has closed its end.
Ended == Len(batch) + 1

BInit ==
  /\ kind \in [Cases -> Kinds]
  /\ batch = <<>> /\ at = 1 /\ results = <<>>
  /\ child = NoChild /\ pipe = <<>> /\ forks = 0
  /\ parent = "idle"

\* A caller hands over a list of cases.
Begin(cases) ==
  /\ parent = "idle"
  /\ batch' = cases /\ at' = 1
  /\ results' = [k \in DOMAIN cases |-> NotRun]
  /\ forks' = 0 /\ parent' = "fork"
  /\ UNCHANGED <<kind, child, pipe>>

\* Mutant: the child gets the whole list again.
ForkFromStart ==
  /\ parent = "fork" /\ at <= Len(batch)
  /\ child' = 1 /\ pipe' = <<>> /\ forks' = forks + 1
  /\ parent' = "receive"
  /\ UNCHANGED <<kind, batch, at, results>>

\* A child for the cases from `at` on, with a pipe of its own.
Fork ==
  /\ parent = "fork" /\ at <= Len(batch)
  /\ child' = at /\ pipe' = <<>> /\ forks' = forks + 1
  /\ parent' = "receive"
  /\ UNCHANGED <<kind, batch, at, results>>

\* The child: one case computed and sent, a raised exception like a value.
Send ==
  /\ child \in DOMAIN batch /\ kind[batch[child]] \in {"value", "raises", "slow"}
  /\ pipe' = Append(pipe, [idx |-> child,
       res |-> IF kind[batch[child]] = "raises" THEN Raised(batch[child]) ELSE Value(batch[child])])
  /\ child' = child + 1
  /\ UNCHANGED <<kind, batch, at, results, forks, parent>>

\* MemoryError ends the loop, a kill ends the process.
ChildDies ==
  /\ child \in DOMAIN batch /\ kind[batch[child]] = "memory"
  /\ child' = Ended
  /\ UNCHANGED <<kind, batch, at, results, pipe, forks, parent>>

Receive ==
  /\ parent = "receive" /\ pipe # <<>>
  /\ results' = [results EXCEPT ![Head(pipe).idx] = Head(pipe).res]
  /\ at' = Head(pipe).idx + 1
  /\ pipe' = Tail(pipe)
  /\ parent' = IF Head(pipe).idx = Len(batch) THEN "reap" ELSE "receive"
  /\ UNCHANGED <<kind, batch, child, forks>>

\* Mutant: a deadline for slow cases only.
StallSlow ==
  /\ parent = "receive" /\ pipe = <<>>
  /\ child \in DOMAIN batch /\ kind[batch[child]] = "slow"
  /\ parent' = "reap"
  /\ UNCHANGED <<kind, batch, at, results, child, pipe, forks>>

\* poll(timeout) sees nothing: only a slow or hanging case takes that long.
Stall ==
  /\ parent = "receive" /\ pipe = <<>>
  /\ child \in DOMAIN batch /\ kind[batch[child]] \in {"hangs", "slow"}
  /\ parent' = "reap"
  /\ UNCHANGED <<kind, batch, at, results, child, pipe, forks>>

EndOfStream ==
  /\ parent = "receive" /\ pipe = <<>> /\ child = Ended
  /\ parent' = "reap"
  /\ UNCHANGED <<kind, batch, at, results, child, pipe, forks>>

\* Mutant: the case the stream stopped at is tried again.
ReapRetry ==
  /\ parent = "reap"
  /\ child' = NoChild /\ pipe' = <<>>
  /\ UNCHANGED <<results, at>>
  /\ parent' = "fork"
  /\ UNCHANGED <<kind, batch, forks>>

\* Mutant: a case is passed over even when the batch is complete.
ReapTooFar ==
  /\ parent = "reap"
  /\ child' = NoChild /\ pipe' = <<>>
  /\ at' = at + 1
  /\ results' = IF at <= Len(batch) THEN [results EXCEPT ![at] = Dropped] ELSE results
  /\ parent' = "fork"
  /\ UNCHANGED <<kind, batch, forks>>

\* terminate, join, close; the case the stream stopped at is dropped.
Reap ==
  /\ parent = "reap"
  /\ child' = NoChild /\ pipe' = <<>>
  /\ IF at <= Len(batch)
       THEN results' = [results EXCEPT ![at] = IF @ = NotRun THEN Dropped ELSE @] /\ at' = at + 1
       ELSE UNCHANGED <<results, at>>
  /\ parent' = "fork"
  /\ UNCHANGED <<kind, batch, forks>>

Judged ==
  /\ parent = "fork" /\ at > Len(batch)
  /\ parent' = "judged"
  /\ UNCHANGED <<kind, batch, at, results, child, pipe, forks>>

Batch == Fork \/ Receive \/ Stall \/ EndOfStream \/ Reap \/ Judged
Child == Send \/ ChildDies
-----------------------------------------------------------------------------
Verdicts == {NotRun, Dropped} \cup {Value(c) : c \in Cases} \cup {Raised(c) : c \in Cases}

BatchTypeOK ==
  /\ kind \in [Cases -> Kinds]
  /\ batch \in Seq(Cases)
  /\ at \in 1..(Len(batch) + 1)
  /\ results \in [DOMAIN batch -> Verdicts]
  /\ child \in 0..Ended
  /\ pipe \in Seq([idx : DOMAIN batch, res : Verdicts])
  /\ forks \in Nat
  /\ parent \in {"idle", "fork", "receive", "reap", "judged", "tests.json", "written", "excluded.json"}

\* Results stay aligned with the batch whatever the children die of: the cases
\* before `at` have a verdict they may have, a good case never the drop of a
\* neighbour, and the cases from `at` on have none.
Aligned ==
  \A k \in DOMAIN batch :
    IF k < at THEN results[k] \in Allowed(batch[k]) ELSE results[k] = NotRun

\* "Normal input costs one fork; each bomb costs one extra fork."
OneForkPerBomb ==
  forks <= 1 + Cardinality({k \in DOMAIN results : results[k] = Dropped})
=============================================================================
