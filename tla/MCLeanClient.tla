---------------------------- MODULE MCLeanClient ----------------------------
(* Values for TLC: one Session, and which task lines are long. *)
EXTENDS LeanClient

OneLock == [t \in Threads |-> "session"]
BigKinds == {"inferTypes", "proveFile"}
=============================================================================
