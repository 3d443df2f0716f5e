------------------------------- MODULE Store -------------------------------
(***************************************************************************)
(* What store.Store promises its callers, whatever the backend: there is   *)
(* one document; a call that changes it does so once, in one step, by its  *)
(* mutation applied to the document as it is at that step; a call reports  *)
(* success only for a change that was made, and a call that reports a      *)
(* failure may still have made it when the answer was lost on the way.     *)
(***************************************************************************)
CONSTANTS
  Callers,       \* calls, each made at most once
  OpsOf,         \* the mutations or reads each call may be
  NoOp,          \* what a call that was not made was asked to do
  Outcome(_, _)  \* what an operation makes of a document: doc, changed, err

VARIABLES
  doc,      \* the one document
  status,   \* idle, pending, committed or done
  op,       \* what each call was asked to do
  outcome   \* none while it runs, then stored, unchanged or failed

storeVars == <<doc, status, op, outcome>>

StoreInit ==
  /\ status = [c \in Callers |-> "idle"]
  /\ op = [c \in Callers |-> NoOp]
  /\ outcome = [c \in Callers |-> "none"]

(* A closed store refuses at once. *)
Invoke(c) ==
  /\ status[c] = "idle"
  /\ \E o \in OpsOf[c] : op' = [op EXCEPT ![c] = o]
  /\ \/ status' = [status EXCEPT ![c] = "pending"] /\ UNCHANGED outcome
     \/ /\ status' = [status EXCEPT ![c] = "done"]
        /\ outcome' = [outcome EXCEPT ![c] = "failed"]
  /\ UNCHANGED doc

Commit(c) ==
  /\ status[c] = "pending"
  /\ Outcome(doc, op[c]).changed
  /\ doc' = Outcome(doc, op[c]).doc
  /\ status' = [status EXCEPT ![c] = "committed"]
  /\ UNCHANGED <<op, outcome>>

Return(c) ==
  /\ \/ status[c] = "committed" /\ outcome' = [outcome EXCEPT ![c] = "stored"]
     \/ status[c] = "pending" /\ outcome' = [outcome EXCEPT ![c] = "unchanged"]
     \/ status[c] \in {"pending", "committed"} /\ outcome' = [outcome EXCEPT ![c] = "failed"]
  /\ status' = [status EXCEPT ![c] = "done"]
  /\ UNCHANGED <<doc, op>>

(* A replica that dies takes its calls with it. *)
Lose(C) ==
  /\ \A c \in C : status[c] \in {"pending", "committed"}
  /\ outcome' = [c \in Callers |-> IF c \in C THEN "failed" ELSE outcome[c]]
  /\ status' = [c \in Callers |-> IF c \in C THEN "done" ELSE status[c]]
  /\ UNCHANGED <<doc, op>>

StoreNext ==
  \/ \E c \in Callers : Invoke(c) \/ Commit(c) \/ Return(c)
  \/ \E C \in SUBSET Callers : Lose(C)

StoreSpec == StoreInit /\ [][StoreNext]_storeVars

=============================================================================
