---------------------------- MODULE AtomicOutcome ----------------------------
(***************************************************************************)
(* What the executor promises for a mutation that runs in a transaction,   *)
(* without connections, attempts or fields: the mutation is applied once   *)
(* and as a whole or not at all, and the response says which, unless the   *)
(* connection was lost while the outcome was being decided or the client   *)
(* had already been answered 503 or had gone away.                         *)
(***************************************************************************)
CONSTANT Requests

VARIABLES outcome, reply

Outcomes == {"pending", "applied", "in_doubt", "applied_late", "dropped"}
Replies == {"none", "ok", "errors", "timeout", "gone"}

Init ==
  /\ outcome = [r \in Requests |-> "pending"]
  /\ reply = [r \in Requests |-> "none"]

Move(r, from, to) ==
  /\ outcome[r] = from
  /\ outcome' = [outcome EXCEPT ![r] = to]
  /\ UNCHANGED reply

Apply(r) == Move(r, "pending", "applied")
Drop(r) == Move(r, "pending", "dropped")
Lose(r) == Move(r, "pending", "in_doubt")
Settle(r) == Move(r, "in_doubt", "applied_late") \/ Move(r, "in_doubt", "dropped")

\* "ok" is only said of an applied mutation.
Confirm(r) ==
  /\ reply[r] = "none"
  /\ outcome[r] = "applied"
  /\ reply' = [reply EXCEPT ![r] = "ok"]
  /\ UNCHANGED outcome

\* "errors" is never said of one that is known to be applied, and it is final.
Report(r) ==
  /\ reply[r] = "none"
  /\ outcome[r] # "applied"
  /\ reply' = [reply EXCEPT ![r] = "errors"]
  /\ outcome' = [outcome EXCEPT ![r] = IF @ = "pending" THEN "dropped" ELSE @]

\* The client stops waiting, whatever the outcome is or will be.
Detach(r) ==
  /\ reply[r] = "none"
  /\ \E how \in {"timeout", "gone"} : reply' = [reply EXCEPT ![r] = how]
  /\ UNCHANGED outcome

Next ==
  \E r \in Requests :
    Apply(r) \/ Drop(r) \/ Lose(r) \/ Settle(r) \/ Confirm(r) \/ Report(r) \/ Detach(r)

Spec == Init /\ [][Next]_<<outcome, reply>>
==============================================================================
