----------------------------- MODULE RemoteOnce -----------------------------
(* What outbound synchronisation promises about the remote help desk, with   *)
(* no workers, sweeps or operators: an execution touches the remote system   *)
(* at most once, is called done only after the remote took the change, and   *)
(* is offered again only while the remote is untouched.                      *)
CONSTANTS Executions

VARIABLES outcome,   \* how each execution stands
          touched,   \* executions whose remote request has been sent
          applied    \* executions whose change the remote system made

vars == <<outcome, touched, applied>>

Outcomes == {"absent", "wanted", "open", "done", "failed", "gone"}

TypeOK ==
  /\ outcome \in [Executions -> Outcomes]
  /\ touched \subseteq Executions
  /\ applied \subseteq Executions

Init ==
  /\ outcome = [e \in Executions |-> "absent"]
  /\ touched = {}
  /\ applied = {}

Moves(e, from, to) ==
  outcome[e] = from /\ outcome' = [outcome EXCEPT ![e] = to]

Want(e) == Moves(e, "absent", "wanted") /\ UNCHANGED <<touched, applied>>
Take(e) == Moves(e, "wanted", "open") /\ UNCHANGED <<touched, applied>>

Touch(e) ==
  /\ outcome[e] \in {"open", "gone"}
  /\ e \notin touched
  /\ touched' = touched \cup {e}
  /\ UNCHANGED <<outcome, applied>>

Apply(e) ==
  /\ e \in touched
  /\ applied' = applied \cup {e}
  /\ UNCHANGED <<outcome, touched>>

Finish(e) ==
  e \in applied /\ Moves(e, "open", "done") /\ UNCHANGED <<touched, applied>>

(* A late answer that never came reopens what was already confirmed. *)
Doubt(e) ==
  e \in applied /\ Moves(e, "done", "open") /\ UNCHANGED <<touched, applied>>

Fail(e) ==
  e \notin touched /\ Moves(e, "open", "failed") /\ UNCHANGED <<touched, applied>>

Retry(e) ==
  e \notin touched /\ Moves(e, "failed", "wanted") /\ UNCHANGED <<touched, applied>>

(* The rule is removed and its executions with it. *)
Remove(es) ==
  /\ outcome' = [e \in Executions |-> IF e \in es THEN "gone" ELSE outcome[e]]
  /\ UNCHANGED <<touched, applied>>

Next ==
  \/ \E e \in Executions :
       \/ Want(e) \/ Take(e) \/ Touch(e) \/ Apply(e) \/ Finish(e)
       \/ Doubt(e) \/ Fail(e) \/ Retry(e)
  \/ \E es \in SUBSET Executions : Remove(es)

Spec == Init /\ [][Next]_vars
=============================================================================
