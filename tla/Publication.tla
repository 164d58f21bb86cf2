---------------------------- MODULE Publication ----------------------------
(* What knowledge ingestion promises about one knowledge source, with no   *)
(* jobs, workers, leases or queues: the newest submission is the only one   *)
(* that may become the served content, each revision is served at most      *)
(* once, and a submission is settled by exactly one verdict.                *)
EXTENDS Naturals

CONSTANTS Payloads,   \* what a submission may carry (IngestionInput)
          Contents,   \* what preparing a payload may yield (PreparedSource)
          Yields,     \* payload -> the contents it may be prepared into
          None

VARIABLES wanted,     \* number of the newest submission
          payload,    \* its payload
          verdict,    \* how that submission stands
          served      \* revision and content behind the retrievable chunks

vars == <<wanted, payload, verdict, served>>

Verdicts == {"none", "pending", "done", "failed", "deleted"}
Nothing == [version |-> 0, content |-> None]

TypeOK ==
  /\ wanted \in Nat
  /\ payload \in Payloads \cup {None}
  /\ verdict \in Verdicts
  /\ served \in [version : Nat, content : Contents \cup {None}]

Init ==
  /\ wanted = 0
  /\ payload = None
  /\ verdict = "none"
  /\ served = Nothing

Submit(p) ==
  /\ verdict # "deleted"
  /\ wanted' = wanted + 1
  /\ payload' = p
  /\ verdict' = "pending"
  /\ UNCHANGED served

(* The newest revision replaces what is served. *)
Publish(c) ==
  /\ verdict = "pending"
  /\ c \in Yields[payload]
  /\ served' = [version |-> wanted, content |-> c]
  /\ verdict' = "done"
  /\ UNCHANGED <<wanted, payload>>

(* The newest revision was prepared into the content already served. *)
ConfirmUnchanged ==
  /\ verdict = "pending"
  /\ served.content \in Yields[payload]
  /\ verdict' = "done"
  /\ UNCHANGED <<wanted, payload, served>>

GiveUp ==
  /\ verdict = "pending"
  /\ verdict' = "failed"
  /\ UNCHANGED <<wanted, payload, served>>

Delete ==
  /\ verdict \notin {"none", "deleted"}
  /\ wanted' = 0
  /\ payload' = None
  /\ verdict' = "deleted"
  /\ served' = Nothing

Next ==
  \/ \E p \in Payloads : Submit(p)
  \/ \E c \in Contents : Publish(c)
  \/ ConfirmUnchanged
  \/ GiveUp
  \/ Delete

Spec == Init /\ [][Next]_vars
=============================================================================
