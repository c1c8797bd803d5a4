------------------------------- MODULE JobLog -------------------------------
(***************************************************************************)
(* What the service promises of one job to whoever reads it: a status that *)
(* only moves along the lifecycle of jobs.py, and an event log that is     *)
(* only ever extended, by the events that moved it.  An ended job keeps    *)
(* both until its owner deletes it.                                        *)
(***************************************************************************)
EXTENDS Naturals, Sequences

CONSTANT MaxNodes   \* bound of the nodes one run reports

VARIABLES
  status,   \* the stored status, or "absent" where no job is stored
  log       \* the stored events: a status, or "node"

Ended == {"completed", "failed", "rejected", "awaiting-answers", "stopped"}

LegalTransitions ==
  [queued |-> {"running", "failed"}, running |-> Ended]

Reported == {[k \in 1..n |-> "node"] : n \in 0..MaxNodes}

(* The job moves to a status it may move to.  Its log gains that status,   *)
(* after the nodes a running job reported and no earlier save stored.      *)
Move ==
  /\ status \in DOMAIN LegalTransitions
  /\ status' \in LegalTransitions[status]
  /\ \E nodes \in Reported :
       /\ status = "queued" => nodes = <<>>
       /\ log' = log \o nodes \o <<status'>>

Progress ==
  /\ status = "running" /\ status' = status
  /\ \E nodes \in Reported : log' = log \o nodes

Delete ==
  /\ status \in Ended
  /\ status' = "absent" /\ log' = <<>>

Init == status = "queued" /\ log = <<"queued">>

Next == Move \/ Progress \/ Delete

Spec == Init /\ [][Next]_<<status, log>>
=============================================================================
