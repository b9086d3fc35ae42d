---------------------------- MODULE AtomicPublish ----------------------------
(***************************************************************************)
(* What xivl promises of a command that builds an output directory: at     *)
(* any moment the destination holds either nothing of the tool's or the    *)
(* complete output of exactly one run.  A run that cannot publish changes  *)
(* nothing; the user may take a published directory away again.            *)
(* BatchPublish and ZonePublish are shown to implement this module.        *)
(***************************************************************************)
CONSTANTS
  Producer,   \* the runs that aim at the destination
  Nobody      \* no complete output stands at the destination

VARIABLES
  published,  \* the run whose complete output stands there, or Nobody
  outcome     \* outcome[p]: "idle", "working", "won" or "lost"

vars == <<published, outcome>>

TypeOK ==
  /\ published \in Producer \cup {Nobody}
  /\ outcome \in [Producer -> {"idle", "working", "won", "lost"}]

Init ==
  /\ published = Nobody
  /\ outcome = [p \in Producer |-> "idle"]

Start(p) ==
  /\ outcome[p] = "idle"
  /\ outcome' = [outcome EXCEPT ![p] = "working"]
  /\ UNCHANGED published

\* The one commit point: nothing is visible before it, everything after it.
Publish(p) ==
  /\ outcome[p] = "working"
  /\ published = Nobody
  /\ published' = p
  /\ outcome' = [outcome EXCEPT ![p] = "won"]

\* Refusal, I/O failure or death of the run: it will never publish.
Lose(p) ==
  /\ outcome[p] = "working"
  /\ outcome' = [outcome EXCEPT ![p] = "lost"]
  /\ UNCHANGED published

\* The user removes or empties the published directory.
Withdraw ==
  /\ published # Nobody
  /\ published' = Nobody
  /\ UNCHANGED outcome

\* The power fails: every run at work is lost, and perhaps the last publication.
PowerFails ==
  /\ published' \in {published, Nobody}
  /\ outcome' = [p \in Producer |-> IF outcome[p] = "working" THEN "lost" ELSE outcome[p]]

Next == Withdraw \/ PowerFails \/ \E p \in Producer : Start(p) \/ Publish(p) \/ Lose(p)

Spec == Init /\ [][Next]_vars
===============================================================================
