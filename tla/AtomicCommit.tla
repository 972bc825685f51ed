---------------------------- MODULE AtomicCommit ----------------------------
(***************************************************************************)
(* What a distributed transaction promises: one decision per transaction,  *)
(* taken once and never revised, and on every segment an outcome that is   *)
(* final and equal to the decision. A step may advance several             *)
(* transactions at once, as the crash of a segment does.                   *)
(***************************************************************************)
CONSTANTS Gxid, Seg

VARIABLES decision,  \* the fate of each transaction
          outcome    \* what each segment has durably done with it

vars == <<decision, outcome>>

Init ==
  /\ decision = [g \in Gxid |-> "none"]
  /\ outcome = [g \in Gxid |-> [s \in Seg |-> "open"]]

Decide(g) ==
  \/ decision'[g] = decision[g]
  \/ decision[g] = "none" /\ decision'[g] \in {"committed", "aborted"}

Finish(g, s) ==
  \/ outcome'[g][s] = outcome[g][s]
  \/ outcome[g][s] = "open" /\ decision'[g] # "none" /\ outcome'[g][s] = decision'[g]

Next ==
  /\ DOMAIN decision' = Gxid /\ DOMAIN outcome' = Gxid
  /\ \A g \in Gxid : Decide(g) /\ \A s \in Seg : Finish(g, s)

Spec == Init /\ [][Next]_vars
=============================================================================
