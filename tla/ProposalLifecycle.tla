-------------------------- MODULE ProposalLifecycle --------------------------
(***************************************************************************)
(* What a member may rely on about the life of a proposal, as the diagram  *)
(* in contracts/vendor/Baal.sol draws it: where a status may go next, and  *)
(* that Cancelled, Defeated and Processed are final.  Module BaalGovernance *)
(* implements it with State(p), which the code computes from the clock and *)
(* the tally each time it is asked.                                        *)
(***************************************************************************)
CONSTANT Proposals

VARIABLE status

Final == {"Cancelled", "Defeated", "Processed"}

\* The statuses a proposal of status s may have after one step.
After(s) ==
  CASE s = "Unborn" -> {"Submitted", "Voting"}
    [] s = "Submitted" -> {"Voting"}
    [] s = "Voting" -> {"Cancelled", "Grace"}
    [] s = "Grace" -> {"Ready", "Defeated"}
    [] s = "Ready" -> {"Processed"}
    [] s \in Final -> {}

LifeInit == status = [p \in Proposals |-> "Unborn"]

\* The clock moves every proposal at once, a call moves one.
LifeNext ==
  \E new \in [Proposals -> UNION {After(status[p]) \union {status[p]} : p \in Proposals}] :
    /\ \A p \in Proposals : new[p] = status[p] \/ new[p] \in After(status[p])
    /\ status' = new

LifeSpec == LifeInit /\ [][LifeNext]_status
=============================================================================
