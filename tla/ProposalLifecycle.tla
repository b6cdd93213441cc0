-------------------------- MODULE ProposalLifecycle --------------------------
(***************************************************************************)
(* What the controller promises about its pull requests, with no Lease, no *)
(* cache and no reconcile loop: proposals are opened one at a time per     *)
(* quota and keep the direction they were opened with; the controller      *)
(* itself merges only grows and withdraws only shrinks; people may do      *)
(* either; nothing that ended comes back.                                  *)
(***************************************************************************)
EXTENDS Naturals, Sequences

CONSTANTS Quotas

VARIABLE proposals

Fates == {"open", "botMerged", "humanMerged", "botClosed", "humanClosed"}

Init == proposals = <<>>

Propose(q, d) ==
    /\ \A n \in DOMAIN proposals : proposals[n].quota = q => proposals[n].fate # "open"
    /\ proposals' = Append(proposals, [quota |-> q, dir |-> d, fate |-> "open"])

MayEnd(p, f) ==
    /\ p.fate = "open" /\ f \in Fates \ {"open"}
    /\ f = "botMerged" => p.dir = "grow"
    /\ f = "botClosed" => p.dir = "shrink"

Finish(n, f) ==
    /\ MayEnd(proposals[n], f)
    /\ proposals' = [proposals EXCEPT ![n].fate = f]

Next ==
    \/ \E q \in Quotas, d \in {"grow", "shrink"} : Propose(q, d)
    \/ \E n \in DOMAIN proposals, f \in Fates \ {"open"} : Finish(n, f)

Spec == Init /\ [][Next]_proposals
=============================================================================
