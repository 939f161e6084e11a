------------------------------- MODULE Amendment -------------------------------
(* AmendmentEngine (ystar/governance/amendment.py): the approval of changes of a *)
(* constitution document, which the Path agents ask before they accept a         *)
(* document that is not the one they were started with.  One document.           *)

CONSTANTS
  Proposals, \* proposal_id of the submitted proposals
  Proposes,  \* proposal -> its proposed_hash
  Replaces   \* proposal -> its current_hash

VARIABLES
  status, \* proposal -> status
  active  \* _active_hashes of the document: a set that is empty or a singleton

amendment == <<status, active>>

Statuses == {"draft", "proposed", "under_review", "approved", "rejected",
             "activated", "rolled_back"}

AmendmentInit == status = [p \in Proposals |-> "draft"] /\ active = {}

\* _transition raises when the table does not allow the step.
Move(p, from, to) ==
  /\ status[p] = from
  /\ status' = [status EXCEPT ![p] = to]

Propose(p) == Move(p, "draft", "proposed") /\ UNCHANGED active

\* review: a decision that is neither raises after the move to under_review.
Review(p) ==
  /\ \/ \E from \in {"proposed", "under_review"} :
          Move(p, from, "approved") \/ Move(p, from, "rejected")
     \/ Move(p, "proposed", "under_review")
  /\ UNCHANGED active

Activate(p) == Move(p, "approved", "activated") /\ active' = {Proposes[p]}

Rollback(p) == Move(p, "activated", "rolled_back") /\ active' = {Replaces[p]}

AmendmentNext ==
  \E p \in Proposals : Propose(p) \/ Review(p) \/ Activate(p) \/ Rollback(p)

\* Mutant: any proposal that has been submitted will do.
ApprovedOnceProposed(hash) ==
  \E p \in Proposals : status[p] # "draft" /\ Proposes[p] = hash

\* has_approved_amendment
Approved(hash) ==
  \E p \in Proposals : status[p] \in {"approved", "activated"} /\ Proposes[p] = hash
===============================================================================
