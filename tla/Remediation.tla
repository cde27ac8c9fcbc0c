----------------------------- MODULE Remediation -----------------------------
(***************************************************************************)
(* The remediations of one tenant (services/remediation-service.ts): every *)
(* operation reads the row, checks its state and then updates it by id     *)
(* alone, in two statements that nothing ties together.  Requests run      *)
(* concurrently, so an update may land on a row that has moved on.         *)
(***************************************************************************)
EXTENDS Naturals, FiniteSets

CONSTANTS
    Remediations,
    Requests,      \* API requests in flight at a time
    Nothing        \* "no remediation" in an idle request

ASSUME NothingAssumption == Nothing \notin Remediations
ASSUME RequestsAssumption == IsFiniteSet(Requests)

VARIABLES
    status,     \* remediations.status, "none" before the row is inserted
    tier,       \* remediations.tier
    approved,   \* the remediations whose approved_by is set
    executed,   \* the remediations whose executed_at is set
    req,        \* req[q]: the operation that request q has checked and not yet written
    approvals   \* history: how often approve has written each row

vars == <<status, tier, approved, executed, req, approvals>>

Tiers == {"auto", "approval", "manual"}
Statuses == {"pending", "approved", "executing", "completed", "failed", "rolled_back"}
Operations == {"approve", "execute", "complete", "fail", "rollback"}

Idle == [op |-> "idle", id |-> Nothing]

TypeOK ==
    /\ status \in [Remediations -> Statuses \cup {"none"}]
    /\ tier \in [Remediations -> Tiers]
    /\ approved \subseteq Remediations
    /\ executed \subseteq Remediations
    /\ req \in [Requests -> {Idle} \cup [op : Operations, id : Remediations]]
    /\ approvals \in [Remediations -> Nat]

Init ==
    /\ status = [r \in Remediations |-> "none"]
    /\ tier \in [Remediations -> Tiers]
    /\ approved = {}
    /\ executed = {}
    /\ req = [q \in Requests |-> Idle]
    /\ approvals = [r \in Remediations |-> 0]

Create(r) ==
    /\ status[r] = "none"
    /\ status' = [status EXCEPT ![r] = "pending"]
    /\ UNCHANGED <<tier, approved, executed, req, approvals>>

(* Mutant of MayExecute: the tier is not looked at. *)
MayExecuteAnyTier(r) == status[r] \in {"approved", "pending"}

(* What each operation asks of the row it has read. *)
MayExecute(r) ==
    \/ status[r] = "approved"
    \/ status[r] = "pending" /\ tier[r] = "auto"

(* Mutants of Check: approve does not check the state; complete takes an   *)
(* approved row as well.                                                   *)
CheckWithoutApprove(op, r) ==
    \/ op = "approve"  /\ status[r] # "none"
    \/ op = "execute"  /\ MayExecute(r)
    \/ op = "complete" /\ status[r] = "executing"

CheckApprovedCompletes(op, r) ==
    \/ op = "approve"  /\ status[r] = "pending"
    \/ op = "complete" /\ status[r] \in {"approved", "executing"}

Check(op, r) ==
    \/ op = "approve"  /\ status[r] = "pending"
    \/ op = "execute"  /\ MayExecute(r)
    \/ op = "complete" /\ status[r] = "executing"
    \/ op = "fail"     /\ status[r] = "executing"
    \/ op = "rollback" /\ status[r] \in {"completed", "failed"}

Read(q, op, r) ==
    /\ req[q] = Idle
    /\ Check(op, r)
    /\ req' = [req EXCEPT ![q] = [op |-> op, id |-> r]]
    /\ UNCHANGED <<status, tier, approved, executed, approvals>>

Set(r, new) == status' = [status EXCEPT ![r] = new]

(* Each writes by id, whatever the row is by now. *)
Approve(r) ==
    /\ Set(r, "approved")
    /\ approved' = approved \cup {r}
    /\ approvals' = [approvals EXCEPT ![r] = @ + 1]
    /\ UNCHANGED executed

Execute(r) ==
    /\ Set(r, "executing")
    /\ executed' = executed \cup {r}
    /\ UNCHANGED <<approved, approvals>>

Outcome(r, new) == Set(r, new) /\ UNCHANGED <<approved, executed, approvals>>

Write(q) ==
    /\ \/ req[q].op = "approve"  /\ Approve(req[q].id)
       \/ req[q].op = "execute"  /\ Execute(req[q].id)
       \/ req[q].op = "complete" /\ Outcome(req[q].id, "completed")
       \/ req[q].op = "fail"     /\ Outcome(req[q].id, "failed")
       \/ req[q].op = "rollback" /\ Outcome(req[q].id, "rolled_back")
    /\ req' = [req EXCEPT ![q] = Idle]
    /\ UNCHANGED tier

(* The request fails or its instance dies between the two statements. *)
Abandon(q) ==
    /\ req[q] # Idle
    /\ req' = [req EXCEPT ![q] = Idle]
    /\ UNCHANGED <<status, tier, approved, executed, approvals>>

Next ==
    \/ \E r \in Remediations : Create(r)
    \/ \E q \in Requests, op \in Operations, r \in Remediations : Read(q, op, r)
    \/ \E q \in Requests : Write(q) \/ Abandon(q)

Spec == Init /\ [][Next]_vars

-----------------------------------------------------------------------------
(* Properties. *)

Begun == {"executing", "completed", "failed", "rolled_back"}

(* "Approval-tier and manual-tier MUST be approved first": whatever stale  *)
(* writes overtake each other, a remediation that is being or has been     *)
(* executed was approved, unless its tier is auto.                         *)
ApprovalGate ==
    \A r \in Remediations : status[r] \in Begun /\ tier[r] # "auto" => r \in approved

(* An outcome is recorded only of what was executed. *)
OutcomeFollowsExecution ==
    \A r \in Remediations :
        status[r] \in {"completed", "failed", "rolled_back"} => r \in executed

(* A stale approve can reopen a remediation that has run, but each request *)
(* in flight can do so once: nothing returns a row to "pending".           *)
ReopeningIsBounded ==
    \A r \in Remediations : approvals[r] <= Cardinality(Requests)

=============================================================================
