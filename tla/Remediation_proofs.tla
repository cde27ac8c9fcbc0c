------------------------- MODULE Remediation_proofs -------------------------
(***************************************************************************)
(* Proofs about Remediation, for any remediations and any number of        *)
(* requests.                                                               *)
(***************************************************************************)
EXTENDS Remediation, FiniteSetTheorems, TLAPS

(* Rows, requests and history stay within their types. *)
THEOREM TypeCorrect == Spec => []TypeOK
<1>1. Init => TypeOK
  BY DEF Init, TypeOK, Statuses, Tiers
<1>2. TypeOK /\ [Next]_vars => TypeOK'
  <2> SUFFICES ASSUME TypeOK, [Next]_vars PROVE TypeOK'
    OBVIOUS
  <2>1. CASE \E r \in Remediations : Create(r)
    BY <2>1 DEF TypeOK, Create, Statuses
  <2>2. CASE \E q \in Requests, op \in Operations, r \in Remediations : Read(q, op, r)
    BY <2>2 DEF TypeOK, Read
  <2>3. CASE \E q \in Requests : Write(q)
    <3>1. PICK q \in Requests : Write(q)
      BY <2>3
    <3>2. req[q] # Idle
      BY <3>1 DEF Write, Idle
    <3>3. req[q].id \in Remediations
      BY <3>2 DEF TypeOK
    <3>4. QED
      BY <3>1, <3>3 DEF TypeOK, Write, Approve, Execute, Outcome, Set, Statuses
  <2>4. CASE \E q \in Requests : Abandon(q)
    BY <2>4 DEF TypeOK, Abandon
  <2>5. CASE UNCHANGED vars
    BY <2>5 DEF TypeOK, vars
  <2>6. QED
    BY <2>1, <2>2, <2>3, <2>4, <2>5 DEF Next
<1>3. QED
  BY <1>1, <1>2, PTL DEF Spec

-----------------------------------------------------------------------------
(* ApprovalGate is not inductive: a write in flight must already carry     *)
(* what its late effect will need.                                         *)

Pending(q) == req[q].id

GateInv ==
    /\ \A r \in Remediations :
          status[r] \in Begun \cup {"approved"} /\ tier[r] # "auto" => r \in approved
    /\ \A q \in Requests :
          req[q].op \in Operations \ {"approve"} /\ tier[Pending(q)] # "auto"
              => Pending(q) \in approved

LEMMA GateInductive == TypeOK /\ GateInv /\ [Next]_vars => GateInv'
<1> SUFFICES ASSUME TypeOK, GateInv, [Next]_vars PROVE GateInv'
  OBVIOUS
<1>1. CASE \E r \in Remediations : Create(r)
  BY <1>1 DEF TypeOK, GateInv, Create, Begun, Pending
<1>2. CASE \E q \in Requests, op \in Operations, r \in Remediations : Read(q, op, r)
  <2>1. PICK q \in Requests, op \in Operations, r \in Remediations : Read(q, op, r)
    BY <1>2
  <2>2. op # "approve" /\ tier[r] # "auto" => r \in approved
    BY <2>1 DEF GateInv, Read, Check, MayExecute, Begun, Operations
  <2>3. \A p \in Requests : req'[p] = IF p = q THEN [op |-> op, id |-> r] ELSE req[p]
    BY <2>1 DEF Read, TypeOK
  <2>4. UNCHANGED <<status, tier, approved>>
    BY <2>1 DEF Read
  <2>5. QED
    BY <2>2, <2>3, <2>4 DEF GateInv, Pending
<1>3. CASE \E q \in Requests : Write(q)
  <2>1. PICK q \in Requests : Write(q)
    BY <1>3
  <2> DEFINE r == req[q].id
  <2>2. req[q].op \in Operations /\ r \in Remediations
    BY <2>1 DEF Write, TypeOK, Idle
  <2>3. req' = [req EXCEPT ![q] = Idle] /\ tier' = tier
    BY <2>1 DEF Write
  <2>4. /\ approved \subseteq approved'
        /\ \A s \in Remediations \ {r} : status'[s] = status[s]
        /\ r \in approved' \/ tier[r] = "auto"
    BY <2>1, <2>2 DEF Write, Approve, Execute, Outcome, Set, TypeOK, GateInv, Pending, Operations
  <2>5. QED
    BY <2>2, <2>3, <2>4 DEF GateInv, Pending, TypeOK, Idle, Operations
<1>4. CASE \E q \in Requests : Abandon(q)
  BY <1>4 DEF TypeOK, GateInv, Abandon, Pending, Idle, Operations
<1>5. CASE UNCHANGED vars
  BY <1>5 DEF GateInv, vars, Pending
<1>6. QED
  BY <1>1, <1>2, <1>3, <1>4, <1>5 DEF Next

(* Whatever stale writes overtake each other, what is executed without     *)
(* approval is of the auto tier.                                           *)
THEOREM ApprovalGateHolds == Spec => []ApprovalGate
<1>1. Init => GateInv
  BY DEF Init, GateInv, Begun, Pending, Idle, Operations
<1>2. GateInv => ApprovalGate
  BY DEF GateInv, ApprovalGate
<1>3. QED
  BY <1>1, <1>2, TypeCorrect, GateInductive, PTL DEF Spec

-----------------------------------------------------------------------------
(* The same for executed_at. *)

OutcomeInv ==
    /\ \A r \in Remediations : status[r] \in Begun => r \in executed
    /\ \A q \in Requests :
          req[q].op \in {"complete", "fail", "rollback"} => Pending(q) \in executed

LEMMA OutcomeInductive == TypeOK /\ OutcomeInv /\ [Next]_vars => OutcomeInv'
<1> SUFFICES ASSUME TypeOK, OutcomeInv, [Next]_vars PROVE OutcomeInv'
  OBVIOUS
<1>1. CASE \E r \in Remediations : Create(r)
  BY <1>1 DEF TypeOK, OutcomeInv, Create, Begun, Pending
<1>2. CASE \E q \in Requests, op \in Operations, r \in Remediations : Read(q, op, r)
  <2>1. PICK q \in Requests, op \in Operations, r \in Remediations : Read(q, op, r)
    BY <1>2
  <2>2. op \in {"complete", "fail", "rollback"} => r \in executed
    BY <2>1 DEF OutcomeInv, Read, Check, Begun
  <2>3. \A p \in Requests : req'[p] = IF p = q THEN [op |-> op, id |-> r] ELSE req[p]
    BY <2>1 DEF Read, TypeOK
  <2>4. UNCHANGED <<status, executed>>
    BY <2>1 DEF Read
  <2>5. QED
    BY <2>2, <2>3, <2>4 DEF OutcomeInv, Pending
<1>3. CASE \E q \in Requests : Write(q)
  <2>1. PICK q \in Requests : Write(q)
    BY <1>3
  <2> DEFINE r == req[q].id
  <2>2. req[q].op \in Operations /\ r \in Remediations
    BY <2>1 DEF Write, TypeOK, Idle
  <2>3. req' = [req EXCEPT ![q] = Idle]
    BY <2>1 DEF Write
  <2>4. /\ executed \subseteq executed'
        /\ \A s \in Remediations \ {r} : status'[s] = status[s]
        /\ r \in executed' \/ status'[r] = "approved"
    BY <2>1, <2>2 DEF Write, Approve, Execute, Outcome, Set, TypeOK, OutcomeInv, Pending
  <2>5. QED
    BY <2>2, <2>3, <2>4 DEF OutcomeInv, Pending, TypeOK, Idle, Begun
<1>4. CASE \E q \in Requests : Abandon(q)
  BY <1>4 DEF TypeOK, OutcomeInv, Abandon, Pending, Idle
<1>5. CASE UNCHANGED vars
  BY <1>5 DEF OutcomeInv, vars, Pending
<1>6. QED
  BY <1>1, <1>2, <1>3, <1>4, <1>5 DEF Next

(* Whatever stale writes overtake each other, no outcome is recorded of a  *)
(* remediation that was never executed.                                    *)
THEOREM OutcomeHolds == Spec => []OutcomeFollowsExecution
<1>1. Init => OutcomeInv
  BY DEF Init, OutcomeInv, Begun, Pending, Idle
<1>2. OutcomeInv => OutcomeFollowsExecution
  BY DEF OutcomeInv, OutcomeFollowsExecution, Begun
<1>3. QED
  BY <1>1, <1>2, TypeCorrect, OutcomeInductive, PTL DEF Spec

-----------------------------------------------------------------------------
(* Reopening: each approve in flight of a row is one reopening it may yet  *)
(* cause, and none joins them once the row has left "pending".             *)

Approvers(r) == {q \in Requests : req[q] = [op |-> "approve", id |-> r]}

ReopenInv ==
    \A r \in Remediations :
        /\ status[r] \in {"none", "pending"} => approvals[r] = 0
        /\ approvals[r] + Cardinality(Approvers(r)) <= Cardinality(Requests)

LEMMA ApproversFinite ==
  ASSUME NEW r
  PROVE  /\ IsFiniteSet(Approvers(r))
         /\ Cardinality(Approvers(r)) \in Nat
         /\ Cardinality(Approvers(r)) <= Cardinality(Requests)
BY RequestsAssumption, FS_Subset, FS_CardinalityType DEF Approvers

LEMMA ReopenInductive == TypeOK /\ ReopenInv /\ [Next]_vars => ReopenInv'
<1> SUFFICES ASSUME TypeOK, ReopenInv, [Next]_vars, NEW r \in Remediations
             PROVE  /\ status'[r] \in {"none", "pending"} => approvals'[r] = 0
                    /\ approvals'[r] + Cardinality(Approvers(r)') <= Cardinality(Requests)
  BY DEF ReopenInv
<1> USE RequestsAssumption
<1>0. /\ approvals[r] \in Nat
      /\ Cardinality(Requests) \in Nat
      /\ IsFiniteSet(Approvers(r))
      /\ IsFiniteSet(Approvers(r)')
      /\ Cardinality(Approvers(r)) \in Nat
      /\ Cardinality(Approvers(r)') \in Nat
  <2>1. Approvers(r)' \in SUBSET Requests
    BY DEF Approvers
  <2>2. QED
    BY <2>1, ApproversFinite, FS_Subset, FS_CardinalityType DEF TypeOK
<1>a. /\ status[r] \in {"none", "pending"} => approvals[r] = 0
      /\ approvals[r] + Cardinality(Approvers(r)) <= Cardinality(Requests)
  BY DEF ReopenInv
<1>b. ASSUME Approvers(r)' \subseteq Approvers(r)
      PROVE  Cardinality(Approvers(r)') <= Cardinality(Approvers(r))
  BY <1>0, <1>b, FS_Subset
<1>1. CASE \E s \in Remediations : Create(s)
  <2>1. Approvers(r)' = Approvers(r)
    BY <1>1 DEF Create, Approvers
  <2>2. QED
    BY <1>1, <1>a, <2>1 DEF Create, TypeOK
<1>2. CASE \E q \in Requests, op \in Operations, s \in Remediations : Read(q, op, s)
  <2>1. PICK q \in Requests, op \in Operations, s \in Remediations : Read(q, op, s)
    BY <1>2
  <2>2. UNCHANGED <<status, approvals>>
    BY <2>1 DEF Read
  <2>3. CASE op = "approve" /\ s = r
    <3>1. status[r] = "pending"
      BY <2>1, <2>3 DEF Read, Check
    <3>2. Cardinality(Approvers(r)') <= Cardinality(Requests)
      BY FS_Subset DEF Approvers
    <3>3. QED
      BY <1>0, <1>a, <2>2, <3>1, <3>2
  <2>4. CASE ~(op = "approve" /\ s = r)
    <3>1. Approvers(r)' \subseteq Approvers(r)
      BY <2>1, <2>4 DEF Read, Approvers, TypeOK
    <3>2. QED
      BY <1>0, <1>a, <1>b, <2>2, <3>1
  <2>5. QED
    BY <2>3, <2>4
<1>3. CASE \E q \in Requests : Write(q)
  <2>1. PICK q \in Requests : Write(q)
    BY <1>3
  <2>2. req[q].op \in Operations /\ req[q].id \in Remediations /\ req[q] # Idle
    BY <2>1 DEF Write, TypeOK, Idle
  <2>3. req' = [req EXCEPT ![q] = Idle]
    BY <2>1 DEF Write
  <2>4. Approvers(r)' = Approvers(r) \ {q}
    BY <2>3 DEF Approvers, TypeOK, Idle
  <2>5. status'[req[q].id] \notin {"none", "pending"}
    BY <2>1, <2>2 DEF Write, Approve, Execute, Outcome, Set, TypeOK
  <2>6. CASE req[q].op = "approve" /\ req[q].id = r
    <3>1. q \in Approvers(r)
      <4>1. req[q] \in [op : Operations, id : Remediations]
        BY <2>2 DEF TypeOK
      <4>2. req[q] = [op |-> "approve", id |-> r]
        BY <4>1, <2>6
      <4>3. QED
        BY <4>2 DEF Approvers
    <3>2. Cardinality(Approvers(r)') = Cardinality(Approvers(r)) - 1
      BY <1>0, <2>4, <3>1, FS_RemoveElement
    <3>3. approvals'[r] = approvals[r] + 1
      BY <2>1, <2>6 DEF Write, Approve, TypeOK
    <3>4. QED
      BY <1>0, <1>a, <2>5, <2>6, <3>2, <3>3
  <2>7. CASE ~(req[q].op = "approve" /\ req[q].id = r)
    <3>1. approvals'[r] = approvals[r]
      BY <2>1, <2>7 DEF Write, Approve, Execute, Outcome, TypeOK
    <3>2. status'[r] \in {"none", "pending"} => status[r] \in {"none", "pending"}
      <4>1. CASE req[q].id = r
        BY <4>1, <2>5
      <4>2. CASE req[q].id # r
        BY <4>2, <2>1, <2>2 DEF Write, Approve, Execute, Outcome, Set, TypeOK
      <4>3. QED
        BY <4>1, <4>2
    <3>3. QED
      BY <1>0, <1>a, <1>b, <2>4, <3>1, <3>2
  <2>8. QED
    BY <2>6, <2>7
<1>4. CASE \E q \in Requests : Abandon(q)
  <2>1. Approvers(r)' \subseteq Approvers(r)
    BY <1>4 DEF Abandon, Approvers, TypeOK, Idle
  <2>2. QED
    BY <1>0, <1>4, <1>a, <1>b, <2>1 DEF Abandon
<1>5. CASE UNCHANGED vars
  BY <1>5, <1>a DEF vars, Approvers
<1>6. QED
  BY <1>1, <1>2, <1>3, <1>4, <1>5 DEF Next

(* For any number of requests n, a remediation is approved at most n       *)
(* times: stale approves reopen it a bounded number of times.              *)
THEOREM ReopeningBounded == Spec => []ReopeningIsBounded
<1>1. Init => ReopenInv
  <2>1. ASSUME Init, NEW r \in Remediations
        PROVE  approvals[r] = 0 /\ Cardinality(Approvers(r)) <= Cardinality(Requests)
    BY <2>1, ApproversFinite DEF Init
  <2>2. Cardinality(Requests) \in Nat /\ \A r : Cardinality(Approvers(r)) \in Nat
    BY RequestsAssumption, FS_CardinalityType, ApproversFinite
  <2>3. QED
    BY <2>1, <2>2 DEF ReopenInv
<1>2. TypeOK /\ ReopenInv => ReopeningIsBounded
  <2> SUFFICES ASSUME TypeOK, ReopenInv, NEW r \in Remediations
               PROVE  approvals[r] <= Cardinality(Requests)
    BY DEF ReopeningIsBounded
  <2>1. /\ approvals[r] \in Nat
        /\ Cardinality(Approvers(r)) \in Nat
        /\ Cardinality(Requests) \in Nat
    BY ApproversFinite, RequestsAssumption, FS_CardinalityType DEF TypeOK
  <2>2. QED
    BY <2>1 DEF ReopenInv
<1>3. QED
  BY <1>1, <1>2, TypeCorrect, ReopenInductive, PTL DEF Spec

=============================================================================
