---------------------------- MODULE ScanLifecycle ----------------------------
(***************************************************************************)
(* The scans of one tenant: the API's POST, on-prem POST, cancel and PATCH *)
(* handlers, the scan queue, and the SQS scan worker.  Each database or    *)
(* queue call of a handler is a step of its own, since every await lets    *)
(* other requests and workers in; none of them is in a transaction.        *)
(* A scan and its job have the same identity: ScanService.create sends one *)
(* message per row.                                                        *)
(***************************************************************************)
EXTENDS SqsQueue, FiniteSets

CONSTANTS
    Requests,       \* API requests in flight at a time
    Workers,        \* queue records that scan-worker invocations hold at a time
    MaxConcurrent,  \* MAX_CONCURRENT_SCANS_PER_TENANT
    Quota,          \* the plan's monthly scan quota
    MaxPatched,     \* bound: the scans an administrator ever patches
    OnPrem,         \* TRUE: scans are also requested on the on-prem routes
    NoScan          \* "no scan" in a request or a worker

Scans == Jobs

ASSUME NoScanAssumption == NoScan \notin Jobs
ASSUME RequestsAssumption == IsFiniteSet(Requests) /\ Requests # {}
ASSUME LimitAssumption == MaxConcurrent \in Nat /\ Quota \in Nat /\ MaxPatched \in Nat
ASSUME OnPremAssumption == OnPrem \in BOOLEAN

VARIABLES
    status,     \* scans.status, "none" before the row is inserted
    used,       \* usage_meters.count of the metric "scans" in this period
    req,        \* req[r]: where request r stands, on which scan, and by which route
    wk,         \* wk[w]: where invocation w stands, on which scan, and what went wrong
    snapshots,  \* snapshots[s]: how often compliance_scores rows were inserted for s
    patched,    \* history: the scans a PATCH has overwritten
    overrun     \* history: the scans whose job turned visible again under an invocation

vars == <<msg, status, used, req, wk, snapshots, patched, overrun>>

Terminal == {"completed", "completed_partial", "failed", "cancelled"}
Active == {"queued", "running"}
Statuses == Active \cup Terminal

Faults == {"agent", "credential"}

RequestSteps == {"idle", "count", "admitted", "inserted", "enqueued", "cancelling"}
WorkerSteps == {"idle", "mark_running", "swarm", "mark_completed", "snapshot",
                "alerts", "mark_failed", "ack"}

Routes == {"api", "onprem", "fallback"}
IdleRequest == [pc |-> "idle", scan |-> NoScan, route |-> "api"]
IdleWorker == [pc |-> "idle", scan |-> NoScan, faults |-> {}]

TypeOK ==
    /\ QueueTypeOK
    /\ status \in [Scans -> Statuses \cup {"none"}]
    /\ used \in Nat
    /\ req \in [Requests -> [pc : RequestSteps, scan : Scans \cup {NoScan}, route : Routes]]
    /\ wk \in [Workers -> [pc : WorkerSteps, scan : Scans \cup {NoScan},
                           faults : SUBSET Faults]]
    /\ snapshots \in [Scans -> Nat]
    /\ patched \subseteq Scans
    /\ overrun \subseteq Scans

Init ==
    /\ QueueInit
    /\ status = [s \in Scans |-> "none"]
    /\ used = 0
    /\ req = [r \in Requests |-> IdleRequest]
    /\ wk = [w \in Workers |-> IdleWorker]
    /\ snapshots = [s \in Scans |-> 0]
    /\ patched = {}
    /\ overrun = {}

ActiveScans == {s \in Scans : status[s] \in Active}

-----------------------------------------------------------------------------
(* POST /api/scans: quota check, limit check, INSERT, SendMessage, billing. *)
(* POST /api/scans/ad and /snmp call create alone, and insert and send for  *)
(* themselves when it fails.                                                *)

Request(r, pc, s, route) ==
    req' = [req EXCEPT ![r] = [pc |-> pc, scan |-> s, route |-> route]]
To(r, pc) == Request(r, pc, req[r].scan, req[r].route)

(* Mutant of EnforceQuota: count <= limit. *)
EnforceQuotaInclusive(r) ==
    /\ req[r].pc = "idle"
    /\ used <= Quota
    /\ To(r, "count")
    /\ UNCHANGED <<msg, status, used, wk, snapshots, patched, overrun>>

EnforceQuota(r) ==
    /\ req[r].pc = "idle"
    /\ used < Quota
    /\ To(r, "count")
    /\ UNCHANGED <<msg, status, used, wk, snapshots, patched, overrun>>

BelowLimit == Cardinality(ActiveScans) < MaxConcurrent

(* Mutant of CountActive: count <= limit. *)
CountActiveInclusive(r) ==
    /\ req[r].pc = "count"
    /\ Cardinality(ActiveScans) <= MaxConcurrent
    /\ To(r, "admitted")
    /\ UNCHANGED <<msg, status, used, wk, snapshots, patched, overrun>>

(* The count is read here and not looked at again. *)
CountActive(r) ==
    /\ req[r].pc = "count"
    /\ BelowLimit
    /\ To(r, "admitted")
    /\ UNCHANGED <<msg, status, used, wk, snapshots, patched, overrun>>

(* Mutant of InsertScan: a failed INSERT is swallowed, the message is sent anyway. *)
InsertScanSwallowed(r) ==
    /\ req[r].pc = "admitted"
    /\ \E s \in Scans :
          /\ status[s] = "none"
          /\ Request(r, "inserted", s, req[r].route)
    /\ UNCHANGED <<msg, status, used, wk, snapshots, patched, overrun>>

InsertScan(r) ==
    /\ req[r].pc = "admitted"
    /\ \E s \in Scans :
          /\ status[s] = "none"
          /\ status' = [status EXCEPT ![s] = "queued"]
          /\ Request(r, "inserted", s, req[r].route)
    /\ UNCHANGED <<msg, used, wk, snapshots, patched, overrun>>

(* Mutant of Enqueue: the promise of add is not awaited and its failure is lost. *)
EnqueueUnawaited(r) ==
    /\ req[r].pc = "inserted"
    /\ Add(req[r].scan) \/ UNCHANGED msg
    /\ To(r, "enqueued")
    /\ UNCHANGED <<status, used, wk, snapshots, patched, overrun>>

Enqueue(r) ==
    /\ req[r].pc = "inserted"
    /\ Add(req[r].scan)
    /\ To(r, "enqueued")
    /\ UNCHANGED <<status, used, wk, snapshots, patched, overrun>>

Bill(r) ==
    /\ req[r].pc = "enqueued"
    /\ req[r].route = "api"
    /\ used' = used + 1
    /\ req' = [req EXCEPT ![r] = IdleRequest]
    /\ UNCHANGED <<msg, status, wk, snapshots, patched, overrun>>

OnPremPost(r) ==
    /\ OnPrem
    /\ req[r].pc = "idle"
    /\ Request(r, "count", NoScan, "onprem")
    /\ UNCHANGED <<msg, status, used, wk, snapshots, patched, overrun>>

(* create was rejected, not by the limit: for want of an integration, or   *)
(* because any of its awaits failed.  It is not asked how far it had got;  *)
(* the row it may have inserted stays behind (scan: history until INSERT). *)
FallBack(r) ==
    /\ req[r].route = "onprem"
    /\ Request(r, "admitted", req[r].scan, "fallback")
    /\ UNCHANGED <<msg, status, used, wk, snapshots, patched, overrun>>

(* The reply, a 400, a failed query or SendMessage, or the death of the    *)
(* API instance: the request ends here and nothing it wrote is undone.     *)
RequestEnds(r) ==
    /\ req[r].pc # "idle"
    /\ req' = [req EXCEPT ![r] = IdleRequest]
    /\ UNCHANGED <<msg, status, used, wk, snapshots, patched, overrun>>

(* POST /api/scans/:id/cancel: getById, then an unconditional UPDATE. *)
CancelRead(r) ==
    /\ req[r].pc = "idle"
    /\ \E s \in ActiveScans : Request(r, "cancelling", s, "api")
    /\ UNCHANGED <<msg, status, used, wk, snapshots, patched, overrun>>

CancelWrite(r) ==
    /\ req[r].pc = "cancelling"
    /\ status' = [status EXCEPT ![req[r].scan] = "cancelled"]
    /\ req' = [req EXCEPT ![r] = IdleRequest]
    /\ UNCHANGED <<msg, used, wk, snapshots, patched, overrun>>

(* PATCH /api/scans/:id: one UPDATE, to any status of the enum. *)
Patch(s) ==
    /\ status[s] # "none"
    /\ \E new \in Statuses : status' = [status EXCEPT ![s] = new]
    /\ patched' = patched \cup {s}
    /\ Cardinality(patched') <= MaxPatched
    /\ UNCHANGED <<msg, used, req, wk, snapshots, overrun>>

-----------------------------------------------------------------------------
(* The scan worker.  An invocation takes a batch of records, handles them  *)
(* in turn and acknowledges them together; here every record it holds is a *)
(* worker of its own, which allows all that a batch can do.                *)

GotoWith(w, pc, faults) ==
    wk' = [wk EXCEPT ![w] = [pc |-> pc, scan |-> wk[w].scan, faults |-> faults]]
Goto(w, pc) == GotoWith(w, pc, wk[w].faults)
Leave(w) == wk' = [wk EXCEPT ![w] = IdleWorker]

Write(s, new) == status' = [status EXCEPT ![s] = new]

Start(w, s) ==
    /\ wk[w].pc = "idle"
    /\ Receive(s)
    /\ wk' = [wk EXCEPT ![w] = [pc |-> "mark_running", scan |-> s, faults |-> {}]]
    /\ UNCHANGED <<status, used, req, snapshots, patched, overrun>>

MarkRunning(w) ==
    /\ wk[w].pc = "mark_running"
    /\ Write(wk[w].scan, "running")
    /\ Goto(w, "swarm")
    /\ UNCHANGED <<msg, used, req, snapshots, patched, overrun>>

(* runSwarm returns whatever happened: an agent may have failed, and an    *)
(* integration whose credential does not resolve is skipped.               *)
RunSwarm(w) ==
    /\ wk[w].pc = "swarm"
    /\ \E f \in SUBSET Faults : GotoWith(w, "mark_completed", f)
    /\ UNCHANGED <<msg, status, used, req, snapshots, patched, overrun>>

(* hasErrors looks at agentResults, where a skipped integration has no entry. *)
HasErrors(faults) == "agent" \in faults

MarkCompleted(w) ==
    /\ wk[w].pc = "mark_completed"
    /\ Write(wk[w].scan,
             IF HasErrors(wk[w].faults) THEN "completed_partial" ELSE "completed")
    /\ Goto(w, "snapshot")
    /\ UNCHANGED <<msg, used, req, snapshots, patched, overrun>>

(* Mutant of SnapshotScores: an insert that seems to have failed is repeated. *)
SnapshotScoresRetried(w) ==
    /\ wk[w].pc = "snapshot"
    /\ snapshots' = [snapshots EXCEPT ![wk[w].scan] = snapshots[wk[w].scan] + 1]
    /\ \E pc \in {"alerts", "snapshot"} : GotoWith(w, pc, {})
    /\ UNCHANGED <<msg, status, used, req, patched, overrun>>

(* The INSERT may be carried out and its reply lost, which is a failure too. *)
SnapshotScores(w) ==
    /\ wk[w].pc = "snapshot"
    /\ snapshots' = [snapshots EXCEPT ![wk[w].scan] = snapshots[wk[w].scan] + 1]
    /\ \E pc \in {"alerts", "mark_failed"} : GotoWith(w, pc, {})
    /\ UNCHANGED <<msg, status, used, req, patched, overrun>>

(* The alert engine has its own try/catch: it ends the same way either way. *)
EvaluateAlerts(w) ==
    /\ wk[w].pc = "alerts"
    /\ Goto(w, "ack")
    /\ UNCHANGED <<msg, status, used, req, snapshots, patched, overrun>>

(* Mutant of Throw: the catch block logs and returns. *)
ThrowSwallowed(w) ==
    /\ wk[w].pc \in {"mark_running", "swarm", "mark_completed", "snapshot"}
    /\ GotoWith(w, "ack", {})
    /\ UNCHANGED <<msg, status, used, req, snapshots, patched, overrun>>

(* An await of the try block throws. *)
Throw(w) ==
    /\ wk[w].pc \in {"mark_running", "swarm", "mark_completed", "snapshot"}
    /\ GotoWith(w, "mark_failed", {})
    /\ UNCHANGED <<msg, status, used, req, snapshots, patched, overrun>>

(* The catch block: the failure is recorded and not rethrown. *)
MarkFailed(w) ==
    /\ wk[w].pc = "mark_failed"
    /\ Write(wk[w].scan, "failed")
    /\ Goto(w, "ack")
    /\ UNCHANGED <<msg, used, req, snapshots, patched, overrun>>

Ack(w) ==
    /\ wk[w].pc = "ack"
    /\ Delete(wk[w].scan)
    /\ Leave(w)
    /\ UNCHANGED <<status, used, req, snapshots, patched, overrun>>

(* markFailed or DeleteMessage itself fails: the message goes back. *)
Release(w) ==
    /\ wk[w].pc \in {"mark_failed", "ack"}
    /\ Return(wk[w].scan)
    /\ Leave(w)
    /\ UNCHANGED <<status, used, req, snapshots, patched, overrun>>

(* Mutant of Crash: the poller deletes a message when it receives it. *)
CrashAcked(w) ==
    /\ wk[w].pc # "idle"
    /\ Delete(wk[w].scan)
    /\ Leave(w)
    /\ UNCHANGED <<status, used, req, snapshots, patched, overrun>>

(* The invocation dies or runs into its timeout; its message stays in flight. *)
Crash(w) ==
    /\ wk[w].pc # "idle"
    /\ Leave(w)
    /\ UNCHANGED <<msg, status, used, req, snapshots, patched, overrun>>

(* The visibility timeout is the Lambda timeout, but the poller works its  *)
(* batch one by one without any timeout and SQS delivers at least once:    *)
(* visibility may lapse over a dead invocation and under a living one.     *)
Expire(s) ==
    /\ msg[s].at = "inflight"
    /\ Return(s)
    /\ overrun' = IF \E w \in Workers : wk[w].scan = s THEN overrun \cup {s} ELSE overrun
    /\ UNCHANGED <<status, used, req, wk, snapshots, patched>>

MoveToDlq(s) ==
    /\ DeadLetter(s)
    /\ UNCHANGED <<status, used, req, wk, snapshots, patched, overrun>>

RequestStep(r) ==
    \/ EnforceQuota(r) \/ CountActive(r) \/ InsertScan(r) \/ Enqueue(r) \/ Bill(r)
    \/ OnPremPost(r) \/ FallBack(r) \/ RequestEnds(r)
    \/ CancelRead(r) \/ CancelWrite(r)

WorkerStep(w) ==
    \/ MarkRunning(w) \/ RunSwarm(w) \/ MarkCompleted(w) \/ SnapshotScores(w)
    \/ EvaluateAlerts(w) \/ Throw(w) \/ MarkFailed(w)
    \/ Ack(w) \/ Release(w) \/ Crash(w)

Next ==
    \/ \E r \in Requests : RequestStep(r)
    \/ \E w \in Workers : WorkerStep(w)
    \/ \E w \in Workers, s \in Scans : Start(w, s)
    \/ \E s \in Scans : Patch(s) \/ Expire(s) \/ MoveToDlq(s)

Spec == Init /\ [][Next]_vars

(* An open request ends, an invocation advances or dies within its timeout, *)
(* SQS delivers to a free invocation, lets visibility lapse and redrives.   *)
Fairness ==
    /\ \A r \in Requests : WF_vars(req[r].pc # "idle" /\ RequestStep(r))
    /\ \A w \in Workers : WF_vars(WorkerStep(w))
    /\ \A s \in Scans : /\ WF_vars(\E w \in Workers : Start(w, s))
                        /\ WF_vars(Expire(s))
                        /\ WF_vars(MoveToDlq(s))

FairSpec == Spec /\ Fairness

-----------------------------------------------------------------------------
(* Properties. *)

(* A worker never meets a job whose row is not there: create inserts the   *)
(* row before it sends the message, and nothing takes a row back.          *)
JobHasRow ==
    \A s \in Scans : Sent(s) => status[s] # "none"

(* A job is acknowledged only over a finished scan: no invocation deletes  *)
(* its message and leaves the row queued or running, whatever crashed,     *)
(* threw, was redelivered or cancelled on the way - unless the message     *)
(* turned visible again under an invocation, which a second one overtook.  *)
AckedScanIsFinished ==
    \A s \in Scans : msg[s].at = "acked" =>
        status[s] \in Terminal \/ s \in patched \/ s \in overrun

(* "Max concurrent scans per tenant": requests that count before the others *)
(* insert pass the check together, but no more scans are ever admitted and  *)
(* waiting than the limit and all but one of the requests in flight, those  *)
(* still to be inserted included.  (OnPrem = FALSE: the routes that insert  *)
(* for themselves after a failed create have not counted.)                  *)
LimitOvershootIsBounded ==
    LET queued == {s \in Scans : status[s] = "queued"} \ patched
        admitted == {r \in Requests : req[r].pc = "admitted"}
    IN  OnPrem \/ Cardinality(queued) + Cardinality(admitted)
                     < MaxConcurrent + Cardinality(Requests)

(* Concurrent requests can pass the quota check together, but the meter    *)
(* exceeds the quota by less than the number of requests in flight, those  *)
(* still to be billed included.                                            *)
Unbilled ==
    {r \in Requests : /\ req[r].route = "api"
                      /\ req[r].pc \in {"count", "admitted", "inserted", "enqueued"}}
QuotaOvershootIsBounded ==
    used + Cardinality(Unbilled) < Quota + Cardinality(Requests)

(* The meter never counts a scan whose message was not sent: a failed      *)
(* enqueue does not consume quota.                                         *)
BilledScansWereSent ==
    used + Cardinality({r \in Requests : req[r].pc = "enqueued" /\ req[r].route = "api"})
        <= Cardinality({s \in Scans : Sent(s)})

(* A redelivered job adds a second set of scores to its scan, but no       *)
(* delivery adds two.                                                      *)
SnapshotsAreDeliveries == \A s \in Scans : snapshots[s] <= msg[s].receives

(* The scan subsystem keeps ScanContract, with a message that is visible   *)
(* or in flight as a live job.                                             *)
JobState(s) == IF Live(s) THEN "live" ELSE msg[s].at
Contract == INSTANCE ScanContract WITH job <- [s \in Scans |-> JobState(s)]
KeepsContract == Contract!Spec

(* Every job that was sent is acknowledged or dead-lettered in the end.    *)
JobsSettle == \A s \in Scans : Sent(s) ~> Settled(s)

(* A scan does not stay running for ever, unless its job was dead-lettered *)
(* after MaxReceive runs, a PATCH keeps it so, or its job was acknowledged *)
(* by one of two invocations while the other was still to mark it.         *)
RunningEnds ==
    \A s \in Scans : status[s] = "running" ~>
        \/ status[s] # "running"
        \/ msg[s].at = "dead"
        \/ s \in patched
        \/ msg[s].at = "acked" /\ s \in overrun

=============================================================================
