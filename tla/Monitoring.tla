----------------------------- MODULE Monitoring -----------------------------
(***************************************************************************)
(* Continuous monitoring of one tenant: its tenant-wide schedule, armed by *)
(* POST /api/monitoring/start and paused by /stop, and the monitor worker, *)
(* which looks for due schedules when a monitor job reaches it.  Each      *)
(* start sends one job; nothing else sends any.  Drift and health checks   *)
(* only read and are left out.                                             *)
(***************************************************************************)
EXTENDS SqsQueue

CONSTANTS
    Workers,   \* queue records that monitor-worker invocations hold at a time
    Failures,  \* TRUE: calls may fail and instances may die
    Prompt,    \* TRUE: the cadence outlasts the way of a job through the queue
    NoJob      \* "no job" in an idle worker; not a member of Jobs

Starts == Jobs

MaxRetries == 3

VARIABLES
    start,  \* start[j]: how far the POST that sends job j has got
    sched,  \* the monitoring_schedules row: armed or paused, and next_run_at <= now()
    wk      \* wk[w]: where invocation w stands, on which job, in which attempt

vars == <<msg, start, sched, wk>>

IdleWorker == [pc |-> "idle", job |-> NoJob, attempt |-> 0]

TypeOK ==
    /\ QueueTypeOK
    /\ start \in [Starts -> {"none", "persisted", "sent", "ended"}]
    /\ sched \in [row : {"none", "enabled", "paused"}, due : BOOLEAN]
    /\ wk \in [Workers -> [pc : {"idle", "due", "guard", "create", "ack"},
                           job : Jobs \cup {NoJob}, attempt : 0..MaxRetries]]

Init ==
    /\ QueueInit
    /\ start = [j \in Starts |-> "none"]
    /\ sched = [row |-> "none", due |-> FALSE]
    /\ wk = [w \in Workers |-> IdleWorker]

-----------------------------------------------------------------------------

(* INSERT ... ON CONFLICT DO UPDATE: enabled, one cadence from now. *)
UpsertSchedule == sched' = [row |-> "enabled", due |-> FALSE]

StartMonitoring(j) ==
    /\ start[j] = "none"
    /\ UpsertSchedule
    /\ start' = [start EXCEPT ![j] = "persisted"]
    /\ UNCHANGED <<msg, wk>>

EnqueueMonitorJob(j) ==
    /\ start[j] = "persisted"
    /\ Add(j)
    /\ start' = [start EXCEPT ![j] = "sent"]
    /\ UNCHANGED <<sched, wk>>

(* The second upsert stores the job's id, and re-arms the schedule again. *)
PersistJobRef(j) ==
    /\ start[j] = "sent"
    /\ UpsertSchedule
    /\ start' = [start EXCEPT ![j] = "ended"]
    /\ UNCHANGED <<msg, wk>>

StartFails(j) ==
    /\ Failures
    /\ start[j] \in {"persisted", "sent"}
    /\ start' = [start EXCEPT ![j] = "ended"]
    /\ UNCHANGED <<msg, sched, wk>>

DisableSchedules ==
    /\ sched.row = "enabled"
    /\ sched' = [row |-> "paused", due |-> sched.due]
    /\ UNCHANGED <<msg, start, wk>>

(* The job of start j is still to be sent, received or settled. *)
OnItsWay(j) == start[j] = "persisted" \/ Live(j)

(* The cadence, five minutes at least, has run out. *)
Elapse ==
    /\ sched.row # "none" /\ ~sched.due
    /\ Prompt => \A j \in Jobs : ~OnItsWay(j)
    /\ sched' = [row |-> sched.row, due |-> TRUE]
    /\ UNCHANGED <<msg, start, wk>>

-----------------------------------------------------------------------------
(* The monitor worker. *)

Goto(w, pc) == wk' = [wk EXCEPT ![w] = [pc |-> pc, job |-> wk[w].job, attempt |-> wk[w].attempt]]
Leave(w) == wk' = [wk EXCEPT ![w] = IdleWorker]

Start(w, j) ==
    /\ wk[w].pc = "idle"
    /\ Receive(j)
    /\ wk' = [wk EXCEPT ![w] = [pc |-> "due", job |-> j, attempt |-> 0]]
    /\ UNCHANGED <<start, sched>>

GetDueSchedules(w) ==
    /\ wk[w].pc = "due"
    /\ Goto(w, IF sched.row = "enabled" /\ sched.due THEN "guard" ELSE "ack")
    /\ UNCHANGED <<msg, start, sched>>

(* A running scan defers the schedule, which is left due. *)
Guard(w) ==
    /\ wk[w].pc = "guard"
    /\ Goto(w, "create") \/ Goto(w, "ack")
    /\ UNCHANGED <<msg, start, sched>>

(* Without an active integration the schedule moves on without a scan. *)
AdvanceSchedule(w) ==
    /\ wk[w].pc = "create"
    /\ sched' = [row |-> sched.row, due |-> FALSE]
    /\ Goto(w, "ack")
    /\ UNCHANGED <<msg, start>>

(* SCAN_LIMIT_REACHED: left due "so the next poll retries". *)
BackPressure(w) ==
    /\ wk[w].pc = "create"
    /\ Goto(w, "ack")
    /\ UNCHANGED <<msg, start, sched>>

(* Otherwise ScanService.create inserts a row triggered by "monitor-worker", *)
(* which is no uuid, and throws; so may any await.  Three attempts.          *)
Fails(w) ==
    \/ wk[w].pc = "create"
    \/ Failures /\ wk[w].pc \in {"due", "guard"}

AttemptFails(w) ==
    /\ Fails(w)
    /\ wk[w].attempt + 1 < MaxRetries
    /\ wk' = [wk EXCEPT ![w] = [pc |-> "due", job |-> wk[w].job,
                                attempt |-> wk[w].attempt + 1]]
    /\ UNCHANGED <<msg, start, sched>>

(* The last attempt throws, or DeleteMessage does. *)
Throw(w) ==
    /\ \/ Fails(w) /\ wk[w].attempt + 1 = MaxRetries
       \/ Failures /\ wk[w].pc = "ack"
    /\ Return(wk[w].job)
    /\ Leave(w)
    /\ UNCHANGED <<start, sched>>

Ack(w) ==
    /\ wk[w].pc = "ack"
    /\ Delete(wk[w].job)
    /\ Leave(w)
    /\ UNCHANGED <<start, sched>>

Crash(w) ==
    /\ Failures
    /\ wk[w].pc # "idle"
    /\ Leave(w)
    /\ UNCHANGED <<msg, start, sched>>

(* The visibility timeout lapses, under a live invocation too. *)
Expire(j) ==
    /\ msg[j].at = "inflight"
    /\ Return(j)
    /\ UNCHANGED <<start, sched, wk>>

MoveToDlq(j) ==
    /\ DeadLetter(j)
    /\ UNCHANGED <<start, sched, wk>>

WorkerStep(w) ==
    \/ GetDueSchedules(w) \/ Guard(w) \/ AdvanceSchedule(w) \/ BackPressure(w)
    \/ AttemptFails(w) \/ Throw(w) \/ Ack(w) \/ Crash(w)

Next ==
    \/ \E j \in Starts : \/ StartMonitoring(j) \/ EnqueueMonitorJob(j)
                         \/ PersistJobRef(j) \/ StartFails(j)
    \/ DisableSchedules \/ Elapse
    \/ \E w \in Workers : WorkerStep(w)
    \/ \E w \in Workers, j \in Jobs : Start(w, j)
    \/ \E j \in Jobs : Expire(j) \/ MoveToDlq(j)

Spec == Init /\ [][Next]_vars

(* Time passes, a POST goes on, a worker advances, SQS delivers. *)
Fairness ==
    /\ WF_vars(Elapse)
    /\ \A j \in Starts : WF_vars(EnqueueMonitorJob(j) \/ PersistJobRef(j))
    /\ \A w \in Workers : WF_vars(WorkerStep(w))
    /\ \A j \in Jobs : /\ WF_vars(\E w \in Workers : Start(w, j))
                       /\ WF_vars(Expire(j))
                       /\ WF_vars(MoveToDlq(j))

FairSpec == Spec /\ Fairness

-----------------------------------------------------------------------------
(* Properties. *)

(* "The poller re-derives due work from next_run_at": an enabled schedule  *)
(* that is due is taken up in the end: it moves on, is paused or re-armed. *)
DueScheduleServed ==
    sched.row = "enabled" /\ sched.due ~> ~(sched.row = "enabled" /\ sched.due)

=============================================================================
