------------------------ MODULE ScanLifecycle_proofs ------------------------
(***************************************************************************)
(* Proofs about ScanLifecycle, for any number of scans, requests and       *)
(* worker invocations, any limit, quota and dead-letter policy, and a      *)
(* queue whose messages may turn visible under an invocation at any time.  *)
(***************************************************************************)
EXTENDS ScanLifecycle, FiniteSetTheorems, TLAPS

USE DEF Scans

-----------------------------------------------------------------------------
(* Type correctness. *)

LEMMA TypeInit == Init => TypeOK
BY NoScanAssumption, MaxReceiveAssumption
   DEF Init, QueueInit, TypeOK, QueueTypeOK, Place, IdleRequest, IdleWorker,
       RequestSteps, Routes, WorkerSteps, Statuses

LEMMA TypeOfRequestStep ==
  ASSUME TypeOK, NEW r \in Requests, RequestStep(r)
  PROVE  TypeOK'
<1> USE DEF TypeOK, RequestSteps, Routes, IdleRequest, Request, To
<1>1. CASE EnforceQuota(r)
  BY <1>1 DEF EnforceQuota, QueueTypeOK
<1>2. CASE CountActive(r)
  BY <1>2 DEF CountActive, QueueTypeOK
<1>3. CASE InsertScan(r)
  BY <1>3 DEF InsertScan, QueueTypeOK, Statuses, Active
<1>4. CASE Enqueue(r)
  BY <1>4 DEF Enqueue, Add, Put, QueueTypeOK, Place
<1>5. CASE Bill(r)
  BY <1>5 DEF Bill, QueueTypeOK
<1>6. CASE RequestEnds(r)
  BY <1>6 DEF RequestEnds, QueueTypeOK
<1>7. CASE CancelRead(r)
  BY <1>7 DEF CancelRead, ActiveScans, QueueTypeOK
<1>8. CASE CancelWrite(r)
  BY <1>8 DEF CancelWrite, QueueTypeOK, Statuses, Terminal
<1>9. CASE OnPremPost(r)
  BY <1>9 DEF OnPremPost, QueueTypeOK
<1>10. CASE FallBack(r)
  BY <1>10 DEF FallBack, QueueTypeOK
<1>11. QED
  BY <1>1, <1>2, <1>3, <1>4, <1>5, <1>6, <1>7, <1>8, <1>9, <1>10 DEF RequestStep

LEMMA TypeOfWorkerStep ==
  ASSUME TypeOK, NEW w \in Workers, WorkerStep(w)
  PROVE  TypeOK'
<1> USE DEF TypeOK, WorkerSteps, IdleWorker, Goto, GotoWith, Leave, Write, Faults
<1>1. CASE MarkRunning(w)
  BY <1>1 DEF MarkRunning, QueueTypeOK, Statuses, Active
<1>2. CASE RunSwarm(w)
  BY <1>2 DEF RunSwarm, QueueTypeOK
<1>3. CASE MarkCompleted(w)
  BY <1>3 DEF MarkCompleted, QueueTypeOK, Statuses, Terminal
<1>4. CASE SnapshotScores(w)
  <2>1. snapshots' \in [Scans -> Nat]
    <3>1. wk[w].scan \in Scans => snapshots[wk[w].scan] + 1 \in Nat
      OBVIOUS
    <3>2. snapshots' = [snapshots EXCEPT ![wk[w].scan] = snapshots[wk[w].scan] + 1]
      BY <1>4 DEF SnapshotScores
    <3>3. QED
      BY <3>1, <3>2
  <2>2. QED
    BY <1>4, <2>1 DEF SnapshotScores, QueueTypeOK
<1>5. CASE EvaluateAlerts(w)
  BY <1>5 DEF EvaluateAlerts, QueueTypeOK
<1>6. CASE Throw(w)
  BY <1>6 DEF Throw, QueueTypeOK
<1>7. CASE MarkFailed(w)
  BY <1>7 DEF MarkFailed, QueueTypeOK, Statuses, Terminal
<1>8. CASE Ack(w)
  BY <1>8 DEF Ack, Delete, Put, QueueTypeOK, Place
<1>9. CASE Release(w)
  BY <1>9 DEF Release, Return, Put, QueueTypeOK, Place
<1>10. CASE Crash(w)
  BY <1>10 DEF Crash, QueueTypeOK
<1>11. QED
  BY <1>1, <1>2, <1>3, <1>4, <1>5, <1>6, <1>7, <1>8, <1>9, <1>10 DEF WorkerStep

LEMMA TypeInductive == TypeOK /\ [Next]_vars => TypeOK'
<1> SUFFICES ASSUME TypeOK, [Next]_vars PROVE TypeOK'
  OBVIOUS
<1>1. ASSUME NEW w \in Workers, NEW s \in Scans, Start(w, s) PROVE TypeOK'
  BY <1>1, MaxReceiveAssumption
     DEF Start, Receive, TypeOK, QueueTypeOK, Place, WorkerSteps
<1>2. ASSUME NEW s \in Scans, Patch(s) PROVE TypeOK'
  BY <1>2 DEF Patch, TypeOK, QueueTypeOK
<1>3. ASSUME NEW s \in Scans, Expire(s) PROVE TypeOK'
  BY <1>3 DEF Expire, Return, Put, TypeOK, QueueTypeOK, Place
<1>4. ASSUME NEW s \in Scans, MoveToDlq(s) PROVE TypeOK'
  BY <1>4 DEF MoveToDlq, DeadLetter, Put, TypeOK, QueueTypeOK, Place
<1>5. CASE UNCHANGED vars
  BY <1>5 DEF vars, TypeOK, QueueTypeOK
<1>6. QED
  BY <1>1, <1>2, <1>3, <1>4, <1>5, TypeOfRequestStep, TypeOfWorkerStep DEF Next

(* TypeOK holds of every instance. *)
THEOREM TypeCorrect == Spec => []TypeOK
BY TypeInit, TypeInductive, PTL DEF Spec

-----------------------------------------------------------------------------
(* Rows come before jobs, and are never taken back. *)

RowInv ==
    /\ JobHasRow
    /\ \A r \in Requests : req[r].pc \in {"inserted", "enqueued", "cancelling"} =>
          req[r].scan \in Scans /\ status[req[r].scan] # "none"
    /\ \A w \in Workers : IF wk[w].pc = "idle" THEN wk[w].scan = NoScan
                           ELSE wk[w].scan \in Scans /\ Sent(wk[w].scan)
    /\ \A s \in patched : status[s] # "none"

LEMMA RowInit == Init => RowInv
BY DEF Init, QueueInit, RowInv, JobHasRow, Sent, IdleRequest, IdleWorker

LEMMA ReturnKeepsSent ==
  ASSUME TypeOK, NEW s, Return(s)
  PROVE  \A t \in Scans : Sent(t) <=> Sent(t)'
<1> USE DEF TypeOK, QueueTypeOK, Sent
<1>1. CASE msg[s].at = "inflight"
  BY <1>1 DEF Return, Put
<1>2. CASE msg[s].at # "inflight"
  BY <1>2 DEF Return
<1>3. QED
  BY <1>1, <1>2

LEMMA RowOfRequestStep ==
  ASSUME TypeOK, RowInv, NEW r \in Requests, RequestStep(r)
  PROVE  RowInv'
<1> USE DEF TypeOK, QueueTypeOK, RowInv, JobHasRow, Sent, IdleRequest, Request, To
<1>1. CASE EnforceQuota(r)
  BY <1>1 DEF EnforceQuota
<1>2. CASE CountActive(r)
  BY <1>2 DEF CountActive
<1>3. CASE InsertScan(r)
  BY <1>3 DEF InsertScan
<1>4. CASE Enqueue(r)
  BY <1>4 DEF Enqueue, Add, Put
<1>5. CASE Bill(r)
  BY <1>5 DEF Bill
<1>6. CASE RequestEnds(r)
  BY <1>6 DEF RequestEnds
<1>7. CASE CancelRead(r)
  BY <1>7 DEF CancelRead, ActiveScans, Active
<1>8. CASE CancelWrite(r)
  BY <1>8 DEF CancelWrite
<1>9. CASE OnPremPost(r)
  BY <1>9 DEF OnPremPost
<1>10. CASE FallBack(r)
  BY <1>10 DEF FallBack
<1>11. QED
  BY <1>1, <1>2, <1>3, <1>4, <1>5, <1>6, <1>7, <1>8, <1>9, <1>10 DEF RequestStep

LEMMA RowOfWorkerStep ==
  ASSUME TypeOK, RowInv, NEW w \in Workers, WorkerStep(w)
  PROVE  RowInv'
<1> USE DEF TypeOK, QueueTypeOK, RowInv, JobHasRow, Sent, IdleWorker,
            Goto, GotoWith, Leave, Write
<1>1. CASE MarkRunning(w)
  BY <1>1 DEF MarkRunning
<1>2. CASE RunSwarm(w)
  BY <1>2 DEF RunSwarm
<1>3. CASE MarkCompleted(w)
  BY <1>3 DEF MarkCompleted
<1>4. CASE SnapshotScores(w)
  BY <1>4 DEF SnapshotScores
<1>5. CASE EvaluateAlerts(w)
  BY <1>5 DEF EvaluateAlerts
<1>6. CASE Throw(w)
  BY <1>6 DEF Throw
<1>7. CASE MarkFailed(w)
  BY <1>7 DEF MarkFailed
<1>8. CASE Ack(w)
  <2>1. wk[w].scan \in Scans /\ Sent(wk[w].scan)
    BY <1>8 DEF Ack
  <2>2. \A s \in Scans : Sent(s) <=> Sent(s)'
    BY <1>8, <2>1 DEF Ack, Delete, Put
  <2>3. QED
    BY <1>8, <2>2 DEF Ack
<1>9. CASE Release(w)
  <2>1. \A s \in Scans : Sent(s) <=> Sent(s)'
    BY <1>9, ReturnKeepsSent DEF Release
  <2>2. QED
    BY <1>9, <2>1 DEF Release
<1>10. CASE Crash(w)
  BY <1>10 DEF Crash
<1>11. QED
  BY <1>1, <1>2, <1>3, <1>4, <1>5, <1>6, <1>7, <1>8, <1>9, <1>10 DEF WorkerStep

LEMMA RowInductive == TypeOK /\ RowInv /\ [Next]_vars => RowInv'
<1> SUFFICES ASSUME TypeOK, RowInv, [Next]_vars PROVE RowInv'
  OBVIOUS
<1> USE DEF TypeOK, QueueTypeOK, RowInv, JobHasRow, Sent
<1>1. ASSUME NEW w \in Workers, NEW s \in Scans, Start(w, s) PROVE RowInv'
  <2>1. /\ msg[s].at # "unsent"
        /\ \A t \in Scans : msg'[t].at = "unsent" <=> msg[t].at = "unsent"
    BY <1>1 DEF Start, Receive
  <2>2. QED
    BY <1>1, <2>1 DEF Start
<1>2. ASSUME NEW s \in Scans, Patch(s) PROVE RowInv'
  BY <1>2 DEF Patch, Statuses, Active, Terminal
<1>3. ASSUME NEW s \in Scans, Expire(s) PROVE RowInv'
  <2>1. \A t \in Scans : Sent(t) <=> Sent(t)'
    BY <1>3, ReturnKeepsSent DEF Expire
  <2>2. QED
    BY <1>3, <2>1 DEF Expire
<1>4. ASSUME NEW s \in Scans, MoveToDlq(s) PROVE RowInv'
  BY <1>4 DEF MoveToDlq, DeadLetter, Put
<1>5. CASE UNCHANGED vars
  BY <1>5 DEF vars
<1>6. QED
  BY <1>1, <1>2, <1>3, <1>4, <1>5, RowOfRequestStep, RowOfWorkerStep DEF Next

LEMMA RowInvariant == Spec => [](TypeOK /\ RowInv)
BY TypeInit, TypeInductive, RowInit, RowInductive, PTL DEF Spec

(* Whatever is redelivered, cancelled or crashes, no worker ever meets a   *)
(* job without its row.                                                    *)
THEOREM JobsHaveRows == Spec => []JobHasRow
<1>1. RowInv => JobHasRow
  BY DEF RowInv
<1>2. QED
  BY RowInvariant, <1>1, PTL

-----------------------------------------------------------------------------
(* A job whose message never turned visible under an invocation is in the  *)
(* hands of one invocation, and in flight while it is.                     *)

Holds(w, s) == wk[w].pc # "idle" /\ wk[w].scan = s

HoldInv ==
    \A w \in Workers : wk[w].pc # "idle" /\ wk[w].scan \notin overrun =>
        /\ msg[wk[w].scan].at = "inflight"
        /\ \A v \in Workers \ {w} : ~Holds(v, wk[w].scan)

LEMMA HoldInit == Init => HoldInv
BY DEF Init, HoldInv, IdleWorker

LEMMA MoveReceivesNothing ==
  ASSUME TypeOK, NEW s, Add(s) \/ Delete(s) \/ Return(s) \/ DeadLetter(s)
  PROVE  \A t \in Scans : msg'[t].receives = msg[t].receives
<1> USE DEF TypeOK, QueueTypeOK
<1>1. CASE msg' = msg
  BY <1>1
<1>2. CASE \E at \in Place : Put(s, at)
  BY <1>2 DEF Put
<1>3. QED
  BY <1>1, <1>2 DEF Add, Delete, Return, DeadLetter, Place

LEMMA ReturnAcksNothing ==
  ASSUME TypeOK, NEW s, Return(s)
  PROVE  \A t \in Scans : msg'[t].at = "acked" => msg[t].at = "acked"
<1> USE DEF TypeOK, QueueTypeOK
<1>1. CASE msg[s].at = "inflight"
  BY <1>1 DEF Return, Put
<1>2. CASE msg[s].at # "inflight"
  BY <1>2 DEF Return
<1>3. QED
  BY <1>1, <1>2

(* An invocation that goes on, or lets go of its message, moves no message *)
(* but its own.                                                            *)
LEMMA HoldOfWorkerStep ==
  ASSUME TypeOK, RowInv, HoldInv, NEW w \in Workers, WorkerStep(w)
  PROVE  HoldInv'
<1> USE DEF TypeOK, QueueTypeOK, HoldInv, Holds
<1>1. CASE ~Ack(w) /\ ~Release(w) /\ ~Crash(w)
  <2>1. /\ wk[w].pc # "idle" /\ msg' = msg /\ overrun' = overrun
        /\ wk'[w].scan = wk[w].scan
        /\ \A v \in Workers \ {w} : wk'[v] = wk[v]
    BY <1>1 DEF WorkerStep, MarkRunning, RunSwarm, MarkCompleted, SnapshotScores,
                EvaluateAlerts, Throw, MarkFailed, Goto, GotoWith
  <2>2. ASSUME NEW v \in Workers
        PROVE  /\ wk'[v].pc # "idle" => wk[v].pc # "idle"
               /\ wk'[v].scan = wk[v].scan
    BY <2>1
  <2>3. QED
    BY <2>1, <2>2
<1>2. CASE Ack(w) \/ Release(w) \/ Crash(w)
  <2>1. /\ wk[w].pc # "idle" /\ overrun' = overrun
        /\ wk'[w].pc = "idle"
        /\ \A v \in Workers \ {w} : wk'[v] = wk[v]
        /\ \A s \in Scans \ {wk[w].scan} : msg'[s] = msg[s]
    BY <1>2 DEF Ack, Release, Crash, Delete, Return, Put, Leave, IdleWorker
  <2>2. SUFFICES ASSUME NEW v \in Workers, wk'[v].pc # "idle", wk'[v].scan \notin overrun
                 PROVE  /\ msg'[wk'[v].scan].at = "inflight"
                        /\ \A u \in Workers \ {v} :
                              ~(wk'[u].pc # "idle" /\ wk'[u].scan = wk'[v].scan)
    BY <2>1
  <2>3. /\ v # w /\ wk'[v] = wk[v]
        /\ wk[v].scan \in Scans /\ wk[v].scan # wk[w].scan
    BY <2>1, <2>2 DEF RowInv
  <2>4. msg'[wk'[v].scan] = msg[wk[v].scan]
    BY <2>1, <2>3
  <2>5. /\ msg[wk[v].scan].at = "inflight"
        /\ \A u \in Workers \ {v} : wk[u].pc # "idle" => wk[u].scan # wk[v].scan
    BY <2>2, <2>3
  <2>6. ASSUME NEW u \in Workers \ {v}, wk'[u].pc # "idle"
        PROVE  wk'[u].scan # wk'[v].scan
    BY <2>1, <2>3, <2>5, <2>6
  <2>7. QED
    BY <2>3, <2>4, <2>5, <2>6
<1>3. QED
  BY <1>1, <1>2

LEMMA HoldInductive == TypeOK /\ RowInv /\ HoldInv /\ [Next]_vars => HoldInv'
<1> SUFFICES ASSUME TypeOK, RowInv, HoldInv, [Next]_vars PROVE HoldInv'
  OBVIOUS
<1> USE DEF TypeOK, QueueTypeOK, HoldInv, Holds
<1>1. ASSUME NEW r \in Requests, RequestStep(r), ~Enqueue(r) PROVE HoldInv'
  BY <1>1 DEF RequestStep, EnforceQuota, CountActive, InsertScan, Bill, OnPremPost,
              FallBack, RequestEnds, CancelRead, CancelWrite
<1>2. ASSUME NEW r \in Requests, Enqueue(r) PROVE HoldInv'
  BY <1>2 DEF Enqueue, Add, Put, RowInv
<1>3. ASSUME NEW w \in Workers, NEW s \in Scans, Start(w, s) PROVE HoldInv'
  BY <1>3 DEF Start, Receive, RowInv
<1>4. ASSUME NEW s \in Scans, Patch(s) PROVE HoldInv'
  BY <1>4 DEF Patch
<1>5. ASSUME NEW s \in Scans, Expire(s) PROVE HoldInv'
  <2>1. /\ wk' = wk /\ overrun \subseteq overrun'
        /\ \A t \in Scans \ {s} : msg'[t] = msg[t]
        /\ \A w \in Workers : wk[w].scan = s => s \in overrun'
    BY <1>5 DEF Expire, Return, Put
  <2>2. QED
    BY <2>1 DEF RowInv
<1>6. ASSUME NEW s \in Scans, MoveToDlq(s) PROVE HoldInv'
  BY <1>6 DEF MoveToDlq, DeadLetter, Put, RowInv
<1>7. CASE UNCHANGED vars
  BY <1>7 DEF vars
<1>8. QED
  BY <1>1, <1>2, <1>3, <1>4, <1>5, <1>6, <1>7, HoldOfWorkerStep DEF Next

LEMMA HoldInvariant == Spec => [](TypeOK /\ RowInv /\ HoldInv)
BY HoldInit, HoldInductive, RowInvariant, PTL DEF Spec

-----------------------------------------------------------------------------
(* What an invocation leaves behind when it acknowledges its job. *)

(* A scan is finished, or its job turned visible under an invocation and   *)
(* two invocations write its status in any order.                          *)
Finished(s) == status[s] \in Terminal \/ s \in patched
Excused(s) == Finished(s) \/ s \in overrun

(* Past markCompleted or markFailed the scan of an invocation is finished, *)
(* and nobody but a cancel or a PATCH has touched it since.                *)
FinishInv ==
    /\ \A s \in Scans : msg[s].at = "acked" => Excused(s)
    /\ \A w \in Workers : wk[w].pc \in {"snapshot", "alerts", "ack"} => Excused(wk[w].scan)

LEMMA FinishInit == Init => FinishInv
BY DEF Init, QueueInit, FinishInv, IdleWorker

(* A step that finishes scans or leaves them alone, and leaves the jobs    *)
(* and the invocations alone, preserves it.                                *)
LEMMA FinishFrame ==
  ASSUME TypeOK, RowInv, FinishInv, wk' = wk,
         \A s \in Scans : msg'[s].at = "acked" => msg[s].at = "acked",
         \A s \in Scans : status[s] # "none" /\ Finished(s) => Finished(s)',
         overrun \subseteq overrun'
  PROVE  FinishInv'
BY DEF TypeOK, FinishInv, RowInv, JobHasRow, Sent, Excused

(* An invocation has its message to itself, unless it was overrun. *)
LEMMA HoldsAlone ==
  ASSUME RowInv, HoldInv, NEW w \in Workers, wk[w].pc # "idle"
  PROVE  /\ wk[w].scan \in Scans
         /\ \/ wk[w].scan \in overrun
            \/ /\ msg[wk[w].scan].at # "acked"
               /\ \A v \in Workers \ {w} : wk[v].pc # "idle" => wk[v].scan # wk[w].scan
BY DEF RowInv, HoldInv, Holds

LEMMA FinishOfRequestStep ==
  ASSUME TypeOK, RowInv, FinishInv, NEW r \in Requests, RequestStep(r)
  PROVE  FinishInv'
<1> USE DEF TypeOK, QueueTypeOK
<1>1. CASE \/ EnforceQuota(r) \/ CountActive(r) \/ Bill(r) \/ OnPremPost(r) \/ FallBack(r)
           \/ RequestEnds(r) \/ CancelRead(r)
  BY <1>1, FinishFrame
     DEF EnforceQuota, CountActive, Bill, OnPremPost, FallBack, RequestEnds, CancelRead,
         Finished
<1>2. CASE InsertScan(r)
  BY <1>2, FinishFrame DEF InsertScan, Finished
<1>3. CASE Enqueue(r)
  <2>1. \A s \in Scans : msg'[s].at = "acked" => msg[s].at = "acked"
    BY <1>3 DEF Enqueue, Add, Put
  <2>2. QED
    BY <1>3, <2>1, FinishFrame DEF Enqueue, Finished
<1>4. CASE CancelWrite(r)
  BY <1>4, FinishFrame DEF CancelWrite, Finished, Terminal
<1>5. QED
  BY <1>1, <1>2, <1>3, <1>4 DEF RequestStep

LEMMA FinishOfWorkerStep ==
  ASSUME TypeOK, RowInv, HoldInv, FinishInv, NEW w \in Workers, WorkerStep(w)
  PROVE  FinishInv'
<1> USE DEF TypeOK, QueueTypeOK
<1>1. CASE MarkRunning(w) \/ MarkCompleted(w) \/ MarkFailed(w)
  <2> DEFINE s == wk[w].scan
  <2>1. /\ wk[w].pc # "idle"
        /\ msg' = msg /\ patched' = patched /\ overrun' = overrun
        /\ \A t \in Scans \ {s} : status'[t] = status[t]
        /\ \A v \in Workers \ {w} : wk'[v] = wk[v]
        /\ wk'[w].scan = s
    BY <1>1 DEF MarkRunning, MarkCompleted, MarkFailed, Write, Goto, GotoWith
  <2>2. wk'[w].pc \in {"snapshot", "alerts", "ack"} => status'[s] \in Terminal
    BY <1>1, HoldsAlone
       DEF MarkRunning, MarkCompleted, MarkFailed, Write, Goto, GotoWith, Terminal
  <2>3. \A t \in Scans : /\ t \in overrun => Excused(t)'
                         /\ t # s /\ Excused(t) => Excused(t)'
    BY <2>1 DEF Excused, Finished
  <2>4. s \in Scans /\ (status'[s] \in Terminal => Excused(s)')
    BY <2>1, HoldsAlone DEF Excused, Finished
  <2>5. ASSUME NEW t \in Scans, msg'[t].at = "acked" PROVE Excused(t)'
    BY <2>1, <2>3, <2>5, HoldsAlone DEF FinishInv
  <2>6. ASSUME NEW v \in Workers, wk'[v].pc \in {"snapshot", "alerts", "ack"}
        PROVE  Excused(wk[v].scan)'
    <3>1. CASE v = w
      BY <2>1, <2>2, <2>4, <2>6, <3>1 DEF Excused, Finished
    <3>2. CASE v # w
      <4>1. wk'[v] = wk[v] /\ wk[v].scan \in Scans /\ Excused(wk[v].scan)
        BY <2>1, <2>6, <3>2 DEF RowInv, FinishInv
      <4>2. PICK t \in Scans : t = wk[v].scan /\ t = wk'[v].scan
        BY <4>1
      <4>3. t = s => t \in overrun
        BY <2>1, <2>6, <3>2, <4>1, <4>2, HoldsAlone
      <4>4. Excused(t)'
        BY <2>3, <4>1, <4>2, <4>3
      <4>5. QED
        BY <4>2, <4>4 DEF Excused, Finished
    <3>3. QED
      BY <3>1, <3>2
  <2>7. QED
    BY <2>5, <2>6 DEF FinishInv
<1>2. CASE RunSwarm(w) \/ SnapshotScores(w) \/ EvaluateAlerts(w) \/ Throw(w)
  BY <1>2 DEF RunSwarm, SnapshotScores, EvaluateAlerts, Throw, Goto, GotoWith,
              FinishInv, Excused, Finished
<1>3. CASE Ack(w) \/ Release(w) \/ Crash(w)
  <2>2. \A t \in Scans : Excused(t) => Excused(t)'
    BY <1>3 DEF Ack, Release, Crash, Excused, Finished
  <2>3. \A t \in Scans : msg'[t].at = "acked" => msg[t].at = "acked" \/ Excused(t)
    <3>1. CASE Ack(w)
      BY <3>1, HoldsAlone DEF Ack, Delete, Put, FinishInv
    <3>2. CASE Release(w) \/ Crash(w)
      BY <3>2, ReturnAcksNothing DEF Release, Crash
    <3>3. QED
      BY <1>3, <3>1, <3>2
  <2>4. wk'[w].pc = "idle" /\ \A v \in Workers \ {w} : wk'[v] = wk[v]
    BY <1>3 DEF Ack, Release, Crash, Leave, IdleWorker
  <2>5. ASSUME NEW v \in Workers, wk'[v].pc \in {"snapshot", "alerts", "ack"}
        PROVE  Excused(wk[v].scan)'
    <3>1. wk'[v] = wk[v] /\ wk[v].scan \in Scans /\ Excused(wk[v].scan)
      BY <2>4, <2>5 DEF RowInv, FinishInv
    <3>2. PICK t \in Scans : t = wk[v].scan /\ t = wk'[v].scan
      BY <3>1
    <3>3. Excused(t)'
      BY <2>2, <3>1, <3>2
    <3>4. QED
      BY <3>2, <3>3 DEF Excused, Finished
  <2>6. QED
    BY <2>2, <2>3, <2>5 DEF FinishInv
<1>4. QED
  BY <1>1, <1>2, <1>3 DEF WorkerStep

LEMMA FinishInductive ==
  TypeOK /\ RowInv /\ HoldInv /\ FinishInv /\ [Next]_vars => FinishInv'
<1> SUFFICES ASSUME TypeOK, RowInv, HoldInv, FinishInv, [Next]_vars
             PROVE  FinishInv'
  OBVIOUS
<1> USE DEF TypeOK, QueueTypeOK
<1>1. ASSUME NEW w \in Workers, NEW s \in Scans, Start(w, s) PROVE FinishInv'
  <2>1. /\ status' = status /\ patched' = patched /\ overrun' = overrun
        /\ msg'[s].at = "inflight"
        /\ \A t \in Scans \ {s} : msg'[t] = msg[t]
        /\ wk'[w].pc = "mark_running"
        /\ \A v \in Workers \ {w} : wk'[v] = wk[v]
    BY <1>1 DEF Start, Receive
  <2>2. \A t \in Scans : Excused(t) => Excused(t)'
    BY <2>1 DEF Excused, Finished
  <2>3. ASSUME NEW v \in Workers, wk'[v].pc \in {"snapshot", "alerts", "ack"}
        PROVE  Excused(wk[v].scan)'
    <3>1. wk'[v] = wk[v] /\ wk[v].scan \in Scans /\ Excused(wk[v].scan)
      BY <2>1, <2>3 DEF RowInv, FinishInv
    <3>2. PICK t \in Scans : t = wk[v].scan /\ t = wk'[v].scan
      BY <3>1
    <3>3. Excused(t)'
      BY <2>2, <3>1, <3>2
    <3>4. QED
      BY <3>2, <3>3 DEF Excused, Finished
  <2>4. QED
    BY <2>1, <2>2, <2>3 DEF FinishInv
<1>2. ASSUME NEW s \in Scans, Patch(s) PROVE FinishInv'
  BY <1>2, FinishFrame DEF Patch, Finished
<1>3. ASSUME NEW s \in Scans, Expire(s) PROVE FinishInv'
  <2>1. \A t \in Scans : msg'[t].at = "acked" => msg[t].at = "acked"
    BY <1>3, ReturnAcksNothing DEF Expire
  <2>2. QED
    BY <1>3, <2>1, FinishFrame DEF Expire, Finished
<1>4. ASSUME NEW s \in Scans, MoveToDlq(s) PROVE FinishInv'
  <2>1. \A t \in Scans : msg'[t].at = "acked" => msg[t].at = "acked"
    BY <1>4 DEF MoveToDlq, DeadLetter, Put
  <2>2. QED
    BY <1>4, <2>1, FinishFrame DEF MoveToDlq, Finished
<1>5. CASE UNCHANGED vars
  BY <1>5, FinishFrame DEF vars, Finished
<1>6. QED
  BY <1>1, <1>2, <1>3, <1>4, <1>5, FinishOfRequestStep, FinishOfWorkerStep DEF Next

(* No crash, failure, cancel or redelivery makes an invocation acknowledge *)
(* a job and leave its scan unfinished, unless the message turned visible  *)
(* under an invocation (scan-worker.ts, processScanJob).                   *)
THEOREM AckFinishes == Spec => []AckedScanIsFinished
<1>1. FinishInv => AckedScanIsFinished
  BY DEF FinishInv, Excused, Finished, AckedScanIsFinished
<1>2. QED
  BY HoldInvariant, FinishInit, FinishInductive, <1>1, PTL DEF Spec

-----------------------------------------------------------------------------
(* The scan subsystem implements its contract. *)

(* A step that moves no job is a step of the contract if it moves the      *)
(* status of a scan the way the contract allows.                           *)
Job == [s \in Scans |-> JobState(s)]

LEMMA JobFrame ==
  ASSUME \A s \in Scans : JobState(s)' = JobState(s)
  PROVE  Job' = Job
BY DEF Job

LEMMA JobMove ==
  ASSUME NEW s \in Scans, NEW at,
         \A t \in Scans : JobState(t)' = IF t = s THEN at ELSE JobState(t)
  PROVE  Job' = [Job EXCEPT ![s] = at]
BY DEF Job

LEMMA ReturnMovesNoJob ==
  ASSUME TypeOK, NEW s, Return(s)
  PROVE  Job' = Job
<1> USE DEF TypeOK, QueueTypeOK, JobState, Live
<1>1. CASE msg[s].at = "inflight"
  <2>1. \A t \in Scans : JobState(t)' = JobState(t)
    BY <1>1 DEF Return, Put
  <2>2. QED
    BY <2>1, JobFrame
<1>2. CASE msg[s].at # "inflight"
  BY <1>2, JobFrame DEF Return
<1>3. QED
  BY <1>1, <1>2

ContractStep == Contract!Next \/ UNCHANGED <<status, Job, patched, overrun>>

LEMMA ContractOfRequestStep ==
  ASSUME TypeOK, RowInv, NEW r \in Requests, RequestStep(r)
  PROVE  ContractStep
<1> USE DEF TypeOK, QueueTypeOK, ContractStep
<1>1. CASE \/ EnforceQuota(r) \/ CountActive(r) \/ Bill(r) \/ OnPremPost(r) \/ FallBack(r)
           \/ RequestEnds(r) \/ CancelRead(r)
  BY <1>1, JobFrame
     DEF EnforceQuota, CountActive, Bill, OnPremPost, FallBack, RequestEnds, CancelRead,
         JobState, Live
<1>2. CASE InsertScan(r)
  <2>1. PICK s \in Scans : status[s] = "none" /\ status' = [status EXCEPT ![s] = "queued"]
    BY <1>2 DEF InsertScan
  <2>2. Job' = Job /\ patched' = patched /\ overrun' = overrun
    BY <1>2, JobFrame DEF InsertScan, JobState, Live
  <2>3. Contract!Accept(s)
    BY <2>1, <2>2 DEF Contract!Accept, Job
  <2>4. QED
    BY <2>3 DEF Contract!Next
<1>3. CASE Enqueue(r)
  <2> DEFINE s == req[r].scan
  <2>1. s \in Scans /\ status[s] # "none"
    BY <1>3 DEF Enqueue, RowInv
  <2>2. msg[s].at = "unsent" /\ Put(s, "visible") /\ UNCHANGED <<status, patched, overrun>>
    BY <1>3 DEF Enqueue, Add
  <2>3. \A t \in Scans : JobState(t)' = IF t = s THEN "live" ELSE JobState(t)
    BY <2>1, <2>2 DEF Put, JobState, Live
  <2>4. Job' = [Job EXCEPT ![s] = "live"]
    BY <2>1, <2>3, JobMove
  <2>5. Job[s] = "unsent"
    BY <2>1, <2>2 DEF Job, JobState, Live
  <2>6. Contract!Submit(s)
    BY <2>1, <2>2, <2>4, <2>5 DEF Contract!Submit, Job
  <2>7. QED
    BY <2>1, <2>6 DEF Contract!Next
<1>4. CASE CancelWrite(r)
  <2>1. req[r].scan \in Scans /\ status[req[r].scan] # "none"
    BY <1>4 DEF CancelWrite, RowInv
  <2>2. Job' = Job
    BY <1>4, JobFrame DEF CancelWrite, JobState, Live
  <2>3. Contract!CancelByUser(req[r].scan)
    BY <1>4, <2>1, <2>2 DEF CancelWrite, Contract!CancelByUser, Job
  <2>4. QED
    BY <2>1, <2>3 DEF Contract!Next
<1>5. QED
  BY <1>1, <1>2, <1>3, <1>4 DEF RequestStep

LEMMA ContractOfWorkerStep ==
  ASSUME TypeOK, RowInv, HoldInv, FinishInv, NEW w \in Workers, WorkerStep(w)
  PROVE  ContractStep
<1> USE DEF TypeOK, QueueTypeOK, ContractStep
<1> DEFINE s == wk[w].scan
<1>1. wk[w].pc # "idle"
  BY DEF WorkerStep, MarkRunning, RunSwarm, MarkCompleted, SnapshotScores, EvaluateAlerts,
         Throw, MarkFailed, Ack, Release, Crash
<1>2. s \in Scans /\ msg[s].at # "unsent"
  BY <1>1 DEF RowInv, Sent
<1>3. Job[s] = "live" \/ s \in overrun
  <2>1. s \notin overrun => msg[s].at = "inflight"
    BY <1>1 DEF HoldInv
  <2>2. QED
    BY <1>2, <2>1 DEF Job, JobState, Live
<1>4. CASE MarkRunning(w) \/ MarkCompleted(w) \/ MarkFailed(w)
  <2>1. Job' = Job
    BY <1>4, JobFrame DEF MarkRunning, MarkCompleted, MarkFailed, JobState, Live
  <2>2. PICK new \in {"running", "completed", "completed_partial", "failed"} :
           status' = [status EXCEPT ![s] = new]
    BY <1>4 DEF MarkRunning, MarkCompleted, MarkFailed, Write
  <2>3. new \in Contract!Statuses \ {"queued", "cancelled"}
    BY <2>2 DEF Contract!Statuses, Contract!Terminal
  <2>4. patched' = patched /\ overrun' = overrun
    BY <1>4 DEF MarkRunning, MarkCompleted, MarkFailed
  <2>5. Contract!Work(s)
    BY <1>3, <2>1, <2>2, <2>3, <2>4 DEF Contract!Work, Job
  <2>6. QED
    BY <1>2, <2>5 DEF Contract!Next
<1>5. CASE RunSwarm(w) \/ SnapshotScores(w) \/ EvaluateAlerts(w) \/ Throw(w) \/ Crash(w)
  BY <1>5, JobFrame
     DEF RunSwarm, SnapshotScores, EvaluateAlerts, Throw, Crash, JobState, Live
<1>6. CASE Ack(w) /\ Live(s)
  <2>1. \A t \in Scans : JobState(t)' = IF t = s THEN "acked" ELSE JobState(t)
    BY <1>2, <1>6 DEF Ack, Delete, Put, JobState, Live
  <2>2. Job' = [Job EXCEPT ![s] = "acked"]
    BY <1>2, <2>1, JobMove
  <2>3. status[s] \in Contract!Terminal \/ s \in patched \/ s \in overrun
    BY <1>6 DEF Ack, FinishInv, Excused, Finished, Terminal, Contract!Terminal
  <2>4. Job[s] = "live"
    BY <1>2, <1>6 DEF Job, JobState
  <2>5. Contract!Acknowledge(s)
    BY <1>6, <2>2, <2>3, <2>4 DEF Ack, Contract!Acknowledge, Job
  <2>6. QED
    BY <1>2, <2>5 DEF Contract!Next
<1>7. CASE Ack(w) /\ ~Live(s)
  <2>1. msg[s].at \in {"acked", "dead"}
    BY <1>2, <1>7 DEF Live, Place
  <2>2. \A t \in Scans : JobState(t)' = JobState(t)
    BY <1>2, <1>7, <2>1 DEF Ack, Delete, Put, JobState, Live
  <2>3. QED
    BY <1>7, <2>2, JobFrame DEF Ack
<1>8. CASE Release(w)
  BY <1>8, ReturnMovesNoJob DEF Release
<1>9. QED
  BY <1>4, <1>5, <1>6, <1>7, <1>8 DEF WorkerStep

(* Every step of requests, workers and queue is one the contract allows,   *)
(* the steps of two invocations over one job included.                     *)
THEOREM ScansKeepContract == Spec => KeepsContract
<1>1. Init => Contract!Init
  BY DEF Init, QueueInit, Contract!Init, JobState, Live
<1>2. TypeOK /\ RowInv /\ HoldInv /\ FinishInv /\ [Next]_vars
        => [Contract!Next]_<<status, Job, patched, overrun>>
  <2> SUFFICES ASSUME TypeOK, RowInv, HoldInv, FinishInv, [Next]_vars
               PROVE  ContractStep
    BY DEF ContractStep
  <2>1. ASSUME NEW w \in Workers, NEW s \in Scans, Start(w, s) PROVE ContractStep
    <3>1. \A t \in Scans : JobState(t)' = JobState(t)
      BY <2>1 DEF Start, Receive, JobState, Live, TypeOK, QueueTypeOK
    <3>2. QED
      BY <2>1, <3>1, JobFrame DEF Start, ContractStep
  <2>2. ASSUME NEW s \in Scans, Patch(s) PROVE ContractStep
    <3>1. Job' = Job
      BY <2>2, JobFrame DEF Patch, JobState, Live
    <3>2. Contract!PatchByAdmin(s)
      BY <2>2, <3>1 DEF Patch, Contract!PatchByAdmin, Job, Statuses, Active, Terminal,
                        Contract!Statuses, Contract!Terminal
    <3>3. QED
      BY <3>2 DEF ContractStep, Contract!Next
  <2>3. ASSUME NEW s \in Scans, Expire(s) PROVE ContractStep
    <3>1. Job' = Job
      BY <2>3, ReturnMovesNoJob DEF Expire
    <3>2. Job[s] = "live"
      BY <2>3 DEF Expire, Job, JobState, Live
    <3>3. CASE overrun' = overrun \cup {s}
      <4>1. Contract!Overrun(s)
        BY <2>3, <3>1, <3>2, <3>3 DEF Expire, Contract!Overrun, Job
      <4>2. QED
        BY <4>1 DEF ContractStep, Contract!Next
    <3>4. CASE overrun' = overrun
      BY <2>3, <3>1, <3>4 DEF Expire, ContractStep
    <3>5. QED
      BY <2>3, <3>3, <3>4 DEF Expire
  <2>4. ASSUME NEW s \in Scans, MoveToDlq(s) PROVE ContractStep
    <3>1. \A t \in Scans : JobState(t)' = IF t = s THEN "dead" ELSE JobState(t)
      BY <2>4 DEF MoveToDlq, DeadLetter, Put, JobState, Live, TypeOK, QueueTypeOK
    <3>2. Job' = [Job EXCEPT ![s] = "dead"]
      BY <3>1, JobMove
    <3>3. Job[s] = "live"
      BY <2>4 DEF MoveToDlq, DeadLetter, Job, JobState, Live
    <3>4. Contract!GiveUp(s)
      BY <2>4, <3>2, <3>3 DEF MoveToDlq, Contract!GiveUp, Job
    <3>5. QED
      BY <3>4 DEF ContractStep, Contract!Next
  <2>5. CASE UNCHANGED vars
    BY <2>5, JobFrame DEF vars, ContractStep, JobState, Live
  <2>6. QED
    BY <2>1, <2>2, <2>3, <2>4, <2>5, ContractOfRequestStep, ContractOfWorkerStep DEF Next
<1>3. QED
  BY <1>1, <1>2, HoldInvariant, FinishInit, FinishInductive, PTL
     DEF Spec, KeepsContract, Contract!Spec, Contract!contractVars, Job

-----------------------------------------------------------------------------
(* The meter. *)

Enqueued == {r \in Requests : req[r].pc = "enqueued" /\ req[r].route = "api"}
SentScans == {s \in Scans : Sent(s)}

MeterInv ==
    /\ QuotaOvershootIsBounded
    /\ IsFiniteSet(SentScans)
    /\ used + Cardinality(Enqueued) <= Cardinality(SentScans)

LEMMA FiniteRequests ==
  ASSUME NEW S \in SUBSET Requests
  PROVE  /\ IsFiniteSet(S) /\ Cardinality(S) \in Nat
         /\ Cardinality(S) <= Cardinality(Requests)
         /\ S # Requests => Cardinality(S) < Cardinality(Requests)
<1>1. IsFiniteSet(S) /\ Cardinality(S) \in Nat
  BY RequestsAssumption, FS_Subset, FS_CardinalityType
<1>2. /\ Cardinality(S) <= Cardinality(Requests)
      /\ Cardinality(S) = Cardinality(Requests) => S = Requests
  BY RequestsAssumption, FS_Subset
<1>3. Cardinality(Requests) \in Nat
  BY RequestsAssumption, FS_CardinalityType
<1>4. QED
  BY <1>1, <1>2, <1>3

LEMMA MeterInit == Init => MeterInv
<1> SUFFICES ASSUME Init PROVE MeterInv
  OBVIOUS
<1>1. Unbilled = {} /\ Enqueued = {} /\ SentScans = {} /\ used = 0
  BY DEF Init, QueueInit, IdleRequest, Unbilled, Enqueued, SentScans, Sent
<1>2. Cardinality(Requests) > 0
  BY RequestsAssumption, FS_EmptySet, FS_CardinalityType
<1>3. QED
  BY <1>1, <1>2, FS_EmptySet, RequestsAssumption, FS_CardinalityType, LimitAssumption
     DEF MeterInv, QuotaOvershootIsBounded

(* What the sets of requests and of messages do when nothing is sent and   *)
(* the meter stays.                                                        *)
LEMMA MeterFrame ==
  ASSUME TypeOK, MeterInv, used' = used,
         Unbilled' \subseteq Unbilled, Enqueued' \subseteq Enqueued,
         SentScans' = SentScans
  PROVE  MeterInv'
<1>1. /\ Unbilled \subseteq Requests /\ Enqueued \subseteq Requests
      /\ Unbilled' \subseteq Requests /\ Enqueued' \subseteq Requests
  BY DEF Unbilled, Enqueued
<1>2. Cardinality(Unbilled') <= Cardinality(Unbilled)
  BY <1>1, FiniteRequests, FS_Subset
<1>3. Cardinality(Enqueued') <= Cardinality(Enqueued)
  BY <1>1, FiniteRequests, FS_Subset
<1>4. /\ Cardinality(Unbilled) \in Nat /\ Cardinality(Enqueued) \in Nat
      /\ Cardinality(Unbilled') \in Nat /\ Cardinality(Enqueued') \in Nat
  BY <1>1, FiniteRequests
<1>5. Cardinality(SentScans) \in Nat /\ Cardinality(Requests) \in Nat
  BY RequestsAssumption, FS_CardinalityType DEF MeterInv
<1>6. QED
  BY <1>2, <1>3, <1>4, <1>5, LimitAssumption
     DEF MeterInv, QuotaOvershootIsBounded, TypeOK

LEMMA MeterOfRequestStep ==
  ASSUME TypeOK, RowInv, MeterInv, NEW r \in Requests, RequestStep(r)
  PROVE  MeterInv'
<1> USE DEF TypeOK, QueueTypeOK, Request, To
<1>0. /\ Unbilled \subseteq Requests /\ Enqueued \subseteq Requests
      /\ Cardinality(Requests) \in Nat /\ Cardinality(SentScans) \in Nat
      /\ Quota \in Nat
  BY RequestsAssumption, LimitAssumption, FS_CardinalityType DEF Unbilled, Enqueued, MeterInv
<1>1. CASE EnforceQuota(r)
  <2>1. /\ used' = used /\ used < Quota
        /\ Unbilled' \subseteq Requests
        /\ Enqueued' = Enqueued /\ SentScans' = SentScans
    BY <1>1 DEF EnforceQuota, Unbilled, Enqueued, SentScans, Sent
  <2>2. Cardinality(Unbilled') \in Nat /\ Cardinality(Unbilled') <= Cardinality(Requests)
    BY <2>1, FiniteRequests
  <2>3. QED
    BY <1>0, <2>1, <2>2 DEF MeterInv, QuotaOvershootIsBounded
<1>2. CASE CountActive(r) \/ InsertScan(r)
  <2>1. used' = used /\ SentScans' = SentScans
    BY <1>2 DEF CountActive, InsertScan, SentScans, Sent
  <2>2. /\ req[r].pc \in {"count", "admitted"}
        /\ req'[r].pc \in {"admitted", "inserted"}
        /\ req'[r].route = req[r].route
    BY <1>2 DEF CountActive, InsertScan
  <2>3. \A q \in Requests \ {r} : req'[q] = req[q]
    BY <1>2 DEF CountActive, InsertScan
  <2>4. Unbilled' = Unbilled
    BY <2>2, <2>3 DEF Unbilled
  <2>5. Enqueued' = Enqueued
    BY <2>2, <2>3 DEF Enqueued
  <2>6. QED
    BY <2>1, <2>4, <2>5, MeterFrame
<1>3. CASE Enqueue(r)
  <2>1. req[r].scan \in Scans
    BY <1>3 DEF Enqueue, RowInv
  <2>2. /\ used' = used /\ Unbilled' = Unbilled /\ r \notin Enqueued
        /\ Enqueued' = Enqueued \/ Enqueued' = Enqueued \cup {r}
    BY <1>3 DEF Enqueue, Unbilled, Enqueued
  <2>3. SentScans' = SentScans \cup {req[r].scan} /\ req[r].scan \notin SentScans
    BY <1>3, <2>1 DEF Enqueue, Add, Put, SentScans, Sent
  <2>4. /\ Cardinality(Enqueued) \in Nat
        /\ Cardinality(Enqueued') \in {Cardinality(Enqueued), Cardinality(Enqueued) + 1}
    BY <1>0, <2>2, FiniteRequests, FS_AddElement
  <2>5. IsFiniteSet(SentScans') /\ Cardinality(SentScans') = Cardinality(SentScans) + 1
    BY <2>3, FS_AddElement DEF MeterInv
  <2>6. QED
    BY <1>0, <2>2, <2>4, <2>5 DEF MeterInv, QuotaOvershootIsBounded
<1>4. CASE Bill(r)
  <2>1. /\ used' = used + 1 /\ SentScans' = SentScans
        /\ Unbilled' = Unbilled \ {r} /\ r \in Unbilled
        /\ Enqueued' = Enqueued \ {r} /\ r \in Enqueued
    BY <1>4 DEF Bill, IdleRequest, Unbilled, Enqueued, SentScans, Sent
  <2>2. /\ Cardinality(Unbilled') = Cardinality(Unbilled) - 1
        /\ Cardinality(Enqueued') = Cardinality(Enqueued) - 1
    BY <1>0, <2>1, FiniteRequests, FS_RemoveElement
  <2>3. Cardinality(Unbilled) \in Nat /\ Cardinality(Enqueued) \in Nat
    BY <1>0, FiniteRequests
  <2>4. used \in Nat
    OBVIOUS
  <2>5. QuotaOvershootIsBounded'
    BY <1>0, <2>1, <2>2, <2>3, <2>4 DEF MeterInv, QuotaOvershootIsBounded
  <2>6. used' + Cardinality(Enqueued') <= Cardinality(SentScans')
    BY <1>0, <2>1, <2>2, <2>3, <2>4 DEF MeterInv
  <2>7. QED
    BY <2>1, <2>5, <2>6 DEF MeterInv
<1>5. CASE RequestEnds(r) \/ CancelRead(r) \/ CancelWrite(r) \/ OnPremPost(r) \/ FallBack(r)
  <2>1. used' = used /\ SentScans' = SentScans
    BY <1>5 DEF RequestEnds, CancelRead, CancelWrite, OnPremPost, FallBack, SentScans, Sent
  <2>2. req'[r].pc \in {"idle", "cancelling"} \/ req'[r].route # "api"
    BY <1>5 DEF RequestEnds, CancelRead, CancelWrite, OnPremPost, FallBack, IdleRequest
  <2>3. \A q \in Requests \ {r} : req'[q] = req[q]
    BY <1>5 DEF RequestEnds, CancelRead, CancelWrite, OnPremPost, FallBack
  <2>4. Unbilled' \subseteq Unbilled /\ Enqueued' \subseteq Enqueued
    BY <2>2, <2>3 DEF Unbilled, Enqueued
  <2>5. QED
    BY <2>1, <2>4, MeterFrame
<1>6. QED
  BY <1>1, <1>2, <1>3, <1>4, <1>5 DEF RequestStep

LEMMA MeterInductive == TypeOK /\ RowInv /\ MeterInv /\ [Next]_vars => MeterInv'
<1> SUFFICES ASSUME TypeOK, RowInv, MeterInv, [Next]_vars PROVE MeterInv'
  OBVIOUS
<1>1. ASSUME used' = used, req' = req, \A s \in Scans : Sent(s) <=> Sent(s)'
      PROVE  MeterInv'
  <2>1. Unbilled' = Unbilled /\ Enqueued' = Enqueued /\ SentScans' = SentScans
    BY <1>1 DEF Unbilled, Enqueued, SentScans
  <2>2. QED
    BY <1>1, <2>1, MeterFrame
<1>2. ASSUME NEW w \in Workers, WorkerStep(w) PROVE MeterInv'
  <2>1. CASE Ack(w)
    <3>1. wk[w].scan \in Scans /\ Sent(wk[w].scan)
      BY <2>1 DEF Ack, RowInv
    <3>2. \A s \in Scans : Sent(s) <=> Sent(s)'
      BY <2>1, <3>1 DEF Ack, Delete, Put, Sent, TypeOK, QueueTypeOK
    <3>3. QED
      BY <1>1, <2>1, <3>2 DEF Ack
  <2>2. CASE Release(w)
    BY <1>1, <2>2, ReturnKeepsSent DEF Release
  <2>3. CASE ~Ack(w) /\ ~Release(w)
    BY <1>1, <1>2, <2>3
       DEF WorkerStep, MarkRunning, RunSwarm, MarkCompleted, SnapshotScores,
           EvaluateAlerts, Throw, MarkFailed, Crash, Sent
  <2>4. QED
    BY <2>1, <2>2, <2>3
<1>3. ASSUME NEW w \in Workers, NEW s \in Scans, Start(w, s) PROVE MeterInv'
  <2>1. \A t \in Scans : Sent(t) <=> Sent(t)'
    BY <1>3 DEF Start, Receive, Sent, TypeOK, QueueTypeOK
  <2>2. QED
    BY <1>1, <1>3, <2>1 DEF Start
<1>4. ASSUME NEW s \in Scans, Patch(s) PROVE MeterInv'
  BY <1>1, <1>4 DEF Patch, Sent
<1>5. ASSUME NEW s \in Scans, Expire(s) PROVE MeterInv'
  BY <1>1, <1>5, ReturnKeepsSent DEF Expire
<1>6. ASSUME NEW s \in Scans, MoveToDlq(s) PROVE MeterInv'
  <2>1. \A t \in Scans : Sent(t) <=> Sent(t)'
    BY <1>6 DEF MoveToDlq, DeadLetter, Put, Sent, TypeOK, QueueTypeOK
  <2>2. QED
    BY <1>1, <1>6, <2>1 DEF MoveToDlq
<1>7. CASE UNCHANGED vars
  BY <1>1, <1>7 DEF vars, Sent
<1>8. QED
  BY <1>2, <1>3, <1>4, <1>5, <1>6, <1>7, MeterOfRequestStep DEF Next

LEMMA MeterInvariant == Spec => []MeterInv
BY RowInvariant, MeterInit, MeterInductive, PTL DEF Spec

(* Requests that race past the quota check exceed the quota by less than   *)
(* their number.                                                           *)
THEOREM OvershootBounded == Spec => []QuotaOvershootIsBounded
<1>1. MeterInv => QuotaOvershootIsBounded
  BY DEF MeterInv
<1>2. QED
  BY MeterInvariant, <1>1, PTL

(* No scan is billed whose message was not sent. *)
THEOREM BilledWereSent == Spec => []BilledScansWereSent
<1>1. MeterInv => BilledScansWereSent
  BY DEF MeterInv, Enqueued, SentScans, BilledScansWereSent
<1>2. QED
  BY MeterInvariant, <1>1, PTL

-----------------------------------------------------------------------------
(* The concurrency limit. *)

Rows == {s \in Scans : status[s] # "none"}
Queued == {s \in Scans : status[s] = "queued"} \ patched
Admitted == {r \in Requests : req[r].pc = "admitted"}

(* Only a request of the on-prem routes gets past the limit uncounted. *)
LimitInv ==
    /\ IsFiniteSet(Rows)
    /\ \/ OnPrem
       \/ /\ \A r \in Requests : req[r].route = "api"
          /\ Cardinality(Queued) + Cardinality(Admitted)
                < MaxConcurrent + Cardinality(Requests)

LEMMA CardinalOf ==
  ASSUME TypeOK, LimitInv
  PROVE  /\ Cardinality(Queued) \in Nat /\ IsFiniteSet(Queued)
         /\ Cardinality(Admitted) \in Nat /\ IsFiniteSet(Admitted)
         /\ Cardinality(Requests) \in Nat /\ MaxConcurrent \in Nat
<1>1. Queued \subseteq Rows /\ Admitted \subseteq Requests
  BY DEF Queued, Rows, Admitted
<1>2. QED
  BY <1>1, RequestsAssumption, LimitAssumption, FS_Subset, FS_CardinalityType DEF LimitInv

LEMMA LimitInit == Init => LimitInv
<1> SUFFICES ASSUME Init PROVE LimitInv
  OBVIOUS
<1>1. Rows = {} /\ Queued = {} /\ Admitted = {}
  BY DEF Init, Rows, Queued, Admitted, IdleRequest
<1>2. Cardinality(Requests) \in Nat \ {0}
  BY RequestsAssumption, FS_EmptySet, FS_CardinalityType
<1>3. QED
  BY <1>1, <1>2, FS_EmptySet, LimitAssumption DEF LimitInv, Init, IdleRequest

(* A step that admits nobody and inserts nothing preserves it. *)
LEMMA LimitFrame ==
  ASSUME TypeOK, LimitInv,
         Rows' = Rows, Queued' \subseteq Queued, Admitted' \subseteq Admitted,
         OnPrem \/ \A r \in Requests : req'[r].route = "api"
  PROVE  LimitInv'
<1>1. /\ Cardinality(Queued') <= Cardinality(Queued) /\ Cardinality(Queued') \in Nat
      /\ Cardinality(Admitted') <= Cardinality(Admitted) /\ Cardinality(Admitted') \in Nat
  BY CardinalOf, FS_Subset, FS_CardinalityType
<1>2. QED
  BY <1>1, CardinalOf DEF LimitInv

LEMMA LimitOfRequestStep ==
  ASSUME TypeOK, RowInv, LimitInv, NEW r \in Requests, RequestStep(r)
  PROVE  LimitInv'
<1> USE DEF TypeOK, QueueTypeOK, Request, To, IdleRequest
<1>1. CASE EnforceQuota(r) \/ Enqueue(r) \/ Bill(r) \/ OnPremPost(r) \/ RequestEnds(r)
           \/ CancelRead(r) \/ CancelWrite(r)
  <2>1. Rows' = Rows /\ Queued' \subseteq Queued
    BY <1>1 DEF EnforceQuota, Enqueue, Bill, OnPremPost, RequestEnds, CancelRead,
                CancelWrite, Rows, Queued, RowInv
  <2>2. Admitted' \subseteq Admitted
    BY <1>1 DEF EnforceQuota, Enqueue, Bill, OnPremPost, RequestEnds, CancelRead,
                CancelWrite, Admitted
  <2>3. OnPrem \/ \A q \in Requests : req'[q].route = "api"
    BY <1>1 DEF EnforceQuota, Enqueue, Bill, OnPremPost, RequestEnds, CancelRead,
                CancelWrite, LimitInv
  <2>4. QED
    BY <2>1, <2>2, <2>3, LimitFrame
<1>2. CASE CountActive(r)
  <2>1. /\ Rows' = Rows /\ Queued' = Queued
        /\ Admitted' \subseteq Requests
        /\ OnPrem \/ \A q \in Requests : req'[q].route = "api"
    BY <1>2 DEF CountActive, Rows, Queued, Admitted, LimitInv
  <2>2. Queued \subseteq ActiveScans /\ ActiveScans \subseteq Rows
    BY DEF Queued, ActiveScans, Active, Rows
  <2>3. IsFiniteSet(ActiveScans) /\ Cardinality(Queued) <= Cardinality(ActiveScans)
        /\ Cardinality(ActiveScans) \in Nat
    BY <2>2, FS_Subset, FS_CardinalityType DEF LimitInv
  <2>4. Cardinality(Admitted') <= Cardinality(Requests) /\ Cardinality(Admitted') \in Nat
    BY <2>1, RequestsAssumption, FS_Subset, FS_CardinalityType
  <2>5. Cardinality(ActiveScans) < MaxConcurrent
    BY <1>2 DEF CountActive, BelowLimit
  <2>6. QED
    BY <2>1, <2>3, <2>4, <2>5, CardinalOf DEF LimitInv
<1>3. CASE InsertScan(r)
  <2>1. PICK s \in Scans : /\ status[s] = "none"
                           /\ status' = [status EXCEPT ![s] = "queued"]
                           /\ Request(r, "inserted", s, req[r].route)
    BY <1>3 DEF InsertScan
  <2>2. /\ Rows' = Rows \cup {s} /\ Queued' \subseteq Queued \cup {s}
        /\ Admitted' = Admitted \ {r} /\ r \in Admitted
        /\ OnPrem \/ \A q \in Requests : req'[q].route = "api"
    BY <1>3, <2>1 DEF InsertScan, Rows, Queued, Admitted, LimitInv
  <2>3. IsFiniteSet(Rows')
    BY <2>2, FS_AddElement DEF LimitInv
  <2>4. Cardinality(Admitted') = Cardinality(Admitted) - 1
    BY <2>2, CardinalOf, FS_RemoveElement
  <2>5. /\ IsFiniteSet(Queued \cup {s})
        /\ Cardinality(Queued \cup {s}) \in {Cardinality(Queued), Cardinality(Queued) + 1}
    BY CardinalOf, FS_AddElement
  <2>6. Cardinality(Queued') <= Cardinality(Queued) + 1 /\ Cardinality(Queued') \in Nat
    BY <2>2, <2>5, CardinalOf, FS_Subset, FS_CardinalityType
  <2>7. QED
    BY <2>2, <2>3, <2>4, <2>6, CardinalOf DEF LimitInv
<1>4. CASE FallBack(r)
  <2>1. OnPrem
    BY <1>4 DEF FallBack, LimitInv
  <2>2. Rows' = Rows
    BY <1>4 DEF FallBack, Rows
  <2>3. QED
    BY <2>1, <2>2 DEF LimitInv
<1>5. QED
  BY <1>1, <1>2, <1>3, <1>4 DEF RequestStep

LEMMA LimitInductive == TypeOK /\ RowInv /\ LimitInv /\ [Next]_vars => LimitInv'
<1> SUFFICES ASSUME TypeOK, RowInv, LimitInv, [Next]_vars PROVE LimitInv'
  OBVIOUS
<1> USE DEF TypeOK, QueueTypeOK
<1>1. ASSUME req' = req, Rows' = Rows, Queued' \subseteq Queued PROVE LimitInv'
  BY <1>1, LimitFrame DEF LimitInv, Admitted
<1>2. ASSUME NEW w \in Workers, WorkerStep(w) PROVE LimitInv'
  <2>1. CASE MarkRunning(w) \/ MarkCompleted(w) \/ MarkFailed(w)
    <3>1. wk[w].scan \in Scans /\ status[wk[w].scan] # "none"
      BY <2>1 DEF MarkRunning, MarkCompleted, MarkFailed, RowInv, JobHasRow
    <3>2. PICK new \in {"running", "completed", "completed_partial", "failed"} :
             status' = [status EXCEPT ![wk[w].scan] = new]
      BY <2>1 DEF MarkRunning, MarkCompleted, MarkFailed, Write
    <3>3. req' = req /\ patched' = patched
      BY <2>1 DEF MarkRunning, MarkCompleted, MarkFailed
    <3>4. Rows' = Rows /\ Queued' \subseteq Queued
      BY <3>1, <3>2, <3>3 DEF Rows, Queued
    <3>5. QED
      BY <1>1, <3>3, <3>4
  <2>2. CASE ~(MarkRunning(w) \/ MarkCompleted(w) \/ MarkFailed(w))
    <3>1. UNCHANGED <<req, status, patched>>
      BY <1>2, <2>2 DEF WorkerStep, RunSwarm, SnapshotScores, EvaluateAlerts, Throw,
                        Ack, Release, Crash
    <3>2. QED
      BY <1>1, <3>1 DEF Rows, Queued
  <2>3. QED
    BY <2>1, <2>2
<1>3. ASSUME NEW s \in Scans, Patch(s) PROVE LimitInv'
  <2>1. Rows' = Rows /\ Queued' \subseteq Queued
    BY <1>3 DEF Patch, Rows, Queued, Statuses, Active, Terminal
  <2>2. QED
    BY <1>1, <1>3, <2>1 DEF Patch
<1>4. ASSUME \/ \E w \in Workers, s \in Scans : Start(w, s)
             \/ \E s \in Scans : Expire(s) \/ MoveToDlq(s)
             \/ UNCHANGED vars
      PROVE  LimitInv'
  <2>1. UNCHANGED <<req, status, patched>>
    BY <1>4 DEF Start, Expire, MoveToDlq, vars
  <2>2. QED
    BY <1>1, <2>1 DEF Rows, Queued
<1>5. QED
  BY <1>2, <1>3, <1>4, LimitOfRequestStep DEF Next

(* Requests that count together admit no more scans than the limit and all *)
(* but one of the requests (scan-service.ts, create).                      *)
THEOREM LimitNearlyKept == Spec => []LimitOvershootIsBounded
<1>1. LimitInv => LimitOvershootIsBounded
  BY DEF LimitInv, Queued, Admitted, LimitOvershootIsBounded
<1>2. QED
  BY RowInvariant, LimitInit, LimitInductive, <1>1, PTL DEF Spec

-----------------------------------------------------------------------------
(* Scores are taken once per delivery. *)

BeforeSnapshot == {"mark_running", "swarm", "mark_completed", "snapshot"}

(* The invocations that have yet to take the scores of s.  Each owes them  *)
(* to a delivery of its own, also when a message is handed out twice.      *)
Owing(s) == {w \in Workers : wk[w].pc \in BeforeSnapshot /\ wk[w].scan = s}

ScoreInv ==
    \A s \in Scans :
        /\ IsFiniteSet(Owing(s))
        /\ snapshots[s] + Cardinality(Owing(s)) <= msg[s].receives

LEMMA ScoreInit == Init => ScoreInv
<1> SUFFICES ASSUME Init, NEW s \in Scans
             PROVE  /\ IsFiniteSet(Owing(s))
                    /\ snapshots[s] + Cardinality(Owing(s)) <= msg[s].receives
  BY DEF ScoreInv
<1>1. Owing(s) = {}
  BY DEF Init, Owing, IdleWorker, BeforeSnapshot
<1>2. QED
  BY <1>1, FS_EmptySet DEF Init, QueueInit

(* Of one scan: an invocation that stops owing scores takes none away. *)
LEMMA ScoreFrame ==
  ASSUME TypeOK, TypeOK', ScoreInv, NEW s \in Scans,
         snapshots'[s] = snapshots[s], msg'[s].receives = msg[s].receives,
         Owing(s)' \subseteq Owing(s)
  PROVE  /\ IsFiniteSet(Owing(s)')
         /\ snapshots'[s] + Cardinality(Owing(s)') <= msg'[s].receives
<1>1. IsFiniteSet(Owing(s)) /\ snapshots[s] + Cardinality(Owing(s)) <= msg[s].receives
  BY DEF ScoreInv
<1>2. /\ IsFiniteSet(Owing(s)')
      /\ Cardinality(Owing(s)') <= Cardinality(Owing(s))
  BY <1>1, FS_Subset
<1>3. Cardinality(Owing(s)) \in Nat /\ Cardinality(Owing(s)') \in Nat
  BY <1>1, <1>2, FS_CardinalityType
<1>4. snapshots[s] \in Nat /\ msg[s].receives \in Nat
  BY MaxReceiveAssumption DEF TypeOK, QueueTypeOK
<1>5. QED
  BY <1>1, <1>2, <1>3, <1>4

LEMMA ScoreOfWorkerStep ==
  ASSUME TypeOK, TypeOK', RowInv, ScoreInv, NEW w \in Workers, WorkerStep(w)
  PROVE  ScoreInv'
<1> USE DEF TypeOK, QueueTypeOK
<1>1. CASE MarkRunning(w) \/ RunSwarm(w) \/ MarkCompleted(w) \/ EvaluateAlerts(w)
           \/ Throw(w) \/ MarkFailed(w)
  <2>1. /\ snapshots' = snapshots /\ msg' = msg
        /\ wk'[w].scan = wk[w].scan
        /\ wk'[w].pc \in BeforeSnapshot => wk[w].pc \in BeforeSnapshot
        /\ \A v \in Workers \ {w} : wk'[v] = wk[v]
    BY <1>1 DEF MarkRunning, RunSwarm, MarkCompleted, EvaluateAlerts, Throw, MarkFailed,
                Goto, GotoWith, BeforeSnapshot
  <2>2. \A s \in Scans : Owing(s)' \subseteq Owing(s)
    BY <2>1 DEF Owing
  <2>3. QED
    BY <2>1, <2>2, ScoreFrame DEF ScoreInv
<1>2. CASE Ack(w) \/ Release(w) \/ Crash(w)
  <2>1. \A t \in Scans : msg'[t].receives = msg[t].receives
    BY <1>2, MoveReceivesNothing DEF Ack, Release, Crash
  <2>2. snapshots' = snapshots /\ wk' = [wk EXCEPT ![w] = IdleWorker]
    BY <1>2 DEF Ack, Release, Crash, Leave
  <2>3. \A s \in Scans : Owing(s)' \subseteq Owing(s)
    BY <2>2 DEF Owing, IdleWorker, BeforeSnapshot
  <2>4. QED
    BY <2>1, <2>2, <2>3, ScoreFrame DEF ScoreInv
<1>3. CASE SnapshotScores(w)
  <2>0. PICK s \in Scans : s = wk[w].scan
    BY <1>3 DEF SnapshotScores, RowInv
  <2>1. /\ w \in Owing(s)
        /\ msg' = msg
        /\ snapshots' = [snapshots EXCEPT ![s] = snapshots[s] + 1]
        /\ wk'[w].pc \in {"alerts", "mark_failed"}
        /\ \A v \in Workers \ {w} : wk'[v] = wk[v]
    BY <1>3, <2>0 DEF SnapshotScores, GotoWith, Owing, BeforeSnapshot
  <2>2. Owing(s)' = Owing(s) \ {w}
    BY <2>1 DEF Owing, BeforeSnapshot
  <2>3. /\ IsFiniteSet(Owing(s)')
        /\ Cardinality(Owing(s)') = Cardinality(Owing(s)) - 1
        /\ Cardinality(Owing(s)) \in Nat
    BY <2>1, <2>2, FS_RemoveElement, FS_CardinalityType DEF ScoreInv
  <2>4. snapshots'[s] = snapshots[s] + 1 /\ snapshots[s] \in Nat /\ msg[s].receives \in Nat
    BY <2>1, MaxReceiveAssumption
  <2>5. snapshots'[s] + Cardinality(Owing(s)') <= msg'[s].receives
    BY <2>1, <2>3, <2>4 DEF ScoreInv
  <2>6. \A t \in Scans \ {s} : snapshots'[t] = snapshots[t] /\ Owing(t)' \subseteq Owing(t)
    BY <2>1 DEF Owing, BeforeSnapshot
  <2>7. \A t \in Scans \ {s} : /\ IsFiniteSet(Owing(t)')
                               /\ snapshots'[t] + Cardinality(Owing(t)') <= msg'[t].receives
    BY <2>1, <2>6, ScoreFrame
  <2>8. QED
    BY <2>3, <2>5, <2>7 DEF ScoreInv
<1>4. QED
  BY <1>1, <1>2, <1>3 DEF WorkerStep

LEMMA ScoreInductive == TypeOK /\ TypeOK' /\ RowInv /\ ScoreInv /\ [Next]_vars => ScoreInv'
<1> SUFFICES ASSUME TypeOK, TypeOK', RowInv, ScoreInv, [Next]_vars
             PROVE  ScoreInv'
  OBVIOUS
<1> USE DEF TypeOK, QueueTypeOK
<1>1. ASSUME snapshots' = snapshots, wk' = wk,
             \A t \in Scans : msg'[t].receives = msg[t].receives
      PROVE  ScoreInv'
  BY <1>1, ScoreFrame DEF ScoreInv, Owing
<1>2. ASSUME NEW r \in Requests, RequestStep(r) PROVE ScoreInv'
  <2>1. snapshots' = snapshots /\ wk' = wk
    BY <1>2 DEF RequestStep, EnforceQuota, CountActive, InsertScan, Enqueue, Bill,
                OnPremPost, FallBack, RequestEnds, CancelRead, CancelWrite
  <2>2. msg' = msg \/ Add(req[r].scan)
    BY <1>2 DEF RequestStep, EnforceQuota, CountActive, InsertScan, Enqueue, Bill,
                OnPremPost, FallBack, RequestEnds, CancelRead, CancelWrite
  <2>3. \A t \in Scans : msg'[t].receives = msg[t].receives
    BY <2>2, MoveReceivesNothing
  <2>4. QED
    BY <1>1, <2>1, <2>3
<1>3. ASSUME NEW w \in Workers, NEW s \in Scans, Start(w, s) PROVE ScoreInv'
  <2>1. /\ snapshots' = snapshots
        /\ msg'[s].receives = msg[s].receives + 1
        /\ \A t \in Scans \ {s} : msg'[t] = msg[t]
        /\ wk[w].pc = "idle" /\ wk'[w].pc = "mark_running" /\ wk'[w].scan = s
        /\ \A v \in Workers \ {w} : wk'[v] = wk[v]
    BY <1>3 DEF Start, Receive
  <2>2. w \notin Owing(s) /\ Owing(s)' = Owing(s) \cup {w}
    BY <2>1 DEF Owing, BeforeSnapshot
  <2>3. /\ IsFiniteSet(Owing(s)')
        /\ Cardinality(Owing(s)') = Cardinality(Owing(s)) + 1
        /\ Cardinality(Owing(s)) \in Nat
    BY <2>2, FS_AddElement, FS_CardinalityType DEF ScoreInv
  <2>4. snapshots[s] \in Nat /\ msg[s].receives \in Nat
    BY MaxReceiveAssumption
  <2>5. snapshots'[s] + Cardinality(Owing(s)') <= msg'[s].receives
    BY <2>1, <2>3, <2>4 DEF ScoreInv
  <2>6. \A t \in Scans \ {s} : Owing(t)' \subseteq Owing(t)
    BY <2>1 DEF Owing, BeforeSnapshot
  <2>7. \A t \in Scans \ {s} : /\ IsFiniteSet(Owing(t)')
                               /\ snapshots'[t] + Cardinality(Owing(t)') <= msg'[t].receives
    BY <2>1, <2>6, ScoreFrame
  <2>8. QED
    BY <2>3, <2>5, <2>7 DEF ScoreInv
<1>4. ASSUME NEW s \in Scans, Patch(s) \/ Expire(s) \/ MoveToDlq(s) PROVE ScoreInv'
  <2>1. snapshots' = snapshots /\ wk' = wk
    BY <1>4 DEF Patch, Expire, MoveToDlq
  <2>2. \A t \in Scans : msg'[t].receives = msg[t].receives
    BY <1>4, MoveReceivesNothing DEF Patch, Expire, MoveToDlq
  <2>3. QED
    BY <1>1, <2>1, <2>2
<1>5. CASE UNCHANGED vars
  BY <1>1, <1>5 DEF vars
<1>6. QED
  BY <1>2, <1>3, <1>4, <1>5, ScoreOfWorkerStep DEF Next

(* However a job is redelivered, overlapped, crashed on or failed, it adds *)
(* at most one set of scores per delivery (compliance-service.ts,          *)
(* snapshotScores).                                                        *)
THEOREM ScoresFollowDeliveries == Spec => []SnapshotsAreDeliveries
<1>1. TypeOK /\ ScoreInv => SnapshotsAreDeliveries
  <2> SUFFICES ASSUME TypeOK, ScoreInv, NEW s \in Scans
               PROVE  snapshots[s] <= msg[s].receives
    BY DEF SnapshotsAreDeliveries
  <2>1. Cardinality(Owing(s)) \in Nat /\ snapshots[s] + Cardinality(Owing(s)) <= msg[s].receives
    BY FS_CardinalityType DEF ScoreInv
  <2>2. snapshots[s] \in Nat /\ msg[s].receives \in Nat
    BY MaxReceiveAssumption DEF TypeOK, QueueTypeOK
  <2>3. QED
    BY <2>1, <2>2
<1>2. QED
  BY RowInvariant, ScoreInit, ScoreInductive, <1>1, PTL DEF Spec

=============================================================================
