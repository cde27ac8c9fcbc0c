------------------------------ MODULE SqsQueue ------------------------------
(***************************************************************************)
(* One SQS job queue with its dead-letter queue, as the API's producers    *)
(* (SqsQueue.add) and the workers' receive loop use it.  SQS itself is     *)
(* external: only what infra/queues.ts configures and poll-runner.ts       *)
(* relies on is modelled.  A job is the one message its producer sends;    *)
(* order is not modelled, a standard queue promises none.  Delivery is at  *)
(* least once: visibility may lapse while a handler is still at work, and  *)
(* then the message is received again.                                     *)
(***************************************************************************)
EXTENDS Naturals

CONSTANTS
    Jobs,       \* the jobs that may be sent, one message each
    MaxReceive  \* dlq.retry: receives before a message is dead-lettered

ASSUME MaxReceiveAssumption == MaxReceive \in Nat \ {0}

VARIABLE msg  \* msg[j]: where the message of job j is, and how often it was received

Place == {"unsent", "visible", "inflight", "acked", "dead"}

QueueTypeOK == msg \in [Jobs -> [at : Place, receives : 0..MaxReceive]]

QueueInit == msg = [j \in Jobs |-> [at |-> "unsent", receives |-> 0]]

Sent(j) == msg[j].at # "unsent"
Settled(j) == msg[j].at \in {"acked", "dead"}
Live(j) == msg[j].at \in {"visible", "inflight"}

Put(j, at) == msg' = [msg EXCEPT ![j] = [at |-> at, receives |-> msg[j].receives]]

(* SendMessage. *)
Add(j) ==
    /\ msg[j].at = "unsent"
    /\ Put(j, "visible")

(* Mutant of Receive: the dead-letter policy is missing. *)
ReceiveForever(j) ==
    /\ msg[j].at = "visible"
    /\ msg' = [msg EXCEPT ![j] = [at |-> "inflight", receives |-> msg[j].receives + 1]]

(* ReceiveMessage: the message turns invisible for the visibility timeout. *)
Receive(j) ==
    /\ msg[j].at = "visible"
    /\ msg[j].receives < MaxReceive
    /\ msg' = [msg EXCEPT ![j] = [at |-> "inflight", receives |-> msg[j].receives + 1]]

(* A message whose receives are used up moves to the dead-letter queue. *)
DeadLetter(j) ==
    /\ msg[j].at = "visible"
    /\ msg[j].receives = MaxReceive
    /\ Put(j, "dead")

(* DeleteMessage after the handler returned: the receipt is honoured       *)
(* wherever the message is by now.                                         *)
Delete(j) ==
    IF msg[j].at = "dead" THEN UNCHANGED msg ELSE Put(j, "acked")

(* Mutant of Return: a received message never comes back. *)
ReturnLost(j) == UNCHANGED msg

(* The visibility timeout lapses, or the poller cuts it to 0 after an error. *)
Return(j) ==
    IF msg[j].at = "inflight" THEN Put(j, "visible") ELSE UNCHANGED msg

=============================================================================
