---------------------------- MODULE EvidenceVault ----------------------------
(***************************************************************************)
(* The evidence vault: POST /api/evidence inserts a row without an object  *)
(* and queues the upload; the evidence worker puts the content under a     *)
(* fresh key and then writes the key into the row.  The vault is WORM: no  *)
(* object is changed or removed.  A record and its job have the same       *)
(* identity, and object n of a record is the n-th stored for it, so keys   *)
(* (random in the code) are the numbers 1, 2, ...                          *)
(***************************************************************************)
EXTENDS SqsQueue

CONSTANTS
    Workers,     \* queue records that evidence-worker invocations hold at a time
    Configured,  \* TRUE: EVIDENCE_BUCKET and DATABASE_URL are set
    NoRecord     \* "no record" in an idle worker

Records == Jobs

ASSUME NoRecordAssumption == NoRecord \notin Jobs
ASSUME ConfiguredAssumption == Configured \in BOOLEAN

VARIABLES
    posted,   \* posted[r]: how far the POST of r has got
    objects,  \* objects[r]: how many objects S3 holds for r
    key,      \* key[r]: evidence.s3_object_key (with its hash), 0 while it is NULL
    wk,       \* wk[w]: where invocation w stands, on which record, with which object
    overrun   \* history: the records whose job turned visible under an invocation

vars == <<msg, posted, objects, key, wk, overrun>>

PostSteps == {"none", "inserted", "ended"}
WorkerSteps == {"idle", "upload", "update", "ack"}
IdleWorker == [pc |-> "idle", rec |-> NoRecord, obj |-> 0]

TypeOK ==
    /\ QueueTypeOK
    /\ posted \in [Records -> PostSteps]
    /\ objects \in [Records -> Nat]
    /\ key \in [Records -> Nat]
    /\ wk \in [Workers -> [pc : WorkerSteps, rec : Records \cup {NoRecord}, obj : Nat]]
    /\ overrun \subseteq Records

Init ==
    /\ QueueInit
    /\ posted = [r \in Records |-> "none"]
    /\ objects = [r \in Records |-> 0]
    /\ key = [r \in Records |-> 0]
    /\ wk = [w \in Workers |-> IdleWorker]
    /\ overrun = {}

-----------------------------------------------------------------------------
(* POST /api/evidence. *)

Create(r) ==
    /\ posted[r] = "none"
    /\ posted' = [posted EXCEPT ![r] = "inserted"]
    /\ UNCHANGED <<msg, objects, key, wk, overrun>>

Enqueue(r) ==
    /\ posted[r] = "inserted"
    /\ Add(r)
    /\ posted' = [posted EXCEPT ![r] = "ended"]
    /\ UNCHANGED <<objects, key, wk, overrun>>

(* SendMessage fails or the instance dies: the row stays, without a job. *)
PostFails(r) ==
    /\ posted[r] = "inserted"
    /\ posted' = [posted EXCEPT ![r] = "ended"]
    /\ UNCHANGED <<msg, objects, key, wk, overrun>>

-----------------------------------------------------------------------------
(* The evidence worker. *)

Goto(w, pc, obj) == wk' = [wk EXCEPT ![w] = [pc |-> pc, rec |-> wk[w].rec, obj |-> obj]]
Leave(w) == wk' = [wk EXCEPT ![w] = IdleWorker]

Store(r) == objects' = [objects EXCEPT ![r] = objects[r] + 1]

(* A worker without its settings returns at once, which acknowledges the job. *)
Start(w, r) ==
    /\ wk[w].pc = "idle"
    /\ Receive(r)
    /\ wk' = [wk EXCEPT ![w] = [pc |-> IF Configured THEN "upload" ELSE "ack",
                                rec |-> r, obj |-> 0]]
    /\ UNCHANGED <<posted, objects, key, overrun>>

(* Mutants of Upload: PutObject is not awaited and may not arrive; the     *)
(* upload is tried again within one delivery.                              *)
UploadUnawaited(w) ==
    /\ wk[w].pc = "upload"
    /\ Store(wk[w].rec) \/ UNCHANGED objects
    /\ Goto(w, "update", objects[wk[w].rec] + 1)
    /\ UNCHANGED <<msg, posted, key, overrun>>

UploadRetried(w) ==
    /\ wk[w].pc = "upload"
    /\ Store(wk[w].rec)
    /\ \E pc \in {"upload", "update"} : Goto(w, pc, objects[wk[w].rec] + 1)
    /\ UNCHANGED <<msg, posted, key, overrun>>

Upload(w) ==
    /\ wk[w].pc = "upload"
    /\ Store(wk[w].rec)
    /\ Goto(w, "update", objects[wk[w].rec] + 1)
    /\ UNCHANGED <<msg, posted, key, overrun>>

Update(w) ==
    /\ wk[w].pc = "update"
    /\ key' = [key EXCEPT ![wk[w].rec] = wk[w].obj]
    /\ Goto(w, "ack", wk[w].obj)
    /\ UNCHANGED <<msg, posted, objects, overrun>>

Ack(w) ==
    /\ wk[w].pc = "ack"
    /\ Delete(wk[w].rec)
    /\ Leave(w)
    /\ UNCHANGED <<posted, objects, key, overrun>>

(* Mutant of Throw: the error is logged and not rethrown. *)
ThrowSwallowed(w) ==
    /\ wk[w].pc \in {"upload", "update"}
    /\ Goto(w, "ack", wk[w].obj)
    /\ UNCHANGED <<msg, posted, objects, key, overrun>>

(* Another mutant of Throw: the poller gives the handler a deadline, and   *)
(* hands the job back while the handler runs on.                           *)
ThrowEarly(w) ==
    /\ wk[w].pc # "idle"
    /\ Return(wk[w].rec)
    /\ UNCHANGED <<posted, objects, key, wk, overrun>>

(* An await throws (in the batch: this record's or another's, so a record  *)
(* that is done comes back too), or DeleteMessage fails.  An upload or an  *)
(* update whose reply is lost has happened: Upload or Update, then this.   *)
Throw(w) ==
    /\ wk[w].pc # "idle"
    /\ Return(wk[w].rec)
    /\ Leave(w)
    /\ UNCHANGED <<posted, objects, key, overrun>>

Crash(w) ==
    /\ wk[w].pc # "idle"
    /\ Leave(w)
    /\ UNCHANGED <<msg, posted, objects, key, overrun>>

(* Visibility lapses over a dead invocation, and under one that the poller *)
(* keeps waiting behind the rest of its batch or lets run without a limit. *)
Expire(r) ==
    /\ msg[r].at = "inflight"
    /\ Return(r)
    /\ overrun' = IF \E w \in Workers : wk[w].rec = r THEN overrun \cup {r} ELSE overrun
    /\ UNCHANGED <<posted, objects, key, wk>>

MoveToDlq(r) ==
    /\ DeadLetter(r)
    /\ UNCHANGED <<posted, objects, key, wk, overrun>>

WorkerStep(w) == Upload(w) \/ Update(w) \/ Ack(w) \/ Throw(w) \/ Crash(w)

Next ==
    \/ \E r \in Records : Create(r) \/ Enqueue(r) \/ PostFails(r)
    \/ \E w \in Workers : WorkerStep(w)
    \/ \E w \in Workers, r \in Records : Start(w, r)
    \/ \E r \in Records : Expire(r) \/ MoveToDlq(r)

Spec == Init /\ [][Next]_vars

(* An invocation advances or dies; SQS delivers, expires and redrives. *)
Fairness ==
    /\ \A w \in Workers : WF_vars(WorkerStep(w))
    /\ \A r \in Records : /\ WF_vars(\E w \in Workers : Start(w, r))
                          /\ WF_vars(Expire(r))
                          /\ WF_vars(MoveToDlq(r))

FairSpec == Spec /\ Fairness

-----------------------------------------------------------------------------
(* Properties. *)

(* A key in a row names an object that is there, at whatever point an      *)
(* invocation failed or was run again: the download route never signs a    *)
(* link to nothing.                                                        *)
RowNamesItsObject == \A r \in Records : key[r] <= objects[r]

(* A retry stores the content again and leaves the earlier object without  *)
(* a row, in a vault that deletes nothing; each delivery does so at most   *)
(* once, so no record ever holds more than MaxReceive objects.             *)
ObjectsAreDeliveries ==
    \A r \in Records : objects[r] <= msg[r].receives /\ msg[r].receives <= MaxReceive

(* The row of a redelivered job moves on to the later object, whatever     *)
(* failed before; it goes back to an older one only if the job turned      *)
(* visible under a slow invocation, which then writes after a quicker one. *)
KeysMoveForward == [][\A r \in Records : key'[r] >= key[r] \/ r \in overrun]_vars

(* A job is acknowledged only when its row names an object.  (Configured.) *)
AckedIsStored == \A r \in Records : msg[r].at = "acked" => key[r] # 0

(* Evidence whose upload was queued is in the vault in the end, or its job *)
(* is in the dead-letter queue.  (Configured.)                             *)
EvidenceIsStored == \A r \in Records : Sent(r) ~> (key[r] # 0 \/ msg[r].at = "dead")

=============================================================================
