------------------------ MODULE EvidenceVault_proofs ------------------------
(***************************************************************************)
(* Proofs about EvidenceVault, for any number of records and invocations,  *)
(* any dead-letter policy, and messages that may turn visible under an     *)
(* invocation at any time.                                                 *)
(***************************************************************************)
EXTENDS EvidenceVault, FiniteSetTheorems, TLAPS

USE DEF Records

-----------------------------------------------------------------------------
(* Type correctness. *)

LEMMA TypeInit == Init => TypeOK
BY NoRecordAssumption, MaxReceiveAssumption
   DEF Init, QueueInit, TypeOK, QueueTypeOK, Place, IdleWorker, PostSteps, WorkerSteps

(* What a busy invocation holds. *)
HoldsRecord == \A w \in Workers : wk[w].pc # "idle" => wk[w].rec \in Records

LEMMA HoldsInductive ==
  ASSUME TypeOK, HoldsRecord, [Next]_vars
  PROVE  HoldsRecord'
<1> USE DEF HoldsRecord, TypeOK
<1>1. ASSUME NEW r \in Records, Create(r) \/ Enqueue(r) \/ PostFails(r) PROVE HoldsRecord'
  BY <1>1 DEF Create, Enqueue, PostFails
<1>2. ASSUME NEW w \in Workers, WorkerStep(w) PROVE HoldsRecord'
  BY <1>2 DEF WorkerStep, Upload, Update, Ack, Throw, Crash, Goto, Leave, IdleWorker
<1>3. ASSUME NEW w \in Workers, NEW r \in Records, Start(w, r) PROVE HoldsRecord'
  BY <1>3 DEF Start
<1>4. ASSUME NEW r \in Records, Expire(r) \/ MoveToDlq(r) PROVE HoldsRecord'
  BY <1>4 DEF Expire, MoveToDlq
<1>5. CASE UNCHANGED vars
  BY <1>5 DEF vars
<1>6. QED
  BY <1>1, <1>2, <1>3, <1>4, <1>5 DEF Next

LEMMA QueueTypes ==
  ASSUME QueueTypeOK, NEW r \in Records,
         Add(r) \/ Receive(r) \/ Delete(r) \/ Return(r) \/ DeadLetter(r)
  PROVE  QueueTypeOK'
BY MaxReceiveAssumption
   DEF QueueTypeOK, Place, Add, Receive, Delete, Return, DeadLetter, Put

LEMMA TypeOfWorkerStep ==
  ASSUME TypeOK, HoldsRecord, NEW w \in Workers, WorkerStep(w)
  PROVE  TypeOK'
<1> USE DEF TypeOK, WorkerSteps, IdleWorker, Goto, Leave
<1>1. wk[w].pc # "idle" /\ wk[w].rec \in Records
  BY DEF WorkerStep, Upload, Update, Ack, Throw, Crash, HoldsRecord
<1>2. CASE Upload(w)
  <2>1. objects[wk[w].rec] + 1 \in Nat
    BY <1>1
  <2>2. QED
    BY <1>1, <1>2, <2>1 DEF Upload, Store, QueueTypeOK
<1>3. CASE Update(w)
  BY <1>1, <1>3 DEF Update, QueueTypeOK
<1>4. CASE Ack(w)
  BY <1>1, <1>4, QueueTypes DEF Ack
<1>5. CASE Throw(w)
  BY <1>1, <1>5, QueueTypes DEF Throw
<1>6. CASE Crash(w)
  BY <1>6 DEF Crash, QueueTypeOK
<1>7. QED
  BY <1>2, <1>3, <1>4, <1>5, <1>6 DEF WorkerStep

LEMMA TypeInductive == TypeOK /\ HoldsRecord /\ [Next]_vars => TypeOK'
<1> SUFFICES ASSUME TypeOK, HoldsRecord, [Next]_vars PROVE TypeOK'
  OBVIOUS
<1>1. ASSUME NEW r \in Records, Create(r) \/ PostFails(r) PROVE TypeOK'
  BY <1>1 DEF Create, PostFails, TypeOK, QueueTypeOK, PostSteps
<1>2. ASSUME NEW r \in Records, Enqueue(r) PROVE TypeOK'
  BY <1>2, QueueTypes DEF Enqueue, TypeOK, PostSteps
<1>3. ASSUME NEW w \in Workers, NEW r \in Records, Start(w, r) PROVE TypeOK'
  BY <1>3, QueueTypes DEF Start, TypeOK, WorkerSteps
<1>4. ASSUME NEW r \in Records, Expire(r) \/ MoveToDlq(r) PROVE TypeOK'
  BY <1>4, QueueTypes DEF Expire, MoveToDlq, TypeOK
<1>5. CASE UNCHANGED vars
  BY <1>5 DEF vars, TypeOK, QueueTypeOK
<1>6. QED
  BY <1>1, <1>2, <1>3, <1>4, <1>5, TypeOfWorkerStep DEF Next

LEMMA TypeInvariant == Spec => [](TypeOK /\ HoldsRecord)
<1>1. Init => HoldsRecord
  BY DEF Init, HoldsRecord, IdleWorker
<1>2. TypeOK /\ HoldsRecord /\ [Next]_vars => HoldsRecord'
  BY HoldsInductive
<1>3. QED
  BY <1>1, <1>2, TypeInit, TypeInductive, PTL DEF Spec

(* TypeOK holds of every instance. *)
THEOREM TypeCorrect == Spec => []TypeOK
BY TypeInvariant, PTL

-----------------------------------------------------------------------------
(* A key names an object, however invocations overlap. *)

ObjectInv ==
    /\ RowNamesItsObject
    /\ \A w \in Workers : wk[w].pc = "update" => wk[w].obj <= objects[wk[w].rec]

LEMMA ObjectInductive == TypeOK /\ HoldsRecord /\ ObjectInv /\ [Next]_vars => ObjectInv'
<1> SUFFICES ASSUME TypeOK, HoldsRecord, ObjectInv, [Next]_vars PROVE ObjectInv'
  OBVIOUS
<1> USE DEF TypeOK, HoldsRecord, ObjectInv, RowNamesItsObject
<1>1. ASSUME NEW r \in Records,
             Create(r) \/ Enqueue(r) \/ PostFails(r) \/ Expire(r) \/ MoveToDlq(r)
      PROVE  ObjectInv'
  BY <1>1 DEF Create, Enqueue, PostFails, Expire, MoveToDlq
<1>2. ASSUME NEW w \in Workers, NEW r \in Records, Start(w, r) PROVE ObjectInv'
  BY <1>2 DEF Start
<1>3. ASSUME NEW w \in Workers, Upload(w) PROVE ObjectInv'
  <2>1. wk[w].rec \in Records
    BY <1>3 DEF Upload
  <2>2. \A r \in Records : objects'[r] \in Nat /\ objects[r] <= objects'[r]
    BY <1>3 DEF Upload, Store
  <2>3. \A r \in Records : key'[r] <= objects'[r]
    BY <1>3, <2>2 DEF Upload
  <2>4. ASSUME NEW v \in Workers, wk'[v].pc = "update"
        PROVE  wk'[v].obj <= objects'[wk'[v].rec]
    <3>1. CASE v = w
      BY <1>3, <2>1, <3>1 DEF Upload, Store, Goto
    <3>2. CASE v # w
      BY <1>3, <2>2, <2>4, <3>2 DEF Upload, Goto
    <3>3. QED
      BY <3>1, <3>2
  <2>5. QED
    BY <2>3, <2>4
<1>4. ASSUME NEW w \in Workers, Update(w) PROVE ObjectInv'
  BY <1>4 DEF Update, Goto
<1>5. ASSUME NEW w \in Workers, Ack(w) \/ Throw(w) \/ Crash(w) PROVE ObjectInv'
  BY <1>5 DEF Ack, Throw, Crash, Leave, IdleWorker
<1>6. CASE UNCHANGED vars
  BY <1>6 DEF vars
<1>7. QED
  BY <1>1, <1>2, <1>3, <1>4, <1>5, <1>6 DEF Next, WorkerStep

(* Whatever fails, is run again, or is run twice at a time, no row ever    *)
(* names an object that is not stored.                                     *)
THEOREM RowsNameObjects == Spec => []RowNamesItsObject
<1>1. Init => ObjectInv
  BY DEF Init, ObjectInv, RowNamesItsObject, IdleWorker
<1>2. ObjectInv => RowNamesItsObject
  BY DEF ObjectInv
<1>3. QED
  BY <1>1, <1>2, ObjectInductive, TypeInvariant, PTL DEF Spec

-----------------------------------------------------------------------------
(* A job whose message never turned visible under an invocation is in the  *)
(* hands of one invocation, and in flight while it is.                     *)

OneHolder ==
    \A w \in Workers : wk[w].pc # "idle" /\ wk[w].rec \notin overrun =>
        /\ msg[wk[w].rec].at = "inflight"
        /\ \A v \in Workers \ {w} : wk[v].pc = "idle" \/ wk[v].rec # wk[w].rec

(* What a step of an invocation does to the others and to their jobs. *)
LEMMA WorkerFrame ==
  ASSUME TypeOK, NEW w \in Workers, WorkerStep(w)
  PROVE  /\ wk[w].pc # "idle"
         /\ wk'[w].pc = "idle" \/ (wk'[w].rec = wk[w].rec /\ msg' = msg)
         /\ \A v \in Workers \ {w} : wk'[v] = wk[v]
         /\ \A r \in Records \ {wk[w].rec} : msg'[r] = msg[r]
         /\ overrun' = overrun
<1> USE DEF TypeOK, QueueTypeOK
<1>1. CASE Upload(w) \/ Update(w)
  BY <1>1 DEF Upload, Update, Goto
<1>2. CASE Ack(w) \/ Throw(w) \/ Crash(w)
  BY <1>2 DEF Ack, Throw, Crash, Delete, Return, Put, Leave, IdleWorker
<1>3. QED
  BY <1>1, <1>2 DEF WorkerStep

LEMMA HolderInductive == TypeOK /\ HoldsRecord /\ OneHolder /\ [Next]_vars => OneHolder'
<1> SUFFICES ASSUME TypeOK, HoldsRecord, OneHolder, [Next]_vars PROVE OneHolder'
  OBVIOUS
<1> USE DEF TypeOK, QueueTypeOK, HoldsRecord, OneHolder
<1>1. ASSUME NEW r \in Records, Create(r) \/ PostFails(r) PROVE OneHolder'
  BY <1>1 DEF Create, PostFails
<1>2. ASSUME NEW r \in Records, Enqueue(r) PROVE OneHolder'
  BY <1>2 DEF Enqueue, Add, Put
<1>3. ASSUME NEW w \in Workers, NEW r \in Records, Start(w, r) PROVE OneHolder'
  <2>1. \A v \in Workers : wk[v].pc # "idle" /\ wk[v].rec \notin overrun => wk[v].rec # r
    BY <1>3 DEF Start, Receive
  <2>2. QED
    BY <1>3, <2>1 DEF Start, Receive
<1>4. ASSUME NEW w \in Workers, WorkerStep(w) PROVE OneHolder'
  <2>1. overrun' = overrun
    BY <1>4, WorkerFrame
  <2>2. ASSUME NEW v \in Workers, wk'[v].pc # "idle", wk'[v].rec \notin overrun
        PROVE  /\ msg'[wk'[v].rec].at = "inflight"
               /\ \A u \in Workers \ {v} : wk'[u].pc = "idle" \/ wk'[u].rec # wk'[v].rec
    <3>1. wk[v].pc # "idle" /\ wk'[v].rec = wk[v].rec
      BY <1>4, <2>2, WorkerFrame
    <3>2. \A u \in Workers \ {v} : wk'[u].pc # "idle" =>
             wk[u].pc # "idle" /\ wk'[u].rec = wk[u].rec
      BY <1>4, WorkerFrame
    <3>3. CASE v = w
      BY <1>4, <2>2, <3>1, <3>2, <3>3, WorkerFrame
    <3>4. CASE v # w
      <4>1. wk[v].rec # wk[w].rec /\ wk[v].rec \in Records
        BY <1>4, <2>2, <3>1, <3>4, WorkerFrame
      <4>2. msg'[wk'[v].rec] = msg[wk[v].rec]
        BY <1>4, <3>1, <4>1, WorkerFrame
      <4>3. QED
        BY <2>2, <3>1, <3>2, <4>2
    <3>5. QED
      BY <3>3, <3>4
  <2>3. QED
    BY <2>1, <2>2
<1>5. ASSUME NEW r \in Records, Expire(r) PROVE OneHolder'
  <2>1. /\ wk' = wk /\ overrun \subseteq overrun'
        /\ \A s \in Records \ {r} : msg'[s] = msg[s]
        /\ \A w \in Workers : wk[w].rec = r => r \in overrun'
    BY <1>5 DEF Expire, Return, Put
  <2>2. QED
    BY <2>1
<1>6. ASSUME NEW r \in Records, MoveToDlq(r) PROVE OneHolder'
  BY <1>6 DEF MoveToDlq, DeadLetter, Put
<1>7. CASE UNCHANGED vars
  BY <1>7 DEF vars
<1>8. QED
  BY <1>1, <1>2, <1>3, <1>4, <1>5, <1>6, <1>7 DEF Next

LEMMA HolderInvariant == Spec => [](TypeOK /\ HoldsRecord /\ OneHolder)
<1>1. Init => OneHolder
  BY DEF Init, OneHolder, IdleWorker
<1>2. QED
  BY <1>1, HolderInductive, TypeInvariant, PTL DEF Spec

-----------------------------------------------------------------------------
(* The objects of a record are counted by the deliveries of its job, those *)
(* included that an invocation has yet to store.                           *)

Owing(r) == {w \in Workers : wk[w].pc = "upload" /\ wk[w].rec = r}

CountInv ==
    \A r \in Records :
        /\ IsFiniteSet(Owing(r))
        /\ objects[r] + Cardinality(Owing(r)) <= msg[r].receives

(* Moving a message about does not count it. *)
LEMMA MovesKeepReceives ==
  ASSUME QueueTypeOK, NEW r \in Records, Add(r) \/ Delete(r) \/ Return(r) \/ DeadLetter(r)
  PROVE  \A s \in Records : msg'[s].receives = msg[s].receives
<1> USE DEF QueueTypeOK
<1>1. CASE Add(r)
  BY <1>1 DEF Add, Put
<1>2. CASE Delete(r)
  BY <1>2 DEF Delete, Put
<1>3. CASE Return(r)
  BY <1>3 DEF Return, Put
<1>4. CASE DeadLetter(r)
  BY <1>4 DEF DeadLetter, Put
<1>5. QED
  BY <1>1, <1>2, <1>3, <1>4

LEMMA CountInit == Init => CountInv
<1> SUFFICES ASSUME Init, NEW r \in Records
             PROVE  /\ IsFiniteSet(Owing(r))
                    /\ objects[r] + Cardinality(Owing(r)) <= msg[r].receives
  BY DEF CountInv
<1>1. Owing(r) = {}
  BY DEF Init, Owing, IdleWorker
<1>2. QED
  BY <1>1, FS_EmptySet DEF Init, QueueInit

(* Of one record: an invocation that stops owing an object takes none away. *)
LEMMA CountFrame ==
  ASSUME TypeOK, CountInv, NEW r \in Records,
         objects'[r] = objects[r], msg'[r].receives = msg[r].receives,
         Owing(r)' \subseteq Owing(r)
  PROVE  /\ IsFiniteSet(Owing(r)')
         /\ objects'[r] + Cardinality(Owing(r)') <= msg'[r].receives
<1>1. IsFiniteSet(Owing(r)) /\ objects[r] + Cardinality(Owing(r)) <= msg[r].receives
  BY DEF CountInv
<1>2. /\ IsFiniteSet(Owing(r)')
      /\ Cardinality(Owing(r)') <= Cardinality(Owing(r))
  BY <1>1, FS_Subset
<1>3. Cardinality(Owing(r)) \in Nat /\ Cardinality(Owing(r)') \in Nat
  BY <1>1, <1>2, FS_CardinalityType
<1>4. objects[r] \in Nat /\ msg[r].receives \in Nat
  BY MaxReceiveAssumption DEF TypeOK, QueueTypeOK
<1>5. QED
  BY <1>1, <1>2, <1>3, <1>4

LEMMA CountInductive == TypeOK /\ HoldsRecord /\ CountInv /\ [Next]_vars => CountInv'
<1> SUFFICES ASSUME TypeOK, HoldsRecord, CountInv, [Next]_vars PROVE CountInv'
  OBVIOUS
<1> USE DEF TypeOK
<1>1. ASSUME objects' = objects,
             \A r \in Records : msg'[r].receives = msg[r].receives,
             \A w \in Workers : wk'[w].pc = "upload" => wk'[w] = wk[w]
      PROVE  CountInv'
  <2>1. \A r \in Records : Owing(r)' \subseteq Owing(r)
    BY <1>1 DEF Owing
  <2>2. QED
    BY <1>1, <2>1, CountFrame DEF CountInv
<1>2. ASSUME NEW r \in Records, Create(r) \/ PostFails(r) PROVE CountInv'
  BY <1>1, <1>2 DEF Create, PostFails
<1>3. ASSUME NEW r \in Records, Enqueue(r) \/ Expire(r) \/ MoveToDlq(r) PROVE CountInv'
  <2>1. \A s \in Records : msg'[s].receives = msg[s].receives
    BY <1>3, MovesKeepReceives DEF Enqueue, Expire, MoveToDlq
  <2>2. QED
    BY <1>1, <1>3, <2>1 DEF Enqueue, Expire, MoveToDlq
<1>4. ASSUME NEW w \in Workers, NEW r \in Records, Start(w, r) PROVE CountInv'
  <2>1. /\ objects' = objects
        /\ msg'[r].receives = msg[r].receives + 1
        /\ \A s \in Records \ {r} : msg'[s] = msg[s]
        /\ wk[w].pc = "idle" /\ wk'[w].rec = r
        /\ \A v \in Workers \ {w} : wk'[v] = wk[v]
    BY <1>4 DEF Start, Receive, QueueTypeOK
  <2>2. w \notin Owing(r) /\ Owing(r)' \subseteq Owing(r) \cup {w}
    BY <2>1 DEF Owing
  <2>3. /\ IsFiniteSet(Owing(r)')
        /\ Cardinality(Owing(r)') <= Cardinality(Owing(r)) + 1
        /\ Cardinality(Owing(r)) \in Nat /\ Cardinality(Owing(r)') \in Nat
    <3>1. IsFiniteSet(Owing(r))
      BY DEF CountInv
    <3>2. /\ IsFiniteSet(Owing(r) \cup {w})
          /\ Cardinality(Owing(r) \cup {w}) = Cardinality(Owing(r)) + 1
      BY <2>2, <3>1, FS_AddElement
    <3>3. QED
      BY <2>2, <3>1, <3>2, FS_Subset, FS_CardinalityType
  <2>4. objects[r] \in Nat /\ msg[r].receives \in Nat
    BY MaxReceiveAssumption DEF QueueTypeOK
  <2>5. objects'[r] + Cardinality(Owing(r)') <= msg'[r].receives
    BY <2>1, <2>3, <2>4 DEF CountInv
  <2>6. \A s \in Records \ {r} : Owing(s)' \subseteq Owing(s)
    BY <2>1 DEF Owing
  <2>7. \A s \in Records \ {r} : /\ IsFiniteSet(Owing(s)')
                                 /\ objects'[s] + Cardinality(Owing(s)') <= msg'[s].receives
    BY <2>1, <2>6, CountFrame
  <2>8. QED
    BY <2>3, <2>5, <2>7 DEF CountInv
<1>5. ASSUME NEW w \in Workers, Upload(w) PROVE CountInv'
  <2>0. PICK r \in Records : r = wk[w].rec
    BY <1>5 DEF Upload, HoldsRecord
  <2>1. /\ w \in Owing(r)
        /\ msg' = msg
        /\ objects' = [objects EXCEPT ![r] = objects[r] + 1]
        /\ wk'[w].pc = "update"
        /\ \A v \in Workers \ {w} : wk'[v] = wk[v]
    BY <1>5, <2>0 DEF Upload, Store, Goto, Owing
  <2>2. Owing(r)' = Owing(r) \ {w}
    BY <2>1 DEF Owing
  <2>3. /\ IsFiniteSet(Owing(r)')
        /\ Cardinality(Owing(r)') = Cardinality(Owing(r)) - 1
        /\ Cardinality(Owing(r)) \in Nat
    BY <2>1, <2>2, FS_RemoveElement, FS_CardinalityType DEF CountInv
  <2>4. objects'[r] = objects[r] + 1 /\ objects[r] \in Nat /\ msg[r].receives \in Nat
    BY <2>1, MaxReceiveAssumption DEF QueueTypeOK
  <2>5. objects'[r] + Cardinality(Owing(r)') <= msg'[r].receives
    BY <2>1, <2>3, <2>4 DEF CountInv
  <2>6. \A s \in Records \ {r} : objects'[s] = objects[s] /\ Owing(s)' \subseteq Owing(s)
    BY <2>1 DEF Owing
  <2>7. \A s \in Records \ {r} : /\ IsFiniteSet(Owing(s)')
                                 /\ objects'[s] + Cardinality(Owing(s)') <= msg'[s].receives
    BY <2>1, <2>6, CountFrame
  <2>8. QED
    BY <2>3, <2>5, <2>7 DEF CountInv
<1>6. ASSUME NEW w \in Workers, Update(w) PROVE CountInv'
  BY <1>1, <1>6 DEF Update, Goto
<1>7. ASSUME NEW w \in Workers, Ack(w) \/ Throw(w) \/ Crash(w) PROVE CountInv'
  <2>1. \A s \in Records : msg'[s].receives = msg[s].receives
    BY <1>7, MovesKeepReceives DEF Ack, Throw, Crash, HoldsRecord
  <2>2. QED
    BY <1>1, <1>7, <2>1 DEF Ack, Throw, Crash, Leave, IdleWorker
<1>8. CASE UNCHANGED vars
  BY <1>1, <1>8 DEF vars
<1>9. QED
  BY <1>2, <1>3, <1>4, <1>5, <1>6, <1>7, <1>8 DEF Next, WorkerStep

(* However often a job fails or overlaps itself, a record never has        *)
(* more objects than its job had deliveries, and these are bounded by the  *)
(* dead-letter policy (evidence-worker.ts, uploadEvidence).                *)
THEOREM ObjectsBounded == Spec => []ObjectsAreDeliveries
<1>1. TypeOK /\ CountInv => ObjectsAreDeliveries
  <2> SUFFICES ASSUME TypeOK, CountInv, NEW r \in Records
               PROVE  objects[r] <= msg[r].receives /\ msg[r].receives <= MaxReceive
    BY DEF ObjectsAreDeliveries
  <2>1. Cardinality(Owing(r)) \in Nat /\ objects[r] + Cardinality(Owing(r)) <= msg[r].receives
    BY FS_CardinalityType DEF CountInv
  <2>2. objects[r] \in Nat /\ msg[r].receives \in 0..MaxReceive
    BY DEF TypeOK, QueueTypeOK
  <2>3. QED
    BY <2>1, <2>2, MaxReceiveAssumption
<1>2. QED
  BY <1>1, CountInit, CountInductive, TypeInvariant, PTL DEF Spec

-----------------------------------------------------------------------------
(* The invocation that is to write a key holds the latest object of its    *)
(* record, unless the job was overrun.                                     *)

LatestInv ==
    \A w \in Workers : wk[w].pc = "update" =>
        wk[w].obj = objects[wk[w].rec] \/ wk[w].rec \in overrun

LEMMA LatestInductive ==
  TypeOK /\ HoldsRecord /\ OneHolder /\ LatestInv /\ [Next]_vars => LatestInv'
<1> SUFFICES ASSUME TypeOK, HoldsRecord, OneHolder, LatestInv, [Next]_vars
             PROVE  LatestInv'
  OBVIOUS
<1> USE DEF TypeOK, LatestInv
<1>1. ASSUME objects' = objects, overrun \subseteq overrun',
             \A w \in Workers : wk'[w].pc = "update" => wk'[w] = wk[w]
      PROVE  LatestInv'
  BY <1>1
<1>2. ASSUME NEW r \in Records,
             Create(r) \/ PostFails(r) \/ Enqueue(r) \/ Expire(r) \/ MoveToDlq(r)
      PROVE  LatestInv'
  BY <1>1, <1>2 DEF Create, PostFails, Enqueue, Expire, MoveToDlq
<1>3. ASSUME NEW w \in Workers, NEW r \in Records, Start(w, r) PROVE LatestInv'
  BY <1>1, <1>3 DEF Start
<1>4. ASSUME NEW w \in Workers, Upload(w) PROVE LatestInv'
  <2>1. wk[w].pc # "idle" /\ wk[w].rec \in Records /\ overrun' = overrun
    BY <1>4 DEF Upload, HoldsRecord
  <2>2. /\ objects'[wk[w].rec] = objects[wk[w].rec] + 1
        /\ \A r \in Records \ {wk[w].rec} : objects'[r] = objects[r]
    BY <1>4, <2>1 DEF Upload, Store
  <2>3. /\ wk'[w] = [pc |-> "update", rec |-> wk[w].rec, obj |-> objects[wk[w].rec] + 1]
        /\ \A v \in Workers \ {w} : wk'[v] = wk[v]
    BY <1>4 DEF Upload, Goto
  <2>4. ASSUME NEW v \in Workers \ {w}, wk[v].pc # "idle", wk[v].rec \notin overrun
        PROVE  objects'[wk[v].rec] = objects[wk[v].rec]
    BY <2>1, <2>2, <2>4 DEF HoldsRecord, OneHolder
  <2>5. QED
    BY <2>1, <2>2, <2>3, <2>4
<1>5. ASSUME NEW w \in Workers, Update(w) \/ Ack(w) \/ Throw(w) \/ Crash(w)
      PROVE  LatestInv'
  BY <1>1, <1>5 DEF Update, Ack, Throw, Crash, Goto, Leave, IdleWorker
<1>6. CASE UNCHANGED vars
  BY <1>1, <1>6 DEF vars
<1>7. QED
  BY <1>2, <1>3, <1>4, <1>5, <1>6 DEF Next, WorkerStep

LEMMA LatestInvariant == Spec => [](TypeOK /\ HoldsRecord /\ LatestInv)
<1>1. Init => LatestInv
  BY DEF Init, LatestInv, IdleWorker
<1>2. QED
  BY <1>1, LatestInductive, HolderInvariant, PTL DEF Spec

(* A retry replaces the key of its row by a later one; an older one comes  *)
(* back only where two invocations overlapped (evidence-worker.ts,         *)
(* handler).                                                               *)
THEOREM KeysForward == Spec => KeysMoveForward
<1> DEFINE Forward == \A r \in Records : key'[r] >= key[r] \/ r \in overrun
<1>1. ASSUME TypeOK, HoldsRecord, LatestInv, RowNamesItsObject, [Next]_vars
      PROVE  [Forward]_vars
  <2> USE DEF TypeOK
  <2>1. ASSUME NEW w \in Workers, Update(w) PROVE Forward
    <3>1. wk[w].rec \in Records
          /\ (wk[w].obj = objects[wk[w].rec] \/ wk[w].rec \in overrun)
      BY <1>1, <2>1 DEF Update, HoldsRecord, LatestInv
    <3>2. key[wk[w].rec] <= objects[wk[w].rec]
      BY <1>1, <3>1 DEF RowNamesItsObject
    <3>3. QED
      BY <1>1, <2>1, <3>1, <3>2 DEF Update
  <2>2. CASE key' = key
    BY <1>1, <2>2
  <2>3. CASE UNCHANGED vars
    BY <2>3
  <2>4. Next => key' = key \/ \E w \in Workers : Update(w)
    BY DEF Next, WorkerStep, Create, Enqueue, PostFails, Upload, Ack, Throw, Crash, Start,
           Expire, MoveToDlq
  <2>5. QED
    BY <1>1, <2>1, <2>2, <2>3, <2>4
<1>2. QED
  BY <1>1, LatestInvariant, RowsNameObjects, PTL DEF Spec, KeysMoveForward

-----------------------------------------------------------------------------
(* What an acknowledgement means: a key that is written may be replaced,   *)
(* but is never taken back.                                                *)

StoredInv ==
    /\ AckedIsStored
    /\ \A w \in Workers : wk[w].pc = "update" => wk[w].obj # 0
    /\ \A w \in Workers : wk[w].pc = "ack" => key[wk[w].rec] # 0

LEMMA StoredInductive ==
  ASSUME Configured
  PROVE  TypeOK /\ HoldsRecord /\ StoredInv /\ [Next]_vars => StoredInv'
<1> SUFFICES ASSUME TypeOK, HoldsRecord, StoredInv, [Next]_vars PROVE StoredInv'
  OBVIOUS
<1> USE DEF TypeOK, QueueTypeOK, HoldsRecord, StoredInv, AckedIsStored
<1>1. ASSUME NEW r \in Records, Create(r) \/ PostFails(r) PROVE StoredInv'
  BY <1>1 DEF Create, PostFails
<1>2. ASSUME NEW r \in Records, Enqueue(r) PROVE StoredInv'
  BY <1>2 DEF Enqueue, Add, Put
<1>3. ASSUME NEW r \in Records, Expire(r) PROVE StoredInv'
  BY <1>3 DEF Expire, Return, Put
<1>4. ASSUME NEW r \in Records, MoveToDlq(r) PROVE StoredInv'
  BY <1>4 DEF MoveToDlq, DeadLetter, Put
<1>5. ASSUME NEW w \in Workers, NEW r \in Records, Start(w, r) PROVE StoredInv'
  BY <1>5 DEF Start, Receive
<1>6. ASSUME NEW w \in Workers, Upload(w) PROVE StoredInv'
  BY <1>6 DEF Upload, Goto
<1>7. ASSUME NEW w \in Workers, Update(w) PROVE StoredInv'
  <2>1. wk[w].rec \in Records /\ wk[w].obj # 0
    BY <1>7 DEF Update
  <2>2. \A r \in Records : key[r] # 0 => key'[r] # 0
    BY <1>7, <2>1 DEF Update
  <2>3. key'[wk[w].rec] # 0
    BY <1>7, <2>1 DEF Update
  <2>4. QED
    BY <1>7, <2>1, <2>2, <2>3 DEF Update, Goto
<1>8. ASSUME NEW w \in Workers, Ack(w) PROVE StoredInv'
  BY <1>8 DEF Ack, Delete, Put, Leave, IdleWorker
<1>9. ASSUME NEW w \in Workers, Throw(w) PROVE StoredInv'
  BY <1>9 DEF Throw, Return, Put, Leave, IdleWorker
<1>10. ASSUME NEW w \in Workers, Crash(w) PROVE StoredInv'
  BY <1>10 DEF Crash, Leave, IdleWorker
<1>11. CASE UNCHANGED vars
  BY <1>11 DEF vars
<1>12. QED
  BY <1>1, <1>2, <1>3, <1>4, <1>5, <1>6, <1>7, <1>8, <1>9, <1>10, <1>11
     DEF Next, WorkerStep

(* No job of a configured worker is acknowledged without its evidence,     *)
(* also when two invocations run it (evidence-worker.ts, handler).         *)
THEOREM AckedAreStored == ASSUME Configured PROVE Spec => []AckedIsStored
<1>1. Init => StoredInv
  BY DEF Init, QueueInit, StoredInv, AckedIsStored, IdleWorker
<1>2. StoredInv => AckedIsStored
  BY DEF StoredInv
<1>3. QED
  BY <1>1, <1>2, StoredInductive, TypeInvariant, PTL DEF Spec

=============================================================================
