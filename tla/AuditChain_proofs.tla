-------------------------- MODULE AuditChain_proofs --------------------------
(***************************************************************************)
(* Proofs about AuditChain, for any number of concurrent calls.            *)
(***************************************************************************)
EXTENDS AuditChain, Sequences, FiniteSetTheorems, WellFoundedInduction, TLAPS

(* What TypeOK leaves out because TLC has no set for it. *)
Fields == {"pc", "begunAt", "stamp", "prev", "seq"}

TypeInv ==
    /\ TypeOK
    /\ DOMAIN call = Calls
    /\ \A c \in Calls : DOMAIN call[c] = Fields

(* What every step leaves of the other calls, and of the locks. *)
LEMMA RowFields ==
  ASSUME NEW c \in Calls
  PROVE  /\ Row(c).entry = c
         /\ Row(c).createdAt = call[c].begunAt
         /\ Row(c).seq = call[c].seq
         /\ Row(c).prev = call[c].prev
BY DEF Row

LEMMA BeginEffect ==
  ASSUME TypeInv, NEW c \in Calls, Begin(c)
  PROVE  /\ call[c].pc = "idle"
         /\ DOMAIN call' = Calls /\ DOMAIN call'[c] = Fields
         /\ \A d \in Calls \ {c} : call'[d] = call[d]
         /\ call'[c].pc = "begun" /\ call'[c].begunAt = now
         /\ call'[c].stamp = call[c].stamp /\ call'[c].seq = call[c].seq
         /\ UNCHANGED <<logs, head, now>>
BY DEF TypeInv, Begin, Fields

LEMMA LockHeadEffect ==
  ASSUME TypeInv, NEW c \in Calls, LockHead(c)
  PROVE  /\ call[c].pc = "begun" /\ LockHolders = {}
         /\ DOMAIN call' = Calls /\ DOMAIN call'[c] = Fields
         /\ \A d \in Calls \ {c} : call'[d] = call[d]
         /\ call'[c].pc = "locked" /\ call'[c].begunAt = call[c].begunAt
         /\ call'[c].stamp = now
         /\ call'[c].prev = head.hash /\ call'[c].seq = head.seq + 1
         /\ UNCHANGED <<logs, head, now>>
BY DEF TypeInv, LockHead, Fields

LEMMA InsertEntryEffect ==
  ASSUME TypeInv, NEW c \in Calls, InsertEntry(c)
  PROVE  /\ call[c].pc = "locked"
         /\ DOMAIN call' = Calls /\ DOMAIN call'[c] = Fields
         /\ \A d \in Calls \ {c} : call'[d] = call[d]
         /\ call'[c].pc = "inserted" /\ call'[c].begunAt = call[c].begunAt
         /\ call'[c].stamp = call[c].stamp
         /\ call'[c].prev = call[c].prev /\ call'[c].seq = call[c].seq
         /\ UNCHANGED <<logs, head, now>>
BY DEF TypeInv, InsertEntry, Fields

LEMMA AdvanceHeadEffect ==
  ASSUME TypeInv, NEW c \in Calls, AdvanceHead(c)
  PROVE  /\ call[c].pc = "inserted"
         /\ DOMAIN call' = Calls /\ DOMAIN call'[c] = Fields
         /\ \A d \in Calls \ {c} : call'[d] = call[d]
         /\ call'[c].pc \in {"committed", "failed"} /\ call'[c].begunAt = call[c].begunAt
         /\ call'[c].stamp = call[c].stamp /\ call'[c].seq = call[c].seq
         /\ logs' = logs \cup {Row(c)}
         /\ head'.hash = Row(c).hash /\ head'.seq = Row(c).seq
         /\ now' = now
BY RowFields DEF TypeInv, AdvanceHead, Fields

LEMMA RollbackEffect ==
  ASSUME TypeInv, NEW c \in Calls, Rollback(c)
  PROVE  /\ call[c].pc \in InTransaction
         /\ DOMAIN call' = Calls /\ DOMAIN call'[c] = Fields
         /\ \A d \in Calls \ {c} : call'[d] = call[d]
         /\ call'[c].pc = "failed" /\ call'[c].begunAt = call[c].begunAt
         /\ call'[c].stamp = call[c].stamp /\ call'[c].seq = call[c].seq
         /\ UNCHANGED <<logs, head, now>>
BY DEF TypeInv, Rollback, Fields

-----------------------------------------------------------------------------
(* One transaction at a time holds the lock, and what it read under the    *)
(* lock is still the head.                                                 *)
LockInv ==
    /\ \A c, d \in LockHolders : c = d
    /\ \A c \in LockHolders : call[c].prev = head.hash /\ call[c].seq = head.seq + 1

(* The rows are as many as the head counts. *)
LinearInv ==
    /\ ChainIsLinear
    /\ IsFiniteSet(logs)
    /\ Cardinality(logs) = head.seq

EntryInv ==
    /\ \A d, e \in logs : d.entry = e.entry => d = e
    /\ \A e \in logs : call[e.entry].pc \in {"committed", "failed"}
    /\ \A c \in Calls : call[c].pc = "committed" => \E e \in logs : e.entry = c

IInv == TypeInv /\ LockInv /\ LinearInv /\ EntryInv

LEMMA Initially == Init => IInv
<1> SUFFICES ASSUME Init PROVE IInv
  OBVIOUS
<1>1. TypeInv
  BY MaxTimeAssumption DEF Init, TypeInv, TypeOK, Steps, Fields
<1>2. LockInv /\ EntryInv
  BY DEF Init, LockInv, LockHolders, EntryInv
<1>3. LinearInv
  BY FS_EmptySet DEF Init, LinearInv, ChainIsLinear
<1>4. QED
  BY <1>1, <1>2, <1>3 DEF IInv

LEMMA TypeInductive == TypeInv /\ LockInv /\ [Next]_vars => TypeInv'
<1> SUFFICES ASSUME TypeInv, LockInv, [Next]_vars PROVE TypeInv'
  OBVIOUS
<1> USE MaxTimeAssumption
<1>1. ASSUME NEW c \in Calls, Begin(c) PROVE TypeInv'
  BY <1>1, BeginEffect DEF TypeInv, TypeOK, Steps
<1>2. ASSUME NEW c \in Calls, LockHead(c) PROVE TypeInv'
  BY <1>2, LockHeadEffect DEF TypeInv, TypeOK, Steps
<1>3. ASSUME NEW c \in Calls, InsertEntry(c) PROVE TypeInv'
  BY <1>3, InsertEntryEffect DEF TypeInv, TypeOK, Steps
<1>4. ASSUME NEW c \in Calls, AdvanceHead(c) PROVE TypeInv'
  <2>1. call[c].seq \in Nat \ {0}
    BY <1>4, AdvanceHeadEffect DEF LockInv, LockHolders, TypeInv, TypeOK
  <2>2. QED
    BY <1>4, <2>1, AdvanceHeadEffect, RowFields DEF TypeInv, TypeOK, Steps
<1>5. ASSUME NEW c \in Calls, Rollback(c) PROVE TypeInv'
  BY <1>5, RollbackEffect DEF TypeInv, TypeOK, Steps
<1>6. CASE Tick
  BY <1>6 DEF Tick, TypeInv, TypeOK
<1>7. CASE UNCHANGED vars
  BY <1>7 DEF vars, TypeInv, TypeOK
<1>8. QED
  BY <1>1, <1>2, <1>3, <1>4, <1>5, <1>6, <1>7 DEF Next, Step

LEMMA LockInductive == TypeInv /\ LockInv /\ [Next]_vars => LockInv'
<1> SUFFICES ASSUME TypeInv, LockInv, [Next]_vars PROVE LockInv'
  OBVIOUS
<1>1. ASSUME NEW c \in Calls, Begin(c) PROVE LockInv'
  BY <1>1, BeginEffect DEF LockInv, LockHolders
<1>2. ASSUME NEW c \in Calls, LockHead(c) PROVE LockInv'
  BY <1>2, LockHeadEffect DEF LockInv, LockHolders
<1>3. ASSUME NEW c \in Calls, InsertEntry(c) PROVE LockInv'
  BY <1>3, InsertEntryEffect DEF LockInv, LockHolders
<1>4. ASSUME NEW c \in Calls, AdvanceHead(c) PROVE LockInv'
  BY <1>4, AdvanceHeadEffect DEF LockInv, LockHolders
<1>5. ASSUME NEW c \in Calls, Rollback(c) PROVE LockInv'
  BY <1>5, RollbackEffect DEF LockInv, LockHolders
<1>6. CASE Tick
  BY <1>6 DEF Tick, LockInv, LockHolders
<1>7. CASE UNCHANGED vars
  BY <1>7 DEF vars, LockInv, LockHolders
<1>8. QED
  BY <1>1, <1>2, <1>3, <1>4, <1>5, <1>6, <1>7 DEF Next, Step

(* Only AdvanceHead touches the rows or the head, and only under the lock. *)
LEMMA Elsewhere ==
  ASSUME TypeInv, [Next]_vars, \A c \in Calls : ~AdvanceHead(c)
  PROVE  logs' = logs /\ head' = head
<1>1. \A c \in Calls : Step(c) => logs' = logs /\ head' = head
  BY BeginEffect, LockHeadEffect, InsertEntryEffect, RollbackEffect DEF Step
<1>2. QED
  BY <1>1 DEF Next, Tick, vars

(* The row a call commits is the next one after the head. *)
LEMMA CommittedRow ==
  ASSUME TypeInv, LockInv, LinearInv, NEW c \in Calls, AdvanceHead(c)
  PROVE  /\ head.seq \in Nat
         /\ Row(c).seq = head.seq + 1
         /\ Row(c).prev = head.hash
         /\ \A e \in logs : e.seq \in 1..head.seq
         /\ Row(c) \notin logs
         /\ logs' = logs \cup {Row(c)}
         /\ head'.seq = head.seq + 1
         /\ head'.hash = Row(c).hash
<1>1. /\ c \in LockHolders
      /\ logs' = logs \cup {Row(c)}
      /\ head'.hash = Row(c).hash /\ head'.seq = Row(c).seq
  BY AdvanceHeadEffect DEF LockHolders
<1>2. Row(c).seq = head.seq + 1 /\ Row(c).prev = head.hash
  BY <1>1, RowFields DEF LockInv
<1>3. head.seq \in Nat /\ \A e \in logs : e.seq \in 1..head.seq
  BY DEF LinearInv, ChainIsLinear, TypeInv, TypeOK
<1>4. QED
  BY <1>1, <1>2, <1>3

LEMMA LinearInductive ==
  TypeInv /\ LockInv /\ LinearInv /\ [Next]_vars => LinearInv'
<1> SUFFICES ASSUME TypeInv, LockInv, LinearInv, [Next]_vars PROVE LinearInv'
  OBVIOUS
<1>1. ASSUME NEW c \in Calls, AdvanceHead(c) PROVE LinearInv'
  <2>1. /\ head.seq \in Nat
        /\ Row(c).seq = head.seq + 1
        /\ Row(c).prev = head.hash
        /\ \A e \in logs : e.seq \in 1..head.seq
        /\ Row(c) \notin logs
        /\ logs' = logs \cup {Row(c)}
        /\ head'.seq = head.seq + 1
        /\ head'.hash = Row(c).hash
    BY <1>1, CommittedRow
  <2>2. IsFiniteSet(logs') /\ Cardinality(logs') = head'.seq
    BY <2>1, FS_AddElement DEF LinearInv
  <2>3. {e.seq : e \in logs'} = 1..head'.seq
    BY <2>1 DEF LinearInv, ChainIsLinear
  <2>4. \A d, e \in logs' : d.seq = e.seq => d = e
    BY <2>1 DEF LinearInv, ChainIsLinear
  <2>5. \A e \in logs' : e.seq = 1 => e.prev = Genesis
    BY <2>1 DEF LinearInv, ChainIsLinear
  <2>6. \A d, e \in logs' : e.seq = d.seq + 1 => e.prev = d.hash
    <3> SUFFICES ASSUME NEW d \in logs', NEW e \in logs', e.seq = d.seq + 1
                 PROVE  e.prev = d.hash
      OBVIOUS
    <3>1. CASE d \in logs /\ e \in logs
      BY <3>1 DEF LinearInv, ChainIsLinear
    <3>2. CASE d \in logs /\ e = Row(c)
      BY <2>1, <3>2 DEF LinearInv, ChainIsLinear
    <3>3. CASE d = Row(c)
      BY <2>1, <3>3
    <3>4. QED
      BY <2>1, <3>1, <3>2, <3>3
  <2>7. \A e \in logs' : e.seq = head'.seq => e.hash = head'.hash
    BY <2>1
  <2>8. QED
    BY <2>1, <2>2, <2>3, <2>4, <2>5, <2>6, <2>7 DEF LinearInv, ChainIsLinear
<1>2. CASE \A c \in Calls : ~AdvanceHead(c)
  BY <1>2, Elsewhere DEF LinearInv, ChainIsLinear
<1>3. QED
  BY <1>1, <1>2

LEMMA EntryInductive == TypeInv /\ EntryInv /\ [Next]_vars => EntryInv'
<1> SUFFICES ASSUME TypeInv, EntryInv, [Next]_vars PROVE EntryInv'
  OBVIOUS
<1> USE DEF EntryInv, InTransaction
<1>1. ASSUME NEW c \in Calls, Begin(c) PROVE EntryInv'
  BY <1>1, BeginEffect DEF TypeInv, TypeOK
<1>2. ASSUME NEW c \in Calls, LockHead(c) PROVE EntryInv'
  BY <1>2, LockHeadEffect DEF TypeInv, TypeOK
<1>3. ASSUME NEW c \in Calls, InsertEntry(c) PROVE EntryInv'
  BY <1>3, InsertEntryEffect DEF TypeInv, TypeOK
<1>4. ASSUME NEW c \in Calls, AdvanceHead(c) PROVE EntryInv'
  <2>1. \A e \in logs : e.entry # c
    BY <1>4, AdvanceHeadEffect
  <2>2. QED
    BY <1>4, <2>1, AdvanceHeadEffect, RowFields DEF TypeInv, TypeOK
<1>5. ASSUME NEW c \in Calls, Rollback(c) PROVE EntryInv'
  BY <1>5, RollbackEffect DEF TypeInv, TypeOK
<1>6. CASE Tick
  BY <1>6 DEF Tick
<1>7. CASE UNCHANGED vars
  BY <1>7 DEF vars
<1>8. QED
  BY <1>1, <1>2, <1>3, <1>4, <1>5, <1>6, <1>7 DEF Next, Step

LEMMA ChainInvariant == Spec => []IInv
<1>1. IInv /\ [Next]_vars => IInv'
  BY TypeInductive, LockInductive, LinearInductive, EntryInductive DEF IInv
<1>2. QED
  BY Initially, <1>1, PTL DEF Spec

(* TypeOK holds of any number of calls. *)
THEOREM TypeCorrect == Spec => []TypeOK
<1>1. IInv => TypeOK
  BY DEF IInv, TypeInv
<1>2. QED
  BY ChainInvariant, <1>1, PTL

(* However many calls race, fail or are rolled back, the chain never forks *)
(* and never skips a number.                                               *)
THEOREM ChainLinear == Spec => []ChainIsLinear
<1>1. IInv => ChainIsLinear
  BY DEF IInv, LinearInv
<1>2. QED
  BY ChainInvariant, <1>1, PTL

(* No call is recorded twice, and none that reports success is missing. *)
THEOREM OneEntryEach == Spec => []OneEntryPerCall
<1>1. IInv => OneEntryPerCall
  BY DEF IInv, EntryInv, OneEntryPerCall
<1>2. QED
  BY ChainInvariant, <1>1, PTL

-----------------------------------------------------------------------------
(* What verifyChain reads of a chain nobody but logChained has touched.    *)

Stamp(e) == e.entryHash.stamp

(* The timestamps follow the sequence numbers, because they are read under *)
(* the lock under which the number is.                                     *)
StampInv ==
    /\ \A e \in logs : e.hash = ChainHash(e.prev, e.entryHash) /\ Stamp(e) \in 0..now
    /\ \A d, e \in logs : d.seq < e.seq => Stamp(d) <= Stamp(e)
    /\ \A e \in logs, c \in LockHolders : Stamp(e) <= call[c].stamp

LEMMA RowStamp ==
  ASSUME NEW c \in Calls
  PROVE  /\ Row(c).hash = ChainHash(Row(c).prev, Row(c).entryHash)
         /\ Stamp(Row(c)) = call[c].stamp
BY DEF Row, EntryHash, Stamp

LEMMA StampInductive == IInv /\ StampInv /\ [Next]_vars => StampInv'
<1> SUFFICES ASSUME IInv, StampInv, [Next]_vars PROVE StampInv'
  OBVIOUS
<1> USE DEF IInv
<1>1. ASSUME NEW c \in Calls, Begin(c) PROVE StampInv'
  BY <1>1, BeginEffect DEF StampInv, LockHolders, Stamp
<1>2. ASSUME NEW c \in Calls, LockHead(c) PROVE StampInv'
  <2>1. /\ logs' = logs /\ now' = now /\ now \in Nat
        /\ call'[c].stamp = now
        /\ \A d \in LockHolders' \ {c} : d \in LockHolders /\ call'[d] = call[d]
    BY <1>2, LockHeadEffect, MaxTimeAssumption DEF LockHolders, TypeInv, TypeOK
  <2>2. \A e \in logs : Stamp(e) <= now
    BY <2>1 DEF StampInv
  <2>3. QED
    BY <2>1, <2>2 DEF StampInv, Stamp
<1>3. ASSUME NEW c \in Calls, InsertEntry(c) PROVE StampInv'
  BY <1>3, InsertEntryEffect DEF StampInv, LockHolders, Stamp
<1>4. ASSUME NEW c \in Calls, AdvanceHead(c) PROVE StampInv'
  <2>1. /\ c \in LockHolders
        /\ LockHolders' = {} /\ now' = now
        /\ logs' = logs \cup {Row(c)}
    BY <1>4, AdvanceHeadEffect DEF LockHolders, LockInv
  <2>2. \A e \in logs : e.seq < Row(c).seq /\ Stamp(e) <= Stamp(Row(c))
    BY <1>4, <2>1, CommittedRow, RowStamp DEF StampInv
  <2>3. \A e \in logs : ~(Row(c).seq < e.seq)
    BY <1>4, CommittedRow
  <2>4. Row(c).hash = ChainHash(Row(c).prev, Row(c).entryHash) /\ Stamp(Row(c)) \in 0..now
    BY RowStamp DEF TypeInv, TypeOK
  <2>5. ~(Row(c).seq < Row(c).seq)
    BY <1>4, CommittedRow
  <2>6. \A d, e \in logs' : d.seq < e.seq => Stamp(d) <= Stamp(e)
    BY <2>1, <2>2, <2>3, <2>5 DEF StampInv
  <2>7. QED
    BY <2>1, <2>4, <2>6 DEF StampInv, Stamp
<1>5. ASSUME NEW c \in Calls, Rollback(c) PROVE StampInv'
  BY <1>5, RollbackEffect DEF StampInv, LockHolders, Stamp
<1>6. CASE Tick
  BY <1>6, MaxTimeAssumption DEF Tick, StampInv, LockHolders, Stamp, TypeInv, TypeOK
<1>7. CASE UNCHANGED vars
  BY <1>7 DEF vars, StampInv, LockHolders, Stamp
<1>8. QED
  BY <1>1, <1>2, <1>3, <1>4, <1>5, <1>6, <1>7 DEF Next, Step

LEMMA LeastNumber ==
  ASSUME NEW T, T \subseteq Nat, T # {}
  PROVE  \E x \in T : \A y \in T : x <= y
<1>1. PICK x \in T : \A y \in T : <<y, x>> \notin OpToRel(<, Nat)
  BY NatLessThanWellFounded, WFMin
<1>2. \A y \in T : ~(y < x)
  BY <1>1 DEF OpToRel
<1>3. QED
  BY <1>2

LEMMA GreatestNumber ==
  ASSUME NEW T, T \subseteq Nat, T # {}, NEW n \in Nat, \A y \in T : y <= n
  PROVE  \E x \in T : \A y \in T : y <= x
<1> DEFINE gaps == {n - y : y \in T}
<1>1. gaps \subseteq Nat /\ gaps # {}
  <2>1. \A y \in T : n - y \in Nat
    OBVIOUS
  <2>2. PICK y \in T : TRUE
    OBVIOUS
  <2>3. n - y \in gaps
    OBVIOUS
  <2>4. QED
    BY <2>1, <2>3
<1>2. PICK g \in gaps : \A h \in gaps : g <= h
  <2> HIDE DEF gaps
  <2>1. QED
    BY <1>1, LeastNumber
<1>3. PICK x \in T : g = n - x
  BY DEF gaps
<1>4. \A y \in T : y <= x
  BY <1>2, <1>3
<1>5. QED
  BY <1>4

(* A strictly growing sequence of the numbers 1..n is 1, 2, ..., n. *)
LEMMA GrowingIsIdentity ==
  ASSUME NEW n \in Nat, NEW f \in [1..n -> 1..n],
         \A i, j \in 1..n : i < j => f[i] < f[j]
  PROVE  \A i \in 1..n : f[i] = i
<1>1. \A i \in 1..n : f[i] >= i
  <2> DEFINE T == {i \in 1..n : f[i] < i}
  <2>1. SUFFICES ASSUME T # {} PROVE FALSE
    BY <2>1
  <2>2. T \subseteq Nat
    OBVIOUS
  <2>3. PICK i \in T : \A j \in T : i <= j
    <3> HIDE DEF T
    <3>1. QED
      BY <2>1, <2>2, LeastNumber
  <2>4. i \in 1..n /\ f[i] < i /\ f[i] \in 1..n
    BY <2>3
  <2>5. i - 1 \in 1..n /\ i - 1 \notin T
    BY <2>3, <2>4
  <2>6. f[i - 1] >= i - 1 /\ f[i - 1] < f[i] /\ f[i - 1] \in 1..n
    BY <2>4, <2>5
  <2>7. QED
    BY <2>4, <2>6
<1>2. \A i \in 1..n : f[i] <= i
  <2> DEFINE T == {i \in 1..n : f[i] > i}
  <2>1. SUFFICES ASSUME T # {} PROVE FALSE
    BY <2>1
  <2>2. T \subseteq Nat /\ \A i \in T : i <= n
    OBVIOUS
  <2>3. PICK i \in T : \A j \in T : j <= i
    <3> HIDE DEF T
    <3>1. QED
      BY <2>1, <2>2, GreatestNumber
  <2>4. i \in 1..n /\ f[i] > i /\ f[i] \in 1..n
    BY <2>3
  <2>5. i + 1 \in 1..n /\ i + 1 \notin T
    BY <2>3, <2>4
  <2>6. f[i + 1] <= i + 1 /\ f[i] < f[i + 1] /\ f[i + 1] \in 1..n
    BY <2>4, <2>5
  <2>7. QED
    BY <2>4, <2>6
<1>3. QED
  BY <1>1, <1>2

(* Where created_at is the hashed timestamp and tells the rows apart, the  *)
(* rows ORDER BY created_at are in the order of their numbers.             *)
LEMMA PunctualOrder ==
  ASSUME IInv, StampInv, Punctual, NEW o \in Orders
  PROVE  DOMAIN o = 1..head.seq /\ \A i \in 1..head.seq : o[i] \in logs /\ o[i].seq = i
<1> DEFINE n == head.seq
           f == [i \in 1..n |-> o[i].seq]
<1>1. n \in Nat /\ Cardinality(logs) = n
  BY DEF IInv, LinearInv, TypeInv, TypeOK
<1>2. /\ o \in [1..n -> logs]
      /\ \A i, j \in 1..n : o[i] = o[j] => i = j
      /\ \A i, j \in 1..n : i <= j => o[i].createdAt <= o[j].createdAt
  BY <1>1 DEF Orders
<1>3. \A e \in logs : e.seq \in 1..n
  BY DEF IInv, LinearInv, ChainIsLinear
<1>4. f \in [1..n -> 1..n]
  BY <1>2, <1>3
<1>5. \A e \in logs : Stamp(e) = e.createdAt /\ Stamp(e) \in Nat
  <2>1. \A e \in logs : Stamp(e) = e.createdAt
    <3> SUFFICES ASSUME NEW e \in logs PROVE e.entryHash.stamp = e.createdAt
      BY DEF Stamp
    <3>1. e.entryHash = [entry |-> e.entry, stamp |-> e.createdAt]
      BY DEF Punctual, EntryHash
    <3>2. QED
      BY <3>1
  <2>2. now \in Nat /\ \A e \in logs : Stamp(e) \in 0..now
    BY MaxTimeAssumption DEF StampInv, IInv, TypeInv, TypeOK
  <2>3. QED
    BY <2>1, <2>2
<1>6. ASSUME NEW i \in 1..n, NEW j \in 1..n, i < j PROVE f[i] < f[j]
  <2>1. /\ o[i] \in logs /\ o[j] \in logs /\ o[i] # o[j]
        /\ o[i].createdAt <= o[j].createdAt
    BY <1>2, <1>6
  <2>2. o[i].createdAt # o[j].createdAt
    BY <2>1 DEF Punctual
  <2>3. ~(Stamp(o[j]) <= Stamp(o[i]))
    BY <1>5, <2>1, <2>2
  <2>4. ~(o[j].seq < o[i].seq)
    BY <2>1, <2>3 DEF StampInv
  <2>5. o[i].seq # o[j].seq
    BY <2>1 DEF IInv, LinearInv, ChainIsLinear
  <2>6. QED
    BY <1>3, <2>1, <2>4, <2>5
<1>7. \A i \in 1..n : f[i] = i
  <2> HIDE DEF f, n
  <2>1. QED
    BY <1>1, <1>4, <1>6, GrowingIsIdentity
<1>8. QED
  BY <1>2, <1>7

(* The timestamp and the order that verifyChain takes from created_at are  *)
(* the only reasons for which it reports an untouched chain as broken.     *)
THEOREM PunctualVerifies == Spec => []PunctualChainVerifies
<1>1. Init => StampInv
  BY DEF Init, StampInv, LockHolders
<1>2. IInv /\ StampInv => PunctualChainVerifies
  <2> SUFFICES ASSUME IInv, StampInv, Punctual, NEW o \in Orders PROVE Verifies(o)
    BY DEF PunctualChainVerifies, UntouchedChainVerifies
  <2>1. DOMAIN o = 1..head.seq /\ \A i \in 1..head.seq : o[i] \in logs /\ o[i].seq = i
    BY PunctualOrder
  <2>2. ASSUME NEW i \in DOMAIN o
        PROVE  /\ EntryHash(o[i].entry, o[i].createdAt) = o[i].entryHash
               /\ ChainHash(o[i].prev, o[i].entryHash) = o[i].hash
               /\ o[i].prev = IF i = 1 THEN Genesis ELSE o[i - 1].hash
    <3>1. i \in 1..head.seq /\ head.seq \in Nat /\ o[i] \in logs /\ o[i].seq = i
      BY <2>1 DEF IInv, TypeInv, TypeOK
    <3>2. i # 1 => o[i - 1] \in logs /\ o[i - 1].seq = i - 1
      BY <2>1, <3>1
    <3>3. i # 1 => o[i].prev = o[i - 1].hash
      BY <3>1, <3>2 DEF IInv, LinearInv, ChainIsLinear
    <3>4. i = 1 => o[i].prev = Genesis
      BY <3>1 DEF IInv, LinearInv, ChainIsLinear
    <3>5. QED
      BY <3>1, <3>3, <3>4 DEF Punctual, StampInv
  <2>3. QED
    BY <2>2 DEF Verifies
<1>3. QED
  BY <1>1, <1>2, StampInductive, ChainInvariant, PTL DEF Spec

-----------------------------------------------------------------------------
(* The refinement: the entries in the order of their numbers. *)
Size == Cardinality(logs)
Sequence == [i \in 1..Size |-> At(i)]

LEMMA AtEntry ==
  ASSUME LinearInv, NEW e \in logs
  PROVE  At(e.seq) = e.entry
<1>1. {d \in logs : d.seq = e.seq} = {e}
  BY DEF LinearInv, ChainIsLinear
<1>2. (CHOOSE d \in {e} : TRUE) = e
  OBVIOUS
<1>3. QED
  BY <1>1, <1>2 DEF At

LEMMA SequenceFacts ==
  ASSUME TypeInv, LinearInv
  PROVE  /\ Sequence \in Seq(Calls)
         /\ Len(Sequence) = head.seq
         /\ \A i \in 1..head.seq : \E e \in logs : e.seq = i /\ Sequence[i] = e.entry
<1>1. Size = head.seq /\ Size \in Nat
  BY DEF LinearInv, Size, TypeInv, TypeOK
<1>2. ASSUME NEW i \in 1..Size
      PROVE  \E e \in logs : e.seq = i /\ Sequence[i] = e.entry
  <2>1. PICK e \in logs : e.seq = i
    BY <1>1 DEF LinearInv, ChainIsLinear
  <2>2. QED
    BY <2>1, AtEntry DEF Sequence
<1>3. \A i \in 1..Size : Sequence[i] \in Calls
  BY <1>2 DEF TypeInv, TypeOK
<1>4. Sequence \in [1..Size -> Calls]
  BY <1>3 DEF Sequence
<1>5. QED
  BY <1>1, <1>2, <1>4

(* A COMMIT appends its entry to the sequence. *)
LEMMA CommitAppends ==
  ASSUME IInv, IInv', NEW c \in Calls, AdvanceHead(c)
  PROVE  /\ c \notin {Sequence[i] : i \in DOMAIN Sequence}
         /\ Sequence' = Append(Sequence, c)
<1> USE DEF IInv
<1>1. /\ head.seq \in Nat
      /\ Row(c).seq = head.seq + 1
      /\ \A e \in logs : e.seq \in 1..head.seq
      /\ logs' = logs \cup {Row(c)}
      /\ head'.seq = head.seq + 1
  BY CommittedRow
<1>2. Row(c).entry = c
  BY RowFields
<1>3. /\ Sequence \in Seq(Calls)
      /\ Len(Sequence) = head.seq
      /\ \A i \in 1..head.seq : \E e \in logs : e.seq = i /\ Sequence[i] = e.entry
  BY SequenceFacts
<1>4. /\ Sequence' \in Seq(Calls)
      /\ Len(Sequence') = head.seq + 1
      /\ \A i \in 1..(head.seq + 1) : \E e \in logs' : e.seq = i /\ Sequence'[i] = e.entry
  <2>1. /\ (Sequence \in Seq(Calls))'
        /\ (Len(Sequence) = head.seq)'
        /\ (\A i \in 1..head.seq : \E e \in logs : e.seq = i /\ Sequence[i] = e.entry)'
    BY SequenceFacts, PTL
  <2>2. QED
    BY <1>1, <2>1
<1>5. Size = head.seq /\ Size' = head.seq + 1
  BY <1>1 DEF LinearInv, Size
<1>6. \A d, e \in logs : d.seq = e.seq => d = e
  BY DEF LinearInv, ChainIsLinear
<1>7. c \notin {Sequence[i] : i \in DOMAIN Sequence}
  <2>1. \A e \in logs : e.entry # c
    BY AdvanceHeadEffect DEF EntryInv
  <2>2. DOMAIN Sequence = 1..head.seq
    BY <1>5 DEF Sequence
  <2>3. QED
    BY <1>3, <2>1, <2>2
<1>8. Sequence' = Append(Sequence, c)
  <2>1. \A i \in 1..head.seq : Sequence'[i] = Sequence[i]
    <3> SUFFICES ASSUME NEW i \in 1..head.seq PROVE Sequence'[i] = Sequence[i]
      OBVIOUS
    <3>1. PICK d \in logs : d.seq = i /\ Sequence[i] = d.entry
      BY <1>3
    <3>2. PICK e \in logs' : e.seq = i /\ Sequence'[i] = e.entry
      BY <1>1, <1>4
    <3>3. e # Row(c)
      BY <1>1, <3>2
    <3>4. QED
      BY <1>1, <1>6, <3>1, <3>2, <3>3
  <2>2. Sequence'[head.seq + 1] = c
    BY <1>1, <1>2, <1>4
  <2>3. DOMAIN Sequence' = 1..(head.seq + 1)
    BY <1>5 DEF Sequence
  <2>4. QED
    BY <1>1, <1>3, <1>4, <2>1, <2>2, <2>3
<1>9. QED
  BY <1>7, <1>8

(* The chain implements an append-only log, for any number of calls. *)
THEOREM ChainKeepsLog == Spec => KeepsLog
<1> DEFINE log == [i \in 1..Cardinality(logs) |-> At(i)]
<1>1. Init => Log!Init
  BY FS_EmptySet DEF Init, Log!Init
<1>2. IInv /\ IInv' /\ [Next]_vars => [Log!Next]_<<log, FALSE>>
  <2> SUFFICES ASSUME IInv, IInv', [Next]_vars
               PROVE  Log!Next \/ UNCHANGED <<log, FALSE>>
    OBVIOUS
  <2>1. CASE \A c \in Calls : ~AdvanceHead(c)
    <3>1. logs' = logs
      BY <2>1, Elsewhere DEF IInv
    <3>2. QED
      BY <3>1 DEF At
  <2>2. ASSUME NEW c \in Calls, AdvanceHead(c) PROVE Log!Next
    <3>1. /\ c \notin {Sequence[i] : i \in DOMAIN Sequence}
          /\ Sequence' = Append(Sequence, c)
      BY <2>2, CommitAppends
    <3>2. log = Sequence /\ log' = Sequence'
      BY DEF Sequence, Size
    <3>3. Log!Record(c)
      BY <3>1, <3>2 DEF Log!Record, Log!Recorded
    <3>4. QED
      BY <3>3 DEF Log!Next
  <2>3. QED
    BY <2>1, <2>2
<1>3. QED
  BY <1>1, <1>2, ChainInvariant, PTL DEF Spec, KeepsLog, Log!Spec

=============================================================================
