------------------------ MODULE EvidenceChain_proofs ------------------------
(***************************************************************************)
(* Proofs about EvidenceChain, for any calls, keys, attempts and bounds.   *)
(***************************************************************************)
EXTENDS EvidenceChain, Sequences, FiniteSetTheorems, WellFoundedInduction, TLAPS

(* What TypeOK leaves out because TLC has no set for it: the fields of a   *)
(* call, and that a row is what Entry built.                               *)
Fields == {"pc", "attempt", "key", "prev", "seq", "stamp"}

Shape ==
    /\ DOMAIN call = Calls
    /\ \A c \in Calls : DOMAIN call[c] = Fields
    /\ \A e \in rows : \E k \in SigningKeys :
          e = Entry(e.evidence, e.prev, e.seq, e.stamp, k)

TypeInv == TypeOK /\ Shape

(* Each action, field by field. *)
LEMMA ReadTailEffect ==
  ASSUME TypeInv, NEW c \in Calls, ReadTail(c)
  PROVE  /\ call[c].pc = "read"
         /\ DOMAIN call' = Calls
         /\ DOMAIN call'[c] = Fields
         /\ \A d \in Calls \ {c} : call'[d] = call[d]
         /\ call'[c].pc = "insert"
         /\ call'[c].attempt = call[c].attempt
         /\ call'[c].key = call[c].key
         /\ call'[c].stamp = now
         /\ \/ rows = {} /\ call'[c].seq = 1 /\ call'[c].prev = Genesis
            \/ \E tail \in rows : /\ IsTail(tail)
                                  /\ call'[c].seq = tail.seq + 1
                                  /\ call'[c].prev = tail.hash
         /\ UNCHANGED <<rows, now, lost>>
BY DEF TypeInv, Shape, ReadTail, Guess, Fields

LEMMA InsertEffect ==
  ASSUME TypeInv, NEW c \in Calls, Insert(c)
  PROVE  /\ call[c].pc = "insert"
         /\ ~Taken(call[c].seq)
         /\ DOMAIN call' = Calls
         /\ DOMAIN call'[c] = Fields
         /\ \A d \in Calls \ {c} : call'[d] = call[d]
         /\ call'[c].pc \in {"returned", "failed"}
         /\ call'[c].attempt = call[c].attempt
         /\ call'[c].key = call[c].key
         /\ call'[c].seq = call[c].seq
         /\ call'[c].stamp = call[c].stamp
         /\ rows' = rows \cup {NewEntry(c)}
         /\ UNCHANGED <<now, lost>>
BY DEF TypeInv, Shape, Insert, Fields

LEMMA ConflictEffect ==
  ASSUME TypeInv, NEW c \in Calls, Conflict(c)
  PROVE  /\ call[c].pc = "insert"
         /\ Taken(call[c].seq)
         /\ DOMAIN call' = Calls
         /\ DOMAIN call'[c] = Fields
         /\ \A d \in Calls \ {c} : call'[d] = call[d]
         /\ \/ /\ call[c].attempt < MaxAttempts
               /\ call'[c].pc = "read"
               /\ call'[c].attempt = call[c].attempt + 1
            \/ /\ call[c].attempt >= MaxAttempts
               /\ call'[c].pc = "exhausted"
               /\ call'[c].attempt = call[c].attempt
         /\ call'[c].key = call[c].key
         /\ call'[c].seq = call[c].seq
         /\ call'[c].stamp = call[c].stamp
         /\ UNCHANGED <<rows, now, lost>>
BY DEF TypeInv, Shape, Conflict, Fields

LEMMA FailEffect ==
  ASSUME TypeInv, NEW c \in Calls, Fail(c)
  PROVE  /\ call[c].pc \in {"read", "insert"}
         /\ DOMAIN call' = Calls
         /\ DOMAIN call'[c] = Fields
         /\ \A d \in Calls \ {c} : call'[d] = call[d]
         /\ call'[c].pc = "failed"
         /\ call'[c].attempt = call[c].attempt
         /\ call'[c].key = call[c].key
         /\ call'[c].seq = call[c].seq
         /\ call'[c].stamp = call[c].stamp
         /\ UNCHANGED <<rows, now, lost>>
BY DEF TypeInv, Shape, Fail, Fields

(* An entry's fields are the arguments it was built from. *)
LEMMA EntryFields ==
  ASSUME NEW c, NEW prev, NEW seq, NEW stamp, NEW k
  PROVE  LET e == Entry(c, prev, seq, stamp, k)
         IN  /\ e.evidence = c
             /\ e.prev = prev
             /\ e.seq = seq
             /\ e.stamp = stamp
             /\ e.hash = Canonical(c, prev, seq, stamp)
             /\ e.mac = Sign(k, Canonical(c, prev, seq, stamp))
BY DEF Entry

LEMMA NewEntryFields ==
  ASSUME NEW c \in Calls
  PROVE  /\ NewEntry(c).evidence = c
         /\ NewEntry(c).prev = call[c].prev
         /\ NewEntry(c).seq = call[c].seq
         /\ NewEntry(c).stamp = call[c].stamp
         /\ NewEntry(c) = Entry(NewEntry(c).evidence, NewEntry(c).prev, NewEntry(c).seq,
                                NewEntry(c).stamp, call[c].key)
BY EntryFields DEF NewEntry

LEMMA TypeInductive == TypeInv /\ [Next]_vars => TypeInv'
<1> SUFFICES ASSUME TypeInv, [Next]_vars PROVE TypeInv'
  OBVIOUS
<1> USE AttemptsAssumption, BoundsAssumption
<1>1. ASSUME NEW c \in Calls, ReadTail(c) PROVE TypeInv'
  <2>1. call'[c].seq \in Nat \ {0}
    BY <1>1, ReadTailEffect DEF TypeInv, TypeOK
  <2>2. TypeOK'
    BY <1>1, <2>1, ReadTailEffect DEF TypeInv, TypeOK, Steps
  <2>3. Shape'
    BY <1>1, ReadTailEffect DEF TypeInv, Shape
  <2>4. QED
    BY <2>2, <2>3 DEF TypeInv
<1>2. ASSUME NEW c \in Calls, Insert(c) PROVE TypeInv'
  <2>1. TypeOK'
    BY <1>2, InsertEffect, NewEntryFields DEF TypeInv, TypeOK, Steps
  <2>2. call[c].key \in SigningKeys
    BY DEF TypeInv, TypeOK
  <2>3. \A e \in rows' : \E k \in SigningKeys :
           e = Entry(e.evidence, e.prev, e.seq, e.stamp, k)
    BY <1>2, <2>2, InsertEffect, NewEntryFields DEF TypeInv, Shape
  <2>4. DOMAIN call' = Calls /\ \A d \in Calls : DOMAIN call'[d] = Fields
    BY <1>2, InsertEffect DEF TypeInv, Shape
  <2>5. QED
    BY <2>1, <2>3, <2>4 DEF TypeInv, Shape
<1>3. ASSUME NEW c \in Calls, Conflict(c) PROVE TypeInv'
  BY <1>3, ConflictEffect DEF TypeInv, TypeOK, Shape, Steps
<1>4. ASSUME NEW c \in Calls, Fail(c) PROVE TypeInv'
  BY <1>4, FailEffect DEF TypeInv, TypeOK, Shape, Steps
<1>5. CASE Tick
  BY <1>5 DEF Tick, TypeInv, TypeOK, Shape
<1>6. CASE LoseRow
  BY <1>6 DEF LoseRow, TypeInv, TypeOK, Shape
<1>7. CASE UNCHANGED vars
  BY <1>7 DEF vars, TypeInv, TypeOK, Shape
<1>8. QED
  BY <1>1, <1>2, <1>3, <1>4, <1>5, <1>6, <1>7 DEF Next, Step

LEMMA TypeInit == Init => TypeInv
<1> SUFFICES ASSUME Init PROVE TypeInv
  OBVIOUS
<1> USE AttemptsAssumption, BoundsAssumption
<1>1. PICK signer \in [Calls -> SigningKeys] : call = [c \in Calls |-> FirstAttempt(signer[c])]
  BY DEF Init
<1>2. QED
  BY <1>1 DEF Init, TypeInv, TypeOK, Shape, FirstAttempt, Steps, Fields

(* The ledger's rows, the clock and the calls stay within their types. *)
THEOREM TypeCorrect == Spec => []TypeOK
<1>1. TypeInv => TypeOK
  BY DEF TypeInv
<1>2. QED
  BY <1>1, TypeInit, TypeInductive, PTL DEF Spec

-----------------------------------------------------------------------------
(* The inductive invariant of an undamaged ledger: its positions are 1..n, *)
(* each entry links to the one before it and is not older, and what a call *)
(* in flight has read of the tail is still a position of the ledger.       *)

Size == Cardinality(rows)

DenseInv ==
    /\ IsFiniteSet(rows)
    /\ {e.seq : e \in rows} = 1..Size
    /\ \A d, e \in rows : d.seq = e.seq => d = e

LinkInv ==
    /\ \A d, e \in rows : e.seq = d.seq + 1 => e.prev = d.hash
    /\ \A d, e \in rows : d.seq <= e.seq => d.stamp <= e.stamp

GuessInv ==
    \A c \in Calls : call[c].pc = "insert" =>
        \/ call[c].seq = 1
        \/ \E d \in rows : /\ call[c].seq = d.seq + 1
                           /\ call[c].prev = d.hash
                           /\ d.stamp <= call[c].stamp

AttemptInv ==
    \A c \in Calls :
        /\ call[c].pc = "read" => call[c].attempt <= Size + 1
        /\ call[c].pc = "insert" => call[c].attempt <= call[c].seq
        /\ call[c].pc = "exhausted" => MaxAttempts <= Size

ChainInv == Undamaged => DenseInv /\ LinkInv /\ GuessInv /\ AttemptInv

(* The tail of a dense ledger is its last position. *)
LEMMA DenseFacts ==
  ASSUME DenseInv
  PROVE  /\ Size \in Nat
         /\ \A e \in rows : e.seq \in 1..Size
         /\ \A i \in 1..Size : Taken(i)
         /\ \A e \in rows : IsTail(e) => e.seq = Size
<1>1. Size \in Nat
  BY FS_CardinalityType DEF DenseInv, Size
<1>2. \A e \in rows : e.seq \in 1..Size
  BY DEF DenseInv
<1>3. \A i \in 1..Size : \E e \in rows : e.seq = i
  <2> SUFFICES ASSUME NEW i \in 1..Size PROVE \E e \in rows : e.seq = i
    OBVIOUS
  <2>1. i \in {e.seq : e \in rows}
    BY DEF DenseInv
  <2>2. QED
    BY <2>1
<1>4. ASSUME NEW e \in rows, IsTail(e) PROVE e.seq = Size
  <2>1. e.seq \in 1..Size
    BY <1>2
  <2>2. PICK d \in rows : d.seq = Size
    BY <1>1, <1>3, <2>1
  <2>3. QED
    BY <1>1, <1>4, <2>1, <2>2 DEF IsTail
<1>5. QED
  BY <1>1, <1>2, <1>3, <1>4 DEF Taken

(* A position that is free when the INSERT comes is the next one, and the  *)
(* link and the time it was signed with are those of the present tail.     *)
LEMMA FreeGuessIsNext ==
  ASSUME TypeInv, DenseInv, LinkInv, GuessInv,
         NEW c \in Calls, call[c].pc = "insert", ~Taken(call[c].seq)
  PROVE  /\ call[c].seq = Size + 1
         /\ \A d \in rows : d.seq = Size => call[c].prev = d.hash
         /\ \A d \in rows : d.stamp <= call[c].stamp
<1>1. /\ Size \in Nat
      /\ \A e \in rows : e.seq \in 1..Size
      /\ \A i \in 1..Size : Taken(i)
  BY DenseFacts
<1>2. call[c].stamp \in Nat /\ \A d \in rows : d.stamp \in Nat
  BY DEF TypeInv, TypeOK
<1>3. CASE call[c].seq = 1
  <2>1. Size = 0
    BY <1>1, <1>3
  <2>2. rows = {}
    BY <1>1, <2>1
  <2>3. QED
    BY <1>3, <2>1, <2>2
<1>4. CASE \E d \in rows : /\ call[c].seq = d.seq + 1
                           /\ call[c].prev = d.hash
                           /\ d.stamp <= call[c].stamp
  <2>1. PICK d \in rows : /\ call[c].seq = d.seq + 1
                          /\ call[c].prev = d.hash
                          /\ d.stamp <= call[c].stamp
    BY <1>4
  <2>2. d.seq \in 1..Size /\ d.seq + 1 \notin 1..Size
    BY <1>1, <2>1
  <2>3. d.seq = Size
    BY <1>1, <2>2
  <2>4. \A e \in rows : e.seq = Size => e = d
    BY <2>3 DEF DenseInv
  <2>5. \A e \in rows : e.stamp <= d.stamp
    BY <1>1, <2>3 DEF LinkInv
  <2>6. QED
    BY <1>2, <2>1, <2>3, <2>4, <2>5
<1>5. QED
  BY <1>3, <1>4 DEF GuessInv

LEMMA InsertKeepsChain ==
  ASSUME TypeInv, ChainInv, Undamaged, NEW c \in Calls, Insert(c)
  PROVE  DenseInv' /\ LinkInv' /\ GuessInv' /\ AttemptInv'
<1> DEFINE new == NewEntry(c)
<1> HIDE DEF new
<1>0. DenseInv /\ LinkInv /\ GuessInv /\ AttemptInv
  BY DEF ChainInv
<1>1. /\ call[c].pc = "insert"
      /\ ~Taken(call[c].seq)
      /\ \A d \in Calls \ {c} : call'[d] = call[d]
      /\ call'[c].pc \in {"returned", "failed"}
      /\ rows' = rows \cup {new}
  BY InsertEffect DEF new
<1>2. new.prev = call[c].prev /\ new.seq = call[c].seq /\ new.stamp = call[c].stamp
  BY NewEntryFields DEF new
<1>3. /\ new.seq = Size + 1
      /\ \A d \in rows : d.seq = Size => new.prev = d.hash
      /\ \A d \in rows : d.stamp <= new.stamp
  BY <1>0, <1>1, <1>2, FreeGuessIsNext
<1>4. Size \in Nat /\ \A e \in rows : e.seq \in 1..Size
  BY <1>0, DenseFacts
<1>5. new \notin rows
  BY <1>3, <1>4
<1>6. IsFiniteSet(rows') /\ Size' = Size + 1
  BY <1>0, <1>1, <1>5, FS_AddElement DEF DenseInv, Size
<1>7. DenseInv'
  <2>1. {e.seq : e \in rows'} = 1..Size'
    <3>1. {e.seq : e \in rows'} = {e.seq : e \in rows} \cup {new.seq}
      BY <1>1
    <3>2. {e.seq : e \in rows} = 1..Size
      BY <1>0 DEF DenseInv
    <3>3. QED
      BY <1>3, <1>4, <1>6, <3>1, <3>2
  <2>2. \A d, e \in rows' : d.seq = e.seq => d = e
    BY <1>0, <1>1, <1>3, <1>4 DEF DenseInv
  <2>3. QED
    BY <1>6, <2>1, <2>2 DEF DenseInv
<1>8. LinkInv'
  <2>1. \A d, e \in rows' : e.seq = d.seq + 1 => e.prev = d.hash
    BY <1>0, <1>1, <1>3, <1>4 DEF LinkInv
  <2>2. new.stamp \in Nat
    BY <1>2 DEF TypeInv, TypeOK
  <2>3. \A d, e \in rows' : d.seq <= e.seq => d.stamp <= e.stamp
    BY <1>0, <1>1, <1>3, <1>4, <2>2 DEF LinkInv
  <2>4. QED
    BY <2>1, <2>3 DEF LinkInv
<1>9. GuessInv'
  BY <1>0, <1>1 DEF GuessInv
<1>10. AttemptInv'
  <2>1. MaxAttempts \in Nat /\ \A d \in Calls : call[d].attempt \in Nat
    BY AttemptsAssumption DEF TypeInv, TypeOK
  <2>2. QED
    BY <1>0, <1>1, <1>4, <1>6, <2>1 DEF AttemptInv
<1>11. QED
  BY <1>7, <1>8, <1>9, <1>10

LEMMA ChainInductive == TypeInv /\ ChainInv /\ [Next]_vars => ChainInv'
<1> SUFFICES ASSUME TypeInv, ChainInv, [Next]_vars, Undamaged'
             PROVE  DenseInv' /\ LinkInv' /\ GuessInv' /\ AttemptInv'
  BY DEF ChainInv
<1>a. Undamaged
  <2>1. CASE LoseRow
    BY <2>1 DEF LoseRow, Undamaged
  <2>2. CASE ~LoseRow
    BY <2>2, ReadTailEffect, InsertEffect, ConflictEffect, FailEffect
       DEF Next, Step, Tick, vars, Undamaged
  <2>3. QED
    BY <2>1, <2>2
<1>0. DenseInv /\ LinkInv /\ GuessInv /\ AttemptInv
  BY <1>a DEF ChainInv
<1>b. Size \in Nat
  BY <1>0, DenseFacts
<1>c. ASSUME UNCHANGED rows PROVE DenseInv' /\ LinkInv' /\ Size' = Size
  BY <1>c, <1>0 DEF DenseInv, LinkInv, Size
<1>1. ASSUME NEW c \in Calls, ReadTail(c)
      PROVE  DenseInv' /\ LinkInv' /\ GuessInv' /\ AttemptInv'
  <2>1. /\ UNCHANGED rows
        /\ \A d \in Calls \ {c} : call'[d] = call[d]
        /\ call[c].pc = "read"
        /\ call'[c].pc = "insert"
        /\ call'[c].attempt = call[c].attempt
        /\ call'[c].stamp = now
        /\ \/ rows = {} /\ call'[c].seq = 1 /\ call'[c].prev = Genesis
           \/ \E tail \in rows : /\ IsTail(tail)
                                 /\ call'[c].seq = tail.seq + 1
                                 /\ call'[c].prev = tail.hash
    BY <1>1, ReadTailEffect
  <2>2. \A e \in rows : e.stamp <= now
    BY DEF TypeInv, TypeOK
  <2>3. GuessInv'
    BY <1>0, <2>1, <2>2 DEF GuessInv
  <2>4. call'[c].seq = Size + 1
    <3>1. CASE rows = {}
      BY <2>1, <3>1, FS_EmptySet DEF Size
    <3>2. CASE rows # {}
      BY <1>0, <2>1, <3>2, DenseFacts
    <3>3. QED
      BY <3>1, <3>2
  <2>5. AttemptInv'
    BY <1>0, <1>b, <1>c, <2>1, <2>4 DEF AttemptInv
  <2>6. QED
    BY <1>c, <2>1, <2>3, <2>5
<1>2. ASSUME NEW c \in Calls, Insert(c)
      PROVE  DenseInv' /\ LinkInv' /\ GuessInv' /\ AttemptInv'
  BY <1>2, <1>a, InsertKeepsChain
<1>3. ASSUME NEW c \in Calls, Conflict(c)
      PROVE  DenseInv' /\ LinkInv' /\ GuessInv' /\ AttemptInv'
  <2>1. /\ UNCHANGED rows
        /\ \A d \in Calls \ {c} : call'[d] = call[d]
        /\ call[c].pc = "insert"
        /\ Taken(call[c].seq)
        /\ \/ /\ call[c].attempt < MaxAttempts
              /\ call'[c].pc = "read"
              /\ call'[c].attempt = call[c].attempt + 1
           \/ /\ call[c].attempt >= MaxAttempts
              /\ call'[c].pc = "exhausted"
              /\ call'[c].attempt = call[c].attempt
    BY <1>3, ConflictEffect
  <2>2. GuessInv'
    BY <1>0, <2>1 DEF GuessInv
  <2>3. /\ MaxAttempts \in Nat
        /\ call[c].attempt \in Nat
        /\ call[c].seq \in Nat
    BY AttemptsAssumption DEF TypeInv, TypeOK
  <2>4. call[c].attempt <= Size
    <3>1. call[c].seq \in 1..Size
      BY <1>0, <2>1, DenseFacts DEF Taken
    <3>2. call[c].attempt <= call[c].seq
      BY <1>0, <2>1 DEF AttemptInv
    <3>3. QED
      BY <1>b, <2>3, <3>1, <3>2
  <2>5. AttemptInv'
    BY <1>0, <1>b, <1>c, <2>1, <2>3, <2>4 DEF AttemptInv
  <2>6. QED
    BY <1>c, <2>1, <2>2, <2>5
<1>4. ASSUME NEW c \in Calls, Fail(c)
      PROVE  DenseInv' /\ LinkInv' /\ GuessInv' /\ AttemptInv'
  <2>1. /\ UNCHANGED rows
        /\ \A d \in Calls \ {c} : call'[d] = call[d]
        /\ call'[c].pc = "failed"
    BY <1>4, FailEffect
  <2>2. GuessInv' /\ AttemptInv'
    BY <1>0, <1>c, <2>1 DEF GuessInv, AttemptInv
  <2>3. QED
    BY <1>c, <2>1, <2>2
<1>5. CASE Tick
  BY <1>0, <1>c, <1>5 DEF Tick, GuessInv, AttemptInv
<1>6. CASE LoseRow
  BY <1>6 DEF LoseRow, Undamaged
<1>7. CASE UNCHANGED vars
  BY <1>0, <1>c, <1>7 DEF vars, GuessInv, AttemptInv
<1>8. QED
  BY <1>1, <1>2, <1>3, <1>4, <1>5, <1>6, <1>7 DEF Next, Step

LEMMA ChainInit == Init => ChainInv
<1> SUFFICES ASSUME Init PROVE DenseInv /\ LinkInv /\ GuessInv /\ AttemptInv
  BY DEF ChainInv
<1>1. rows = {} /\ Size = 0 /\ IsFiniteSet(rows)
  BY FS_EmptySet DEF Init, Size
<1>2. \A c \in Calls : call[c].pc = "read" /\ call[c].attempt = 1
  BY DEF Init, FirstAttempt
<1>3. QED
  BY <1>1, <1>2 DEF DenseInv, LinkInv, GuessInv, AttemptInv

LEMMA ChainInvariant == Spec => [](TypeInv /\ ChainInv)
<1>1. QED
  BY TypeInit, TypeInductive, ChainInit, ChainInductive, PTL DEF Spec

(* Losers of a race for a position leave neither a gap nor a double, for   *)
(* any number of callers.                                                  *)
THEOREM PositionsDense == Spec => []PositionsAreDense
<1>1. ChainInv => PositionsAreDense
  BY DEF ChainInv, PositionsAreDense, DenseInv, Size
<1>2. QED
  BY <1>1, ChainInvariant, PTL

(* With no more callers than MaxAttempts no append is refused: a call that *)
(* gives up has been overtaken MaxAttempts times.                          *)
THEOREM ExhaustedOnlyByContention == Spec => []ExhaustedMeansContention
<1>1. TypeInv /\ ChainInv => ExhaustedMeansContention
  <2> SUFFICES ASSUME TypeInv, ChainInv, Undamaged, NEW c \in Calls, call[c].pc = "exhausted"
               PROVE  Cardinality(rows) >= MaxAttempts
    BY DEF ExhaustedMeansContention
  <2>1. Size \in Nat /\ MaxAttempts \in Nat
    BY DenseFacts, AttemptsAssumption DEF ChainInv
  <2>2. QED
    BY <2>1 DEF ChainInv, AttemptInv, Size
<1>2. QED
  BY <1>1, ChainInvariant, PTL

-----------------------------------------------------------------------------
(* Verification. *)

(* A date range of an undamaged ledger is a contiguous piece of it: stamps *)
(* do not decrease along the positions.                                    *)
LEMMA RangesAreContiguous ==
  ASSUME TypeInv, DenseInv, LinkInv, NEW from \in Nat, NEW to \in Nat,
         NEW d \in InRange(from, to), NEW e \in InRange(from, to),
         Precedes(d, e, InRange(from, to))
  PROVE  e.seq = d.seq + 1
<1>1. d \in rows /\ e \in rows /\ d.seq < e.seq
  BY DEF InRange, Precedes
<1>2. /\ Size \in Nat
      /\ d.seq \in 1..Size
      /\ e.seq \in 1..Size
      /\ \A i \in 1..Size : Taken(i)
  BY <1>1, DenseFacts
<1>3. SUFFICES ASSUME d.seq + 1 < e.seq PROVE FALSE
  BY <1>1, <1>2
<1>4. d.seq + 1 \in 1..Size
  BY <1>2, <1>3
<1>5. PICK x \in rows : x.seq = d.seq + 1
  BY <1>2, <1>4 DEF Taken
<1>6. d.stamp <= x.stamp /\ x.stamp <= e.stamp
  BY <1>1, <1>2, <1>3, <1>5 DEF LinkInv
<1>7. d.stamp \in Nat /\ x.stamp \in Nat /\ e.stamp \in Nat
  BY <1>1 DEF TypeInv, TypeOK
<1>8. x \in InRange(from, to)
  BY <1>5, <1>6, <1>7 DEF InRange
<1>9. QED
  BY <1>2, <1>3, <1>5, <1>8 DEF Precedes

(* No race of appends and retries looks like tampering, for any range and  *)
(* any verifier's key: an undamaged ledger shows only the entries that the *)
(* verifier's key did not sign.                                            *)
THEOREM UndamagedVerifies == Spec => []UndamagedLedgerVerifies
<1>1. TypeInv /\ ChainInv => UndamagedLedgerVerifies
  <2> SUFFICES ASSUME TypeInv, ChainInv, Undamaged,
                      NEW from \in 0..MaxTime, NEW to \in 0..MaxTime, NEW k \in SigningKeys
               PROVE  Breaks(InRange(from, to), k)
                        = {e \in InRange(from, to) : Unverifiable(e, k)}
    BY DEF UndamagedLedgerVerifies
  <2> DEFINE entries == InRange(from, to)
  <2>0. from \in Nat /\ to \in Nat
    BY BoundsAssumption
  <2>1. DenseInv /\ LinkInv
    BY DEF ChainInv
  <2>2. ContinuityBreaks(entries) = {}
    <3>1. ASSUME NEW d \in entries, NEW e \in entries, Precedes(d, e, entries)
          PROVE  e.prev = d.hash
      <4>1. e.seq = d.seq + 1
        BY <2>0, <2>1, <3>1, RangesAreContiguous
      <4>2. QED
        BY <2>1, <4>1 DEF LinkInv, InRange
    <3>2. QED
      BY <3>1 DEF ContinuityBreaks
  <2>3. \A e \in entries : Recomputed(e) = e.hash
    <3>1. ASSUME NEW e \in rows PROVE Recomputed(e) = e.hash
      <4>1. PICK j \in SigningKeys : e = Entry(e.evidence, e.prev, e.seq, e.stamp, j)
        BY DEF TypeInv, Shape
      <4>2. e.hash = Canonical(e.evidence, e.prev, e.seq, e.stamp)
        BY <4>1, EntryFields
      <4>3. QED
        BY <4>2 DEF Recomputed
    <3>2. QED
      BY <3>1 DEF InRange
  <2>4. EntryBreaks(entries, k) = {e \in entries : Unverifiable(e, k)}
    BY <2>3 DEF EntryBreaks, Unverifiable
  <2>5. QED
    BY <2>2, <2>4 DEF Breaks
<1>2. QED
  BY <1>1, ChainInvariant, PTL

-----------------------------------------------------------------------------
(* One entry per call: whoever has an entry has nothing left to insert. *)

EvidenceInv ==
    /\ \A e \in rows : call[e.evidence].pc \in {"returned", "failed"}
    /\ \A d, e \in rows : d.evidence = e.evidence => d = e
    /\ \A c \in Calls : call[c].pc = "returned" /\ Undamaged => \E e \in rows : e.evidence = c

LEMMA EvidenceInductive == TypeInv /\ EvidenceInv /\ [Next]_vars => EvidenceInv'
<1> SUFFICES ASSUME TypeInv, EvidenceInv, [Next]_vars PROVE EvidenceInv'
  OBVIOUS
<1>0. \A e \in rows : e.evidence \in Calls
  BY DEF TypeInv, TypeOK
<1>1. ASSUME NEW c \in Calls, ReadTail(c) PROVE EvidenceInv'
  BY <1>0, <1>1, ReadTailEffect DEF EvidenceInv, Undamaged
<1>2. ASSUME NEW c \in Calls, Insert(c) PROVE EvidenceInv'
  <2> DEFINE new == NewEntry(c)
  <2> HIDE DEF new
  <2>1. /\ call[c].pc = "insert"
        /\ \A d \in Calls \ {c} : call'[d] = call[d]
        /\ call'[c].pc \in {"returned", "failed"}
        /\ rows' = rows \cup {new}
        /\ lost' = lost
        /\ new.evidence = c
    BY <1>2, InsertEffect, NewEntryFields DEF new
  <2>2. \A e \in rows : e.evidence # c
    BY <2>1 DEF EvidenceInv
  <2>3. QED
    BY <1>0, <2>1, <2>2 DEF EvidenceInv, Undamaged
<1>3. ASSUME NEW c \in Calls, Conflict(c) PROVE EvidenceInv'
  BY <1>0, <1>3, ConflictEffect DEF EvidenceInv, Undamaged
<1>4. ASSUME NEW c \in Calls, Fail(c) PROVE EvidenceInv'
  BY <1>0, <1>4, FailEffect DEF EvidenceInv, Undamaged
<1>5. CASE Tick
  BY <1>5 DEF Tick, EvidenceInv, Undamaged
<1>6. CASE LoseRow
  BY <1>6 DEF LoseRow, EvidenceInv, Undamaged
<1>7. CASE UNCHANGED vars
  BY <1>7 DEF vars, EvidenceInv, Undamaged
<1>8. QED
  BY <1>1, <1>2, <1>3, <1>4, <1>5, <1>6, <1>7 DEF Next, Step

LEMMA EvidenceInit == Init => EvidenceInv
BY DEF Init, EvidenceInv, FirstAttempt

LEMMA LedgerInvariant == Spec => [](TypeInv /\ ChainInv /\ EvidenceInv)
<1>1. QED
  BY TypeInit, TypeInductive, ChainInit, ChainInductive, EvidenceInit, EvidenceInductive, PTL
     DEF Spec

(* However often a call retries, its evidence is recorded once, and it has *)
(* been recorded when the call returns.                                    *)
THEOREM OneEntryEach == Spec => []OneEntryPerCall
<1>1. EvidenceInv => OneEntryPerCall
  BY DEF EvidenceInv, OneEntryPerCall
<1>2. QED
  BY <1>1, LedgerInvariant, PTL

-----------------------------------------------------------------------------
(* Losses.  A row is orphaned when the entry it was chained to is gone.    *)
(* Whatever row is lost, one that followed it has an orphan at or below    *)
(* it, and an orphan stays one: the entry it names can never be inserted   *)
(* again, for the call that wrote it is over.                              *)

Over(c) == c \in Calls /\ call[c].pc \in {"returned", "failed"}

Linked(prev, seq) ==
    \/ seq = 1
    \/ prev.seq + 1 = seq /\ Over(prev.evidence)

Orphan(x) == x \in rows /\ x.seq > 1 /\ \A y \in rows : y.hash # x.prev

LossInv ==
    /\ \A d, e \in rows : d.seq = e.seq => d = e
    /\ \A e \in rows : Over(e.evidence) /\ Linked(e.prev, e.seq)
    /\ \A c \in Calls : call[c].pc = "insert" => Linked(call[c].prev, call[c].seq)
    /\ \A l \in lost :
          /\ l.row.seq \in Nat \ {0}
          /\ \A e \in l.heirs : Over(e.evidence)
          /\ \A e \in rows : e \in l.heirs =>
                \E x \in rows : Orphan(x) /\ l.row.seq < x.seq /\ x.seq <= e.seq

(* A set of numbers has a least one, and a bounded one a greatest.         *)
LEMMA LeastNumber ==
  ASSUME NEW T, T \subseteq Nat, T # {}
  PROVE  \E x \in T : \A y \in T : x <= y
<1>1. PICK x \in T : \A y \in T : <<y, x>> \notin OpToRel(<, Nat)
  BY NatLessThanWellFounded, WFMin
<1>2. \A y \in T : ~(y < x)
  BY <1>1 DEF OpToRel
<1>3. QED
  BY <1>2

LEMMA GreatestNumber ==
  ASSUME NEW T, T \subseteq Nat, T # {}, NEW n \in Nat, \A y \in T : y <= n
  PROVE  \E x \in T : \A y \in T : y <= x
<1> DEFINE gaps == {n - y : y \in T}
<1>1. gaps \subseteq Nat /\ gaps # {}
  <2>1. \A y \in T : n - y \in Nat
    OBVIOUS
  <2>2. PICK y \in T : TRUE
    OBVIOUS
  <2>3. n - y \in gaps
    OBVIOUS
  <2>4. QED
    BY <2>1, <2>3
<1>2. PICK g \in gaps : \A h \in gaps : g <= h
  <2> HIDE DEF gaps
  <2>1. QED
    BY <1>1, LeastNumber
<1>3. PICK x \in T : g = n - x
  BY DEF gaps
<1>4. \A y \in T : y <= x
  BY <1>2, <1>3
<1>5. QED
  BY <1>4

(* A row's digest holds its position and its call. *)
LEMMA DigestFields ==
  ASSUME TypeInv, NEW y \in rows
  PROVE  y.hash.seq = y.seq /\ y.hash.evidence = y.evidence
<1>1. PICK k \in SigningKeys : y = Entry(y.evidence, y.prev, y.seq, y.stamp, k)
  BY DEF TypeInv, Shape
<1>2. y.hash = Canonical(y.evidence, y.prev, y.seq, y.stamp)
  BY <1>1, EntryFields
<1>3. QED
  BY <1>2 DEF Canonical

(* The first row above one that is removed becomes an orphan, unless it    *)
(* was one.                                                                *)
LEMMA RemovalOrphans ==
  ASSUME TypeInv, LossInv, NEW r \in rows, rows' = rows \ {r},
         NEW e \in rows, r.seq < e.seq
  PROVE  \E x \in rows' : Orphan(x)' /\ r.seq < x.seq /\ x.seq <= e.seq
<1> DEFINE above == {d.seq : d \in {y \in rows : r.seq < y.seq}}
<1>0. \A d \in rows : d.seq \in Nat \ {0}
  BY DEF TypeInv, TypeOK
<1>1. above \subseteq Nat /\ above # {}
  BY <1>0
<1>2. PICK n \in above : \A m \in above : n <= m
  <2> HIDE DEF above
  <2>1. QED
    BY <1>1, LeastNumber
<1>3. PICK x \in rows : x.seq = n /\ r.seq < x.seq
  BY <1>2
<1>4. \A y \in rows : r.seq < y.seq => x.seq <= y.seq
  BY <1>2, <1>3
<1>5. x \in rows'
  BY <1>0, <1>3
<1>6. x.seq > 1
  BY <1>0, <1>3
<1>7. ASSUME NEW y \in rows', y.hash = x.prev PROVE FALSE
  <2>1. y \in rows /\ y # r
    BY <1>7
  <2>2. x.prev.seq + 1 = x.seq
    BY <1>6 DEF LossInv, Linked
  <2>3. y.seq + 1 = x.seq
    BY <1>7, <2>1, <2>2, DigestFields
  <2>4. y.seq # r.seq
    BY <2>1 DEF LossInv
  <2>5. y.seq \in Nat /\ r.seq \in Nat /\ x.seq \in Nat
    BY <1>0, <2>1
  <2>6. r.seq < y.seq
    BY <1>3, <2>3, <2>4, <2>5
  <2>7. QED
    BY <1>4, <2>1, <2>3, <2>5, <2>6
<1>8. Orphan(x)'
  BY <1>5, <1>6, <1>7 DEF Orphan
<1>9. QED
  BY <1>3, <1>4, <1>5, <1>8

LEMMA LossInductive == TypeInv /\ LossInv /\ [Next]_vars => LossInv'
<1> SUFFICES ASSUME TypeInv, LossInv, [Next]_vars PROVE LossInv'
  OBVIOUS
<1>a. \A e \in rows : e.seq \in Nat \ {0}
  BY DEF TypeInv, TypeOK
<1>b. ASSUME UNCHANGED <<rows, lost>>,
             \A d \in Calls : Over(d) => Over(d)',
             \A d \in Calls : call'[d].pc = "insert" =>
                 \/ call[d].pc = "insert" /\ call'[d].prev = call[d].prev
                                          /\ call'[d].seq = call[d].seq
                 \/ Linked(call'[d].prev, call'[d].seq)
      PROVE  LossInv'
  <2>1. \A d : Over(d) => Over(d)'
    BY <1>b DEF Over
  <2>2. \A prev, seq : Linked(prev, seq) => Linked(prev, seq)'
    BY <2>1 DEF Linked
  <2>3. \A x : Orphan(x) => Orphan(x)'
    BY <1>b DEF Orphan
  <2>4. \A d \in Calls : call'[d].pc = "insert" => Linked(call[d].prev, call[d].seq)'
    BY <1>b, <2>1 DEF LossInv, Linked
  <2>5. QED
    BY <1>b, <2>1, <2>2, <2>3, <2>4 DEF LossInv
<1>1. ASSUME NEW c \in Calls, ReadTail(c) PROVE LossInv'
  <2>1. /\ UNCHANGED <<rows, lost>>
        /\ call[c].pc = "read"
        /\ call'[c].pc = "insert"
        /\ \A d \in Calls \ {c} : call'[d] = call[d]
    BY <1>1, ReadTailEffect
  <2>2. Linked(call'[c].prev, call'[c].seq)
    <3>1. CASE call'[c].seq = 1
      BY <3>1 DEF Linked
    <3>2. ASSUME NEW tail \in rows, call'[c].seq = tail.seq + 1, call'[c].prev = tail.hash
          PROVE  Linked(call'[c].prev, call'[c].seq)
      BY <3>2, DigestFields DEF Linked, LossInv
    <3>3. QED
      BY <1>1, <3>1, <3>2, ReadTailEffect
  <2>3. \A d \in Calls : Over(d) => Over(d)'
    BY <2>1 DEF Over
  <2>4. QED
    BY <1>b, <2>1, <2>2, <2>3
<1>2. ASSUME NEW c \in Calls, Insert(c) PROVE LossInv'
  <2> DEFINE new == NewEntry(c)
  <2> HIDE DEF new
  <2>1. /\ call[c].pc = "insert"
        /\ ~Taken(call[c].seq)
        /\ \A d \in Calls \ {c} : call'[d] = call[d]
        /\ call'[c].pc \in {"returned", "failed"}
        /\ rows' = rows \cup {new}
        /\ lost' = lost
        /\ new.evidence = c
        /\ new.seq = call[c].seq
        /\ new.prev = call[c].prev
    BY <1>2, InsertEffect, NewEntryFields DEF new
  <2>2. new.hash.evidence = c
    <3>1. new.hash = Canonical(c, call[c].prev, call[c].seq, call[c].stamp)
      BY EntryFields DEF new, NewEntry
    <3>2. QED
      BY <3>1 DEF Canonical
  <2>3. ~Over(c) /\ Over(c)' /\ \A d : Over(d) => Over(d)'
    BY <2>1 DEF Over
  <2>4. \A prev, seq : Linked(prev, seq) => Linked(prev, seq)'
    BY <2>3 DEF Linked
  <2>5. Linked(new.prev, new.seq)
    BY <2>1 DEF LossInv
  <2>6. ASSUME NEW x, Orphan(x) PROVE Orphan(x)'
    <3>1. Over(x.prev.evidence)
      BY <2>6, <1>a DEF Orphan, LossInv, Linked
    <3>2. new.hash # x.prev
      BY <2>2, <2>3, <3>1
    <3>3. QED
      BY <2>1, <2>6, <3>2 DEF Orphan
  <2>7. \A d, e \in rows' : d.seq = e.seq => d = e
    BY <2>1 DEF LossInv, Taken
  <2>8. \A e \in rows' : (Over(e.evidence) /\ Linked(e.prev, e.seq))'
    BY <2>1, <2>3, <2>4, <2>5 DEF LossInv
  <2>9. \A d \in Calls : (call[d].pc = "insert" => Linked(call[d].prev, call[d].seq))'
    <3> SUFFICES ASSUME NEW d \in Calls, call'[d].pc = "insert"
                 PROVE  Linked(call[d].prev, call[d].seq)'
      OBVIOUS
    <3>1. call'[d] = call[d]
      BY <2>1
    <3>2. Linked(call[d].prev, call[d].seq)
      BY <3>1 DEF LossInv
    <3>3. QED
      BY <2>3, <3>1, <3>2 DEF Linked
  <2>10. ASSUME NEW l \in lost', NEW e \in rows', e \in l.heirs
         PROVE  \E x \in rows' : Orphan(x)' /\ l.row.seq < x.seq /\ x.seq <= e.seq
    <3>1. e # new
      BY <2>1, <2>3, <2>10 DEF LossInv
    <3>2. e \in rows /\ l \in lost
      BY <2>1, <2>10, <3>1
    <3>3. PICK x \in rows : Orphan(x) /\ l.row.seq < x.seq /\ x.seq <= e.seq
      BY <2>10, <3>2 DEF LossInv
    <3>4. QED
      BY <2>1, <2>6, <3>3
  <2>11. \A l \in lost' : l.row.seq \in Nat \ {0} /\ \A e \in l.heirs : Over(e.evidence)'
    BY <2>1, <2>3 DEF LossInv
  <2>12. QED
    BY <2>7, <2>8, <2>9, <2>10, <2>11 DEF LossInv
<1>3. ASSUME NEW c \in Calls, Conflict(c) PROVE LossInv'
  BY <1>b, <1>3, ConflictEffect DEF Over
<1>4. ASSUME NEW c \in Calls, Fail(c) PROVE LossInv'
  BY <1>b, <1>4, FailEffect DEF Over
<1>5. CASE Tick
  BY <1>b, <1>5 DEF Tick, Over
<1>6. CASE LoseRow
  <2>1. PICK r \in rows :
           /\ rows' = rows \ {r}
           /\ lost' = lost \cup {[row |-> r, heirs |-> {d \in rows : d.seq > r.seq}]}
           /\ call' = call
    BY <1>6 DEF LoseRow
  <2>2. \A d : Over(d)' <=> Over(d)
    BY <2>1 DEF Over
  <2>3. \A prev, seq : Linked(prev, seq)' <=> Linked(prev, seq)
    BY <2>2 DEF Linked
  <2>4. ASSUME NEW l \in lost', NEW e \in rows', e \in l.heirs
        PROVE  \E x \in rows' : Orphan(x)' /\ l.row.seq < x.seq /\ x.seq <= e.seq
    <3>1. CASE l \in lost
      <4>1. PICK x \in rows : Orphan(x) /\ l.row.seq < x.seq /\ x.seq <= e.seq
        BY <2>1, <2>4, <3>1 DEF LossInv
      <4>2. CASE x # r
        BY <2>1, <4>1, <4>2 DEF Orphan
      <4>3. CASE x = r
        <5>1. e \in rows /\ e # r
          BY <2>1
        <5>2. r.seq < e.seq
          BY <1>a, <4>1, <4>3, <5>1 DEF LossInv
        <5>3. PICK y \in rows' : Orphan(y)' /\ r.seq < y.seq /\ y.seq <= e.seq
          BY <2>1, <5>1, <5>2, RemovalOrphans
        <5>4. y \in rows /\ l.row.seq \in Nat
          BY <2>1, <3>1 DEF LossInv
        <5>5. l.row.seq < y.seq
          BY <1>a, <4>1, <4>3, <5>3, <5>4
        <5>6. QED
          BY <5>3, <5>5
      <4>4. QED
        BY <4>2, <4>3
    <3>2. CASE l = [row |-> r, heirs |-> {d \in rows : d.seq > r.seq}]
      <4>1. e \in rows /\ r.seq < e.seq /\ l.row = r
        BY <1>a, <2>4, <3>2
      <4>2. QED
        BY <2>1, <4>1, RemovalOrphans
    <3>3. QED
      BY <2>1, <3>1, <3>2
  <2>5. \A l \in lost' : l.row.seq \in Nat \ {0} /\ \A e \in l.heirs : Over(e.evidence)'
    BY <1>a, <2>1, <2>2 DEF LossInv
  <2>6. \A d \in Calls : (call[d].pc = "insert" => Linked(call[d].prev, call[d].seq))'
    BY <2>1, <2>2 DEF LossInv, Linked
  <2>7. \A e \in rows' : (Over(e.evidence) /\ Linked(e.prev, e.seq))'
    BY <2>1, <2>2, <2>3 DEF LossInv
  <2>8. QED
    BY <2>1, <2>4, <2>5, <2>6, <2>7 DEF LossInv
<1>7. CASE UNCHANGED vars
  BY <1>b, <1>7 DEF vars, Over
<1>8. QED
  BY <1>1, <1>2, <1>3, <1>4, <1>5, <1>6, <1>7 DEF Next, Step

LEMMA LossInit == Init => LossInv
BY DEF Init, FirstAttempt, LossInv

(* An orphan with a row below it is a break: the row next below is not the *)
(* one it was chained to.                                                  *)
LEMMA OrphanBreaks ==
  ASSUME TypeInv, NEW x, Orphan(x), NEW d \in rows, d.seq < x.seq
  PROVE  x \in ContinuityBreaks(rows)
<1> DEFINE below == {y.seq : y \in {z \in rows : z.seq < x.seq}}
<1>0. x \in rows /\ \A y \in rows : y.seq \in Nat
  BY DEF TypeInv, TypeOK, Orphan
<1>1. below \subseteq Nat /\ below # {} /\ \A n \in below : n <= x.seq
  BY <1>0
<1>2. PICK n \in below : \A m \in below : m <= n
  <2> HIDE DEF below
  <2>1. QED
    BY <1>0, <1>1, GreatestNumber
<1>3. PICK y \in rows : y.seq = n /\ y.seq < x.seq
  BY <1>2
<1>4. Precedes(y, x, rows)
  BY <1>0, <1>2, <1>3 DEF Precedes
<1>5. QED
  BY <1>0, <1>3, <1>4 DEF Orphan, ContinuityBreaks

(* A row that is lost from between two others shows as a break, whatever   *)
(* is appended or lost later.                                              *)
THEOREM InnerLossIsSeen == Spec => []InnerLossShows
<1>1. TypeInv /\ LossInv => InnerLossShows
  <2> SUFFICES ASSUME TypeInv, LossInv, NEW l \in lost,
                      NEW d \in rows, d.seq < l.row.seq,
                      NEW e \in rows, e \in l.heirs
               PROVE  ContinuityBreaks(rows) # {}
    BY DEF InnerLossShows
  <2>1. PICK x \in rows : Orphan(x) /\ l.row.seq < x.seq
    BY DEF LossInv
  <2>2. d.seq < x.seq
    BY <2>1 DEF TypeInv, TypeOK, LossInv
  <2>3. QED
    BY <2>1, <2>2, OrphanBreaks
<1>2. QED
  BY <1>1, TypeInit, TypeInductive, LossInit, LossInductive, PTL DEF Spec

-----------------------------------------------------------------------------
(* Refinement. *)

Sequence == [i \in 1..Size |-> At(i)]

LEMMA AtEntry ==
  ASSUME DenseInv, NEW e \in rows
  PROVE  At(e.seq) = e.evidence
<1> DEFINE here == {d \in rows : d.seq = e.seq}
<1>1. here = {e}
  BY DEF DenseInv
<1>2. (CHOOSE d \in here : TRUE) = e
  BY <1>1
<1>3. QED
  BY <1>1, <1>2 DEF At

LEMMA SequenceFacts ==
  ASSUME TypeInv, DenseInv
  PROVE  /\ Sequence \in Seq(Calls)
         /\ Len(Sequence) = Size
         /\ \A i \in 1..Size : \E e \in rows : e.seq = i /\ Sequence[i] = e.evidence
<1>1. Size \in Nat /\ \A i \in 1..Size : Taken(i)
  BY DenseFacts
<1>2. ASSUME NEW i \in 1..Size
      PROVE  \E e \in rows : e.seq = i /\ Sequence[i] = e.evidence
  <2>1. PICK e \in rows : e.seq = i
    BY <1>1 DEF Taken
  <2>2. QED
    BY <2>1, AtEntry DEF Sequence
<1>3. \A i \in 1..Size : Sequence[i] \in Calls
  BY <1>2 DEF TypeInv, TypeOK
<1>4. Sequence \in [1..Size -> Calls]
  BY <1>3 DEF Sequence
<1>5. QED
  BY <1>1, <1>2, <1>4

(* An INSERT appends to the sequence. *)
LEMMA InsertAppends ==
  ASSUME TypeInv, TypeInv', ChainInv, ChainInv', EvidenceInv, Undamaged,
         NEW c \in Calls, Insert(c)
  PROVE  /\ c \notin {Sequence[i] : i \in DOMAIN Sequence}
         /\ Sequence' = Append(Sequence, c)
<1>1. /\ call[c].pc = "insert"
      /\ ~Taken(call[c].seq)
      /\ rows' = rows \cup {NewEntry(c)}
      /\ lost' = lost
      /\ NewEntry(c).evidence = c
      /\ NewEntry(c).seq = call[c].seq
  BY InsertEffect, NewEntryFields
<1>2. DenseInv /\ LinkInv /\ GuessInv /\ DenseInv'
  BY <1>1 DEF ChainInv, Undamaged
<1>3. call[c].seq = Size + 1
  BY <1>1, <1>2, FreeGuessIsNext
<1>4. Size \in Nat /\ \A e \in rows : e.seq \in 1..Size
  BY <1>2, DenseFacts
<1>5. NewEntry(c) \notin rows
  BY <1>1, <1>3, <1>4
<1>6. Size' = Size + 1
  BY <1>1, <1>2, <1>5, FS_AddElement DEF DenseInv, Size
<1>7. /\ Sequence \in Seq(Calls)
      /\ Len(Sequence) = Size
      /\ \A i \in 1..Size : \E e \in rows : e.seq = i /\ Sequence[i] = e.evidence
  BY <1>2, SequenceFacts
<1>8. /\ Sequence' \in Seq(Calls)
      /\ Len(Sequence') = Size + 1
      /\ \A i \in 1..(Size + 1) : \E e \in rows' : e.seq = i /\ Sequence'[i] = e.evidence
  <2>1. /\ (Sequence \in Seq(Calls))'
        /\ (Len(Sequence) = Size)'
        /\ (\A i \in 1..Size : \E e \in rows : e.seq = i /\ Sequence[i] = e.evidence)'
    BY <1>2, SequenceFacts, PTL
  <2>2. QED
    BY <1>6, <2>1
<1>9. c \notin {Sequence[i] : i \in DOMAIN Sequence}
  <2>1. \A e \in rows : e.evidence # c
    BY <1>1 DEF EvidenceInv
  <2>2. DOMAIN Sequence = 1..Size
    BY DEF Sequence
  <2>3. QED
    BY <1>7, <2>1, <2>2
<1>10. Sequence' = Append(Sequence, c)
  <2>1. \A i \in 1..Size : Sequence'[i] = Sequence[i]
    BY <1>1, <1>2, <1>3, <1>4, <1>7, <1>8 DEF DenseInv
  <2>2. Sequence'[Size + 1] = c
    BY <1>1, <1>2, <1>3, <1>4, <1>8 DEF DenseInv
  <2>3. DOMAIN Sequence' = 1..(Size + 1)
    BY <1>6 DEF Sequence
  <2>4. QED
    BY <1>4, <1>7, <1>8, <2>1, <2>2, <2>3
<1>11. QED
  BY <1>9, <1>10

(* Until a row is lost the ledger implements an append-only log. *)
THEOREM LedgerKeepsLog == Spec => KeepsLog
<1> DEFINE log == IF Undamaged THEN [i \in 1..Cardinality(rows) |-> At(i)] ELSE <<>>
<1>1. Init => Log!Init
  BY FS_EmptySet DEF Init, Undamaged, Log!Init
<1>2. TypeInv /\ TypeInv' /\ ChainInv /\ ChainInv' /\ EvidenceInv /\ [Next]_vars
        => [Log!Next]_<<log, ~Undamaged>>
  <2> SUFFICES ASSUME TypeInv, TypeInv', ChainInv, ChainInv', EvidenceInv, [Next]_vars
               PROVE  Log!Next \/ UNCHANGED <<log, ~Undamaged>>
    OBVIOUS
  <2>1. CASE ~Undamaged'
    <3>1. (~Undamaged)' = TRUE
      BY <2>1
    <3>2. QED
      BY <3>1 DEF Log!Next, Log!Damage
  <2>2. CASE Undamaged' /\ rows' = rows
    <3>1. Undamaged
      BY <2>2, ReadTailEffect, InsertEffect, ConflictEffect, FailEffect
         DEF Next, Step, Tick, LoseRow, vars, Undamaged
    <3>2. QED
      BY <2>2, <3>1 DEF At
  <2>3. CASE Undamaged' /\ rows' # rows
    <3>1. PICK c \in Calls : Insert(c)
      BY <2>3, ReadTailEffect, ConflictEffect, FailEffect
         DEF Next, Step, Tick, LoseRow, vars, Undamaged
    <3>2. Undamaged
      BY <2>3, <3>1, InsertEffect DEF Undamaged
    <3>3. /\ c \notin {Sequence[i] : i \in DOMAIN Sequence}
          /\ Sequence' = Append(Sequence, c)
      BY <3>1, <3>2, InsertAppends
    <3>4. log = Sequence /\ log' = Sequence'
      BY <2>3, <3>2 DEF Sequence, Size
    <3>5. Log!Record(c)
      BY <2>3, <3>2, <3>3, <3>4 DEF Log!Record, Log!Recorded
    <3>6. QED
      BY <3>5 DEF Log!Next
  <2>4. QED
    BY <2>1, <2>2, <2>3
<1>3. QED
  BY <1>1, <1>2, LedgerInvariant, PTL DEF Spec, KeepsLog, Log!Spec

=============================================================================
