---------------------------- MODULE EvidenceChain ----------------------------
(***************************************************************************)
(* The evidence ledger of one tenant (services/ledger/evidence-chain.ts):  *)
(* concurrent calls of appendToChain on the table evidence_chain, whose    *)
(* UNIQUE (tenant_id, seq) index decides who takes a position, and         *)
(* verifyChain over what the table holds, signed or not.                   *)
(* SHA-256 and HMAC are taken to be injective: a digest is the record it   *)
(* digests.  Calls may run in instances started with different ledger keys *)
(* (a key is rotated while instances live), but they read one clock:       *)
(* instances whose clocks differ are outside this model.                   *)
(***************************************************************************)
EXTENDS Naturals, FiniteSets

CONSTANTS
    Calls,        \* calls of appendToChain, one piece of evidence each
    MaxAttempts,  \* MAX_ATTEMPTS
    Keys,         \* ledger keys a process may be started with
    NoKey,        \* no ledger key is configured
    Genesis,      \* GENESIS_HASH
    MaxTime,      \* bound: clock readings
    MaxLost       \* bound: rows lost from the table

ASSUME CallsAssumption == IsFiniteSet(Calls)
ASSUME AttemptsAssumption == MaxAttempts \in Nat \ {0}
ASSUME KeyAssumption == NoKey \notin Keys
ASSUME BoundsAssumption == MaxTime \in Nat /\ MaxLost \in Nat

VARIABLES
    rows,  \* the table evidence_chain
    now,   \* the clock
    call,  \* call[c]: where call c stands, its attempt and key, the tail and time it read
    lost   \* history: rows lost from the table, with the rows that followed them

vars == <<rows, now, call, lost>>

Canonical(c, prev, seq, stamp) ==
    [evidence |-> c, prev |-> prev, seq |-> seq, stamp |-> stamp]

Sign(k, canonical) ==
    IF k = NoKey THEN NoKey ELSE [key |-> k, data |-> canonical]

Entry(c, prev, seq, stamp, k) ==
    LET canonical == Canonical(c, prev, seq, stamp)
    IN  [evidence |-> c, prev |-> prev, seq |-> seq, stamp |-> stamp,
         hash |-> canonical, mac |-> Sign(k, canonical)]

Steps == {"read", "insert", "returned", "exhausted", "failed"}
SigningKeys == Keys \cup {NoKey}
FirstAttempt(k) ==
    [pc |-> "read", attempt |-> 1, key |-> k, prev |-> Genesis, seq |-> 1, stamp |-> 0]

TypeOK ==
    /\ \A e \in rows : /\ e.seq \in Nat \ {0}
                       /\ e.evidence \in Calls
                       /\ e.stamp \in 0..now
    /\ now \in 0..MaxTime
    /\ \A c \in Calls : /\ call[c].pc \in Steps
                        /\ call[c].attempt \in 1..MaxAttempts
                        /\ call[c].key \in SigningKeys
                        /\ call[c].seq \in Nat \ {0}
                        /\ call[c].stamp \in 0..now

Init ==
    /\ rows = {}
    /\ now = 0
    /\ \E signer \in [Calls -> SigningKeys] : call = [c \in Calls |-> FirstAttempt(signer[c])]
    /\ lost = {}

IsTail(e) == e \in rows /\ \A d \in rows : d.seq <= e.seq

(* Mutant of Guess: the timestamp of the first attempt serves them all. *)
GuessKeepingStamp(c, prev, seq) ==
    call' = [call EXCEPT ![c] =
        [@ EXCEPT !.pc = "insert", !.prev = prev, !.seq = seq,
                  !.stamp = IF call[c].attempt = 1 THEN now ELSE call[c].stamp]]

(* The position a transaction will claim and the time it will sign. *)
Guess(c, prev, seq) ==
    call' = [call EXCEPT ![c] =
        [@ EXCEPT !.pc = "insert", !.prev = prev, !.seq = seq, !.stamp = now]]

(* The transaction reads the tail and then the clock.  The position it     *)
(* derives is a guess until the INSERT.                                    *)
ReadTail(c) ==
    /\ call[c].pc = "read"
    /\ \/ rows = {} /\ Guess(c, Genesis, 1)
       \/ \E tail \in rows : IsTail(tail) /\ Guess(c, tail.hash, tail.seq + 1)
    /\ UNCHANGED <<rows, now, lost>>

Taken(seq) == \E e \in rows : e.seq = seq

NewEntry(c) == Entry(c, call[c].prev, call[c].seq, call[c].stamp, call[c].key)

(* Mutants of Insert: no unique index; INSERT ... ON CONFLICT DO UPDATE; a  *)
(* retry on every error.                                                   *)
InsertAnywhere(c) ==
    /\ call[c].pc = "insert"
    /\ rows' = rows \cup {NewEntry(c)}
    /\ \E pc \in {"returned", "failed"} : call' = [call EXCEPT ![c].pc = pc]
    /\ UNCHANGED <<now, lost>>

InsertOrReplace(c) ==
    /\ call[c].pc = "insert"
    /\ rows' = {e \in rows : e.seq # call[c].seq} \cup {NewEntry(c)}
    /\ \E pc \in {"returned", "failed"} : call' = [call EXCEPT ![c].pc = pc]
    /\ UNCHANGED <<now, lost>>

InsertRetried(c) ==
    /\ call[c].pc = "insert"
    /\ ~Taken(call[c].seq)
    /\ rows' = rows \cup {NewEntry(c)}
    /\ \E pc \in {"returned", "read"} : call' = [call EXCEPT ![c].pc = pc]
    /\ UNCHANGED <<now, lost>>

(* INSERT and COMMIT. *)
Insert(c) ==
    /\ call[c].pc = "insert"
    /\ ~Taken(call[c].seq)
    /\ rows' = rows \cup {NewEntry(c)}
    /\ \E pc \in {"returned", "failed"} :  \* "failed": the reply to COMMIT is lost
          call' = [call EXCEPT ![c].pc = pc]
    /\ UNCHANGED <<now, lost>>

(* Mutant of Conflict: no retry. *)
ConflictNotRetried(c) ==
    /\ call[c].pc = "insert"
    /\ Taken(call[c].seq)
    /\ call' = [call EXCEPT ![c].pc = "exhausted"]
    /\ UNCHANGED <<rows, now, lost>>

(* 23505: another transaction has the position.  A new attempt reads the   *)
(* tail and the clock again, until the attempts are used up.               *)
Conflict(c) ==
    /\ call[c].pc = "insert"
    /\ Taken(call[c].seq)
    /\ \/ /\ call[c].attempt < MaxAttempts
          /\ call' = [call EXCEPT ![c].pc = "read", ![c].attempt = @ + 1]
       \/ /\ call[c].attempt >= MaxAttempts
          /\ call' = [call EXCEPT ![c].pc = "exhausted"]
    /\ UNCHANGED <<rows, now, lost>>

(* Any other error is thrown to the caller; or the instance dies. *)
Fail(c) ==
    /\ call[c].pc \in {"read", "insert"}
    /\ call' = [call EXCEPT ![c].pc = "failed"]
    /\ UNCHANGED <<rows, now, lost>>

Tick ==
    /\ now < MaxTime
    /\ now' = now + 1
    /\ UNCHANGED <<rows, call, lost>>

(* A row disappears: not by the service, which only inserts. *)
LoseRow ==
    /\ Cardinality(lost) < MaxLost
    /\ \E e \in rows :
          /\ rows' = rows \ {e}
          /\ lost' = lost \cup {[row |-> e, heirs |-> {d \in rows : d.seq > e.seq}]}
    /\ UNCHANGED <<now, call>>

Step(c) == ReadTail(c) \/ Insert(c) \/ Conflict(c) \/ Fail(c)

Next == (\E c \in Calls : Step(c)) \/ Tick \/ LoseRow

Spec == Init /\ [][Next]_vars

-----------------------------------------------------------------------------
(* verifyChain reads the rows in one query, in the order of seq. *)

(* dateRange filters the rows read. *)
InRange(from, to) == {e \in rows : from <= e.stamp /\ e.stamp <= to}

Precedes(d, e, entries) ==
    /\ d.seq < e.seq
    /\ \A x \in entries : ~(d.seq < x.seq /\ x.seq < e.seq)

(* Mutant of ContinuityBreaks: only neighbours in seq are compared. *)
ContinuityBreaksOfNeighbours(entries) ==
    {e \in entries : \E d \in entries : e.seq = d.seq + 1 /\ e.prev # d.hash}

ContinuityBreaks(entries) ==
    {e \in entries : \E d \in entries : Precedes(d, e, entries) /\ e.prev # d.hash}

Recomputed(e) == Canonical(e.evidence, e.prev, e.seq, e.stamp)

(* k is the key of the instance that verifies. *)
EntryBreaks(entries, k) ==
    {e \in entries :
        \/ Recomputed(e) # e.hash
        \/ k # NoKey /\ e.mac # Sign(k, Recomputed(e))}

Breaks(entries, k) == ContinuityBreaks(entries) \cup EntryBreaks(entries, k)

-----------------------------------------------------------------------------
(* Properties. *)

Undamaged == lost = {}

(* The positions of an undamaged ledger are 1..n, each taken once: losers  *)
(* of a race leave neither a gap nor a double.                             *)
PositionsAreDense ==
    Undamaged =>
        /\ {e.seq : e \in rows} = 1..Cardinality(rows)
        /\ \A d, e \in rows : d.seq = e.seq => d = e

(* A call records its evidence at most once, however often it retries, and *)
(* has recorded it when it returns.                                        *)
OneEntryPerCall ==
    \A c \in Calls :
        /\ \A d, e \in rows : d.evidence = c /\ e.evidence = c => d = e
        /\ call[c].pc = "returned" /\ Undamaged => \E e \in rows : e.evidence = c

(* A call gives up for contention only after MaxAttempts others have got   *)
(* in: with at most MaxAttempts appenders no append is refused.            *)
ExhaustedMeansContention ==
    \A c \in Calls : call[c].pc = "exhausted" /\ Undamaged => Cardinality(rows) >= MaxAttempts

(* Verification of an undamaged ledger, whole or by any date range, finds  *)
(* nothing but the entries not signed with the verifier's key: no race of  *)
(* appends and retries looks like tampering.                               *)
Unverifiable(e, k) == k # NoKey /\ e.mac # Sign(k, e.hash)

UndamagedLedgerVerifies ==
    Undamaged => \A from, to \in 0..MaxTime, k \in SigningKeys :
        Breaks(InRange(from, to), k) = {e \in InRange(from, to) : Unverifiable(e, k)}

(* A row that is lost from between two others shows as a break, whatever   *)
(* is appended or lost later, as long as a row before it and one that      *)
(* followed it are still there.                                            *)
InnerLossShows ==
    \A l \in lost :
        (\E d \in rows : d.seq < l.row.seq) /\ (\E e \in rows : e \in l.heirs)
            => ContinuityBreaks(rows) # {}

(* The ledger keeps AppendOnlyLog. *)
At(seq) ==
    LET here == {e \in rows : e.seq = seq}
    IN  IF here = {} THEN Genesis ELSE (CHOOSE e \in here : TRUE).evidence
Log == INSTANCE AppendOnlyLog
          WITH log <- IF Undamaged THEN [i \in 1..Cardinality(rows) |-> At(i)] ELSE <<>>,
               damaged <- ~Undamaged
KeepsLog == Log!Spec

=============================================================================
