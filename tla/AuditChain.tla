----------------------------- MODULE AuditChain -----------------------------
(***************************************************************************)
(* The audit chain of one tenant (services/audit-chain-service.ts): calls  *)
(* of logChained, each a transaction that takes the row lock on the        *)
(* tenant's head in audit_chain_state, inserts into audit_logs and         *)
(* advances the head; and verifyChain over what was committed.  Rows that  *)
(* other code inserts without chain metadata are skipped by verifyChain    *)
(* and left out.  SHA-256 is taken to be injective: a digest is the record *)
(* it digests.  Database and API share one clock here.                     *)
(***************************************************************************)
EXTENDS Naturals, FiniteSets

CONSTANTS
    Calls,    \* calls of logChained, one per audited request
    Genesis,  \* GENESIS_HASH
    MaxTime   \* bound: clock readings

ASSUME CallsAssumption == IsFiniteSet(Calls)
ASSUME MaxTimeAssumption == MaxTime \in Nat

VARIABLES
    logs,  \* the chained rows of audit_logs that are committed
    head,  \* the tenant's row of audit_chain_state
    call,  \* call[c]: where call c stands, and what its transaction has seen
    now    \* the clock

vars == <<logs, head, call, now>>

EntryHash(c, stamp) == [entry |-> c, stamp |-> stamp]
ChainHash(prev, entryHash) == [prev |-> prev, entryHash |-> entryHash]

Steps == {"idle", "begun", "locked", "inserted", "committed", "failed"}
InTransaction == {"begun", "locked", "inserted"}
LockHolders == {c \in Calls : call[c].pc \in {"locked", "inserted"}}

TypeOK ==
    /\ \A e \in logs : e.entry \in Calls /\ e.seq \in Nat \ {0} /\ e.createdAt \in 0..now
    /\ head.seq \in Nat
    /\ \A c \in Calls : /\ call[c].pc \in Steps
                        /\ call[c].begunAt \in 0..now
                        /\ call[c].stamp \in 0..now
                        /\ call[c].seq \in Nat
    /\ now \in 0..MaxTime

Init ==
    /\ logs = {}
    /\ head = [hash |-> Genesis, seq |-> 0]
    /\ call = [c \in Calls |-> [pc |-> "idle", begunAt |-> 0, stamp |-> 0,
                                prev |-> Genesis, seq |-> 0]]
    /\ now = 0

(* BEGIN fixes now() for the transaction, and with it the default of created_at. *)
Begin(c) ==
    /\ call[c].pc = "idle"
    /\ call' = [call EXCEPT ![c].pc = "begun", ![c].begunAt = now]
    /\ UNCHANGED <<logs, head, now>>

(* Mutants of LockHead: a plain SELECT; the entry is hashed with the time  *)
(* of BEGIN, which makes created_at and the hashed timestamp agree.        *)
ReadHead(c) ==
    /\ call[c].pc = "begun"
    /\ call' = [call EXCEPT ![c].pc = "locked", ![c].stamp = now,
                            ![c].prev = head.hash, ![c].seq = head.seq + 1]
    /\ UNCHANGED <<logs, head, now>>

LockHeadStampedEarly(c) ==
    /\ call[c].pc = "begun"
    /\ LockHolders = {}
    /\ call' = [call EXCEPT ![c].pc = "locked", ![c].stamp = call[c].begunAt,
                            ![c].prev = head.hash, ![c].seq = head.seq + 1]
    /\ UNCHANGED <<logs, head, now>>

(* The upsert locks the head row until the transaction ends.  The next     *)
(* statement of logChained reads the API's clock.                          *)
LockHead(c) ==
    /\ call[c].pc = "begun"
    /\ LockHolders = {}
    /\ call' = [call EXCEPT ![c].pc = "locked", ![c].stamp = now,
                            ![c].prev = head.hash, ![c].seq = head.seq + 1]
    /\ UNCHANGED <<logs, head, now>>

Row(c) ==
    LET t == call[c]
    IN  [entry |-> c, createdAt |-> t.begunAt, seq |-> t.seq, prev |-> t.prev,
         entryHash |-> EntryHash(c, t.stamp),
         hash |-> ChainHash(t.prev, EntryHash(c, t.stamp))]

(* The INSERT is visible to nobody before COMMIT. *)
InsertEntry(c) ==
    /\ call[c].pc = "locked"
    /\ call' = [call EXCEPT ![c].pc = "inserted"]
    /\ UNCHANGED <<logs, head, now>>

(* Mutant of AdvanceHead: a lost reply is retried. *)
AdvanceHeadRetried(c) ==
    /\ call[c].pc = "inserted"
    /\ logs' = logs \cup {Row(c)}
    /\ head' = [hash |-> Row(c).hash, seq |-> call[c].seq]
    /\ \E pc \in {"committed", "idle"} : call' = [call EXCEPT ![c].pc = pc]
    /\ UNCHANGED now

(* UPDATE audit_chain_state and COMMIT.  "failed": the reply is lost. *)
AdvanceHead(c) ==
    /\ call[c].pc = "inserted"
    /\ logs' = logs \cup {Row(c)}
    /\ head' = [hash |-> Row(c).hash, seq |-> call[c].seq]
    /\ \E pc \in {"committed", "failed"} : call' = [call EXCEPT ![c].pc = pc]
    /\ UNCHANGED now

(* A statement fails or the process dies: the transaction is rolled back,  *)
(* the onResponse hook swallows the error.                                 *)
Rollback(c) ==
    /\ call[c].pc \in InTransaction
    /\ call' = [call EXCEPT ![c].pc = "failed"]
    /\ UNCHANGED <<logs, head, now>>

Tick ==
    /\ now < MaxTime
    /\ now' = now + 1
    /\ UNCHANGED <<logs, head, call>>

Step(c) == Begin(c) \/ LockHead(c) \/ InsertEntry(c) \/ AdvanceHead(c) \/ Rollback(c)

Next == (\E c \in Calls : Step(c)) \/ Tick

Spec == Init /\ [][Next]_vars

-----------------------------------------------------------------------------
(* verifyChain reads the rows ORDER BY created_at; rows of one instant come *)
(* in any order.  It stops after the first 10000, which are taken to be all *)
(* the rows there are: of a longer chain it judges the oldest part only.    *)

Orders ==
    {o \in [1..Cardinality(logs) -> logs] :
        /\ \A i, j \in DOMAIN o : o[i] = o[j] => i = j
        /\ \A i, j \in DOMAIN o : i <= j => o[i].createdAt <= o[j].createdAt}

(* It hashes created_at in the place of the timestamp logChained hashed. *)
Verifies(order) ==
    \A i \in DOMAIN order :
        LET e == order[i]
        IN  /\ EntryHash(e.entry, e.createdAt) = e.entryHash
            /\ ChainHash(e.prev, e.entryHash) = e.hash
            /\ e.prev = IF i = 1 THEN Genesis ELSE order[i - 1].hash

-----------------------------------------------------------------------------
(* Properties. *)

(* The chain never forks and has no gap: the rows are numbered 1..n, each  *)
(* links to the one before it, and the head is the last of them, whatever  *)
(* raced, failed or was rolled back.                                       *)
ChainIsLinear ==
    /\ {e.seq : e \in logs} = 1..head.seq
    /\ \A d, e \in logs : d.seq = e.seq => d = e
    /\ \A e \in logs : e.seq = 1 => e.prev = Genesis
    /\ \A d, e \in logs : e.seq = d.seq + 1 => e.prev = d.hash
    /\ head.seq = 0 => head.hash = Genesis
    /\ \A e \in logs : e.seq = head.seq => e.hash = head.hash

(* A call that reports success has its entry in the log, once; one that    *)
(* was rolled back has none, unless only the reply to its COMMIT was lost. *)
OneEntryPerCall ==
    \A c \in Calls :
        /\ \A d, e \in logs : d.entry = c /\ e.entry = c => d = e
        /\ call[c].pc = "committed" => \E e \in logs : e.entry = c
        /\ (\E e \in logs : e.entry = c) => call[c].pc \in {"committed", "failed"}

(* The chain keeps AppendOnlyLog, in the order of its sequence numbers. *)
At(seq) ==
    LET here == {e \in logs : e.seq = seq}
    IN  IF here = {} THEN Genesis ELSE (CHOOSE e \in here : TRUE).entry
Log == INSTANCE AppendOnlyLog
          WITH log <- [i \in 1..Cardinality(logs) |-> At(i)], damaged <- FALSE
KeepsLog == Log!Spec

(* "data tampered", "entry inserted or deleted": verifyChain says so of    *)
(* a chain only if something but logChained has touched its rows.          *)
UntouchedChainVerifies == \A o \in Orders : Verifies(o)

(* That is all that is wrong with it: where created_at happens to be the   *)
(* timestamp that was hashed, and no two rows share it, an untouched chain *)
(* verifies.  The timestamps are read under the lock, so their order is    *)
(* that of the links, in whatever order the transactions began.            *)
Punctual ==
    /\ \A e \in logs : EntryHash(e.entry, e.createdAt) = e.entryHash
    /\ \A d, e \in logs : d.createdAt = e.createdAt => d = e
PunctualChainVerifies == Punctual => UntouchedChainVerifies

=============================================================================
