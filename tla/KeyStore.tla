------------------------------ MODULE KeyStore ------------------------------
(***************************************************************************)
(* The Redis keys the API shares between its instances (app.redis, or its  *)
(* stand-in lib/in-memory-redis.ts): a value and a time to live, each      *)
(* command atomic, nothing atomic across two commands.  Values are         *)
(* counters; a marker has the value 1.                                     *)
(***************************************************************************)
EXTENDS Naturals

CONSTANT Keys

VARIABLE kv  \* kv[k]: the value, 0 when there is no entry, and whether it will expire

StoreTypeOK == kv \in [Keys -> [val : Nat, expires : BOOLEAN]]

Absent == [val |-> 0, expires |-> FALSE]
StoreInit == kv = [k \in Keys |-> Absent]

Present(k) == kv[k].val # 0
SetEntry(k, v, e) == kv' = [kv EXCEPT ![k] = [val |-> v, expires |-> e]]

(* A new counter has no time to live, an old one keeps its own. *)
Incr(k) == SetEntry(k, kv[k].val + 1, kv[k].expires)

(* EXPIRE of a key that is not there does nothing. *)
Expire(k) == IF Present(k) THEN SetEntry(k, kv[k].val, TRUE) ELSE UNCHANGED kv

(* SET k 1 EX. *)
SetEx(k) == SetEntry(k, 1, TRUE)

(* DEL. *)
Del(k) == SetEntry(k, 0, FALSE)

(* The time to live of the entry runs out. *)
Lapse(k) ==
    /\ Present(k) /\ kv[k].expires
    /\ Del(k)

=============================================================================
