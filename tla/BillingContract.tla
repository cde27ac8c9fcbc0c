--------------------------- MODULE BillingContract ---------------------------
(***************************************************************************)
(* What the webhooks promise of a subscription, however the provider       *)
(* repeats its events and the handlers overlap: an event is claimed once,  *)
(* takes effect at most once and at one instant, and does to the tenants   *)
(* row what its content says; one that is given up leaves no trace.        *)
(***************************************************************************)
CONSTANTS
    Events,
    Plans,  \* the plans, an amount of money being the plan it pays for
    Free,
    None    \* no plan in the event, or no amount in it

VARIABLES
    event,    \* event[e]: its content
    phase,    \* phase[e]: "new", "claimed", "done", or "lost"
    tenant,   \* the tenants row
    unchecked \* the events whose amount could not be read

contractVars == <<event, phase, tenant, unchecked>>

Become(e, from, to) ==
    /\ phase[e] = from
    /\ phase' = [phase EXCEPT ![e] = to]
    /\ UNCHANGED event

(* The plans that some event has paid for, or named unread. *)
Backed(p) ==
    \/ p = Free
    \/ \E e \in Events :
          /\ phase[e] = "done"
          /\ event[e].amount = p \/ (e \in unchecked /\ event[e].plan = p)

(* An event that names no plan renews one the tenant has had. *)
Names(e, p) == event[e].plan = p \/ (event[e].plan = None /\ Backed(p))

Claim(e) ==
    /\ Become(e, "new", "claimed")
    /\ UNCHANGED <<tenant, unchecked>>

Lose(e) ==
    /\ Become(e, "claimed", "lost") \/ Become(e, "new", "lost")
    /\ UNCHANGED <<tenant, unchecked>>

Unlock(p) ==
    tenant' = [plan |-> p, status |-> "active", access |-> "active", mrr |-> p]

(* A renewal may carry no amount; the one of a checkout, if it has any, is *)
(* looked up, and the look-up may fail.                                    *)
MayGoUnread(e) ==
    event[e].kind = "checkout" \/ (event[e].kind = "renewed" /\ event[e].amount = None)

(* A plan is unlocked for its price, or unread, and then for the record;   *)
(* any other amount unlocks nothing.                                       *)
Sell(e) ==
    /\ event[e].kind \in {"checkout", "renewed", "captured"}
    /\ Become(e, "claimed", "done")
    /\ \E p \in Plans :
          /\ Names(e, p)
          /\ \/ event[e].amount = p /\ Unlock(p) /\ UNCHANGED unchecked
             \/ MayGoUnread(e) /\ Unlock(p) /\ unchecked' = unchecked \cup {e}
             \/ /\ event[e].amount # p
                /\ event[e].amount = None => event[e].kind = "captured"
                /\ UNCHANGED <<tenant, unchecked>>

Suspend(e) ==
    /\ event[e].kind = "dunning"
    /\ Become(e, "claimed", "done")
    /\ tenant' = [plan |-> tenant.plan, status |-> "past_due",
                  access |-> "suspended", mrr |-> tenant.mrr]
    /\ UNCHANGED unchecked

FallBack(e) ==
    /\ event[e].kind = "deleted"
    /\ Become(e, "claimed", "done")
    /\ tenant' = [plan |-> Free, status |-> "canceled",
                  access |-> tenant.access, mrr |-> tenant.mrr]
    /\ UNCHANGED unchecked

Pass(e) ==
    /\ event[e].kind = "other"
    /\ Become(e, "claimed", "done")
    /\ UNCHANGED <<tenant, unchecked>>

(* No event has been seen, and the tenant has the free plan. *)
Init ==
    /\ phase = [e \in Events |-> "new"]
    /\ tenant = [plan |-> Free, status |-> "none", access |-> "active", mrr |-> None]
    /\ unchecked = {}

Next ==
    \E e \in Events :
        \/ Claim(e) \/ Lose(e)
        \/ Sell(e) \/ Suspend(e) \/ FallBack(e) \/ Pass(e)

Spec == Init /\ [][Next]_contractVars

=============================================================================
