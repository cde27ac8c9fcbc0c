------------------------------- MODULE Billing -------------------------------
(***************************************************************************)
(* The subscription of one tenant as the payment providers' webhooks set   *)
(* it (routes/payments-stripe.ts, routes/payments.ts).  A provider         *)
(* delivers an event at least once and retries what was not answered; a    *)
(* handler marks the event in Redis before it touches the tenant row.      *)
(* Redis is configured and every event has an id; markers outlive the      *)
(* provider's retries.  POST /api/payments/verify, which writes the plan   *)
(* that its body names, is left out: the properties are about webhooks.    *)
(***************************************************************************)
EXTENDS KeyStore

CONSTANTS
    Plans,         \* the plans, an amount of money being the plan it pays for
    Free,          \* the plan a tenant starts with and falls back to
    Handlers,      \* webhook requests in flight at a time
    MaxDeliveries, \* bound: how often a provider delivers an event
    None           \* no plan in the event, no amount in it, or no event

Events == Keys

ASSUME FreeAssumption == Free \in Plans
ASSUME NoneAssumption == None \notin Plans \cup Keys
ASSUME DeliveriesAssumption == MaxDeliveries \in Nat

VARIABLES
    event,       \* event[e]: what the provider has to say
    deliveries,  \* deliveries[e]: how often it has said so
    tenant,      \* the tenants row: plan, status, access (onboarding_status), mrr
    handler,     \* handler[h]: where handler h stands, on which event, with what it read
    answered,    \* the events answered with a 200
    handled,     \* history: handled[e] counts the handlings that came to their end
    interrupted, \* history: the events a handler failed on once they were marked
    unchecked    \* history: the events whose amount could not be read

vars == <<kv, event, deliveries, tenant, handler, answered, handled, interrupted, unchecked>>

(* checkout.session.completed; subscription.updated to active or trialing; *)
(* payment.captured; past_due, unpaid, payment_failed, halted or pending;  *)
(* subscription.deleted; any other event.                                  *)
Kinds == {"checkout", "renewed", "captured", "dunning", "deleted", "other"}

Contents ==
    [kind : {"checkout", "captured"}, plan : Plans, amount : Plans \cup {None}]
    \cup [kind : {"renewed"}, plan : Plans \cup {None}, amount : Plans \cup {None}]
    \cup [kind : {"dunning", "deleted", "other"}, plan : {None}, amount : {None}]

Steps == {"idle", "dedupe", "handle", "provision", "reply"}
IdleHandler == [pc |-> "idle", ev |-> None, plan |-> None, amount |-> None]

TypeOK ==
    /\ StoreTypeOK
    /\ event \in [Events -> Contents]
    /\ deliveries \in [Events -> Nat]
    /\ tenant \in [plan : Plans, status : {"none", "active", "past_due", "canceled"},
                   access : {"active", "suspended"}, mrr : Plans \cup {None}]
    /\ handler \in [Handlers -> [pc : Steps, ev : Events \cup {None},
                                 plan : Plans \cup {None}, amount : Plans \cup {None}]]
    /\ answered \subseteq Events
    /\ handled \in [Events -> Nat]
    /\ interrupted \subseteq Events
    /\ unchecked \subseteq Events

Init ==
    /\ StoreInit
    /\ event \in [Events -> Contents]
    /\ deliveries = [e \in Events |-> 0]
    /\ tenant = [plan |-> Free, status |-> "none", access |-> "active", mrr |-> None]
    /\ handler = [h \in Handlers |-> IdleHandler]
    /\ answered = {}
    /\ handled = [e \in Events |-> 0]
    /\ interrupted = {}
    /\ unchecked = {}

Goto(h, pc, e, plan, amount) ==
    handler' = [handler EXCEPT ![h] = [pc |-> pc, ev |-> e, plan |-> plan, amount |-> amount]]
Done(h) == handler' = [handler EXCEPT ![h] = IdleHandler]
Ev(h) == handler[h].ev
Kind(h) == event[handler[h].ev].kind

(* The handling of the event is over: its UPDATE is done, or it needs none. *)
Handled(h) ==
    /\ handled' = [handled EXCEPT ![Ev(h)] = handled[Ev(h)] + 1]
    /\ Goto(h, "reply", Ev(h), None, None)

-----------------------------------------------------------------------------

(* The provider delivers, retries, or delivers again what is in flight. *)
Deliver(h, e) ==
    /\ handler[h].pc = "idle"
    /\ deliveries[e] < MaxDeliveries
    /\ deliveries' = [deliveries EXCEPT ![e] = deliveries[e] + 1]
    /\ Goto(h, "dedupe", e, None, None)
    /\ UNCHANGED <<kv, event, tenant, answered, handled, interrupted, unchecked>>

(* Mutant of Mark: the marker is only looked up, a later command sets it. *)
MarkLookup(h) ==
    /\ handler[h].pc = "dedupe"
    /\ ~Present(Ev(h))
    /\ Goto(h, "handle", Ev(h), None, None)
    /\ UNCHANGED <<kv, event, deliveries, tenant, answered, handled, interrupted, unchecked>>

(* SET NX: the first delivery marks the event and handles it. *)
Mark(h) ==
    /\ handler[h].pc = "dedupe"
    /\ ~Present(Ev(h))
    /\ SetEx(Ev(h))
    /\ Goto(h, "handle", Ev(h), None, None)
    /\ UNCHANGED <<event, deliveries, tenant, answered, handled, interrupted, unchecked>>

(* Any other is told that the event was processed. *)
Dedupe(h) ==
    /\ handler[h].pc = "dedupe"
    /\ Present(Ev(h))
    /\ answered' = answered \cup {Ev(h)}
    /\ Done(h)
    /\ UNCHANGED <<kv, event, deliveries, tenant, handled, interrupted, unchecked>>

(* Where the plan and the amount come from.  A failed retrieval of the     *)
(* subscription leaves a checkout without an amount; the plan of a renewal *)
(* that names none is the one the tenant has now.                          *)
Resolve(h) ==
    /\ handler[h].pc = "handle"
    /\ \/ /\ Kind(h) = "checkout"
          /\ \E amount \in {event[Ev(h)].amount, None} :
                Goto(h, "provision", Ev(h), event[Ev(h)].plan, amount)
       \/ /\ Kind(h) = "renewed"
          /\ Goto(h, "provision", Ev(h),
                  IF event[Ev(h)].plan = None THEN tenant.plan ELSE event[Ev(h)].plan,
                  event[Ev(h)].amount)
       \/ /\ Kind(h) = "captured"
          /\ Goto(h, "provision", Ev(h), event[Ev(h)].plan, event[Ev(h)].amount)
    /\ UNCHANGED <<kv, event, deliveries, tenant, answered, handled, interrupted, unchecked>>

(* Mutant of PaysFor: the amount is logged and not compared. *)
PaysForAny(kind, amount, plan) == TRUE

(* Without an amount a subscription passes, and a captured payment fails. *)
PaysFor(kind, amount, plan) == amount = plan \/ (amount = None /\ kind # "captured")

(* One UPDATE, or none over a wrong amount. *)
Provision(h) ==
    /\ handler[h].pc = "provision"
    /\ IF PaysFor(Kind(h), handler[h].amount, handler[h].plan)
          THEN /\ tenant' = [plan |-> handler[h].plan, status |-> "active",
                             access |-> "active", mrr |-> handler[h].plan]
               /\ unchecked' = unchecked \cup (IF handler[h].amount = None THEN {Ev(h)} ELSE {})
          ELSE UNCHANGED <<tenant, unchecked>>
    /\ Handled(h)
    /\ UNCHANGED <<kv, event, deliveries, answered, interrupted>>

MarkPastDue(h) ==
    /\ handler[h].pc = "handle"
    /\ Kind(h) = "dunning"
    /\ tenant' = [plan |-> tenant.plan, status |-> "past_due",
                  access |-> "suspended", mrr |-> tenant.mrr]
    /\ Handled(h)
    /\ UNCHANGED <<kv, event, deliveries, answered, interrupted, unchecked>>

(* The access and the revenue stay as they are. *)
Cancel(h) ==
    /\ handler[h].pc = "handle"
    /\ Kind(h) = "deleted"
    /\ tenant' = [plan |-> Free, status |-> "canceled",
                  access |-> tenant.access, mrr |-> tenant.mrr]
    /\ Handled(h)
    /\ UNCHANGED <<kv, event, deliveries, answered, interrupted, unchecked>>

Ignore(h) ==
    /\ handler[h].pc = "handle"
    /\ Kind(h) = "other"
    /\ Handled(h)
    /\ UNCHANGED <<kv, event, deliveries, tenant, answered, interrupted, unchecked>>

Reply(h) ==
    /\ handler[h].pc = "reply"
    /\ answered' = answered \cup {Ev(h)}
    /\ Done(h)
    /\ UNCHANGED <<kv, event, deliveries, tenant, handled, interrupted, unchecked>>

(* Mutant of Fail: an error is logged and answered with a 200. *)
FailSwallowed(h) ==
    /\ handler[h].pc # "idle"
    /\ answered' = answered \cup {Ev(h)}
    /\ Done(h)
    /\ UNCHANGED <<kv, event, deliveries, tenant, handled, interrupted, unchecked>>

(* A failed Redis or database call, the death of the instance, a lost      *)
(* reply.  Nothing takes the marker back.                                  *)
Fail(h) ==
    /\ handler[h].pc # "idle"
    /\ interrupted' = interrupted \cup
          (IF handler[h].pc \in {"handle", "provision"} THEN {Ev(h)} ELSE {})
    /\ Done(h)
    /\ UNCHANGED <<kv, event, deliveries, tenant, answered, handled, unchecked>>

(* The SET was carried out and its reply was lost. *)
FailMarked(h) ==
    /\ handler[h].pc = "dedupe"
    /\ ~Present(Ev(h))
    /\ SetEx(Ev(h))
    /\ interrupted' = interrupted \cup {Ev(h)}
    /\ Done(h)
    /\ UNCHANGED <<event, deliveries, tenant, answered, handled, unchecked>>

HandlerStep(h) ==
    \/ Mark(h) \/ Dedupe(h) \/ Resolve(h) \/ Provision(h) \/ MarkPastDue(h)
    \/ Cancel(h) \/ Ignore(h) \/ Reply(h) \/ Fail(h) \/ FailMarked(h)

Next ==
    \/ \E h \in Handlers, e \in Events : Deliver(h, e)
    \/ \E h \in Handlers : HandlerStep(h)

Spec == Init /\ [][Next]_vars

-----------------------------------------------------------------------------
(* Properties. *)

(* An event changes the tenant at most once, however often it is delivered *)
(* and whether or not an earlier delivery is still in flight.              *)
HandledOnce == \A e \in Events : handled[e] <= 1

(* The steps of overlapping handlers add up to events that each take       *)
(* effect once, at one instant, as their content says: Billing implements  *)
(* BillingContract.  An event is claimed while a handler is on it, and     *)
(* lost when it has its marker and nobody is.                              *)
OnIt(h, e) == Ev(h) = e /\ handler[h].pc \in {"handle", "provision"}

Phase(e) ==
    IF handled[e] > 0 THEN "done"
    ELSE IF \E h \in Handlers : OnIt(h, e) THEN "claimed"
    ELSE IF Present(e) THEN "lost"
    ELSE "new"

Contract == INSTANCE BillingContract WITH phase <- [e \in Events |-> Phase(e)]
KeepsEventContract == Contract!Spec

(* A 200 for an event that was not handled is sent only while a handler is *)
(* still on it, or after one failed on it: that event is lost, since its   *)
(* retries are answered by Dedupe.                                         *)
LostOnlyIfInterrupted ==
    \A e \in answered : handled[e] = 0 =>
        \/ e \in interrupted
        \/ \E h \in Handlers : OnIt(h, e)

(* "An underpaid subscription can never unlock a plan": the tenant's plan  *)
(* is free, or some handled event carried its price, or named it while its *)
(* amount could not be read.  A renewal that was overtaken between its     *)
(* SELECT and its UPDATE brings back a plan that was paid, or none.        *)
Paid(p) ==
    \/ p = Free
    \/ \E e \in Events :
          /\ handled[e] > 0
          /\ event[e].amount = p \/ (e \in unchecked /\ event[e].plan = p)
PlanIsPaid == Paid(tenant.plan)

=============================================================================
