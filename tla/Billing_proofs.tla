---------------------------- MODULE Billing_proofs ----------------------------
(***************************************************************************)
(* Proofs about Billing, for any number of events, plans and handlers.     *)
(***************************************************************************)
EXTENDS Billing, TLAPS

USE DEF Events

HandlerType == [pc : Steps, ev : Events \cup {None},
                plan : Plans \cup {None}, amount : Plans \cup {None}]

Working == {"handle", "provision"}

(* A handler that is not idle has an event, one at provision has a plan. *)
HandlerOK ==
    \A h \in Handlers :
        /\ handler[h].pc # "idle" => Ev(h) \in Events
        /\ handler[h].pc = "provision" => handler[h].plan \in Plans

TypeInv == TypeOK /\ HandlerOK

-----------------------------------------------------------------------------
(* What the steps do to the handlers. *)

LEMMA GotoEffect ==
  ASSUME TypeInv, NEW h \in Handlers, NEW pc \in Steps, NEW e \in Events,
         NEW plan \in Plans \cup {None}, NEW amount \in Plans \cup {None},
         pc = "provision" => plan \in Plans,
         Goto(h, pc, e, plan, amount)
  PROVE  /\ handler' \in [Handlers -> HandlerType] /\ HandlerOK'
         /\ handler'[h] = [pc |-> pc, ev |-> e, plan |-> plan, amount |-> amount]
         /\ \A g \in Handlers \ {h} : handler'[g] = handler[g]
BY DEF TypeInv, TypeOK, Goto, HandlerOK, HandlerType, Ev

LEMMA DoneEffect ==
  ASSUME TypeInv, NEW h \in Handlers, Done(h)
  PROVE  /\ handler' \in [Handlers -> HandlerType] /\ HandlerOK'
         /\ handler'[h].pc = "idle"
         /\ \A g \in Handlers \ {h} : handler'[g] = handler[g]
<1>1. IdleHandler \in HandlerType
  BY DEF IdleHandler, HandlerType, Steps
<1>2. QED
  BY <1>1 DEF TypeInv, TypeOK, Done, IdleHandler, HandlerOK, HandlerType, Ev

LEMMA HandledEffect ==
  ASSUME TypeInv, NEW h \in Handlers, handler[h].pc # "idle", Handled(h)
  PROVE  /\ handler' \in [Handlers -> HandlerType] /\ HandlerOK'
         /\ handler'[h].pc = "reply" /\ handler'[h].ev = Ev(h)
         /\ \A g \in Handlers \ {h} : handler'[g] = handler[g]
         /\ handled' \in [Events -> Nat]
         /\ handled'[Ev(h)] = handled[Ev(h)] + 1
         /\ \A e \in Events \ {Ev(h)} : handled'[e] = handled[e]
<1>1. Ev(h) \in Events /\ handled[Ev(h)] + 1 \in Nat
  BY DEF TypeInv, TypeOK, HandlerOK
<1>2. Goto(h, "reply", Ev(h), None, None)
  BY DEF Handled
<1>3. /\ handler' \in [Handlers -> HandlerType] /\ HandlerOK'
      /\ handler'[h] = [pc |-> "reply", ev |-> Ev(h), plan |-> None, amount |-> None]
      /\ \A g \in Handlers \ {h} : handler'[g] = handler[g]
  BY <1>1, <1>2, GotoEffect DEF Steps
<1>4. QED
  BY <1>1, <1>3 DEF Handled, TypeInv, TypeOK

LEMMA SetExEffect ==
  ASSUME TypeOK, NEW e \in Keys, SetEx(e)
  PROVE  StoreTypeOK' /\ kv'[e].val # 0 /\ \A d \in Keys \ {e} : kv'[d] = kv[d]
<1>1. [val |-> 1, expires |-> TRUE] \in [val : Nat, expires : BOOLEAN]
  OBVIOUS
<1>2. QED
  BY <1>1 DEF TypeOK, StoreTypeOK, SetEx, SetEntry

Selling == {"checkout", "renewed", "captured"}

(* Resolve takes a handler to provision, with what it says about the plan. *)
LEMMA ResolveEffect ==
  ASSUME TypeInv, NEW h \in Handlers, Resolve(h)
  PROVE  /\ Ev(h) \in Events /\ handler[h].pc = "handle"
         /\ handler' \in [Handlers -> HandlerType] /\ HandlerOK'
         /\ handler'[h].pc = "provision" /\ handler'[h].ev = Ev(h)
         /\ handler'[h].amount \in {event[Ev(h)].amount, None}
         /\ handler'[h].plan = event[Ev(h)].plan \/ handler'[h].plan = tenant.plan
         /\ event[Ev(h)].kind \in Selling
         /\ handler'[h].amount = event[Ev(h)].amount \/ event[Ev(h)].kind = "checkout"
         /\ handler'[h].plan = event[Ev(h)].plan \/ event[Ev(h)].plan = None
         /\ \A g \in Handlers \ {h} : handler'[g] = handler[g]
<1> DEFINE c == event[Ev(h)]
<1>1. Ev(h) \in Events /\ handler[h].pc = "handle"
  BY DEF Resolve, TypeInv, HandlerOK
<1>2. c \in Contents /\ tenant.plan \in Plans
  BY <1>1 DEF TypeInv, TypeOK
<1>3. c.amount \in Plans \cup {None} /\ c.plan \in Plans \cup {None}
  BY <1>2 DEF Contents
<1>4. c.kind \in {"checkout", "captured"} => c.plan \in Plans
  BY <1>2 DEF Contents
<1>5. \E plan \in Plans, amount \in {c.amount, None} :
         /\ Goto(h, "provision", Ev(h), plan, amount)
         /\ plan = c.plan \/ (c.plan = None /\ plan = tenant.plan)
         /\ c.kind \in Selling /\ (amount = c.amount \/ c.kind = "checkout")
  <2>1. CASE Kind(h) = "checkout"
    <3>1. c.plan \in Plans
      BY <1>4, <2>1 DEF Kind, Ev
    <3>2. QED
      BY <2>1, <3>1 DEF Resolve, Kind, Ev, Selling
  <2>2. CASE Kind(h) = "renewed"
    <3> DEFINE p == IF c.plan = None THEN tenant.plan ELSE c.plan
    <3>1. Goto(h, "provision", Ev(h), p, c.amount)
      BY <2>2 DEF Resolve
    <3>2. p \in Plans /\ (p = c.plan \/ (c.plan = None /\ p = tenant.plan))
      BY <1>2, <1>3
    <3> HIDE DEF p
    <3>3. QED
      BY <2>2, <3>1, <3>2 DEF Kind, Ev, Selling
  <2>3. CASE Kind(h) = "captured"
    <3>1. c.plan \in Plans
      BY <1>4, <2>3 DEF Kind, Ev
    <3>2. QED
      BY <2>3, <3>1 DEF Resolve, Kind, Ev, Selling
  <2>4. QED
    BY <2>1, <2>2, <2>3 DEF Resolve
<1>6. PICK plan \in Plans, amount \in {c.amount, None} :
         /\ Goto(h, "provision", Ev(h), plan, amount)
         /\ plan = c.plan \/ (c.plan = None /\ plan = tenant.plan)
         /\ c.kind \in Selling /\ (amount = c.amount \/ c.kind = "checkout")
  BY <1>5
<1>7. amount \in Plans \cup {None} /\ amount \in {event[Ev(h)].amount, None}
      /\ (plan = event[Ev(h)].plan \/ (event[Ev(h)].plan = None /\ plan = tenant.plan))
      /\ event[Ev(h)].kind \in Selling
      /\ (amount = event[Ev(h)].amount \/ event[Ev(h)].kind = "checkout")
  BY <1>3, <1>6
<1> HIDE DEF c
<1>8. /\ handler' \in [Handlers -> HandlerType] /\ HandlerOK'
      /\ handler'[h] = [pc |-> "provision", ev |-> Ev(h), plan |-> plan, amount |-> amount]
      /\ \A g \in Handlers \ {h} : handler'[g] = handler[g]
  BY <1>1, <1>6, <1>7, GotoEffect DEF Steps
<1>9. QED
  BY <1>1, <1>7, <1>8

-----------------------------------------------------------------------------
(* Type correctness. *)

LEMMA TypeInit == Init => TypeInv
<1> SUFFICES ASSUME Init PROVE TypeInv
  OBVIOUS
<1>1. StoreTypeOK
  <2>1. Absent \in [val : Nat, expires : BOOLEAN]
    BY DEF Absent
  <2>2. QED
    BY <2>1 DEF Init, StoreInit, StoreTypeOK
<1>2. handler \in [Handlers -> HandlerType] /\ HandlerOK
  BY DEF Init, IdleHandler, HandlerType, Steps, HandlerOK
<1>3. QED
  BY <1>1, <1>2, FreeAssumption DEF Init, TypeInv, TypeOK, HandlerType

LEMMA TypeInductive == TypeInv /\ [Next]_vars => TypeInv'
<1> SUFFICES ASSUME TypeInv, [Next]_vars PROVE TypeInv'
  OBVIOUS
<1> USE DEF TypeInv
<1>1. ASSUME NEW h \in Handlers, NEW e \in Events, Deliver(h, e) PROVE TypeInv'
  <2>1. handler' \in [Handlers -> HandlerType] /\ HandlerOK'
    BY <1>1, GotoEffect DEF Deliver, Steps
  <2>2. QED
    BY <1>1, <2>1 DEF Deliver, TypeOK, StoreTypeOK, HandlerType
<1>2. ASSUME NEW h \in Handlers, Mark(h) \/ FailMarked(h) PROVE TypeInv'
  <2>1. Ev(h) \in Events
    BY <1>2 DEF Mark, FailMarked, HandlerOK
  <2>2. StoreTypeOK'
    BY <1>2, <2>1, SetExEffect DEF Mark, FailMarked
  <2>3. handler' \in [Handlers -> HandlerType] /\ HandlerOK'
    BY <1>2, <2>1, GotoEffect, DoneEffect DEF Mark, FailMarked, Steps
  <2>4. QED
    BY <1>2, <2>1, <2>2, <2>3 DEF Mark, FailMarked, TypeOK, HandlerType
<1>3. ASSUME NEW h \in Handlers, Dedupe(h) \/ Reply(h) \/ Fail(h) PROVE TypeInv'
  <2>1. Ev(h) \in Events
    BY <1>3 DEF Dedupe, Reply, Fail, HandlerOK
  <2>2. handler' \in [Handlers -> HandlerType] /\ HandlerOK'
    BY <1>3, DoneEffect DEF Dedupe, Reply, Fail
  <2>3. QED
    BY <1>3, <2>1, <2>2 DEF Dedupe, Reply, Fail, TypeOK, StoreTypeOK, HandlerType
<1>4. ASSUME NEW h \in Handlers, Resolve(h) PROVE TypeInv'
  <2>1. handler' \in [Handlers -> HandlerType] /\ HandlerOK'
    BY <1>4, ResolveEffect
  <2>2. QED
    BY <1>4, <2>1 DEF Resolve, TypeOK, StoreTypeOK, HandlerType
<1>5. ASSUME NEW h \in Handlers, Provision(h) PROVE TypeInv'
  <2>1. /\ handler' \in [Handlers -> HandlerType] /\ HandlerOK'
        /\ handled' \in [Events -> Nat] /\ Ev(h) \in Events /\ handler[h].plan \in Plans
    BY <1>5, HandledEffect DEF Provision, HandlerOK
  <2>2. unchecked' \subseteq Events
    BY <1>5, <2>1 DEF Provision, TypeOK
  <2>3. tenant' \in [plan : Plans, status : {"none", "active", "past_due", "canceled"},
                     access : {"active", "suspended"}, mrr : Plans \cup {None}]
    BY <1>5, <2>1 DEF Provision, TypeOK
  <2>4. QED
    BY <1>5, <2>1, <2>2, <2>3 DEF Provision, TypeOK, StoreTypeOK, HandlerType
<1>6. ASSUME NEW h \in Handlers, MarkPastDue(h) \/ Cancel(h) \/ Ignore(h) PROVE TypeInv'
  <2>1. /\ handler' \in [Handlers -> HandlerType] /\ HandlerOK'
        /\ handled' \in [Events -> Nat]
    BY <1>6, HandledEffect DEF MarkPastDue, Cancel, Ignore
  <2>2. tenant' \in [plan : Plans, status : {"none", "active", "past_due", "canceled"},
                     access : {"active", "suspended"}, mrr : Plans \cup {None}]
    BY <1>6, FreeAssumption DEF MarkPastDue, Cancel, Ignore, TypeOK
  <2>3. QED
    BY <1>6, <2>1, <2>2 DEF MarkPastDue, Cancel, Ignore, TypeOK, StoreTypeOK, HandlerType
<1>7. CASE UNCHANGED vars
  BY <1>7 DEF vars, TypeOK, StoreTypeOK, HandlerOK, Ev
<1>8. QED
  BY <1>1, <1>2, <1>3, <1>4, <1>5, <1>6, <1>7 DEF Next, HandlerStep

LEMMA TypeInvariant == Spec => []TypeInv
BY TypeInit, TypeInductive, PTL DEF Spec

(* TypeOK holds of every instance. *)
THEOREM TypeCorrect == Spec => []TypeOK
<1>1. TypeInv => TypeOK
  BY DEF TypeInv
<1>2. QED
  BY <1>1, TypeInvariant, PTL

-----------------------------------------------------------------------------
(* The marker.  An event without one is untouched; one handler at most is  *)
(* past it, and only while the event is not handled; and an event with one *)
(* is being handled, was handled, or was failed on.                        *)

MarkInv ==
    \A e \in Events :
        /\ ~Present(e) => handled[e] = 0 /\ e \notin answered /\ \A h \in Handlers : ~OnIt(h, e)
        /\ Present(e) => handled[e] = 1 \/ e \in interrupted \/ \E h \in Handlers : OnIt(h, e)
        /\ handled[e] \in {0, 1}
        /\ \A h \in Handlers : OnIt(h, e) =>
              handled[e] = 0 /\ \A g \in Handlers \ {h} : ~OnIt(g, e)
        /\ \A h \in Handlers : handler[h].pc = "reply" /\ Ev(h) = e => handled[e] = 1

LEMMA MarkInductive == TypeInv /\ MarkInv /\ [Next]_vars => MarkInv'
<1> SUFFICES ASSUME TypeInv, MarkInv, [Next]_vars PROVE MarkInv'
  OBVIOUS
<1> USE DEF OnIt, Working
<1>1. ASSUME NEW h \in Handlers, NEW e \in Events, Deliver(h, e) PROVE MarkInv'
  <2>1. /\ handler'[h] = [pc |-> "dedupe", ev |-> e, plan |-> None, amount |-> None]
        /\ \A g \in Handlers \ {h} : handler'[g] = handler[g]
        /\ handler[h].pc = "idle"
    BY <1>1, GotoEffect DEF Deliver, Steps
  <2>2. UNCHANGED <<kv, handled, answered, interrupted>>
    BY <1>1 DEF Deliver
  <2>3. QED
    BY <2>1, <2>2 DEF MarkInv, Ev, Present
<1>2. ASSUME NEW h \in Handlers, Mark(h) PROVE MarkInv'
  <2>1. Ev(h) \in Events /\ ~Present(Ev(h)) /\ handler[h].pc = "dedupe"
    BY <1>2 DEF Mark, TypeInv, HandlerOK
  <2>2. /\ handler'[h] = [pc |-> "handle", ev |-> Ev(h), plan |-> None, amount |-> None]
        /\ \A g \in Handlers \ {h} : handler'[g] = handler[g]
    BY <1>2, <2>1, GotoEffect DEF Mark, Steps
  <2>3. kv'[Ev(h)].val # 0 /\ \A d \in Events \ {Ev(h)} : kv'[d] = kv[d]
    BY <1>2, <2>1, SetExEffect DEF Mark, TypeInv
  <2>4. UNCHANGED <<handled, answered, interrupted>>
    BY <1>2 DEF Mark
  <2>5. \A g \in Handlers, e \in Events : OnIt(g, e)' <=> (OnIt(g, e) \/ (g = h /\ e = Ev(h)))
    BY <2>1, <2>2 DEF Ev
  <2>6. \A g \in Handlers : handler'[g].pc = "reply" => handler'[g] = handler[g]
    BY <2>2
  <2>7. QED
    BY <2>1, <2>3, <2>4, <2>5, <2>6 DEF MarkInv, Ev, Present
<1>3. ASSUME NEW h \in Handlers, FailMarked(h) PROVE MarkInv'
  <2>1. Ev(h) \in Events /\ ~Present(Ev(h)) /\ handler[h].pc = "dedupe"
    BY <1>3 DEF FailMarked, TypeInv, HandlerOK
  <2>2. /\ handler'[h].pc = "idle"
        /\ \A g \in Handlers \ {h} : handler'[g] = handler[g]
    BY <1>3, DoneEffect DEF FailMarked
  <2>3. kv'[Ev(h)].val # 0 /\ \A d \in Events \ {Ev(h)} : kv'[d] = kv[d]
    BY <1>3, <2>1, SetExEffect DEF FailMarked, TypeInv
  <2>4. UNCHANGED <<handled, answered>> /\ interrupted' = interrupted \cup {Ev(h)}
    BY <1>3 DEF FailMarked
  <2>5. \A g \in Handlers, e \in Events : OnIt(g, e)' <=> OnIt(g, e)
    BY <2>1, <2>2 DEF Ev
  <2>6. \A g \in Handlers : handler'[g].pc = "reply" => handler'[g] = handler[g]
    BY <2>2
  <2>7. QED
    BY <2>1, <2>3, <2>4, <2>5, <2>6 DEF MarkInv, Ev, Present
<1>4. ASSUME NEW h \in Handlers, Dedupe(h) \/ Reply(h) PROVE MarkInv'
  <2>1. Ev(h) \in Events /\ Present(Ev(h)) /\ handler[h].pc \notin Working
    BY <1>4 DEF Dedupe, Reply, TypeInv, HandlerOK, MarkInv
  <2>2. /\ handler'[h].pc = "idle"
        /\ \A g \in Handlers \ {h} : handler'[g] = handler[g]
    BY <1>4, DoneEffect DEF Dedupe, Reply
  <2>3. UNCHANGED <<kv, handled, interrupted>> /\ answered' = answered \cup {Ev(h)}
    BY <1>4 DEF Dedupe, Reply
  <2>4. QED
    BY <2>1, <2>2, <2>3 DEF MarkInv, Ev, Present
<1>5. ASSUME NEW h \in Handlers, Fail(h) PROVE MarkInv'
  <2>1. Ev(h) \in Events /\ handler[h].pc # "idle"
    BY <1>5 DEF Fail, TypeInv, HandlerOK
  <2>2. /\ handler'[h].pc = "idle"
        /\ \A g \in Handlers \ {h} : handler'[g] = handler[g]
    BY <1>5, DoneEffect DEF Fail
  <2>3. /\ UNCHANGED <<kv, handled, answered>> /\ interrupted \subseteq interrupted'
        /\ handler[h].pc \in Working => Ev(h) \in interrupted'
    BY <1>5 DEF Fail
  <2>4. QED
    BY <2>1, <2>2, <2>3 DEF MarkInv, Ev, Present
<1>6. ASSUME NEW h \in Handlers, Resolve(h) PROVE MarkInv'
  <2>1. /\ Ev(h) \in Events /\ handler[h].pc = "handle"
        /\ handler'[h].pc = "provision" /\ handler'[h].ev = Ev(h)
        /\ \A g \in Handlers \ {h} : handler'[g] = handler[g]
    BY <1>6, ResolveEffect
  <2>2. UNCHANGED <<kv, handled, answered, interrupted>>
    BY <1>6 DEF Resolve
  <2>3. \A g \in Handlers, e \in Events : OnIt(g, e)' = OnIt(g, e)
    BY <2>1 DEF Ev
  <2>4. QED
    BY <2>1, <2>2, <2>3 DEF MarkInv, Ev, Present
<1>7. ASSUME NEW h \in Handlers, Provision(h) \/ MarkPastDue(h) \/ Cancel(h) \/ Ignore(h)
      PROVE  MarkInv'
  <2>1. handler[h].pc \in Working /\ Handled(h) /\ UNCHANGED <<kv, answered, interrupted>>
    BY <1>7 DEF Provision, MarkPastDue, Cancel, Ignore
  <2>2. Ev(h) \in Events
    BY <2>1 DEF TypeInv, HandlerOK
  <2>3. /\ handler'[h].pc = "reply" /\ handler'[h].ev = Ev(h)
        /\ \A g \in Handlers \ {h} : handler'[g] = handler[g]
        /\ handled'[Ev(h)] = handled[Ev(h)] + 1
        /\ \A e \in Events \ {Ev(h)} : handled'[e] = handled[e]
    BY <2>1, HandledEffect
  <2>4. /\ handled[Ev(h)] = 0 /\ Present(Ev(h))
        /\ \A g \in Handlers \ {h} : ~OnIt(g, Ev(h))
    BY <2>1, <2>2 DEF MarkInv
  <2>5. handled'[Ev(h)] = 1
    BY <2>3, <2>4
  <2>6. \A e \in Events : Present(e)' = Present(e)
    BY <2>1 DEF Present
  <2>7. QED
    BY <2>1, <2>2, <2>3, <2>4, <2>5, <2>6 DEF MarkInv, Ev
<1>8. CASE UNCHANGED vars
  BY <1>8 DEF vars, MarkInv, Ev, Present
<1>9. QED
  BY <1>1, <1>2, <1>3, <1>4, <1>5, <1>6, <1>7, <1>8 DEF Next, HandlerStep

LEMMA MarkInvariant == Spec => []MarkInv
<1>1. Init => MarkInv
  <2> SUFFICES ASSUME Init PROVE MarkInv
    OBVIOUS
  <2>1. \A h \in Handlers : handler[h].pc = "idle"
    BY DEF Init, IdleHandler
  <2>2. \A e \in Events : ~Present(e) /\ handled[e] = 0 /\ e \notin answered
    BY DEF Init, StoreInit, Absent, Present
  <2>3. \A h \in Handlers, e \in Events : ~OnIt(h, e)
    BY <2>1 DEF OnIt, Working
  <2>4. QED
    BY <2>1, <2>2, <2>3 DEF MarkInv
<1>2. QED
  BY <1>1, MarkInductive, TypeInvariant, PTL DEF Spec

(* An event is handled once at most. *)
THEOREM OnceHandled == Spec => []HandledOnce
<1>1. MarkInv => HandledOnce
  <2> SUFFICES ASSUME MarkInv, NEW e \in Events PROVE handled[e] <= 1
    BY DEF HandledOnce
  <2>1. handled[e] = 0 \/ handled[e] = 1
    BY DEF MarkInv
  <2>2. QED
    BY <2>1
<1>2. QED
  BY <1>1, MarkInvariant, PTL

(* Only a failure after the marker loses an event. *)
THEOREM LossNeedsInterruption == Spec => []LostOnlyIfInterrupted
<1>1. TypeInv /\ MarkInv => LostOnlyIfInterrupted
  <2> SUFFICES ASSUME TypeInv, MarkInv, NEW e \in answered, handled[e] = 0
               PROVE  \/ e \in interrupted
                      \/ \E h \in Handlers : OnIt(h, e)
    BY DEF LostOnlyIfInterrupted
  <2>1. e \in Events /\ Present(e)
    BY DEF TypeInv, TypeOK, MarkInv
  <2>2. QED
    BY <2>1 DEF MarkInv
<1>2. QED
  BY <1>1, MarkInvariant, TypeInvariant, PTL

-----------------------------------------------------------------------------
(* The plan: what a handler is about to write was named by its event, or   *)
(* was the tenant's plan, and so paid, when the handler read it.           *)

PaidInv ==
    /\ PlanIsPaid
    /\ \A h \in Handlers : handler[h].pc = "provision" =>
          /\ handler[h].plan = event[Ev(h)].plan \/ Paid(handler[h].plan)
          /\ handler[h].amount \in {event[Ev(h)].amount, None}

(* What was paid stays so. *)
PaidNext(p) ==
    \/ p = Free
    \/ \E e \in Events :
          /\ handled'[e] > 0
          /\ event'[e].amount = p \/ (e \in unchecked' /\ event'[e].plan = p)

LEMMA PaidStays ==
  ASSUME event' = event, unchecked \subseteq unchecked',
         \A e \in Events : handled[e] > 0 => handled'[e] > 0
  PROVE  \A p : Paid(p) => PaidNext(p)
<1> SUFFICES ASSUME NEW p, Paid(p) PROVE PaidNext(p)
  OBVIOUS
<1>1. CASE p = Free
  BY <1>1 DEF PaidNext
<1>2. CASE p # Free
  <2>1. PICK e \in Events : /\ handled[e] > 0
                            /\ event[e].amount = p \/ (e \in unchecked /\ event[e].plan = p)
    BY <1>2 DEF Paid
  <2>2. QED
    BY <2>1 DEF PaidNext
<1>3. QED
  BY <1>1, <1>2

LEMMA PaidFrame ==
  ASSUME TypeInv, PaidInv, event' = event, unchecked \subseteq unchecked',
         \A e \in Events : handled[e] > 0 => handled'[e] > 0,
         PaidNext(tenant'.plan),
         \A h \in Handlers : handler'[h].pc = "provision" => handler'[h] = handler[h]
  PROVE  PaidInv'
<1>1. PlanIsPaid'
  BY DEF PlanIsPaid, Paid, PaidNext
<1>2. ASSUME NEW h \in Handlers, handler'[h].pc = "provision"
      PROVE  /\ handler'[h].plan = event'[Ev(h)'].plan \/ Paid(handler[h].plan)'
             /\ handler'[h].amount \in {event'[Ev(h)'].amount, None}
  <2>1. handler'[h] = handler[h] /\ Ev(h)' = Ev(h)
    BY <1>2 DEF Ev
  <2>2. CASE Paid(handler[h].plan)
    <3>1. PaidNext(handler[h].plan)
      BY <2>2, PaidStays
    <3>2. Paid(handler[h].plan)'
      BY <2>1, <3>1 DEF Paid, PaidNext
    <3>3. QED
      BY <1>2, <2>1, <3>2 DEF PaidInv
  <2>3. CASE ~Paid(handler[h].plan)
    BY <1>2, <2>1, <2>3 DEF PaidInv
  <2>4. QED
    BY <2>2, <2>3
<1>3. QED
  BY <1>1, <1>2 DEF PaidInv

LEMMA PaidInductive == TypeInv /\ PaidInv /\ [Next]_vars => PaidInv'
<1> SUFFICES ASSUME TypeInv, PaidInv, [Next]_vars PROVE PaidInv'
  OBVIOUS
<1>1. ASSUME event' = event, unchecked \subseteq unchecked', tenant' = tenant,
             \A e \in Events : handled[e] > 0 => handled'[e] > 0
      PROVE  PaidNext(tenant'.plan)
  BY <1>1, PaidStays DEF PaidInv, PlanIsPaid
<1>2. ASSUME NEW h \in Handlers, NEW e \in Events, Deliver(h, e) PROVE PaidInv'
  <2>1. /\ handler'[h].pc # "provision"
        /\ \A g \in Handlers \ {h} : handler'[g] = handler[g]
    <3>1. /\ handler'[h] = [pc |-> "dedupe", ev |-> e, plan |-> None, amount |-> None]
          /\ \A g \in Handlers \ {h} : handler'[g] = handler[g]
      BY <1>2, GotoEffect DEF Deliver, Steps
    <3>2. handler'[h].pc = "dedupe"
      BY <3>1
    <3>3. QED
      BY <3>1, <3>2
  <2>2. UNCHANGED <<event, unchecked, tenant, handled>>
    BY <1>2 DEF Deliver
  <2>3. QED
    BY <1>1, <2>1, <2>2, PaidFrame
<1>3. ASSUME NEW h \in Handlers,
             Mark(h) \/ FailMarked(h) \/ Dedupe(h) \/ Reply(h) \/ Fail(h)
      PROVE  PaidInv'
  <2>1. Ev(h) \in Events
    BY <1>3 DEF Mark, FailMarked, Dedupe, Reply, Fail, TypeInv, HandlerOK
  <2>2. /\ handler'[h].pc # "provision"
        /\ \A g \in Handlers \ {h} : handler'[g] = handler[g]
    <3>1. CASE Mark(h)
      <4>1. /\ handler'[h] = [pc |-> "handle", ev |-> Ev(h), plan |-> None, amount |-> None]
            /\ \A g \in Handlers \ {h} : handler'[g] = handler[g]
        BY <2>1, <3>1, GotoEffect DEF Mark, Steps
      <4>2. handler'[h].pc = "handle"
        BY <4>1
      <4>3. QED
        BY <4>1, <4>2
    <3>2. CASE FailMarked(h) \/ Dedupe(h) \/ Reply(h) \/ Fail(h)
      BY <3>2, DoneEffect DEF FailMarked, Dedupe, Reply, Fail
    <3>3. QED
      BY <1>3, <3>1, <3>2
  <2>3. UNCHANGED <<event, unchecked, tenant, handled>>
    BY <1>3 DEF Mark, FailMarked, Dedupe, Reply, Fail
  <2>4. QED
    BY <1>1, <2>2, <2>3, PaidFrame
<1>4. ASSUME NEW h \in Handlers, Resolve(h) PROVE PaidInv'
  <2>1. UNCHANGED <<event, unchecked, tenant, handled>>
    BY <1>4 DEF Resolve
  <2>2. \A p : Paid(p) => PaidNext(p)
    BY <2>1, PaidStays
  <2>3. /\ handler'[h].ev = Ev(h)
        /\ handler'[h].amount \in {event[Ev(h)].amount, None}
        /\ handler'[h].plan = event[Ev(h)].plan \/ handler'[h].plan = tenant.plan
        /\ \A g \in Handlers \ {h} : handler'[g] = handler[g]
    BY <1>4, ResolveEffect
  <2>4. PlanIsPaid'
    BY <2>1, <2>2 DEF PaidInv, PlanIsPaid, Paid, PaidNext
  <2>5. ASSUME NEW g \in Handlers, handler'[g].pc = "provision"
        PROVE  /\ handler'[g].plan = event'[Ev(g)'].plan \/ Paid(handler[g].plan)'
               /\ handler'[g].amount \in {event'[Ev(g)'].amount, None}
    <3>1. CASE g = h
      <4>1. Ev(g)' = Ev(h) /\ event' = event
        BY <2>1, <2>3, <3>1 DEF Ev
      <4>2. handler'[g].plan = tenant.plan => Paid(handler[g].plan)'
        BY <2>2 DEF PaidInv, PlanIsPaid, Paid, PaidNext
      <4>3. QED
        BY <2>3, <3>1, <4>1, <4>2
    <3>2. CASE g # h
      <4>1. handler'[g] = handler[g] /\ Ev(g)' = Ev(g) /\ event' = event
        BY <2>1, <2>3, <3>2 DEF Ev
      <4>2. Paid(handler[g].plan) => Paid(handler[g].plan)'
        BY <2>2, <4>1 DEF Paid, PaidNext
      <4>3. QED
        BY <2>5, <4>1, <4>2 DEF PaidInv
    <3>3. QED
      BY <3>1, <3>2
  <2>6. QED
    BY <2>4, <2>5 DEF PaidInv
<1>5. ASSUME NEW h \in Handlers, Provision(h) PROVE PaidInv'
  <2>1. /\ handler[h].pc = "provision" /\ Ev(h) \in Events /\ handler[h].plan \in Plans
        /\ Handled(h) /\ event' = event /\ unchecked \subseteq unchecked'
    BY <1>5 DEF Provision, TypeInv, HandlerOK
  <2>2. /\ \A g \in Handlers : handler'[g].pc = "provision" => handler'[g] = handler[g]
        /\ handled'[Ev(h)] = handled[Ev(h)] + 1
        /\ \A e \in Events \ {Ev(h)} : handled'[e] = handled[e]
    BY <2>1, HandledEffect
  <2>3. handled[Ev(h)] \in Nat /\ handled'[Ev(h)] > 0
    BY <2>1, <2>2 DEF TypeInv, TypeOK
  <2>4. \A e \in Events : handled[e] > 0 => handled'[e] > 0
    BY <2>2, <2>3
  <2>5. PaidNext(tenant'.plan)
    <3>1. CASE handler[h].amount = handler[h].plan
      <4>1. event[Ev(h)].amount = handler[h].plan
        BY <2>1, <3>1, NoneAssumption DEF PaidInv
      <4>2. tenant'.plan = handler[h].plan
        BY <1>5, <3>1 DEF Provision, PaysFor
      <4>3. QED
        BY <2>1, <2>3, <4>1, <4>2 DEF PaidNext
    <3>2. CASE handler[h].amount = None /\ Kind(h) # "captured"
      <4>1. tenant'.plan = handler[h].plan /\ Ev(h) \in unchecked'
        BY <1>5, <3>2 DEF Provision, PaysFor
      <4>2. CASE handler[h].plan = event[Ev(h)].plan
        BY <2>1, <2>3, <4>1, <4>2 DEF PaidNext
      <4>3. CASE Paid(handler[h].plan)
        BY <2>1, <2>4, <4>1, <4>3, PaidStays
      <4>4. QED
        BY <2>1, <4>2, <4>3 DEF PaidInv
    <3>3. CASE ~PaysFor(Kind(h), handler[h].amount, handler[h].plan)
      <4>1. tenant' = tenant
        BY <1>5, <3>3 DEF Provision
      <4>2. QED
        BY <1>1, <2>1, <2>4, <4>1
    <3>4. QED
      BY <3>1, <3>2, <3>3 DEF PaysFor
  <2>6. QED
    BY <2>1, <2>2, <2>4, <2>5, PaidFrame
<1>6. ASSUME NEW h \in Handlers, MarkPastDue(h) \/ Cancel(h) \/ Ignore(h) PROVE PaidInv'
  <2>1. /\ handler[h].pc = "handle" /\ Ev(h) \in Events
        /\ Handled(h) /\ event' = event /\ unchecked' = unchecked
        /\ tenant'.plan = tenant.plan \/ tenant'.plan = Free
    BY <1>6 DEF MarkPastDue, Cancel, Ignore, TypeInv, HandlerOK
  <2>2. /\ \A g \in Handlers : handler'[g].pc = "provision" => handler'[g] = handler[g]
        /\ handled'[Ev(h)] = handled[Ev(h)] + 1
        /\ \A e \in Events \ {Ev(h)} : handled'[e] = handled[e]
    BY <2>1, HandledEffect
  <2>3. \A e \in Events : handled[e] > 0 => handled'[e] > 0
    BY <2>1, <2>2 DEF TypeInv, TypeOK
  <2>4. PaidNext(tenant'.plan)
    <3>1. CASE tenant'.plan = Free
      BY <3>1 DEF PaidNext
    <3>2. CASE tenant'.plan = tenant.plan
      BY <2>1, <2>3, <3>2, PaidStays DEF PaidInv, PlanIsPaid
    <3>3. QED
      BY <2>1, <3>1, <3>2
  <2>5. QED
    BY <2>1, <2>2, <2>3, <2>4, PaidFrame
<1>7. CASE UNCHANGED vars
  <2>1. UNCHANGED <<event, unchecked, tenant, handled, handler>>
    BY <1>7 DEF vars
  <2>2. QED
    BY <1>1, <2>1, PaidFrame
<1>8. QED
  BY <1>2, <1>3, <1>4, <1>5, <1>6, <1>7 DEF Next, HandlerStep

(* A plan is never unlocked by less than its price. *)
THEOREM PlansArePaid == Spec => []PlanIsPaid
<1>1. Init => PaidInv
  BY DEF Init, IdleHandler, PaidInv, PlanIsPaid, Paid
<1>2. PaidInv => PlanIsPaid
  BY DEF PaidInv
<1>3. QED
  BY <1>1, <1>2, PaidInductive, TypeInvariant, PTL DEF Spec

-----------------------------------------------------------------------------
(* Billing implements its contract.                                        *)

(* What a handler is about to sell is what its event says, but for the     *)
(* amount of a checkout and the plan of a renewal that names none.         *)
SoldInv ==
    \A h \in Handlers : handler[h].pc = "provision" =>
       /\ event[Ev(h)].kind \in Selling
       /\ handler[h].amount = event[Ev(h)].amount \/ event[Ev(h)].kind = "checkout"
       /\ handler[h].plan = event[Ev(h)].plan \/ event[Ev(h)].plan = None

LEMMA SoldFrame ==
  ASSUME SoldInv, event' = event,
         \A h \in Handlers : handler'[h].pc = "provision" => handler'[h] = handler[h]
  PROVE  SoldInv'
BY DEF SoldInv, Ev

LEMMA SoldInductive == TypeInv /\ PaidInv /\ SoldInv /\ [Next]_vars => SoldInv'
<1> SUFFICES ASSUME TypeInv, PaidInv, SoldInv, [Next]_vars PROVE SoldInv'
  OBVIOUS
<1>1. ASSUME NEW h \in Handlers, NEW e \in Events, Deliver(h, e) PROVE SoldInv'
  <2>1. /\ handler'[h] = [pc |-> "dedupe", ev |-> e, plan |-> None, amount |-> None]
        /\ \A g \in Handlers \ {h} : handler'[g] = handler[g]
    BY <1>1, GotoEffect DEF Deliver, Steps
  <2>2. handler'[h].pc # "provision"
    BY <2>1
  <2>3. QED
    BY <1>1, <2>1, <2>2, SoldFrame DEF Deliver
<1>2. ASSUME NEW h \in Handlers, Mark(h) PROVE SoldInv'
  <2>1. Ev(h) \in Events
    BY <1>2 DEF Mark, TypeInv, HandlerOK
  <2>2. /\ handler'[h] = [pc |-> "handle", ev |-> Ev(h), plan |-> None, amount |-> None]
        /\ \A g \in Handlers \ {h} : handler'[g] = handler[g]
    BY <1>2, <2>1, GotoEffect DEF Mark, Steps
  <2>3. handler'[h].pc # "provision"
    BY <2>2
  <2>4. QED
    BY <1>2, <2>2, <2>3, SoldFrame DEF Mark
<1>3. ASSUME NEW h \in Handlers, FailMarked(h) \/ Dedupe(h) \/ Reply(h) \/ Fail(h)
      PROVE  SoldInv'
  BY <1>3, DoneEffect, SoldFrame DEF FailMarked, Dedupe, Reply, Fail
<1>4. ASSUME NEW h \in Handlers, Resolve(h) PROVE SoldInv'
  <2>1. event' = event
    BY <1>4 DEF Resolve
  <2>2. /\ handler'[h].ev = Ev(h) /\ event[Ev(h)].kind \in Selling
        /\ handler'[h].amount = event[Ev(h)].amount \/ event[Ev(h)].kind = "checkout"
        /\ handler'[h].plan = event[Ev(h)].plan \/ event[Ev(h)].plan = None
        /\ \A g \in Handlers \ {h} : handler'[g] = handler[g]
    BY <1>4, ResolveEffect
  <2>3. QED
    BY <2>1, <2>2 DEF SoldInv, Ev
<1>5. ASSUME NEW h \in Handlers, Provision(h) PROVE SoldInv'
  <2>1. handler[h].pc = "provision" /\ Handled(h) /\ event' = event
    BY <1>5 DEF Provision
  <2>2. \A g \in Handlers : handler'[g].pc = "provision" => handler'[g] = handler[g]
    BY <2>1, HandledEffect
  <2>3. QED
    BY <2>1, <2>2, SoldFrame
<1>6. ASSUME NEW h \in Handlers, MarkPastDue(h) \/ Cancel(h) \/ Ignore(h) PROVE SoldInv'
  <2>1. handler[h].pc # "idle" /\ Handled(h) /\ event' = event
    BY <1>6 DEF MarkPastDue, Cancel, Ignore
  <2>2. \A g \in Handlers : handler'[g].pc = "provision" => handler'[g] = handler[g]
    BY <2>1, HandledEffect
  <2>3. QED
    BY <2>1, <2>2, SoldFrame
<1>7. CASE UNCHANGED vars
  BY <1>7, SoldFrame DEF vars
<1>8. QED
  BY <1>1, <1>2, <1>3, <1>4, <1>5, <1>6, <1>7 DEF Next, HandlerStep

(* The phase of an event, and of all of them. *)
Phases == [e \in Events |-> Phase(e)]

LEMMA PhaseStays ==
  ASSUME NEW e \in Events, Present(e)' = Present(e), handled'[e] = handled[e],
         \A h \in Handlers : OnIt(h, e)' = OnIt(h, e)
  PROVE  Phase(e)' = Phase(e)
BY DEF Phase

LEMMA PhaseMoves ==
  ASSUME NEW e \in Events, NEW from, NEW to,
         Phase(e) = from, Phase(e)' = to, event' = event,
         \A d \in Events \ {e} : Phase(d)' = Phase(d)
  PROVE  Contract!Become(e, from, to)
<1>1. \A d \in Events : Phases[d] = Phase(d) /\ Phases'[d] = Phase(d)'
  BY DEF Phases
<1>2. Phases' = [Phases EXCEPT ![e] = to]
  BY <1>1 DEF Phases
<1>3. QED
  BY <1>1, <1>2 DEF Contract!Become, Phases

ContractStep == Contract!Next \/ UNCHANGED <<event, Phases, tenant, unchecked>>

(* A handler that is on no event and gets on none moves no phase. *)
LEMMA PhaseFrame ==
  ASSUME UNCHANGED <<event, tenant, unchecked, kv, handled>>,
         \A h \in Handlers, e \in Events : OnIt(h, e)' = OnIt(h, e)
  PROVE  ContractStep
<1>1. \A e \in Events : Phase(e)' = Phase(e)
  BY DEF Phase, Present
<1>2. QED
  BY <1>1 DEF ContractStep, Phases

(* The steps before the tenants row. *)
LEMMA ContractOfMark ==
  ASSUME TypeInv, MarkInv, NEW h \in Handlers, Mark(h) \/ FailMarked(h)
  PROVE  ContractStep
<1>1. /\ Ev(h) \in Events /\ ~Present(Ev(h)) /\ handler[h].pc = "dedupe"
      /\ SetEx(Ev(h)) /\ UNCHANGED <<event, tenant, unchecked, handled>>
  BY DEF Mark, FailMarked, TypeInv, HandlerOK
<1>2. /\ \A g \in Handlers \ {h} : handler'[g] = handler[g]
      /\ Mark(h) => handler'[h].pc = "handle" /\ handler'[h].ev = Ev(h)
      /\ FailMarked(h) => handler'[h].pc = "idle"
  <2>1. CASE Mark(h)
    <3>1. /\ handler'[h] = [pc |-> "handle", ev |-> Ev(h), plan |-> None, amount |-> None]
          /\ \A g \in Handlers \ {h} : handler'[g] = handler[g]
      BY <1>1, <2>1, GotoEffect DEF Mark, Steps
    <3>2. handler'[h].pc = "handle" /\ handler'[h].ev = Ev(h)
      BY <3>1
    <3>3. ~FailMarked(h)
      BY <3>2, DoneEffect DEF FailMarked
    <3>4. QED
      BY <3>1, <3>2, <3>3
  <2>2. CASE FailMarked(h)
    <3>1. /\ handler'[h].pc = "idle"
          /\ \A g \in Handlers \ {h} : handler'[g] = handler[g]
      BY <2>2, DoneEffect DEF FailMarked
    <3>2. ~Mark(h)
      <4> SUFFICES ASSUME Mark(h) PROVE FALSE
        OBVIOUS
      <4>1. handler'[h] = [pc |-> "handle", ev |-> Ev(h), plan |-> None, amount |-> None]
        BY <1>1, GotoEffect DEF Mark, Steps
      <4>2. QED
        BY <3>1, <4>1
    <3>3. QED
      BY <3>1, <3>2
  <2>3. QED
    BY <2>1, <2>2
<1>3. kv'[Ev(h)].val # 0 /\ \A d \in Events \ {Ev(h)} : kv'[d] = kv[d]
  BY <1>1, SetExEffect DEF TypeInv
<1>4. PICK e \in Events : e = Ev(h)
  BY <1>1
<1>5. /\ ~Present(e) /\ handled[e] = 0 /\ \A g \in Handlers : ~OnIt(g, e)
  BY <1>1, <1>4 DEF MarkInv
<1>6. \A d \in Events \ {e} : Phase(d)' = Phase(d)
  <2> SUFFICES ASSUME NEW d \in Events \ {e} PROVE Phase(d)' = Phase(d)
    OBVIOUS
  <2>1. \A g \in Handlers : OnIt(g, d)' = OnIt(g, d)
    BY <1>1, <1>2, <1>4 DEF OnIt, Ev
  <2>2. QED
    BY <1>1, <1>3, <1>4, <2>1, PhaseStays DEF Present
<1>7. Phase(e) = "new"
  BY <1>5 DEF Phase
<1>8. handled'[e] = 0 /\ Present(e)'
  BY <1>1, <1>3, <1>4, <1>5 DEF Present
<1>9. CASE Mark(h)
  <2>1. OnIt(h, e)'
    BY <1>2, <1>4, <1>9 DEF OnIt, Ev
  <2>2. Phase(e)' = "claimed"
    BY <1>8, <2>1 DEF Phase
  <2>3. Contract!Claim(e)
    BY <1>1, <1>6, <1>7, <2>2, PhaseMoves DEF Contract!Claim
  <2>4. QED
    BY <2>3 DEF Contract!Next, ContractStep
<1>10. CASE FailMarked(h)
  <2>1. \A g \in Handlers : ~OnIt(g, e)'
    BY <1>2, <1>5, <1>10 DEF OnIt, Ev
  <2>2. Phase(e)' = "lost"
    BY <1>8, <2>1 DEF Phase
  <2>3. Contract!Lose(e)
    BY <1>1, <1>6, <1>7, <2>2, PhaseMoves DEF Contract!Lose
  <2>4. QED
    BY <2>3 DEF Contract!Next, ContractStep
<1>11. QED
  BY <1>9, <1>10

(* The steps that leave the row alone: most of them move no phase, and a   *)
(* handler that fails on an event loses it.                                *)
LEMMA ContractOfRest ==
  ASSUME TypeInv, MarkInv, NEW h \in Handlers,
         Dedupe(h) \/ Reply(h) \/ Fail(h) \/ Resolve(h)
  PROVE  ContractStep
<1>1. Ev(h) \in Events /\ UNCHANGED <<kv, event, tenant, unchecked, handled>>
  BY DEF Dedupe, Reply, Fail, Resolve, TypeInv, HandlerOK
<1>2. CASE Resolve(h)
  <2>1. /\ handler[h].pc = "handle" /\ handler'[h].pc = "provision" /\ handler'[h].ev = Ev(h)
        /\ \A g \in Handlers \ {h} : handler'[g] = handler[g]
    BY <1>2, ResolveEffect
  <2>2. \A g \in Handlers, e \in Events : OnIt(g, e)' = OnIt(g, e)
    BY <2>1 DEF OnIt, Ev
  <2>3. QED
    BY <1>1, <2>2, PhaseFrame
<1>3. CASE ~Resolve(h)
  <2>1. /\ handler'[h].pc = "idle"
        /\ \A g \in Handlers \ {h} : handler'[g] = handler[g]
    BY <1>3, DoneEffect DEF Dedupe, Reply, Fail
  <2>2. CASE handler[h].pc \notin Working
    <3>1. \A g \in Handlers, e \in Events : OnIt(g, e)' = OnIt(g, e)
      BY <2>1, <2>2 DEF OnIt, Ev, Working
    <3>2. QED
      BY <1>1, <3>1, PhaseFrame
  <2>3. CASE handler[h].pc \in Working
    <3>1. PICK e \in Events : e = Ev(h)
      BY <1>1
    <3>2. /\ handled[e] = 0 /\ Present(e) /\ OnIt(h, e)
          /\ \A g \in Handlers \ {h} : ~OnIt(g, e)
      BY <2>3, <3>1 DEF MarkInv, OnIt, Working
    <3>3. Phase(e) = "claimed"
      BY <3>2 DEF Phase
    <3>4. handled'[e] = 0 /\ Present(e)' /\ \A g \in Handlers : ~OnIt(g, e)'
      BY <1>1, <2>1, <3>2 DEF OnIt, Ev, Present
    <3>5. Phase(e)' = "lost"
      BY <3>4 DEF Phase
    <3>6. \A d \in Events \ {e} : Phase(d)' = Phase(d)
      <4> SUFFICES ASSUME NEW d \in Events \ {e} PROVE Phase(d)' = Phase(d)
        OBVIOUS
      <4>1. \A g \in Handlers : OnIt(g, d)' = OnIt(g, d)
        BY <2>1, <3>1 DEF OnIt, Ev
      <4>2. QED
        BY <1>1, <4>1, PhaseStays DEF Present
    <3>7. Contract!Lose(e)
      BY <1>1, <3>3, <3>5, <3>6, PhaseMoves DEF Contract!Lose
    <3>8. QED
      BY <3>7 DEF Contract!Next, ContractStep
  <2>4. QED
    BY <2>2, <2>3
<1>4. QED
  BY <1>2, <1>3

(* A plan that was paid is backed in the contract's terms. *)
LEMMA PaidIsBacked ==
  ASSUME NEW p, Paid(p)
  PROVE  Contract!Backed(p)
<1>1. CASE p = Free
  BY <1>1 DEF Contract!Backed
<1>2. CASE p # Free
  <2>1. PICK e \in Events : /\ handled[e] > 0
                            /\ event[e].amount = p \/ (e \in unchecked /\ event[e].plan = p)
    BY <1>2 DEF Paid
  <2>2. Phase(e) = "done"
    BY <2>1 DEF Phase
  <2>3. QED
    BY <2>1, <2>2 DEF Contract!Backed
<1>3. QED
  BY <1>1, <1>2

(* The steps that end the handling of an event: it takes effect. *)
LEMMA ContractOfEffect ==
  ASSUME TypeInv, MarkInv, PaidInv, SoldInv, NEW h \in Handlers,
         Provision(h) \/ MarkPastDue(h) \/ Cancel(h) \/ Ignore(h)
  PROVE  ContractStep
<1>1. handler[h].pc \in Working /\ Handled(h) /\ UNCHANGED <<kv, event>>
  BY DEF Provision, MarkPastDue, Cancel, Ignore, Working
<1>2. Ev(h) \in Events
  BY <1>1 DEF TypeInv, HandlerOK, Working
<1>3. /\ handler'[h].pc = "reply" /\ handler'[h].ev = Ev(h)
      /\ \A g \in Handlers \ {h} : handler'[g] = handler[g]
      /\ handled'[Ev(h)] = handled[Ev(h)] + 1
      /\ \A e \in Events \ {Ev(h)} : handled'[e] = handled[e]
  BY <1>1, HandledEffect DEF Working
<1>4. PICK e \in Events : e = Ev(h)
  BY <1>2
<1>5. handled[e] = 0 /\ OnIt(h, e)
  BY <1>1, <1>4 DEF MarkInv, OnIt, Working
<1>6. Phase(e) = "claimed"
  BY <1>5 DEF Phase
<1>7. handled'[e] = 1
  BY <1>3, <1>4, <1>5
<1>8. Phase(e)' = "done"
  BY <1>7 DEF Phase
<1>9. \A d \in Events \ {e} : Phase(d)' = Phase(d)
  <2> SUFFICES ASSUME NEW d \in Events \ {e} PROVE Phase(d)' = Phase(d)
    OBVIOUS
  <2>1. \A g \in Handlers : OnIt(g, d)' = OnIt(g, d)
    BY <1>3, <1>4 DEF OnIt, Ev
  <2>2. QED
    BY <1>1, <1>3, <1>4, <2>1, PhaseStays DEF Present
<1>10. Contract!Become(e, "claimed", "done")
  BY <1>1, <1>6, <1>8, <1>9, PhaseMoves
<1>11. CASE Provision(h)
  <2>1. handler[h].pc = "provision" /\ handler[h].plan \in Plans
    BY <1>11 DEF Provision, TypeInv, HandlerOK
  <2>2. PICK p \in Plans : p = handler[h].plan
    BY <2>1
  <2>3. /\ event[e].kind \in Selling
        /\ handler[h].amount = event[e].amount \/ event[e].kind = "checkout"
        /\ p = event[e].plan \/ (event[e].plan = None /\ Paid(p))
        /\ handler[h].amount \in {event[e].amount, None}
    BY <1>4, <2>1, <2>2 DEF SoldInv, PaidInv
  <2>4. Contract!Names(e, p)
    BY <2>3, PaidIsBacked DEF Contract!Names
  <2>5. \/ event[e].amount = p /\ Contract!Unlock(p) /\ UNCHANGED unchecked
        \/ Contract!MayGoUnread(e) /\ Contract!Unlock(p) /\ unchecked' = unchecked \cup {e}
        \/ /\ event[e].amount # p
           /\ event[e].amount = None => event[e].kind = "captured"
           /\ UNCHANGED <<tenant, unchecked>>
    <3>1. Kind(h) = event[e].kind /\ p # None
      BY <1>4, NoneAssumption DEF Kind, Ev
    <3>2. CASE handler[h].amount = p
      <4>1. event[e].amount = p
        BY <2>3, <3>1, <3>2
      <4>2. Contract!Unlock(p) /\ UNCHANGED unchecked
        BY <1>11, <2>2, <3>1, <3>2 DEF Provision, PaysFor, Contract!Unlock
      <4>3. QED
        BY <4>1, <4>2
    <3>3. CASE handler[h].amount = None /\ event[e].kind # "captured"
      <4>1. Contract!MayGoUnread(e)
        BY <2>3, <3>3 DEF Selling, Contract!MayGoUnread
      <4>2. Contract!Unlock(p) /\ unchecked' = unchecked \cup {e}
        BY <1>4, <1>11, <2>2, <3>1, <3>3 DEF Provision, PaysFor, Contract!Unlock
      <4>3. QED
        BY <4>1, <4>2
    <3>4. CASE ~PaysFor(Kind(h), handler[h].amount, p)
      <4>1. UNCHANGED <<tenant, unchecked>>
        BY <1>11, <2>2, <3>4 DEF Provision
      <4>2. handler[h].amount # p /\ (handler[h].amount = None => event[e].kind = "captured")
        BY <3>1, <3>4 DEF PaysFor
      <4>3. handler[h].amount = event[e].amount
        BY <2>3, <4>2
      <4>4. QED
        BY <4>1, <4>2, <4>3
    <3>5. QED
      BY <3>1, <3>2, <3>3, <3>4 DEF PaysFor
  <2>6. Contract!Sell(e)
    BY <1>10, <2>2, <2>3, <2>4, <2>5 DEF Contract!Sell, Selling
  <2>7. QED
    BY <2>6 DEF Contract!Next, ContractStep
<1>12. CASE MarkPastDue(h)
  <2>1. Contract!Suspend(e)
    BY <1>4, <1>10, <1>12 DEF MarkPastDue, Kind, Ev, Contract!Suspend
  <2>2. QED
    BY <2>1 DEF Contract!Next, ContractStep
<1>13. CASE Cancel(h)
  <2>1. Contract!FallBack(e)
    BY <1>4, <1>10, <1>13 DEF Cancel, Kind, Ev, Contract!FallBack
  <2>2. QED
    BY <2>1 DEF Contract!Next, ContractStep
<1>14. CASE Ignore(h)
  <2>1. Contract!Pass(e)
    BY <1>4, <1>10, <1>14 DEF Ignore, Kind, Ev, Contract!Pass
  <2>2. QED
    BY <2>1 DEF Contract!Next, ContractStep
<1>15. QED
  BY <1>11, <1>12, <1>13, <1>14

(* Overlapping deliveries and handlers add up to events that each take     *)
(* effect at most once, at one instant, as their content says.             *)
THEOREM EventsKeepContract == Spec => KeepsEventContract
<1>1. Init => Contract!Init
  <2> SUFFICES ASSUME Init PROVE Contract!Init
    OBVIOUS
  <2>1. \A h \in Handlers : handler[h].pc = "idle"
    BY DEF Init, IdleHandler
  <2>2. \A e \in Events : ~Present(e) /\ handled[e] = 0
    BY DEF Init, StoreInit, Absent, Present
  <2>3. \A h \in Handlers, e \in Events : ~OnIt(h, e)
    BY <2>1 DEF OnIt
  <2>4. ASSUME NEW e \in Events PROVE Phase(e) = "new"
    <3>1. ~(handled[e] > 0) /\ ~Present(e) /\ \A h \in Handlers : ~OnIt(h, e)
      BY <2>2, <2>3
    <3>2. QED
      BY <3>1 DEF Phase
  <2>5. QED
    BY <2>4 DEF Init, Contract!Init
<1>2. TypeInv /\ MarkInv /\ PaidInv /\ SoldInv /\ [Next]_vars
        => [Contract!Next]_<<event, Phases, tenant, unchecked>>
  <2> SUFFICES ASSUME TypeInv, MarkInv, PaidInv, SoldInv, [Next]_vars
               PROVE  ContractStep
    BY DEF ContractStep
  <2>1. ASSUME NEW h \in Handlers, NEW e \in Events, Deliver(h, e) PROVE ContractStep
    <3>1. /\ handler'[h] = [pc |-> "dedupe", ev |-> e, plan |-> None, amount |-> None]
          /\ \A g \in Handlers \ {h} : handler'[g] = handler[g]
          /\ handler[h].pc = "idle"
      BY <2>1, GotoEffect DEF Deliver, Steps
    <3>2. \A g \in Handlers, d \in Events : OnIt(g, d)' = OnIt(g, d)
      BY <3>1 DEF OnIt, Ev
    <3>3. QED
      BY <2>1, <3>2, PhaseFrame DEF Deliver
  <2>2. CASE UNCHANGED vars
    <3>1. \A g \in Handlers, d \in Events : OnIt(g, d)' = OnIt(g, d)
      BY <2>2 DEF vars, OnIt, Ev
    <3>2. QED
      BY <2>2, <3>1, PhaseFrame DEF vars
  <2>3. QED
    BY <2>1, <2>2, ContractOfMark, ContractOfRest, ContractOfEffect DEF Next, HandlerStep
<1>3. Init => SoldInv /\ PaidInv
  BY DEF Init, IdleHandler, SoldInv, PaidInv, PlanIsPaid, Paid
<1>4. QED
  BY <1>1, <1>2, <1>3, TypeInvariant, MarkInvariant, PaidInductive, SoldInductive, PTL
     DEF Spec, KeepsEventContract, Contract!Spec, Contract!contractVars, Phases

=============================================================================
