--------------------------- MODULE Sessions_proofs ---------------------------
(***************************************************************************)
(* Proofs about Sessions, for any number of tokens, links and requests.    *)
(***************************************************************************)
EXTENDS Sessions, TLAPS

USE DEF ResetLinks

-----------------------------------------------------------------------------
(* Type correctness, with what a request at each step refers to. *)

TokenSteps == {"issue", "sso", "rotate", "reissue", "revoke"}

RefOK ==
    \A q \in Requests :
        /\ req[q].pc \in TokenSteps => req[q].ref \in Tokens
        /\ req[q].pc = "setpw" => req[q].ref \in ResetLinks

TypeInv == TypeOK /\ RefOK

LEMMA TypeInit == Init => TypeInv
<1> SUFFICES ASSUME Init PROVE TypeInv
  OBVIOUS
<1>1. StoreTypeOK
  <2>1. Absent \in [val : Nat, expires : BOOLEAN]
    BY DEF Absent
  <2>2. QED
    BY <2>1 DEF Init, StoreInit, StoreTypeOK
<1>2. /\ state \in [Tokens -> States] /\ family \in [Tokens -> Tokens]
      /\ mailed \subseteq ResetLinks /\ uses \in [ResetLinks -> Nat]
      /\ closed \subseteq Tokens /\ lost \in BOOLEAN
  BY DEF Init, States
<1>3. req \in [Requests -> [pc : Steps, ref : Tokens \cup Keys \cup {None}]] /\ RefOK
  BY DEF Init, Idle, Steps, RefOK, TokenSteps
<1>4. QED
  BY <1>1, <1>2, <1>3 DEF TypeInv, TypeOK

LEMMA StoreTypes ==
  ASSUME StoreTypeOK, NEW k \in Keys,
         Incr(k) \/ Expire(k) \/ SetEx(k) \/ Del(k) \/ Lapse(k)
  PROVE  StoreTypeOK'
<1> USE DEF StoreTypeOK, SetEntry
<1>1. CASE Incr(k)
  BY <1>1 DEF Incr
<1>2. CASE Expire(k)
  <2>1. CASE Present(k)
    <3>1. kv[k].val \in Nat
      OBVIOUS
    <3>2. [val |-> kv[k].val, expires |-> TRUE] \in [val : Nat, expires : BOOLEAN]
      BY <3>1
    <3>3. kv' = [kv EXCEPT ![k] = [val |-> kv[k].val, expires |-> TRUE]]
      BY <1>2, <2>1 DEF Expire
    <3>4. QED
      BY <3>2, <3>3
  <2>2. CASE ~Present(k)
    BY <1>2, <2>2 DEF Expire
  <2>3. QED
    BY <2>1, <2>2
<1>3. CASE SetEx(k)
  BY <1>3 DEF SetEx
<1>4. CASE Del(k)
  BY <1>4 DEF Del
<1>5. CASE Lapse(k)
  BY <1>5 DEF Lapse, Del
<1>6. QED
  BY <1>1, <1>2, <1>3, <1>4, <1>5

LEMMA ReqTypes ==
  ASSUME TypeInv, NEW q \in Requests, NEW pc \in Steps, NEW ref \in Tokens \cup Keys \cup {None},
         pc \in TokenSteps => ref \in Tokens,
         pc = "setpw" => ref \in ResetLinks,
         Goto(q, pc, ref)
  PROVE  /\ req' \in [Requests -> [pc : Steps, ref : Tokens \cup Keys \cup {None}]]
         /\ RefOK'
BY DEF TypeInv, TypeOK, Goto, RefOK

LEMMA DoneTypes ==
  ASSUME TypeInv, NEW q \in Requests, Done(q)
  PROVE  /\ req' \in [Requests -> [pc : Steps, ref : Tokens \cup Keys \cup {None}]]
         /\ RefOK'
BY DEF TypeInv, TypeOK, Done, Idle, RefOK, TokenSteps, Steps

LEMMA RevokeTypes ==
  ASSUME TypeOK, NEW K, Revoke(K)
  PROVE  state' \in [Tokens -> States]
BY DEF TypeOK, Revoke, States

LEMMA TypeOfLogin ==
  ASSUME TypeInv, NEW q \in Requests,
         Attempt(q) \/ SetDeadline(q) \/ DeadlineFails(q) \/ Check(q) \/ SsoLogin(q)
           \/ Issue(q) \/ ClearCounter(q)
  PROVE  TypeInv'
<1> USE KeysAssumption DEF TypeInv
<1>1. CASE Attempt(q)
  <2>1. StoreTypeOK'
    BY <1>1, StoreTypes DEF Attempt, TypeOK
  <2>2. AfterIncr(kv[LoginKey].val + 1) \in {"expire", "idle", "check"}
    BY DEF AfterIncr
  <2>3. QED
    BY <1>1, <2>1, <2>2, ReqTypes
       DEF Attempt, TypeOK, tokenVars, linkVars, Steps, TokenSteps
<1>2. CASE SetDeadline(q)
  <2>1. StoreTypeOK'
    BY <1>2, StoreTypes DEF SetDeadline, TypeOK
  <2>2. QED
    BY <1>2, <2>1, ReqTypes DEF SetDeadline, TypeOK, tokenVars, linkVars, Steps, TokenSteps
<1>3. CASE DeadlineFails(q)
  BY <1>3, ReqTypes
     DEF DeadlineFails, TypeOK, StoreTypeOK, tokenVars, linkVars, Steps, TokenSteps
<1>4. CASE Check(q)
  BY <1>4, ReqTypes DEF Check, Fresh, TypeOK, StoreTypeOK, tokenVars, linkVars, Steps
<1>5. CASE SsoLogin(q)
  BY <1>5, ReqTypes DEF SsoLogin, Fresh, TypeOK, StoreTypeOK, tokenVars, linkVars, Steps
<1>6. CASE Issue(q)
  <2>1. req[q].ref \in Tokens
    BY <1>6 DEF Issue, RefOK, TokenSteps
  <2>2. state' \in [Tokens -> States] /\ family' \in [Tokens -> Tokens]
    BY <1>6, <2>1 DEF Issue, InsertToken, TypeOK, States
  <2>3. /\ req' \in [Requests -> [pc : Steps, ref : Tokens \cup Keys \cup {None}]]
        /\ RefOK'
    BY <1>6, ReqTypes, DoneTypes DEF Issue, Steps, TokenSteps
  <2>4. QED
    BY <1>6, <2>2, <2>3 DEF Issue, TypeOK, StoreTypeOK, linkVars
<1>7. CASE ClearCounter(q)
  <2>1. StoreTypeOK'
    BY <1>7, StoreTypes DEF ClearCounter, TypeOK
  <2>2. QED
    BY <1>7, <2>1, DoneTypes DEF ClearCounter, TypeOK, tokenVars, linkVars
<1>8. QED
  BY <1>1, <1>2, <1>3, <1>4, <1>5, <1>6, <1>7

LEMMA TypeOfRest ==
  ASSUME TypeInv, NEW q \in Requests,
         RefreshRead(q) \/ Rotate(q) \/ Reissue(q) \/ RevokeFamily(q)
           \/ SetPassword(q) \/ Logout(q) \/ End(q)
  PROVE  TypeInv'
<1> USE KeysAssumption DEF TypeInv
<1>1. CASE RefreshRead(q)
  BY <1>1, ReqTypes DEF RefreshRead, TypeOK, StoreTypeOK, tokenVars, linkVars, Steps
<1>2. CASE Rotate(q)
  <2>1. req[q].ref \in Tokens
    BY <1>2 DEF Rotate, RefOK, TokenSteps
  <2>2. QED
    BY <1>2, <2>1, ReqTypes, RevokeTypes DEF Rotate, TypeOK, StoreTypeOK, linkVars, Steps
<1>3. CASE Reissue(q)
  <2>1. req[q].ref \in Tokens
    BY <1>3 DEF Reissue, RefOK, TokenSteps
  <2>2. state' \in [Tokens -> States] /\ family' \in [Tokens -> Tokens]
    BY <1>3, <2>1 DEF Reissue, Fresh, InsertToken, TypeOK, States
  <2>3. QED
    BY <1>3, <2>2, DoneTypes DEF Reissue, TypeOK, StoreTypeOK, linkVars
<1>4. CASE RevokeFamily(q)
  <2>1. family[req[q].ref] \in Tokens
    BY <1>4 DEF RevokeFamily, RefOK, TokenSteps, TypeOK
  <2>2. closed' \subseteq Tokens
    BY <1>4, <2>1 DEF RevokeFamily, TypeOK
  <2>3. QED
    BY <1>4, <2>2, DoneTypes, RevokeTypes DEF RevokeFamily, TypeOK, StoreTypeOK, linkVars
<1>5. CASE SetPassword(q)
  <2>1. req[q].ref \in ResetLinks
    BY <1>5 DEF SetPassword, RefOK
  <2>2. uses[req[q].ref] + 1 \in Nat
    BY <2>1 DEF TypeOK
  <2>3. uses' \in [ResetLinks -> Nat]
    BY <1>5, <2>1, <2>2 DEF SetPassword, TypeOK
  <2>4. QED
    BY <1>5, <2>3, ReqTypes
       DEF SetPassword, TypeOK, StoreTypeOK, tokenVars, Steps, TokenSteps
<1>6. CASE Logout(q)
  <2>1. closed' \subseteq Tokens
    BY <1>6 DEF Logout, Known, TypeOK
  <2>2. state' \in [Tokens -> States]
    BY <1>6 DEF Logout, TypeOK, States
  <2>3. QED
    BY <1>6, <2>1, <2>2, DoneTypes DEF Logout, TypeOK, StoreTypeOK, linkVars
<1>7. CASE End(q)
  BY <1>7, DoneTypes DEF End, TypeOK, StoreTypeOK, tokenVars, linkVars
<1>8. QED
  BY <1>1, <1>2, <1>3, <1>4, <1>5, <1>6, <1>7

LEMMA TypeInductive == TypeInv /\ [Next]_vars => TypeInv'
<1> SUFFICES ASSUME TypeInv, [Next]_vars PROVE TypeInv'
  OBVIOUS
<1> USE DEF TypeInv
<1>1. ASSUME NEW q \in Requests, NEW t \in ResetLinks, Consume(q, t) PROVE TypeInv'
  <2>1. StoreTypeOK'
    BY <1>1, StoreTypes DEF Consume, TypeOK
  <2>2. QED
    BY <1>1, <2>1, ReqTypes DEF Consume, TypeOK, tokenVars, linkVars, Steps, TokenSteps
<1>2. ASSUME NEW t \in ResetLinks, Forgot(t) PROVE TypeInv'
  <2>1. StoreTypeOK'
    BY <1>2, StoreTypes DEF Forgot, TypeOK
  <2>2. QED
    BY <1>2, <2>1 DEF Forgot, TypeOK, tokenVars, RefOK
<1>3. ASSUME NEW k \in Keys, TimeOut(k) PROVE TypeInv'
  <2>1. StoreTypeOK'
    BY <1>3, StoreTypes DEF TimeOut, TypeOK
  <2>2. QED
    BY <1>3, <2>1 DEF TimeOut, TypeOK, tokenVars, linkVars, RefOK
<1>4. CASE UNCHANGED vars
  BY <1>4 DEF vars, tokenVars, linkVars, TypeOK, StoreTypeOK, RefOK
<1>5. QED
  BY <1>1, <1>2, <1>3, <1>4, TypeOfLogin, TypeOfRest DEF Next, RequestStep

LEMMA TypeInvariant == Spec => []TypeInv
BY TypeInit, TypeInductive, PTL DEF Spec

(* TypeOK holds of every instance. *)
THEOREM TypeCorrect == Spec => []TypeOK
<1>1. TypeInv => TypeOK
  BY DEF TypeInv
<1>2. QED
  BY <1>1, TypeInvariant, PTL

-----------------------------------------------------------------------------
(* The counter. *)

LEMMA DeadlineInductive == TypeInv /\ CounterHasDeadline /\ [Next]_vars => CounterHasDeadline'
<1> SUFFICES ASSUME TypeInv, CounterHasDeadline, [Next]_vars PROVE CounterHasDeadline'
  OBVIOUS
<1> USE KeysAssumption DEF TypeInv, TypeOK, StoreTypeOK, CounterHasDeadline, Present
<1>1. ASSUME NEW q \in Requests, Attempt(q) PROVE CounterHasDeadline'
  <2>1. CASE kv[LoginKey].val = 0
    <3>1. req'[q].pc = "expire"
      BY <1>1, <2>1 DEF Attempt, AfterIncr, Goto
    <3>2. QED
      BY <3>1
  <2>2. CASE kv[LoginKey].val # 0
    <3>1. kv'[LoginKey].expires = kv[LoginKey].expires
      BY <1>1 DEF Attempt, Incr, SetEntry
    <3>2. \A p \in Requests : req[p].pc = "expire" => req'[p].pc = "expire"
      BY <1>1 DEF Attempt, Goto
    <3>3. QED
      BY <1>1, <2>2, <3>1, <3>2 DEF Attempt
  <2>3. QED
    BY <2>1, <2>2
<1>2. ASSUME NEW q \in Requests, SetDeadline(q) PROVE CounterHasDeadline'
  <2>1. CASE Present(LoginKey)
    BY <1>2, <2>1 DEF SetDeadline, Expire, SetEntry
  <2>2. CASE ~Present(LoginKey)
    BY <1>2, <2>2 DEF SetDeadline, Expire
  <2>3. QED
    BY <2>1, <2>2
<1>3. ASSUME NEW q \in Requests, DeadlineFails(q) PROVE CounterHasDeadline'
  BY <1>3 DEF DeadlineFails
<1>4. ASSUME NEW q \in Requests, ClearCounter(q) PROVE CounterHasDeadline'
  BY <1>4 DEF ClearCounter, Del, SetEntry
<1>5. ASSUME NEW q \in Requests, End(q) PROVE CounterHasDeadline'
  <2>1. \A p \in Requests : req[p].pc = "expire" => req'[p].pc = "expire" \/ lost'
    BY <1>5 DEF End, Done
  <2>2. kv' = kv /\ (lost => lost')
    BY <1>5 DEF End
  <2>3. QED
    BY <2>1, <2>2
<1>6. ASSUME NEW q \in Requests,
             Check(q) \/ SsoLogin(q) \/ Issue(q) \/ RefreshRead(q) \/ Rotate(q) \/ Reissue(q)
               \/ RevokeFamily(q) \/ SetPassword(q) \/ Logout(q)
      PROVE  CounterHasDeadline'
  <2>1. kv' = kv /\ lost' = lost /\ req[q].pc # "expire"
    BY <1>6 DEF Check, SsoLogin, Issue, RefreshRead, Rotate, Reissue, RevokeFamily,
                SetPassword, Logout
  <2>2. \A p \in Requests \ {q} : req'[p] = req[p]
    BY <1>6 DEF Check, SsoLogin, Issue, RefreshRead, Rotate, Reissue, RevokeFamily,
                SetPassword, Logout, Goto, Done
  <2>3. QED
    BY <2>1, <2>2
<1>7. ASSUME NEW q \in Requests, NEW t \in ResetLinks, Consume(q, t) PROVE CounterHasDeadline'
  <2>1. kv'[LoginKey] = kv[LoginKey]
    BY <1>7 DEF Consume, Del, SetEntry
  <2>2. \A p \in Requests : req[p].pc = "expire" => req'[p].pc = "expire"
    BY <1>7 DEF Consume, Goto
  <2>3. QED
    BY <1>7, <2>1, <2>2 DEF Consume
<1>8. ASSUME NEW t \in ResetLinks, Forgot(t) PROVE CounterHasDeadline'
  BY <1>8 DEF Forgot, SetEx, SetEntry
<1>9. ASSUME NEW k \in Keys, TimeOut(k) PROVE CounterHasDeadline'
  BY <1>9 DEF TimeOut, Lapse, Del, SetEntry
<1>10. CASE UNCHANGED vars
  BY <1>10 DEF vars
<1>11. QED
  BY <1>1, <1>2, <1>3, <1>4, <1>5, <1>6, <1>7, <1>8, <1>9, <1>10 DEF Next, RequestStep

(* Only a lost EXPIRE leaves a counter without its deadline. *)
THEOREM DeadlineHolds == Spec => []CounterHasDeadline
<1>1. Init => CounterHasDeadline
  BY KeysAssumption DEF Init, StoreInit, Absent, CounterHasDeadline, Present
<1>2. QED
  BY <1>1, DeadlineInductive, TypeInvariant, PTL DEF Spec

-----------------------------------------------------------------------------
(* The reset links. *)

LinkInv ==
    \A t \in ResetLinks :
        /\ Present(t) => t \in mailed /\ uses[t] = 0
                           /\ \A q \in Requests : req[q] # [pc |-> "setpw", ref |-> t]
        /\ t \notin mailed => uses[t] = 0 /\ \A q \in Requests : req[q] # [pc |-> "setpw", ref |-> t]
        /\ uses[t] <= 1
        /\ \A q \in Requests : req[q] = [pc |-> "setpw", ref |-> t] =>
              uses[t] = 0 /\ \A p \in Requests \ {q} : req[p] # req[q]

(* Steps that neither issue a link, nor use one, nor let a request use it. *)
LEMMA LinkFrame ==
  ASSUME TypeInv, LinkInv, UNCHANGED linkVars,
         \A t \in ResetLinks : kv'[t].val # 0 => kv[t].val # 0,
         \A q \in Requests : req'[q].pc = "setpw" => req'[q] = req[q]
  PROVE  LinkInv'
<1> USE DEF linkVars, LinkInv, Present
<1>1. ASSUME NEW t \in ResetLinks, NEW q \in Requests, req'[q] = [pc |-> "setpw", ref |-> t]
      PROVE  req[q] = [pc |-> "setpw", ref |-> t]
  BY <1>1
<1>2. ASSUME NEW t \in ResetLinks, NEW q \in Requests, req'[q] = [pc |-> "setpw", ref |-> t],
             NEW p \in Requests \ {q}
      PROVE  req'[p] # req'[q]
  <2>1. req[q] = [pc |-> "setpw", ref |-> t] /\ req[p] # req[q]
    BY <1>1, <1>2
  <2>2. SUFFICES ASSUME req'[p] = req'[q] PROVE FALSE
    OBVIOUS
  <2>3. req[p] = [pc |-> "setpw", ref |-> t]
    BY <1>1, <1>2, <2>2
  <2>4. QED
    BY <2>1, <2>3
<1>3. QED
  BY <1>1, <1>2

LEMMA LinkInductive == TypeInv /\ LinkInv /\ [Next]_vars => LinkInv'
<1> SUFFICES ASSUME TypeInv, LinkInv, [Next]_vars PROVE LinkInv'
  OBVIOUS
<1> USE KeysAssumption DEF TypeInv, TypeOK, StoreTypeOK
<1>1. ASSUME NEW q \in Requests,
             Attempt(q) \/ SetDeadline(q) \/ ClearCounter(q)
      PROVE  LinkInv'
  <2>1. \A t \in ResetLinks : kv'[t] = kv[t]
    <3>1. CASE Attempt(q)
      BY <3>1 DEF Attempt, Incr, SetEntry
    <3>2. CASE SetDeadline(q)
      BY <3>2 DEF SetDeadline, Expire, SetEntry
    <3>3. CASE ClearCounter(q)
      BY <3>3 DEF ClearCounter, Del, SetEntry
    <3>4. QED
      BY <1>1, <3>1, <3>2, <3>3
  <2>2. UNCHANGED linkVars
    BY <1>1 DEF Attempt, SetDeadline, ClearCounter
  <2>3. \A p \in Requests : req'[p].pc = "setpw" => req'[p] = req[p]
    <3>1. CASE Attempt(q)
      BY <3>1 DEF Attempt, Goto, AfterIncr
    <3>2. CASE SetDeadline(q)
      BY <3>2 DEF SetDeadline, Goto
    <3>3. CASE ClearCounter(q)
      BY <3>3 DEF ClearCounter, Done, Idle
    <3>4. QED
      BY <1>1, <3>1, <3>2, <3>3
  <2>4. QED
    BY <2>1, <2>2, <2>3, LinkFrame
<1>2. ASSUME NEW q \in Requests,
             DeadlineFails(q) \/ Check(q) \/ SsoLogin(q) \/ Issue(q) \/ RefreshRead(q)
               \/ Rotate(q) \/ Reissue(q) \/ RevokeFamily(q) \/ Logout(q) \/ End(q)
      PROVE  LinkInv'
  <2>1. kv' = kv /\ UNCHANGED linkVars
    BY <1>2 DEF DeadlineFails, Check, SsoLogin, Issue, RefreshRead, Rotate, Reissue,
                RevokeFamily, Logout, End
  <2>2. \A p \in Requests : req'[p].pc = "setpw" => req'[p] = req[p]
    BY <1>2 DEF DeadlineFails, Check, SsoLogin, Issue, RefreshRead, Rotate, Reissue,
                RevokeFamily, Logout, End, Goto, Done, Idle
  <2>3. QED
    BY <2>1, <2>2, LinkFrame
<1>3. ASSUME NEW q \in Requests, SetPassword(q) PROVE LinkInv'
  <2> DEFINE t == req[q].ref
  <2>1. t \in ResetLinks /\ req[q] = [pc |-> "setpw", ref |-> t]
    BY <1>3 DEF SetPassword, RefOK
  <2>2. /\ uses[t] = 0 /\ ~Present(t) /\ t \in mailed
        /\ \A p \in Requests \ {q} : req[p] # [pc |-> "setpw", ref |-> t]
    BY <2>1 DEF LinkInv
  <2>3. /\ uses'[t] = 1 /\ \A s \in ResetLinks \ {t} : uses'[s] = uses[s]
    BY <1>3, <2>1, <2>2 DEF SetPassword
  <2>4. /\ \A s \in ResetLinks : req'[q] # [pc |-> "setpw", ref |-> s]
        /\ \A p \in Requests \ {q} : req'[p] = req[p]
    BY <1>3 DEF SetPassword, Goto
  <2>5. kv' = kv /\ mailed' = mailed
    BY <1>3 DEF SetPassword
  <2>6. ASSUME NEW s \in ResetLinks, NEW p \in Requests,
               req'[p] = [pc |-> "setpw", ref |-> s]
        PROVE  p # q /\ s # t /\ req[p] = [pc |-> "setpw", ref |-> s]
    BY <2>2, <2>4, <2>6
  <2>7. ASSUME NEW s \in ResetLinks, NEW p \in Requests,
               req'[p] = [pc |-> "setpw", ref |-> s], NEW r \in Requests \ {p}
        PROVE  req'[r] # req'[p]
    <3>1. req[p] = [pc |-> "setpw", ref |-> s] /\ req[r] # req[p]
      BY <2>6, <2>7 DEF LinkInv
    <3>2. SUFFICES ASSUME req'[r] = req'[p] PROVE FALSE
      OBVIOUS
    <3>3. req[r] = [pc |-> "setpw", ref |-> s]
      BY <2>6, <2>7, <3>2
    <3>4. QED
      BY <3>1, <3>3
  <2>8. \A s \in ResetLinks : Present(s)' = Present(s)
    BY <2>5 DEF Present
  <2>9. ASSUME NEW s \in ResetLinks
        PROVE  /\ Present(s)' => s \in mailed' /\ uses'[s] = 0
                     /\ \A p \in Requests : req'[p] # [pc |-> "setpw", ref |-> s]
               /\ s \notin mailed' => uses'[s] = 0
                     /\ \A p \in Requests : req'[p] # [pc |-> "setpw", ref |-> s]
               /\ uses'[s] <= 1
    BY <2>2, <2>3, <2>5, <2>6, <2>8 DEF LinkInv
  <2>10. ASSUME NEW s \in ResetLinks, NEW p \in Requests,
                req'[p] = [pc |-> "setpw", ref |-> s]
         PROVE  uses'[s] = 0
    BY <2>3, <2>6, <2>10 DEF LinkInv
  <2>11. QED
    BY <2>7, <2>9, <2>10 DEF LinkInv
<1>4. ASSUME NEW q \in Requests, NEW t \in ResetLinks, Consume(q, t) PROVE LinkInv'
  <2>1. /\ uses[t] = 0 /\ t \in mailed
        /\ \A p \in Requests : req[p] # [pc |-> "setpw", ref |-> t]
    BY <1>4 DEF Consume, LinkInv
  <2>2. /\ ~Present(t)' /\ \A s \in ResetLinks \ {t} : Present(s)' = Present(s)
        /\ mailed' = mailed /\ uses' = uses
    BY <1>4 DEF Consume, Del, SetEntry, Present, linkVars
  <2>3. /\ req'[q] = [pc |-> "setpw", ref |-> t]
        /\ \A p \in Requests \ {q} : req'[p] = req[p]
    BY <1>4 DEF Consume, Goto
  <2>4. ASSUME NEW p \in Requests, NEW s \in ResetLinks, req'[p] = [pc |-> "setpw", ref |-> s]
        PROVE  (p = q /\ s = t) \/ (p # q /\ s # t /\ req[p] = [pc |-> "setpw", ref |-> s])
    BY <2>1, <2>3, <2>4
  <2>5. ASSUME NEW p \in Requests, NEW s \in ResetLinks, req'[p] = [pc |-> "setpw", ref |-> s],
               NEW r \in Requests \ {p}
        PROVE  req'[r] # req'[p]
    <3>1. SUFFICES ASSUME req'[r] = [pc |-> "setpw", ref |-> s] PROVE FALSE
      BY <2>5
    <3>2. p # q /\ r # q /\ req[p] = [pc |-> "setpw", ref |-> s] /\ req[r] = req[p]
      BY <2>4, <2>5, <3>1
    <3>3. QED
      BY <3>2 DEF LinkInv
  <2>6. ASSUME NEW s \in ResetLinks
        PROVE  /\ Present(s)' => s \in mailed' /\ uses'[s] = 0
                     /\ \A p \in Requests : req'[p] # [pc |-> "setpw", ref |-> s]
               /\ s \notin mailed' => uses'[s] = 0
                     /\ \A p \in Requests : req'[p] # [pc |-> "setpw", ref |-> s]
               /\ uses'[s] <= 1
    BY <2>1, <2>2, <2>4 DEF LinkInv
  <2>7. ASSUME NEW p \in Requests, NEW s \in ResetLinks, req'[p] = [pc |-> "setpw", ref |-> s]
        PROVE  uses'[s] = 0
    BY <2>1, <2>2, <2>4, <2>7 DEF LinkInv
  <2>8. QED
    BY <2>5, <2>6, <2>7 DEF LinkInv
<1>5. ASSUME NEW t \in ResetLinks, Forgot(t) PROVE LinkInv'
  BY <1>5 DEF Forgot, SetEx, SetEntry, Present, LinkInv
<1>6. ASSUME NEW k \in Keys, TimeOut(k) PROVE LinkInv'
  <2>1. \A t \in ResetLinks : kv'[t].val # 0 => kv[t].val # 0
    BY <1>6 DEF TimeOut, Lapse, Del, SetEntry
  <2>2. QED
    BY <1>6, <2>1, LinkFrame DEF TimeOut
<1>7. CASE UNCHANGED vars
  <2>1. kv' = kv /\ req' = req /\ UNCHANGED linkVars
    BY <1>7 DEF vars, linkVars
  <2>2. QED
    BY <2>1, LinkFrame
<1>8. QED
  BY <1>1, <1>2, <1>3, <1>4, <1>5, <1>6, <1>7 DEF Next, RequestStep

(* Concurrent uses of one reset link set the password once between them.   *)
THEOREM ResetOnce == Spec => []ResetIsSingleUse
<1>1. Init => LinkInv
  <2> SUFFICES ASSUME Init PROVE LinkInv
    OBVIOUS
  <2>2. ASSUME NEW q \in Requests, NEW t \in ResetLinks
        PROVE  req[q] # [pc |-> "setpw", ref |-> t]
    <3>1. req[q] = [pc |-> "idle", ref |-> None]
      BY DEF Init, Idle
    <3>2. req[q].pc = "idle"
      BY <3>1
    <3>3. QED
      BY <3>2
  <2>3. \A t \in ResetLinks : ~Present(t) /\ t \notin mailed
    BY DEF Init, StoreInit, Absent, Present
  <2>4. ASSUME NEW t \in ResetLinks PROVE uses[t] = 0 /\ uses[t] <= 1
    <3>1. uses = [u \in ResetLinks |-> 0]
      BY DEF Init
    <3>2. uses[t] = 0
      BY <3>1
    <3>3. QED
      BY <3>2
  <2>5. QED
    BY <2>2, <2>3, <2>4, ZenonT(30) DEF LinkInv
<1>2. LinkInv => ResetIsSingleUse
  BY DEF LinkInv, ResetIsSingleUse
<1>3. QED
  BY <1>1, <1>2, LinkInductive, TypeInvariant, PTL DEF Spec

=============================================================================
