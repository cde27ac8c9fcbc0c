--------------------------- MODULE TenantPool_proofs ---------------------------
(* Proofs about TenantPool. *)
EXTENDS TenantPool, TLAPS

Local == {"bind", "role", "reset_failed", "reset_answered"}
Serving == {"plan", "handle", "pooled"}

(* A request holds the connection it has at hand, and the one that         *)
(* request.db runs on has its role and its tenant.                         *)
HoldsLocal(r) ==
    req[r].pc \in Local =>
        /\ req[r].local \in Conns
        /\ conn[req[r].local].holder = r
        /\ req[r].pc = "role" => conn[req[r].local].tenant = req[r].tenant
HoldsRls(r) ==
    req[r].rls # None =>
        /\ conn[req[r].rls].holder = r
        /\ conn[req[r].rls].role = "app_user"
        /\ conn[req[r].rls].tenant = req[r].tenant
Bound(r) ==
    /\ req[r].pc \in Serving => req[r].rls # None
    /\ req[r].pc \in Local \cup {"idle", "reserve"} => req[r].rls = None
    /\ req[r].pc # "idle" => req[r].tenant \in Tenants
Holding == \A r \in Requests : HoldsLocal(r) /\ HoldsRls(r) /\ Bound(r)

Inv == TypeOK /\ Holding

(* The effect of a step of r: it goes on with a new record, and the        *)
(* connection it changes, if any, is one that nobody else holds.           *)
NewReq(r, x) == req' = [req EXCEPT ![r] = x]
ReqRecord == [pc : Steps, tenant : Tenants \cup {None}, local : Conns \cup {None},
              rls : Conns \cup {None}, left : Nat]
ConnRecord == [holder : Requests \cup {None}, role : Roles, tenant : Tenants \cup {None}]

LEMMA InitInv == Init => Inv
  <1> SUFFICES ASSUME Init PROVE Inv
    OBVIOUS
  <1>1. \A r \in Requests : req[r] = IdleRequest
    BY DEF Init
  <1>2. \A r \in Requests : req[r].pc = "idle" /\ req[r].rls = None
    BY <1>1 DEF IdleRequest
  <1>3. Holding
    BY <1>2 DEF Holding, HoldsLocal, HoldsRls, Bound, Local, Serving
  <1>4. TypeOK
    BY DEF Init, TypeOK, IdleRequest, Steps, Roles
  <1> QED
    BY <1>3, <1>4 DEF Inv

(* A step of r that changes no connection, or one that r holds or nobody   *)
(* holds, leaves the other requests with what they have.                   *)
LEMMA OthersKeep ==
    ASSUME Inv, NEW r \in Requests, NEW x \in ReqRecord, NewReq(r, x),
           \/ conn' = conn
           \/ \E c \in Conns, y \in ConnRecord :
                /\ conn[c].holder \in {r, None}
                /\ conn' = [conn EXCEPT ![c] = y]
    PROVE  \A p \in Requests \ {r} : (HoldsLocal(p) /\ HoldsRls(p) /\ Bound(p))'
  <1> SUFFICES ASSUME NEW p \in Requests \ {r}
               PROVE  (HoldsLocal(p) /\ HoldsRls(p) /\ Bound(p))'
    OBVIOUS
  <1>1. req'[p] = req[p]
    BY DEF Inv, TypeOK, NewReq
  <1>2. HoldsLocal(p) /\ HoldsRls(p) /\ Bound(p)
    BY DEF Inv, Holding
  <1>3. ASSUME NEW d \in Conns, conn[d].holder = p PROVE conn'[d] = conn[d]
    <2>1. p # None /\ p # r
      BY NoneAssumption
    <2> QED
      BY <1>3, <2>1 DEF Inv, TypeOK
  <1>4. req[p].rls \in Conns \cup {None}
    BY DEF Inv, TypeOK
  <1>5. HoldsLocal(p)'
    BY <1>1, <1>2, <1>3 DEF HoldsLocal
  <1>6. HoldsRls(p)'
    BY <1>1, <1>2, <1>3, <1>4 DEF HoldsRls
  <1>7. Bound(p)'
    BY <1>1, <1>2 DEF Bound
  <1> QED
    BY <1>5, <1>6, <1>7

(* Types are kept by a step that writes a record of the right type. *)
LEMMA TypesKept ==
    ASSUME Inv, NEW r \in Requests, NEW x \in ReqRecord, NewReq(r, x),
           \/ conn' = conn
           \/ \E c \in Conns, y \in ConnRecord : conn' = [conn EXCEPT ![c] = y]
    PROVE  TypeOK'
  <1>1. req' \in [Requests -> ReqRecord]
    BY DEF Inv, TypeOK, NewReq, ReqRecord
  <1>2. conn' \in [Conns -> ConnRecord]
    BY DEF Inv, TypeOK, ConnRecord
  <1> QED
    BY <1>1, <1>2 DEF TypeOK, ReqRecord, ConnRecord

(* What is left to show of a step of r is what it does to r itself. *)
LEMMA StepInv ==
    ASSUME Inv, NEW r \in Requests, NEW x \in ReqRecord, NewReq(r, x),
           \/ conn' = conn
           \/ \E c \in Conns, y \in ConnRecord :
                /\ conn[c].holder \in {r, None}
                /\ conn' = [conn EXCEPT ![c] = y],
           x.pc \in Local =>
                /\ x.local \in Conns
                /\ conn'[x.local].holder = r
                /\ x.pc = "role" => conn'[x.local].tenant = x.tenant,
           x.rls # None =>
                /\ conn'[x.rls].holder = r
                /\ conn'[x.rls].role = "app_user"
                /\ conn'[x.rls].tenant = x.tenant,
           x.pc \in Serving => x.rls # None,
           x.pc \in Local \cup {"idle", "reserve"} => x.rls = None,
           x.pc # "idle" => x.tenant \in Tenants
    PROVE  Inv'
  <1>1. req'[r] = x
    BY DEF Inv, TypeOK, NewReq
  <1>2. HoldsLocal(r)'
    BY <1>1 DEF HoldsLocal
  <1>3. HoldsRls(r)'
    BY <1>1 DEF HoldsRls
  <1>4. Bound(r)'
    BY <1>1 DEF Bound
  <1>5. Holding'
    BY <1>2, <1>3, <1>4, OthersKeep DEF Holding
  <1>6. TypeOK'
    BY TypesKept
  <1> QED
    BY <1>5, <1>6 DEF Inv

(* What the invariant says of a request and of the connection it has. *)
LEMMA OfRequest ==
    ASSUME Inv, NEW r \in Requests
    PROVE  /\ req[r] \in ReqRecord
           /\ HoldsLocal(r) /\ HoldsRls(r) /\ Bound(r)
           /\ \A c \in Conns : conn[c] \in ConnRecord
  BY DEF Inv, TypeOK, Holding, ReqRecord, ConnRecord

LEMMA ArriveInv ==
    ASSUME Inv, NEW r \in Requests, NEW t \in Tenants, Arrive(r, t)
    PROVE  Inv'
  <1> DEFINE x == [pc |-> "reserve", tenant |-> t, local |-> None,
                   rls |-> None, left |-> MaxQueries]
  <1>1. x \in ReqRecord
    BY QueriesAssumption DEF ReqRecord, Steps
  <1>2. NewReq(r, x) /\ conn' = conn
    BY DEF Arrive, NewReq
  <1>3. x.pc = "reserve" /\ x.tenant = t /\ x.rls = None
    OBVIOUS
  <1> HIDE DEF x
  <1> QED
    BY <1>1, <1>2, <1>3, StepInv DEF Local, Serving

(* A step that goes on to pc and leaves every connection alone. *)
LEMMA QuietInv ==
    ASSUME Inv, NEW r \in Requests, NEW pc \in Steps, NEW left \in Nat,
           NEW rls \in {req[r].rls, None},
           req' = [req EXCEPT ![r] = [pc |-> pc, tenant |-> req[r].tenant, local |-> None,
                                      rls |-> rls, left |-> left]],
           conn' = conn,
           pc \notin Local \cup {"idle", "reserve"},
           req[r].pc # "idle",
           pc \in Serving => rls # None
    PROVE  Inv'
  <1> DEFINE x == [pc |-> pc, tenant |-> req[r].tenant, local |-> None,
                   rls |-> rls, left |-> left]
  <1>1. /\ req[r] \in ReqRecord
        /\ HoldsRls(r) /\ Bound(r)
    BY OfRequest
  <1>2. x \in ReqRecord
    BY <1>1 DEF ReqRecord
  <1>3. x.pc = pc /\ x.tenant = req[r].tenant /\ x.rls = rls
    OBVIOUS
  <1>4. NewReq(r, x)
    BY DEF NewReq
  <1>5. x.rls # None =>
                /\ conn'[x.rls].holder = r
                /\ conn'[x.rls].role = "app_user"
                /\ conn'[x.rls].tenant = x.tenant
    BY <1>1, <1>3 DEF HoldsRls
  <1>6. x.tenant \in Tenants
    BY <1>1, <1>3 DEF Bound
  <1> HIDE DEF x
  <1> QED
    BY <1>2, <1>3, <1>4, <1>5, <1>6, StepInv

(* A request that ends holds nothing, so whatever it has done to its       *)
(* connection concerns nobody.                                             *)
LEMMA IdleInv ==
    ASSUME Inv, NEW r \in Requests, req' = [req EXCEPT ![r] = IdleRequest],
           \/ conn' = conn
           \/ \E c \in Conns, y \in ConnRecord :
                /\ conn[c].holder \in {r, None}
                /\ conn' = [conn EXCEPT ![c] = y]
    PROVE  Inv'
  <1>1. IdleRequest \in ReqRecord
    BY DEF IdleRequest, ReqRecord, Steps
  <1>2. IdleRequest.pc = "idle" /\ IdleRequest.rls = None
    BY DEF IdleRequest
  <1>3. NewReq(r, IdleRequest)
    BY DEF NewReq
  <1> QED
    BY <1>1, <1>2, <1>3, StepInv DEF Local, Serving

(* A request that gives its connection up goes on without one. *)
LEMMA LeaveInv ==
    ASSUME Inv, NEW r \in Requests, NEW pc \in {"failed", "answered"},
           Goto(r, pc, None, None), req[r].pc # "idle",
           \/ conn' = conn
           \/ \E c \in Conns, y \in ConnRecord :
                /\ conn[c].holder \in {r, None}
                /\ conn' = [conn EXCEPT ![c] = y]
    PROVE  Inv'
  <1> DEFINE x == [pc |-> pc, tenant |-> req[r].tenant, local |-> None,
                   rls |-> None, left |-> req[r].left]
  <1>1. /\ req[r] \in ReqRecord
        /\ Bound(r)
    BY OfRequest
  <1>2. x \in ReqRecord
    BY <1>1 DEF ReqRecord, Steps
  <1>3. x.pc = pc /\ x.tenant \in Tenants /\ x.rls = None
    BY <1>1 DEF Bound
  <1>4. NewReq(r, x)
    BY DEF NewReq, Goto
  <1> HIDE DEF x
  <1> QED
    BY <1>2, <1>3, <1>4, StepInv DEF Local, Serving

LEMMA ReserveInv ==
    ASSUME Inv, NEW r \in Requests, Reserve(r)
    PROVE  Inv'
  <1>1. PICK c \in Conns : /\ Free(c)
                           /\ Session(c, r, conn[c].role, conn[c].tenant)
                           /\ Goto(r, "bind", c, None)
    BY DEF Reserve
  <1> DEFINE x == [pc |-> "bind", tenant |-> req[r].tenant, local |-> c,
                   rls |-> None, left |-> req[r].left]
             y == [holder |-> r, role |-> conn[c].role, tenant |-> conn[c].tenant]
  <1>2. /\ req[r] \in ReqRecord /\ Bound(r)
        /\ conn[c] \in ConnRecord
        /\ req[r].pc = "reserve"
    BY OfRequest DEF Reserve
  <1>3. x \in ReqRecord /\ y \in ConnRecord
    BY <1>2 DEF ReqRecord, ConnRecord, Steps
  <1>4. NewReq(r, x)
    BY <1>1 DEF NewReq, Goto, Reserve
  <1>5. conn' = [conn EXCEPT ![c] = y] /\ conn[c].holder \in {r, None}
    BY <1>1 DEF Session, Free
  <1>6. x.pc = "bind" /\ x.local = c /\ x.rls = None /\ x.tenant \in Tenants
    BY <1>2 DEF Bound
  <1>7. conn'[x.local].holder = r
    BY <1>5, <1>6 DEF Inv, TypeOK
  <1> HIDE DEF x, y
  <1> QED
    BY <1>3, <1>4, <1>5, <1>6, <1>7, StepInv DEF Local, Serving

LEMMA BindTenantInv ==
    ASSUME Inv, NEW r \in Requests, BindTenant(r)
    PROVE  Inv'
  <1> DEFINE c == req[r].local
             x == [pc |-> "role", tenant |-> req[r].tenant, local |-> c,
                   rls |-> None, left |-> req[r].left]
             y == [holder |-> conn[c].holder, role |-> conn[c].role, tenant |-> req[r].tenant]
  <1>1. req[r].pc = "bind" /\ req[r] \in ReqRecord /\ Bound(r) /\ HoldsLocal(r)
    BY OfRequest DEF BindTenant
  <1>2. c \in Conns /\ conn[c].holder = r /\ req[r].tenant \in Tenants
    BY <1>1 DEF HoldsLocal, Bound, Local
  <1>3. conn[c] \in ConnRecord
    BY <1>2, OfRequest
  <1>4. x \in ReqRecord /\ y \in ConnRecord
    BY <1>1, <1>2, <1>3 DEF ReqRecord, ConnRecord, Steps
  <1>5. NewReq(r, x)
    BY DEF NewReq, Goto, BindTenant
  <1>6. conn' = [conn EXCEPT ![c] = y]
    BY DEF Session, BindTenant
  <1>7. x.pc = "role" /\ x.local = c /\ x.rls = None /\ x.tenant = req[r].tenant
    OBVIOUS
  <1>8. y.holder = r /\ y.tenant = req[r].tenant
    BY <1>2
  <1> HIDE DEF c, x, y
  <1>9. conn'[x.local].holder = r /\ conn'[x.local].tenant = x.tenant
    BY <1>2, <1>6, <1>7, <1>8 DEF Inv, TypeOK
  <1> QED
    BY <1>2, <1>4, <1>5, <1>6, <1>7, <1>9, StepInv DEF Local, Serving

LEMMA SetRoleInv ==
    ASSUME Inv, NEW r \in Requests, SetRole(r)
    PROVE  Inv'
  <1> DEFINE c == req[r].local
             x == [pc |-> "plan", tenant |-> req[r].tenant, local |-> None,
                   rls |-> c, left |-> req[r].left]
             y == [holder |-> conn[c].holder, role |-> "app_user", tenant |-> conn[c].tenant]
  <1>1. req[r].pc = "role" /\ req[r] \in ReqRecord /\ Bound(r) /\ HoldsLocal(r)
    BY OfRequest DEF SetRole
  <1>2. /\ c \in Conns /\ conn[c].holder = r
        /\ conn[c].tenant = req[r].tenant /\ req[r].tenant \in Tenants
    BY <1>1 DEF HoldsLocal, Bound, Local
  <1>3. conn[c] \in ConnRecord
    BY <1>2, OfRequest
  <1>4. x \in ReqRecord /\ y \in ConnRecord
    BY <1>1, <1>2, <1>3 DEF ReqRecord, ConnRecord, Steps, Roles
  <1>5. NewReq(r, x)
    BY DEF NewReq, Goto, SetRole
  <1>6. conn' = [conn EXCEPT ![c] = y]
    BY DEF Session, SetRole
  <1>7. x.pc = "plan" /\ x.rls = c /\ x.tenant = req[r].tenant
    OBVIOUS
  <1>8. y.holder = r /\ y.role = "app_user" /\ y.tenant = req[r].tenant
    BY <1>2
  <1>9. c # None
    BY <1>2, NoneAssumption
  <1> HIDE DEF c, x, y
  <1>10. /\ conn'[x.rls].holder = r
         /\ conn'[x.rls].role = "app_user"
         /\ conn'[x.rls].tenant = x.tenant
    BY <1>2, <1>6, <1>7, <1>8 DEF Inv, TypeOK
  <1> QED
    BY <1>2, <1>4, <1>5, <1>6, <1>7, <1>9, <1>10, StepInv DEF Local

LEMMA BindFailsInv ==
    ASSUME Inv, NEW r \in Requests, BindFails(r)
    PROVE  Inv'
  <1> DEFINE c == req[r].local
             y == [holder |-> None, role |-> conn[c].role, tenant |-> conn[c].tenant]
  <1>1. req[r].pc \in Local /\ req[r].pc # "idle" /\ HoldsLocal(r)
    BY OfRequest DEF BindFails, Local
  <1>2. c \in Conns /\ conn[c].holder = r
    BY <1>1 DEF HoldsLocal
  <1>3. y \in ConnRecord
    BY <1>2, OfRequest DEF ConnRecord
  <1>4. conn' = [conn EXCEPT ![c] = y] /\ Goto(r, "failed", None, None)
    BY DEF Session, BindFails
  <1> HIDE DEF c, y
  <1> QED
    BY <1>1, <1>2, <1>3, <1>4, LeaveInv

LEMMA TenantQueryInv ==
    ASSUME Inv, NEW r \in Requests, TenantQuery(r)
    PROVE  Inv'
  <1>1. req[r].pc = "handle" /\ req[r] \in ReqRecord /\ Bound(r)
    BY OfRequest DEF TenantQuery
  <1>2. req[r].rls # None
    BY <1>1 DEF Bound, Serving
  <1>3. req[r].left \in Nat /\ req[r].left > 0
    BY <1>1 DEF ReqRecord, TenantQuery, Query
  <1>4. req[r].left - 1 \in Nat
    BY <1>3
  <1>5. "handle" \in Steps /\ "handle" \notin Local \cup {"idle", "reserve"}
    BY DEF Steps, Local
  <1> QED
    BY <1>1, <1>2, <1>4, <1>5, QuietInv DEF TenantQuery, Query

LEMMA AskPoolInv ==
    ASSUME Inv, NEW r \in Requests, AskPool(r)
    PROVE  Inv'
  <1>1. req[r].pc = "handle" /\ req[r] \in ReqRecord /\ Bound(r)
    BY OfRequest DEF AskPool
  <1>2. req[r].rls # None
    BY <1>1 DEF Bound, Serving
  <1>3. req[r].left \in Nat /\ req[r].left > 0
    BY <1>1 DEF ReqRecord, AskPool, Query
  <1>4. req[r].left - 1 \in Nat
    BY <1>3
  <1>5. "pooled" \in Steps /\ "pooled" \notin Local \cup {"idle", "reserve"}
    BY DEF Steps, Local
  <1> QED
    BY <1>1, <1>2, <1>4, <1>5, QuietInv DEF AskPool, Query

(* The steps that only go on: to the handler, to an error or to a reply. *)
LEMMA GoOnInv ==
    ASSUME Inv, NEW r \in Requests,
           ReadPlan(r) \/ PoolQuery(r) \/ Throw(r) \/ Answer(r)
    PROVE  Inv'
  <1>1. req[r] \in ReqRecord /\ Bound(r) /\ req[r].left \in Nat
    BY OfRequest DEF ReqRecord
  <1>2. /\ {"handle", "failed", "answered"} \subseteq Steps
        /\ \A pc \in {"handle", "failed", "answered"} :
              pc \notin Local \cup {"idle", "reserve"}
    BY DEF Steps, Local
  <1>3. CASE ReadPlan(r) \/ PoolQuery(r)
    <2>1. req[r].pc \in Serving /\ req[r].pc # "idle"
      BY <1>3 DEF ReadPlan, PoolQuery, Serving
    <2>2. req[r].rls # None
      BY <1>1, <2>1 DEF Bound
    <2>3. Goto(r, "handle", None, req[r].rls) /\ conn' = conn
      BY <1>3 DEF ReadPlan, PoolQuery
    <2> QED
      BY <1>1, <1>2, <2>1, <2>2, <2>3, QuietInv DEF Goto
  <1>4. CASE Throw(r)
    <2>1. Goto(r, "failed", None, req[r].rls) /\ conn' = conn
      BY <1>4 DEF Throw
    <2>2. req[r].pc # "idle" /\ "failed" \notin Serving
      BY <1>4 DEF Throw, Serving
    <2> QED
      BY <1>1, <1>2, <2>1, <2>2, QuietInv DEF Goto
  <1>5. CASE Answer(r)
    <2>1. Goto(r, "answered", None, req[r].rls) /\ conn' = conn
      BY <1>5 DEF Answer
    <2>2. req[r].pc # "idle" /\ "answered" \notin Serving
      BY <1>5 DEF Answer, Serving
    <2> QED
      BY <1>1, <1>2, <2>1, <2>2, QuietInv DEF Goto
  <1> QED
    BY <1>3, <1>4, <1>5

LEMMA OverInv ==
    ASSUME Inv, NEW r \in Requests, Over(r, req[r].pc), req[r].pc # "idle",
           \/ conn' = conn
           \/ \E c \in Conns, y \in ConnRecord :
                /\ conn[c].holder \in {r, None}
                /\ conn' = [conn EXCEPT ![c] = y]
    PROVE  Inv'
  <1>1. CASE Goto(r, "answered", None, None)
    BY <1>1, LeaveInv
  <1>2. CASE req' = [req EXCEPT ![r] = IdleRequest]
    BY <1>2, IdleInv
  <1> QED
    BY <1>1, <1>2 DEF Over

LEMMA TakeConnectionInv ==
    ASSUME Inv, NEW r \in Requests, TakeConnection(r)
    PROVE  Inv'
  <1> DEFINE pc == ResetOf(req[r].pc)
             x == [pc |-> pc, tenant |-> req[r].tenant, local |-> req[r].rls,
                   rls |-> None, left |-> req[r].left]
  <1>1. /\ req[r].pc \in {"failed", "answered"} /\ req[r].rls # None
        /\ req[r] \in ReqRecord /\ HoldsRls(r) /\ Bound(r)
    BY OfRequest DEF TakeConnection
  <1>2. pc \in {"reset_failed", "reset_answered"}
    BY DEF ResetOf
  <1>3. req[r].rls \in Conns /\ req[r].tenant \in Tenants
    BY <1>1 DEF ReqRecord, Bound
  <1>4. x \in ReqRecord
    BY <1>1, <1>2, <1>3 DEF ReqRecord, Steps
  <1>5. NewReq(r, x) /\ conn' = conn
    BY DEF NewReq, Goto, TakeConnection
  <1>6. x.pc = pc /\ x.local = req[r].rls /\ x.rls = None /\ x.tenant = req[r].tenant
    OBVIOUS
  <1>7. conn[x.local].holder = r
    BY <1>1, <1>6 DEF HoldsRls
  <1>8. x.pc \notin Serving /\ x.pc # "role"
    BY <1>2, <1>6 DEF Serving
  <1> HIDE DEF x, pc
  <1> QED
    BY <1>3, <1>4, <1>5, <1>6, <1>7, <1>8, StepInv

LEMMA ReleaseInv ==
    ASSUME Inv, NEW r \in Requests, Release(r) \/ ReleaseUnreset(r)
    PROVE  Inv'
  <1> DEFINE c == req[r].local
  <1>1. req[r].pc \in Local /\ req[r].pc # "idle" /\ HoldsLocal(r)
    BY OfRequest DEF Release, ReleaseUnreset, Local
  <1>2. c \in Conns /\ conn[c].holder = r
    BY <1>1 DEF HoldsLocal
  <1>3. PICK t \in {conn[c].tenant, None} : Session(c, None, conn[c].role, t)
    BY DEF Release, ReleaseUnreset
  <1> DEFINE y == [holder |-> None, role |-> conn[c].role, tenant |-> t]
  <1>4. y \in ConnRecord
    BY <1>2, OfRequest DEF ConnRecord
  <1>5. conn' = [conn EXCEPT ![c] = y] /\ Over(r, req[r].pc)
    BY <1>3 DEF Session, Release, ReleaseUnreset
  <1> HIDE DEF c, y
  <1> QED
    BY <1>1, <1>2, <1>4, <1>5, OverInv

LEMMA NextInv == Inv /\ [Next]_vars => Inv'
  <1> SUFFICES ASSUME Inv, [Next]_vars PROVE Inv'
    OBVIOUS
  <1>1. CASE UNCHANGED vars
    BY <1>1 DEF vars, Inv, TypeOK, Holding, HoldsLocal, HoldsRls, Bound
  <1>2. ASSUME NEW r \in Requests, NEW t \in Tenants, Arrive(r, t) PROVE Inv'
    BY <1>2, ArriveInv
  <1>3. ASSUME NEW r \in Requests, RequestStep(r) PROVE Inv'
    <2>1. CASE Reserve(r)
      BY <2>1, ReserveInv
    <2>2. CASE BindTenant(r)
      BY <2>2, BindTenantInv
    <2>3. CASE SetRole(r)
      BY <2>3, SetRoleInv
    <2>4. CASE BindFails(r)
      BY <2>4, BindFailsInv
    <2>5. CASE TenantQuery(r)
      BY <2>5, TenantQueryInv
    <2>6. CASE AskPool(r)
      BY <2>6, AskPoolInv
    <2>7. CASE ReadPlan(r) \/ PoolQuery(r) \/ Throw(r) \/ Answer(r)
      BY <2>7, GoOnInv
    <2>8. CASE NoConnection(r)
      BY <2>8, OverInv DEF NoConnection
    <2>9. CASE TakeConnection(r)
      BY <2>9, TakeConnectionInv
    <2>10. CASE Release(r) \/ ReleaseUnreset(r)
      BY <2>10, ReleaseInv
    <2> QED
      BY <1>3, <2>1, <2>2, <2>3, <2>4, <2>5, <2>6, <2>7, <2>8, <2>9, <2>10 DEF RequestStep, GoesOn
  <1> QED
    BY <1>1, <1>2, <1>3 DEF Next

LEMMA InvHolds == Spec => []Inv
  BY InitInv, NextInv, PTL DEF Spec

(* The variables keep their types: requests and connections        *)
(* (plugins/auth.ts, app.ts).                                              *)
THEOREM TypeCorrect == Spec => []TypeOK
  <1>1. Inv => TypeOK
    BY DEF Inv
  <1> QED
    BY <1>1, InvHolds, PTL

(* A query on request.db sees the rows of the request's tenant and no  *)
(* others, for any pool and any number of requests: a connection belongs   *)
(* to one request from its reservation to its release, and request.rlsConn *)
(* is cleared before RESET ALL is awaited.                                 *)
THEOREM OwnRowsOnly == Spec => []QueriesSeeOwnTenant
  <1>1. Inv => QueriesSeeOwnTenant
    <2> SUFFICES ASSUME Inv, NEW r \in Requests, req[r].pc = "handle"
                 PROVE  Visible(req[r].rls) = {req[r].tenant}
      BY DEF QueriesSeeOwnTenant
    <2>1. HoldsRls(r) /\ req[r].rls # None /\ req[r].tenant \in Tenants
      BY OfRequest DEF Bound, Serving
    <2> QED
      BY <2>1, NoneAssumption DEF HoldsRls, Visible
  <1> QED
    BY <1>1, InvHolds, PTL

-----------------------------------------------------------------------------
(* Nothing is stranded. *)

(* The connection a request has in hand, by its record. *)
HandOf(x) == IF x.pc \in Local THEN {x.local} ELSE {x.rls} \ {None}

HeldInv ==
    \A c \in Conns : conn[c].holder # None => HandOf(req[conn[c].holder]) = {c}

LEMMA HandOfRequest == \A r : InHand(r) = HandOf(req[r])
  BY DEF InHand, HandOf, Local

(* A step of r takes connections for r only, and r has in hand whatever it *)
(* holds after it.                                                         *)
LEMMA HeldStep ==
    ASSUME Inv, HeldInv, NEW r \in Requests, NEW x, NewReq(r, x),
           \A d \in Conns : conn'[d].holder \in {conn[d].holder, r, None},
           \A d \in Conns : conn'[d].holder = r => HandOf(x) = {d}
    PROVE  HeldInv'
  <1> SUFFICES ASSUME NEW d \in Conns, conn'[d].holder # None
               PROVE  HandOf(req'[conn'[d].holder]) = {d}
    BY DEF HeldInv, HandOf
  <1>1. CASE conn'[d].holder = r
    <2>1. req'[r] = x
      BY DEF NewReq, Inv, TypeOK
    <2> QED
      BY <1>1, <2>1
  <1>2. CASE conn'[d].holder # r
    <2>1. conn'[d].holder = conn[d].holder /\ conn[d].holder \in Requests
      BY <1>2, OfRequest DEF Inv, TypeOK
    <2>2. req'[conn[d].holder] = req[conn[d].holder]
      BY <1>2, <2>1 DEF NewReq, Inv, TypeOK
    <2> QED
      BY <2>1, <2>2 DEF HeldInv
  <1> QED
    BY <1>1, <1>2

LEMMA HeldByHand ==
    ASSUME HeldInv, NEW r \in Requests, NEW d \in Conns, conn[d].holder = r
    PROVE  HandOf(req[r]) = {d}
  BY NoneAssumption DEF HeldInv

(* A step that leaves the connections alone, and r with what it has. *)
LEMMA SameHand ==
    ASSUME Inv, HeldInv, NEW r \in Requests, NEW x, NewReq(r, x), conn' = conn,
           HandOf(x) = HandOf(req[r])
    PROVE  HeldInv'
  BY HeldStep, HeldByHand

(* A step that gives back the one connection r has. *)
LEMMA EmptyHand ==
    ASSUME Inv, HeldInv, NEW r \in Requests, NEW x, NewReq(r, x),
           req[r].pc \in Local,
           NEW role, NEW tenant, Session(req[r].local, None, role, tenant)
    PROVE  HeldInv'
  <1> DEFINE c == req[r].local
  <1>1. HandOf(req[r]) = {c}
    BY DEF HandOf
  <1>2. c \in Conns /\ HoldsLocal(r) /\ conn[c].holder = r
    BY OfRequest DEF HoldsLocal
  <1>3. /\ conn'[c].holder = None
        /\ \A d \in Conns \ {c} : conn'[d] = conn[d]
    BY <1>2 DEF Session, Inv, TypeOK
  <1> HIDE DEF c
  <1>4. \A d \in Conns \ {c} : conn[d].holder # r
    BY <1>1, HeldByHand
  <1>5. \A d \in Conns : conn'[d].holder # r
    BY <1>3, <1>4, NoneAssumption
  <1> QED
    BY <1>3, <1>5, HeldStep

LEMMA ReserveHeld ==
    ASSUME Inv, HeldInv, NEW r \in Requests, Reserve(r)
    PROVE  HeldInv'
  <1>1. PICK c \in Conns : /\ Session(c, r, conn[c].role, conn[c].tenant)
                           /\ Goto(r, "bind", c, None)
    BY DEF Reserve
  <1> DEFINE x == [pc |-> "bind", tenant |-> req[r].tenant, local |-> c,
                   rls |-> None, left |-> req[r].left]
  <1>2. NewReq(r, x) /\ HandOf(x) = {c}
    BY <1>1 DEF NewReq, Goto, HandOf, Local
  <1>3. HandOf(req[r]) = {}
    BY OfRequest DEF HandOf, Local, Bound, Reserve
  <1>4. /\ conn'[c].holder = r
        /\ \A d \in Conns \ {c} : conn'[d] = conn[d]
    BY <1>1 DEF Session, Inv, TypeOK
  <1>5. \A d \in Conns \ {c} : conn'[d].holder # r
    BY <1>3, <1>4, HeldByHand
  <1> HIDE DEF x
  <1> QED
    BY <1>2, <1>4, <1>5, HeldStep

(* The steps that bind the connection: its holder stays. *)
LEMMA BindHeld ==
    ASSUME Inv, HeldInv, NEW r \in Requests, BindTenant(r) \/ SetRole(r)
    PROVE  HeldInv'
  <1> DEFINE c == req[r].local
  <1>1. c \in Conns /\ HandOf(req[r]) = {c}
    BY OfRequest DEF BindTenant, SetRole, HoldsLocal, HandOf, Local
  <1>2. PICK x : NewReq(r, x) /\ HandOf(x) = {c}
    <2>1. CASE BindTenant(r)
      <3> DEFINE y == [pc |-> "role", tenant |-> req[r].tenant, local |-> c,
                       rls |-> None, left |-> req[r].left]
      <3>1. NewReq(r, y) /\ HandOf(y) = {c}
        BY <2>1 DEF BindTenant, NewReq, Goto, HandOf, Local
      <3> QED
        BY <3>1
    <2>2. CASE SetRole(r)
      <3> DEFINE y == [pc |-> "plan", tenant |-> req[r].tenant, local |-> None,
                       rls |-> c, left |-> req[r].left]
      <3>1. NewReq(r, y) /\ HandOf(y) = {c}
        BY <1>1, <2>2, NoneAssumption DEF SetRole, NewReq, Goto, HandOf, Local
      <3> QED
        BY <3>1
    <2> QED
      BY <2>1, <2>2
  <1>3. \A d \in Conns : conn'[d].holder = conn[d].holder
    BY DEF BindTenant, SetRole, Session, Inv, TypeOK
  <1>4. \A d \in Conns : conn[d].holder = r => HandOf(req[r]) = {d}
    BY HeldByHand
  <1> HIDE DEF c
  <1> QED
    BY <1>1, <1>2, <1>3, <1>4, HeldStep

(* Before and after a step that only goes on, r serves, or is done with    *)
(* serving, on the connection of request.db.                               *)
LEMMA GoOnHeld ==
    ASSUME Inv, HeldInv, NEW r \in Requests,
           \/ ReadPlan(r) \/ TenantQuery(r) \/ AskPool(r) \/ PoolQuery(r)
           \/ Throw(r) \/ Answer(r)
    PROVE  HeldInv'
  <1>1. PICK pc \in {"handle", "pooled", "failed", "answered"},
               left \in {req[r].left, req[r].left - 1} :
           req' = [req EXCEPT ![r] = [pc |-> pc, tenant |-> req[r].tenant, local |-> None,
                                      rls |-> req[r].rls, left |-> left]]
    BY DEF ReadPlan, TenantQuery, AskPool, PoolQuery, Throw, Answer, Goto, Query
  <1> DEFINE x == [pc |-> pc, tenant |-> req[r].tenant, local |-> None,
                   rls |-> req[r].rls, left |-> left]
  <1>2. NewReq(r, x) /\ HandOf(x) = {req[r].rls} \ {None}
    BY <1>1 DEF NewReq, HandOf, Local
  <1>3. conn' = conn /\ req[r].pc \notin Local
    BY DEF ReadPlan, TenantQuery, AskPool, PoolQuery, Throw, Answer, Local
  <1>4. HandOf(req[r]) = {req[r].rls} \ {None}
    BY <1>3 DEF HandOf
  <1> HIDE DEF x
  <1> QED
    BY <1>2, <1>3, <1>4, SameHand

LEMMA TakeConnectionHeld ==
    ASSUME Inv, HeldInv, NEW r \in Requests, TakeConnection(r)
    PROVE  HeldInv'
  <1> DEFINE x == [pc |-> ResetOf(req[r].pc), tenant |-> req[r].tenant,
                   local |-> req[r].rls, rls |-> None, left |-> req[r].left]
  <1>1. NewReq(r, x) /\ conn' = conn
    BY DEF TakeConnection, NewReq, Goto
  <1>2. HandOf(x) = {req[r].rls}
    BY DEF HandOf, ResetOf, Local
  <1>3. HandOf(req[r]) = {req[r].rls}
    BY DEF TakeConnection, HandOf, Local
  <1> HIDE DEF x
  <1> QED
    BY <1>1, <1>2, <1>3, SameHand

(* A request without a connection that goes on, or starts again, has none. *)
LEMMA NoneHeld ==
    ASSUME Inv, HeldInv, NEW r \in Requests,
           NoConnection(r) \/ \E t \in Tenants : Arrive(r, t)
    PROVE  HeldInv'
  <1>1. HandOf(req[r]) = {} /\ conn' = conn
    BY OfRequest DEF NoConnection, Arrive, HandOf, Local, Bound
  <1>2. \E x : NewReq(r, x)
    BY DEF NoConnection, Arrive, Over, Goto, NewReq
  <1> QED
    BY <1>1, <1>2, HeldStep, HeldByHand

LEMMA GiveBackHeld ==
    ASSUME Inv, HeldInv, NEW r \in Requests,
           BindFails(r) \/ Release(r) \/ ReleaseUnreset(r)
    PROVE  HeldInv'
  <1>1. req[r].pc \in Local
    BY DEF BindFails, Release, ReleaseUnreset, Local
  <1>2. \E x : NewReq(r, x)
    BY DEF BindFails, Release, ReleaseUnreset, Over, Goto, NewReq
  <1>3. \E role, tenant : Session(req[r].local, None, role, tenant)
    BY DEF BindFails, Release, ReleaseUnreset
  <1> QED
    BY <1>1, <1>2, <1>3, EmptyHand

LEMMA HeldInductive == Inv /\ HeldInv /\ [Next]_vars => HeldInv'
  <1> SUFFICES ASSUME Inv, HeldInv, [Next]_vars PROVE HeldInv'
    OBVIOUS
  <1>1. CASE UNCHANGED vars
    BY <1>1 DEF vars, HeldInv, HandOf
  <1>2. ASSUME NEW r \in Requests, RequestStep(r) PROVE HeldInv'
    BY <1>2, ReserveHeld, BindHeld, GoOnHeld, TakeConnectionHeld, NoneHeld, GiveBackHeld
       DEF RequestStep, GoesOn
  <1> QED
    BY <1>1, <1>2, NoneHeld DEF Next

LEMMA HeldHolds == Spec => [](Inv /\ HeldInv)
  <1>1. Init => HeldInv
    BY DEF Init, HeldInv
  <1> QED
    BY <1>1, HeldInductive, InvHolds, PTL DEF Spec

LEMMA NoneIsStranded == Inv /\ HeldInv => NoneStranded
  <1> SUFFICES ASSUME Inv, HeldInv, NEW c \in Conns
               PROVE  /\ ~Free(c) => InHand(conn[c].holder) = {c}
                      /\ \A r \in Requests : c \in InHand(r) => conn[c].holder = r
    BY DEF NoneStranded
  <1>1. ~Free(c) => InHand(conn[c].holder) = {c}
    BY HandOfRequest DEF HeldInv, Free
  <1>2. ASSUME NEW r \in Requests, c \in InHand(r) PROVE conn[c].holder = r
    <2>1. c \in HandOf(req[r]) /\ HoldsLocal(r) /\ HoldsRls(r) /\ c # None
      BY <1>2, HandOfRequest, OfRequest, NoneAssumption
    <2> QED
      BY <2>1 DEF HandOf, HoldsLocal, HoldsRls
  <1> QED
    BY <1>1, <1>2

(* No error, reset or release strands a connection: each that is out of    *)
(* the pool is in the hands of one request, which has no other, for any    *)
(* pool and any number of requests (plugins/auth.ts, app.ts).              *)
THEOREM NothingIsStranded == Spec => []NoneStranded
  BY HeldHolds, NoneIsStranded, PTL

=============================================================================
