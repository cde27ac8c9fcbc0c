------------------------------ MODULE TenantPool ------------------------------
(***************************************************************************)
(* The connection pool of one API process and the tenant binding of its    *)
(* authenticated requests (plugins/auth.ts, routes/agent.ts, app.ts).      *)
(* authenticate reserves a connection for the whole request and binds the  *)
(* tenant to it, so that row-level security holds for request.db; the      *)
(* hooks of app.ts reset it and give it back.  app.db draws on the same    *)
(* pool, one connection for each of its queries.                           *)
(***************************************************************************)
EXTENDS Naturals, FiniteSets

CONSTANTS
    Conns,      \* the connections of the pool (10 in db/connection.ts)
    Requests,   \* requests that the process serves at a time
    Tenants,
    MaxQueries, \* bound: the queries a handler makes
    None        \* no request, no connection, or no tenant

ASSUME NoneAssumption == None \notin Conns \cup Requests \cup Tenants
ASSUME QueriesAssumption == MaxQueries \in Nat

VARIABLES
    conn,    \* conn[c]: who holds it, and the role and tenant its session has
    req   \* req[r]: where request r stands; rls is its request.rlsConn

vars == <<conn, req>>

Roles == {"owner", "app_user"}
Steps == {"idle", "reserve", "bind", "role", "plan", "handle", "pooled",
          "failed", "reset_failed", "answered", "reset_answered"}

IdleRequest == [pc |-> "idle", tenant |-> None, local |-> None, rls |-> None, left |-> 0]

TypeOK ==
    /\ conn \in [Conns -> [holder : Requests \cup {None}, role : Roles,
                           tenant : Tenants \cup {None}]]
    /\ req \in [Requests -> [pc : Steps, tenant : Tenants \cup {None},
                             local : Conns \cup {None}, rls : Conns \cup {None},
                             left : Nat]]

Init ==
    /\ conn = [c \in Conns |-> [holder |-> None, role |-> "owner", tenant |-> None]]
    /\ req = [r \in Requests |-> IdleRequest]

Free(c) == conn[c].holder = None

(* request.rlsConn, and the connection an await in between is about. *)
Goto(r, pc, local, rls) ==
    req' = [req EXCEPT ![r] = [pc |-> pc, tenant |-> req[r].tenant, local |-> local,
                               rls |-> rls, left |-> req[r].left]]

Session(c, holder, role, tenant) ==
    conn' = [conn EXCEPT ![c] = [holder |-> holder, role |-> role, tenant |-> tenant]]

-----------------------------------------------------------------------------
(* authenticate and populateTenantContext. *)

Arrive(r, t) ==
    /\ req[r].pc = "idle"
    /\ req' = [req EXCEPT ![r] = [pc |-> "reserve", tenant |-> t, local |-> None,
                                  rls |-> None, left |-> MaxQueries]]
    /\ UNCHANGED conn

(* appSql.reserve() waits until a connection is free. *)
Reserve(r) ==
    /\ req[r].pc = "reserve"
    /\ \E c \in Conns :
          /\ Free(c)
          /\ Session(c, r, conn[c].role, conn[c].tenant)
          /\ Goto(r, "bind", c, None)

BindTenant(r) ==
    /\ req[r].pc = "bind"
    /\ LET c == req[r].local IN
          /\ Session(c, conn[c].holder, conn[c].role, req[r].tenant)
          /\ Goto(r, "role", c, None)

SetRole(r) ==
    /\ req[r].pc = "role"
    /\ LET c == req[r].local IN
          /\ Session(c, conn[c].holder, "app_user", conn[c].tenant)
          /\ Goto(r, "plan", None, c)

(* Mutant of BindFails: the catch block does not release the connection. *)
BindFailsStranded(r) ==
    /\ req[r].pc \in {"bind", "role"}
    /\ Goto(r, "failed", None, None)
    /\ UNCHANGED conn

(* The catch block releases the connection as it is. *)
BindFails(r) ==
    /\ req[r].pc \in {"bind", "role"}
    /\ LET c == req[r].local IN Session(c, None, conn[c].role, conn[c].tenant)
    /\ Goto(r, "failed", None, None)

(* The plan is read on the owner's pool, whose one connection nobody keeps. *)
ReadPlan(r) ==
    /\ req[r].pc = "plan"
    /\ Goto(r, "handle", None, req[r].rls)
    /\ UNCHANGED conn

-----------------------------------------------------------------------------
(* The handler: queries on request.db, and queries on app.db, which have   *)
(* to wait for a connection of their own.                                  *)

Query(r, pc) ==
    /\ req[r].left > 0
    /\ req' = [req EXCEPT ![r] = [pc |-> pc, tenant |-> req[r].tenant, local |-> None,
                                  rls |-> req[r].rls, left |-> req[r].left - 1]]

(* Row-level security: the owner sees every tenant, app_user the one bound. *)
Visible(c) == IF conn[c].role = "owner" THEN Tenants ELSE {conn[c].tenant} \ {None}

TenantQuery(r) ==
    /\ req[r].pc = "handle"
    /\ Query(r, "handle")
    /\ UNCHANGED conn

AskPool(r) ==
    /\ req[r].pc = "handle"
    /\ Query(r, "pooled")
    /\ UNCHANGED conn

PoolQuery(r) ==
    /\ req[r].pc = "pooled"
    /\ \E c \in Conns : Free(c)
    /\ Goto(r, "handle", None, req[r].rls)
    /\ UNCHANGED conn

(* The role, the plan or the handler turns the request down, or throws. *)
Throw(r) ==
    /\ req[r].pc \in {"reserve", "plan", "handle"}
    /\ Goto(r, "failed", None, req[r].rls)
    /\ UNCHANGED conn

Answer(r) ==
    /\ req[r].pc = "handle"
    /\ Goto(r, "answered", None, req[r].rls)
    /\ UNCHANGED conn

-----------------------------------------------------------------------------
(* releaseRlsConn, which onError runs before the error is sent and         *)
(* onResponse runs after every reply.                                      *)

Over(r, pc) ==
    IF pc \in {"failed", "reset_failed"}
       THEN Goto(r, "answered", None, None)
       ELSE req' = [req EXCEPT ![r] = IdleRequest]

NoConnection(r) ==
    /\ req[r].pc \in {"failed", "answered"}
    /\ req[r].rls = None
    /\ Over(r, req[r].pc)
    /\ UNCHANGED conn

ResetOf(pc) == IF pc = "failed" THEN "reset_failed" ELSE "reset_answered"

(* Mutant of TakeConnection: request.rlsConn is cleared before it is read. *)
TakeConnectionCleared(r) ==
    /\ req[r].pc \in {"failed", "answered"}
    /\ req[r].rls # None
    /\ Over(r, req[r].pc)
    /\ UNCHANGED conn

(* request.rlsConn and request.db are cleared before the first await. *)
TakeConnection(r) ==
    /\ req[r].pc \in {"failed", "answered"}
    /\ req[r].rls # None
    /\ Goto(r, ResetOf(req[r].pc), req[r].rls, None)
    /\ UNCHANGED conn

(* Mutant of Release: request.rlsConn is still set when onResponse runs. *)
ReleaseTwice(r) ==
    /\ req[r].pc \in {"reset_failed", "reset_answered"}
    /\ LET c == req[r].local IN
          /\ Session(c, None, conn[c].role, None)
          /\ IF req[r].pc = "reset_failed"
                THEN Goto(r, "answered", None, c)
                ELSE req' = [req EXCEPT ![r] = IdleRequest]

(* RESET ALL takes back app.current_tenant and leaves the role, which it   *)
(* does not reset.                                                         *)
Release(r) ==
    /\ req[r].pc \in {"reset_failed", "reset_answered"}
    /\ LET c == req[r].local IN Session(c, None, conn[c].role, None)
    /\ Over(r, req[r].pc)

(* RESET ALL fails; the connection is released all the same. *)
ReleaseUnreset(r) ==
    /\ req[r].pc \in {"reset_failed", "reset_answered"}
    /\ LET c == req[r].local IN Session(c, None, conn[c].role, conn[c].tenant)
    /\ Over(r, req[r].pc)

GoesOn(r) ==
    \/ Reserve(r) \/ BindTenant(r) \/ SetRole(r) \/ BindFails(r) \/ ReadPlan(r)
    \/ TenantQuery(r) \/ AskPool(r) \/ PoolQuery(r) \/ Answer(r)
    \/ NoConnection(r) \/ TakeConnection(r) \/ Release(r) \/ ReleaseUnreset(r)

RequestStep(r) == GoesOn(r) \/ Throw(r)

Next ==
    \/ \E r \in Requests, t \in Tenants : Arrive(r, t)
    \/ \E r \in Requests : RequestStep(r)

Spec == Init /\ [][Next]_vars

(* A query that has its connection ends, and so does a handler; nobody     *)
(* that waits for a connection is turned away, and the pool serves those   *)
(* who wait in the order of their asking, so that none is passed over      *)
(* again and again.                                                        *)
Fairness ==
    \A r \in Requests : WF_vars(GoesOn(r)) /\ SF_vars(Reserve(r) \/ PoolQuery(r))

FairSpec == Spec /\ Fairness

-----------------------------------------------------------------------------
(* Properties. *)

(* Whatever other requests fail, reset and release in the meantime, a      *)
(* handler's request.db is confined to the rows of the request's tenant at *)
(* every moment at which it may send a query.                              *)
QueriesSeeOwnTenant ==
    \A r \in Requests : req[r].pc = "handle" => Visible(req[r].rls) = {req[r].tenant}

(* A connection that is out of the pool is the one its holder is about to  *)
(* bind, serves with, or is about to give back: no error, reset or release *)
(* leaves one behind, and no request holds two.                            *)
InHand(r) ==
    IF req[r].pc \in {"bind", "role", "reset_failed", "reset_answered"}
       THEN {req[r].local}
       ELSE {req[r].rls} \ {None}
NoneStranded ==
    \A c \in Conns :
        /\ ~Free(c) => InHand(conn[c].holder) = {c}
        /\ \A r \in Requests : c \in InHand(r) => conn[c].holder = r

(* Every connection is held by a request that waits for another one.       *)
Starved ==
    \A c \in Conns : conn[c].holder # None /\ req[conn[c].holder].pc = "pooled"

(* However many requests there are, nothing but the starvation of the pool *)
(* keeps one from its end: neither a failed bind, nor an error, nor a      *)
(* failed reset takes away a connection that it waits for.                 *)
RequestsEnd ==
    \A r \in Requests : req[r].pc # "idle" ~> req[r].pc = "idle" \/ Starved

=============================================================================
