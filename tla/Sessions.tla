------------------------------ MODULE Sessions ------------------------------
(***************************************************************************)
(* The sessions of one user (routes/auth.ts): logins behind a counter of   *)
(* attempts, refresh tokens that are rotated within a family, and password *)
(* resets with a single-use link.  Every database or Redis call is a step  *)
(* of its own, none of them is in a transaction, and requests run          *)
(* concurrently.  A family has the identity of its first token.            *)
(***************************************************************************)
EXTENDS KeyStore

CONSTANTS
    Tokens,    \* the refresh tokens that may be issued
    Requests,  \* API requests in flight at a time
    LoginKey,  \* the key of the attempt counter; the other keys are reset links
    Limit,     \* attempts a counter admits
    MaxCount,  \* bound: the counter is not taken further
    None       \* "no token" in an idle request

ResetLinks == Keys \ {LoginKey}

ASSUME KeysAssumption == LoginKey \in Keys /\ Keys \cap Tokens = {}
ASSUME NoneAssumption == None \notin Keys \cup Tokens
ASSUME LimitAssumption == Limit \in Nat \ {0} /\ MaxCount \in Nat

VARIABLES
    state,   \* state[k]: the row of token k: none, live, revoked, or deleted again
    family,  \* family[k]: refresh_tokens.family_id
    req,     \* req[q]: where request q stands, and the token or link it is about
    mailed,  \* the reset links that were issued
    uses,    \* history: how often each link has set the password
    closed,  \* history: the families ended by the detection of a reuse or by a reset
    lost     \* history: the counter's EXPIRE was not carried out

tokenVars == <<state, family>>
linkVars == <<mailed, uses>>
vars == <<kv, state, family, req, mailed, uses, closed, lost>>

States == {"none", "live", "revoked", "deleted"}
Steps == {"idle", "expire", "check", "issue", "sso", "clear",
          "rotate", "reissue", "revoke", "setpw", "logout"}
Idle == [pc |-> "idle", ref |-> None]

TypeOK ==
    /\ StoreTypeOK
    /\ state \in [Tokens -> States]
    /\ family \in [Tokens -> Tokens]
    /\ req \in [Requests -> [pc : Steps, ref : Tokens \cup Keys \cup {None}]]
    /\ mailed \subseteq ResetLinks
    /\ uses \in [ResetLinks -> Nat]
    /\ closed \subseteq Tokens
    /\ lost \in BOOLEAN

Init ==
    /\ StoreInit
    /\ state = [k \in Tokens |-> "none"]
    /\ family = [k \in Tokens |-> k]
    /\ req = [q \in Requests |-> Idle]
    /\ mailed = {}
    /\ uses = [t \in ResetLinks |-> 0]
    /\ closed = {}
    /\ lost = FALSE

Goto(q, pc, ref) == req' = [req EXCEPT ![q] = [pc |-> pc, ref |-> ref]]
Done(q) == req' = [req EXCEPT ![q] = Idle]

(* The tokens not issued, nor about to be. *)
Fresh == {k \in Tokens : state[k] = "none" /\ \A q \in Requests : req[q].ref # k}

-----------------------------------------------------------------------------
(* POST /api/auth/login. *)

(* Mutant of AfterIncr: only a lock is given a deadline. *)
AfterIncrLockOnly(n) == IF n > Limit THEN "expire" ELSE "check"

AfterIncr(n) ==
    IF n = 1 THEN "expire" ELSE IF n > Limit THEN "idle" ELSE "check"

Attempt(q) ==
    /\ req[q].pc = "idle"
    /\ kv[LoginKey].val < MaxCount
    /\ Incr(LoginKey)
    /\ Goto(q, AfterIncr(kv[LoginKey].val + 1), None)
    /\ UNCHANGED <<tokenVars, linkVars, closed, lost>>

(* EXPIRE; the attempt goes on when it fails. *)
SetDeadline(q) ==
    /\ req[q].pc = "expire"
    /\ Expire(LoginKey)
    /\ lost' = FALSE
    /\ Goto(q, "check", None)
    /\ UNCHANGED <<tokenVars, linkVars, closed>>

DeadlineFails(q) ==
    /\ req[q].pc = "expire"
    /\ lost' = TRUE
    /\ Goto(q, "check", None)
    /\ UNCHANGED <<kv, tokenVars, linkVars, closed>>

(* The password is right; a wrong one is the end of the request. *)
Check(q) ==
    /\ req[q].pc = "check"
    /\ \E k \in Fresh : Goto(q, "issue", k)
    /\ UNCHANGED <<kv, tokenVars, linkVars, closed, lost>>

(* SSO, MFA and registration issue a session without this counter. *)
SsoLogin(q) ==
    /\ req[q].pc = "idle"
    /\ \E k \in Fresh : Goto(q, "sso", k)
    /\ UNCHANGED <<kv, tokenVars, linkVars, closed, lost>>

InsertToken(k, f) ==
    /\ state' = [state EXCEPT ![k] = "live"]
    /\ family' = [family EXCEPT ![k] = f]

Issue(q) ==
    /\ req[q].pc \in {"issue", "sso"}
    /\ InsertToken(req[q].ref, req[q].ref)
    /\ IF req[q].pc = "issue" THEN Goto(q, "clear", None) ELSE Done(q)
    /\ UNCHANGED <<kv, linkVars, closed, lost>>

ClearCounter(q) ==
    /\ req[q].pc = "clear"
    /\ Del(LoginKey)
    /\ lost' = FALSE
    /\ Done(q)
    /\ UNCHANGED <<tokenVars, linkVars, closed>>

-----------------------------------------------------------------------------
(* POST /api/auth/refresh. *)

(* A row that is gone is a 401; a revoked one is a reuse. *)
RefreshRead(q) ==
    /\ req[q].pc = "idle"
    /\ \E k \in Tokens :
          \/ state[k] = "live" /\ Goto(q, "rotate", k)
          \/ state[k] = "revoked" /\ Goto(q, "revoke", k)
    /\ UNCHANGED <<kv, tokenVars, linkVars, closed, lost>>

(* UPDATE ... SET is_revoked: nothing to update once the row is deleted. *)
Revoke(K) ==
    state' = [k \in Tokens |->
                IF k \in K /\ state[k] = "live" THEN "revoked" ELSE state[k]]

Rotate(q) ==
    /\ req[q].pc = "rotate"
    /\ Revoke({req[q].ref})
    /\ Goto(q, "reissue", req[q].ref)
    /\ UNCHANGED <<kv, family, linkVars, closed, lost>>

Reissue(q) ==
    /\ req[q].pc = "reissue"
    /\ \E k \in Fresh : InsertToken(k, family[req[q].ref])
    /\ Done(q)
    /\ UNCHANGED <<kv, linkVars, closed, lost>>

(* The reuse of a revoked token ends its family. *)
RevokeFamily(q) ==
    /\ req[q].pc = "revoke"
    /\ Revoke({k \in Tokens : family[k] = family[req[q].ref]})
    /\ closed' = closed \cup {family[req[q].ref]}
    /\ Done(q)
    /\ UNCHANGED <<kv, family, linkVars, lost>>

-----------------------------------------------------------------------------
(* POST /api/auth/forgot-password and /reset-password. *)

Forgot(t) ==
    /\ t \notin mailed
    /\ SetEx(t)
    /\ mailed' = mailed \cup {t}
    /\ UNCHANGED <<tokenVars, req, uses, closed, lost>>

(* Mutant of Consume: the link is looked up here and deleted with the rest. *)
ConsumeLookup(q, t) ==
    /\ req[q].pc = "idle"
    /\ Present(t)
    /\ Goto(q, "setpw", t)
    /\ UNCHANGED <<kv, tokenVars, linkVars, closed, lost>>

(* DEL returns 1 to one caller. *)
Consume(q, t) ==
    /\ req[q].pc = "idle"
    /\ Present(t)
    /\ Del(t)
    /\ Goto(q, "setpw", t)
    /\ UNCHANGED <<tokenVars, linkVars, closed, lost>>

SetPassword(q) ==
    /\ req[q].pc = "setpw"
    /\ uses' = [uses EXCEPT ![req[q].ref] = uses[req[q].ref] + 1]
    /\ Goto(q, "logout", None)
    /\ UNCHANGED <<kv, tokenVars, mailed, closed, lost>>

Known == {family[k] : k \in {j \in Tokens : state[j] # "none"}}

Logout(q) ==
    /\ req[q].pc = "logout"
    /\ state' = [k \in Tokens |-> IF state[k] = "none" THEN "none" ELSE "deleted"]
    /\ closed' = closed \cup Known
    /\ Done(q)
    /\ UNCHANGED <<kv, family, linkVars, lost>>

-----------------------------------------------------------------------------

(* A wrong password, an error, a lost reply, or the death of the instance. *)
End(q) ==
    /\ req[q].pc # "idle"
    /\ lost' = (lost \/ req[q].pc = "expire")
    /\ Done(q)
    /\ UNCHANGED <<kv, tokenVars, linkVars, closed>>

(* Fifteen minutes for the counter, an hour for a link. *)
TimeOut(k) ==
    /\ Lapse(k)
    /\ lost' = (lost /\ k # LoginKey)
    /\ UNCHANGED <<tokenVars, req, linkVars, closed>>

RequestStep(q) ==
    \/ Attempt(q) \/ SetDeadline(q) \/ DeadlineFails(q) \/ Check(q) \/ SsoLogin(q)
    \/ Issue(q) \/ ClearCounter(q)
    \/ RefreshRead(q) \/ Rotate(q) \/ Reissue(q) \/ RevokeFamily(q)
    \/ SetPassword(q) \/ Logout(q) \/ End(q)

Next ==
    \/ \E q \in Requests : RequestStep(q)
    \/ \E q \in Requests, t \in ResetLinks : Consume(q, t)
    \/ \E t \in ResetLinks : Forgot(t)
    \/ \E k \in Keys : TimeOut(k)

Spec == Init /\ [][Next]_vars

-----------------------------------------------------------------------------
(* Properties. *)

(* "Please try again in 15 minutes": whatever attempts, successes and      *)
(* lapses overtake each other between INCR and EXPIRE, a counter without a *)
(* deadline is about to get one, unless an EXPIRE was lost.                *)
CounterHasDeadline ==
    Present(LoginKey) /\ ~kv[LoginKey].expires =>
        lost \/ \E q \in Requests : req[q].pc = "expire"

(* A reset link sets the password at most once, however many requests      *)
(* present it at the same time.                                            *)
ResetIsSingleUse == \A t \in ResetLinks : uses[t] <= 1

(* "Refresh token reuse detected -- all sessions revoked": a family that    *)
(* was ended, by the detection of a reuse or by a password reset, has no   *)
(* live token ever after, whatever refresh was under way at the time.      *)
ClosedStaysClosed == \A k \in Tokens : state[k] = "live" => family[k] \notin closed

=============================================================================
