---------------------------- MODULE ScanContract ----------------------------
(***************************************************************************)
(* What the scan subsystem promises of a scan row, whatever requests and   *)
(* workers do: the row is accepted before its job exists; while the job is *)
(* live a worker moves the status; a job is acknowledged only over a       *)
(* terminal status; and once the job is settled no worker touches the row  *)
(* again - only a user's cancel or an administrator's PATCH does.  All of  *)
(* this until the job's visibility lapses under a worker: from then on two *)
(* workers may move the status, even after one of them has acknowledged.   *)
(***************************************************************************)
CONSTANT Scans

VARIABLES
    status,   \* status[s]: scans.status, "none" before the INSERT
    job,      \* job[s]: the scan's job: "unsent", "live", "acked" or "dead"
    patched,  \* the scans an administrator's PATCH has overwritten
    overrun   \* the scans whose job turned visible again under a worker

contractVars == <<status, job, patched, overrun>>

Terminal == {"completed", "completed_partial", "failed", "cancelled"}
Statuses == {"queued", "running"} \cup Terminal

Accept(s) ==
    /\ status[s] = "none"
    /\ status' = [status EXCEPT ![s] = "queued"]
    /\ UNCHANGED <<job, patched, overrun>>

Submit(s) ==
    /\ job[s] = "unsent"
    /\ status[s] # "none"
    /\ job' = [job EXCEPT ![s] = "live"]
    /\ UNCHANGED <<status, patched, overrun>>

Work(s) ==
    /\ job[s] = "live" \/ s \in overrun
    /\ \E new \in Statuses \ {"queued", "cancelled"} :
          status' = [status EXCEPT ![s] = new]
    /\ UNCHANGED <<job, patched, overrun>>

Acknowledge(s) ==
    /\ job[s] = "live"
    /\ status[s] \in Terminal \/ s \in patched \/ s \in overrun
    /\ job' = [job EXCEPT ![s] = "acked"]
    /\ UNCHANGED <<status, patched, overrun>>

(* The job is given up: its row keeps whatever status the last run left. *)
GiveUp(s) ==
    /\ job[s] = "live"
    /\ job' = [job EXCEPT ![s] = "dead"]
    /\ UNCHANGED <<status, patched, overrun>>

Overrun(s) ==
    /\ job[s] = "live"
    /\ overrun' = overrun \cup {s}
    /\ UNCHANGED <<status, job, patched>>

CancelByUser(s) ==
    /\ status[s] # "none"
    /\ status' = [status EXCEPT ![s] = "cancelled"]
    /\ UNCHANGED <<job, patched, overrun>>

PatchByAdmin(s) ==
    /\ status[s] # "none"
    /\ \E new \in Statuses : status' = [status EXCEPT ![s] = new]
    /\ patched' = patched \cup {s}
    /\ UNCHANGED <<job, overrun>>

Init ==
    /\ status = [s \in Scans |-> "none"]
    /\ job = [s \in Scans |-> "unsent"]
    /\ patched = {}
    /\ overrun = {}

Next ==
    \E s \in Scans :
        \/ Accept(s) \/ Submit(s)
        \/ Work(s) \/ Acknowledge(s) \/ GiveUp(s) \/ Overrun(s)
        \/ CancelByUser(s) \/ PatchByAdmin(s)

Spec == Init /\ [][Next]_contractVars

=============================================================================
