---------------------------- MODULE AppendOnlyLog ----------------------------
(***************************************************************************)
(* What the two hash-chained ledgers promise of their tables: while        *)
(* nothing outside the service damages a table it is a log that only grows *)
(* at its end, by one record at a time, and each call adds at most one.    *)
(***************************************************************************)
EXTENDS Sequences, Naturals

CONSTANT Calls  \* the calls that append, one record each

VARIABLES
    log,     \* the calls recorded, oldest first
    damaged  \* TRUE once a row was lost: no order is promised from then on

Recorded == {log[i] : i \in DOMAIN log}

Init == log = <<>> /\ damaged = FALSE

Record(c) ==
    /\ ~damaged
    /\ c \notin Recorded
    /\ log' = Append(log, c)
    /\ UNCHANGED damaged

Damage == damaged' = TRUE

Next == (\E c \in Calls : Record(c)) \/ Damage

Spec == Init /\ [][Next]_<<log, damaged>>

=============================================================================
