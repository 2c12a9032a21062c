---------------------------- MODULE RequestTable ----------------------------
(***************************************************************************)
(* What the request store promises (the comments of src/storage.rs): a     *)
(* table of requests, of which a row is dropped only when it is overdue,   *)
(* or with all others.  A row that is not fulfilled is overdue an hour     *)
(* after its last change; one that is completed, after its time to live.   *)
(***************************************************************************)
EXTENDS Naturals

CONSTANTS
    Requests,    \* request ids
    Hour,        \* 3600 s
    Life,        \* 43200 s: the time to live of a row
    Instants,    \* the times the clock may show after the start
    FirstRows,   \* the rows a table may hold at the start
    Null         \* no row; no time to live

VARIABLES
    now,
    table        \* status, last change and end of life, by request

vars == <<now, table>>

Completed == {"fulfilled", "failed"}
Statuses == {"preparing", "submitted", "locked"} \union Completed

Init ==
    /\ now = 0
    /\ table \in [Requests -> FirstRows \union {Null}]

Overdue(row) ==
    \/ row.st # "fulfilled" /\ row.changed + Hour < now
    \/ row.st \in Completed /\ row.until # Null /\ row.until < now

Enter(r) ==
    /\ table' = [table EXCEPT ![r] = [st |-> "preparing", changed |-> now, until |-> now + Life]]
    /\ UNCHANGED now

Change(r, st) ==
    /\ table[r] # Null
    /\ table' = [table EXCEPT ![r] = [st |-> st, changed |-> now, until |-> @.until]]
    /\ UNCHANGED now

Drop(S) ==
    /\ \A r \in S : table[r] # Null /\ Overdue(table[r])
    /\ table' = [r \in Requests |-> IF r \in S THEN Null ELSE table[r]]
    /\ UNCHANGED now

Clear ==
    /\ table' = [r \in Requests |-> Null]
    /\ UNCHANGED now

Tick(later) ==
    /\ now < later
    /\ now' = later
    /\ UNCHANGED table

Next ==
    \/ \E r \in Requests : Enter(r) \/ \E st \in Statuses : Change(r, st)
    \/ \E S \in SUBSET Requests : Drop(S)
    \/ Clear
    \/ \E later \in Instants : Tick(later)

Spec == Init /\ [][Next]_vars
=============================================================================
