---------------------------- MODULE RequestStore ----------------------------
(***************************************************************************)
(* The SQL of BoundlessStorage (src/storage.rs): which rows its statements *)
(* list, count and delete.                                                 *)
(*                                                                         *)
(* A row tells its status twice: as JSON, which the statements search for  *)
(* the names of statuses (LIKE), and as status_code, which rows from       *)
(* before that column was added leave NULL.  The JSON of a failure holds   *)
(* an error text, which may quote the name of another status.              *)
(*                                                                         *)
(* A purge selects ids and then deletes rows, two statements of one call   *)
(* with no transaction around them: the clock moves, and the connection    *)
(* of another prover (one that was replaced lately) may write in between.  *)
(* A failed statement changes nothing.                                     *)
(***************************************************************************)
EXTENDS Naturals

CONSTANTS
    Requests,      \* request ids
    Connections,   \* one per prover
    Hour,          \* 3600 s
    Life,          \* 43200 s: the time to live of a row
    Instants,      \* the times the clock may show after the start
    Quotes,        \* the statuses that an error text may name
    OldExpiries,   \* the times to live of rows from before status_code
    Null           \* SQL NULL; no row; no call under way

Completed == {"fulfilled", "failed"}
Pending == {"submitted", "locked"}
Statuses == {"preparing"} \union Pending \union Completed

\* st: what parsing the JSON gives; words: the statuses that it names.
Rows == [st : Statuses, words : SUBSET Statuses, code : Statuses \union {Null},
         updated : Nat, expires : Nat \union {Null}]

\* A call between its SELECT, made at a time, and its DELETE.
Calls == [kind : {"hour", "ttl"}, ids : SUBSET Requests, at : Nat]

ASSUME StoreAssumption ==
    /\ Hour \in Nat /\ Life \in Nat
    /\ Instants \subseteq Nat
    /\ Quotes \subseteq Statuses
    /\ OldExpiries \subseteq Nat \union {Null}
ASSUME NullAssumption ==
    /\ Null \notin Nat \union Statuses \union Rows \union Calls
    /\ Null \notin [st : Statuses, changed : Nat, until : Nat \union {Null}]

VARIABLES
    now,           \* the system clock, for Rust and for strftime
    rows,          \* the table boundless_requests
    call           \* what each connection is in the middle of

vars == <<now, rows, call>>

TypeOK ==
    /\ now \in Nat
    /\ rows \in [Requests -> Rows \union {Null}]
    /\ \A r \in Requests : rows[r] # Null => rows[r].updated <= now
    /\ call \in [Connections -> Calls \union {Null}]

\* The words in the JSON of a status; q is what an error text quotes.
WordsOf(st, q) == IF st = "failed" THEN {st} \union q ELSE {st}

\* Rows an older version has left.
OldRows ==
    {[st |-> st, words |-> WordsOf(st, q), code |-> Null, updated |-> 0, expires |-> e] :
        st \in Statuses, q \in SUBSET Quotes, e \in OldExpiries}

Init ==
    /\ now = 0
    /\ rows \in [Requests -> OldRows \union {Null}]
    /\ call = [c \in Connections |-> Null]

-----------------------------------------------------------------------------
Like(row, w) == w \in row.words

\* WHERE of list_active_requests, and of the active count.
ListedActive(row) ==
    IF row.code # Null THEN row.code \notin Completed
    ELSE ~ Like(row, "fulfilled") /\ ~ Like(row, "failed")

\* WHERE of get_pending_requests.
ListedPending(row) ==
    IF row.code # Null THEN row.code \in Pending
    ELSE Like(row, "submitted") \/ Like(row, "locked")

\* WHERE of the completed and the failed count.
CountedAs(row, st) == IF row.code # Null THEN row.code = st ELSE Like(row, st)

Unchanged(row) == row.updated + Hour < now
Outlived(row) == row.expires # Null /\ row.expires < now

\* Fault: told by status_code alone, NULL or not.
FaultyHourDeletes(row) == Unchanged(row) /\ row.code # "fulfilled"

\* delete_expired_requests: its SELECT and its DELETE.
HourSelects(row) ==
    /\ Unchanged(row)
    /\ IF row.code # Null THEN row.code \notin Completed ELSE ~ Like(row, "fulfilled")
HourDeletes(row) == Unchanged(row) /\ ~ Like(row, "fulfilled")

\* Fault: rows without a status_code are overlooked.
FaultyTtlDeletes(row) == Outlived(row) /\ row.code \in Completed

\* delete_expired_ttl_requests: its SELECT and its DELETE.
TtlSelects(row) == Outlived(row) /\ (Like(row, "fulfilled") \/ Like(row, "failed"))
TtlDeletes(row) ==
    /\ Outlived(row)
    /\ IF row.code # Null THEN row.code \in Completed
       ELSE Like(row, "fulfilled") \/ Like(row, "failed")

-----------------------------------------------------------------------------
\* A connection that is not in the middle of a call.
Idle == \E c \in Connections : call[c] = Null

\* Fault: updated_at and ttl_expires_at are bound in the wrong order.
FaultyStoreRequest(r) ==
    /\ Idle
    /\ rows' = [rows EXCEPT ![r] =
          [st |-> "preparing", words |-> WordsOf("preparing", {}), code |-> "preparing",
           updated |-> now + Life, expires |-> now]]
    /\ UNCHANGED <<now, call>>

\* INSERT OR REPLACE.
StoreRequest(r) ==
    /\ Idle
    /\ rows' = [rows EXCEPT ![r] =
          [st |-> "preparing", words |-> WordsOf("preparing", {}), code |-> "preparing",
           updated |-> now, expires |-> now + Life]]
    /\ UNCHANGED <<now, call>>

\* Fault: status_code is set only when the row is stored.
FaultyUpdateStatus(r, st, q) ==
    /\ Idle
    /\ rows[r] # Null
    /\ rows' = [rows EXCEPT ![r].st = st, ![r].words = WordsOf(st, q), ![r].updated = now]
    /\ UNCHANGED <<now, call>>

\* UPDATE; ttl_expires_at stays.
UpdateStatus(r, st, q) ==
    /\ Idle
    /\ rows[r] # Null
    /\ rows' = [rows EXCEPT ![r].st = st, ![r].words = WordsOf(st, q), ![r].code = st,
                            ![r].updated = now]
    /\ UNCHANGED <<now, call>>

DeleteAll ==
    /\ Idle
    /\ rows' = [r \in Requests |-> Null]
    /\ UNCHANGED <<now, call>>

Present == {r \in Requests : rows[r] # Null}

Select(c, kind) ==
    /\ call[c] = Null
    /\ call' = [call EXCEPT ![c] =
          [kind |-> kind, at |-> now,
           ids |-> {r \in Present : IF kind = "hour" THEN HourSelects(rows[r])
                                    ELSE TtlSelects(rows[r])}]]
    /\ UNCHANGED <<now, rows>>

Doomed(kind) == {r \in Present : IF kind = "hour" THEN HourDeletes(rows[r]) ELSE TtlDeletes(rows[r])}

\* The call deletes, and returns the ids it selected.
Delete(c) ==
    /\ call[c] # Null
    /\ rows' = [r \in Requests |-> IF r \in Doomed(call[c].kind) THEN Null ELSE rows[r]]
    /\ call' = [call EXCEPT ![c] = Null]
    /\ UNCHANGED now

Tick(later) ==
    /\ now < later
    /\ now' = later
    /\ UNCHANGED <<rows, call>>

Next ==
    \/ \E r \in Requests :
          \/ StoreRequest(r)
          \/ \E st \in Statuses \ {"preparing", "failed"} : UpdateStatus(r, st, {})
          \/ \E q \in SUBSET Quotes : UpdateStatus(r, "failed", q)
    \/ DeleteAll
    \/ \E c \in Connections : Delete(c) \/ \E kind \in {"hour", "ttl"} : Select(c, kind)
    \/ \E later \in Instants : Tick(later)

Spec == Init /\ [][Next]_vars

-----------------------------------------------------------------------------
\* A row of which the statements cannot know the status: one from before
\* status_code, of a failure whose text names another status.
Ambiguous(row) == row.code = Null /\ row.words # {row.st}

(***************************************************************************)
(* The lists and the counts of GET /requests and GET /stats tell the       *)
(* status that GET /status tells (list_active_requests, get_stats), of     *)
(* every row that is not ambiguous: each is in exactly one of the active,  *)
(* the completed and the failed.                                           *)
(***************************************************************************)
ListsTruthful ==
    \A r \in Present : ~ Ambiguous(rows[r]) =>
        /\ ListedActive(rows[r]) <=> rows[r].st \notin Completed
        /\ ListedPending(rows[r]) <=> rows[r].st \in Pending
        /\ \A st \in Completed : CountedAs(rows[r], st) <=> rows[r].st = st

(***************************************************************************)
(* What a purge returns "for memory cleanup" is gone from the table when   *)
(* it returns, or has been written since the call began                    *)
(* (delete_expired_requests, delete_expired_ttl_requests).                 *)
(***************************************************************************)
ReportedAreGone ==
    [][\A c \in Connections : call[c] # Null /\ call'[c] = Null =>
          \A r \in call[c].ids : rows'[r] = Null \/ rows'[r].updated >= call[c].at]_vars

(***************************************************************************)
(* The store is a RequestTable: above all, no row of a proof goes before   *)
(* its time to live is over, whatever the texts in it say                  *)
(* ("Delete expired non-successful requests").                             *)
(***************************************************************************)
TableRow(row) == [st |-> row.st, changed |-> row.updated, until |-> row.expires]

Table == INSTANCE RequestTable WITH
    table <- [r \in Requests |-> IF rows[r] = Null THEN Null ELSE TableRow(rows[r])],
    FirstRows <- {TableRow(row) : row \in OldRows}

ImplementsTable == Table!Spec
=============================================================================
