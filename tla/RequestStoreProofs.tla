-------------------------- MODULE RequestStoreProofs --------------------------
(***************************************************************************)
(* Proofs about RequestStore, for every set of requests and connections,   *)
(* every error text and every choice of the durations.                     *)
(***************************************************************************)
EXTENDS RequestStore, TLAPS

\* A row names its own status, and no other unless it is a failure; the
\* status_code, where there is one, is the status.
Consistent(row) ==
    /\ row.st \in row.words
    /\ row.st # "failed" => row.words = {row.st}
    /\ row.code \in {row.st, Null}

Inv == TypeOK /\ \A r \in Requests : rows[r] # Null => Consistent(rows[r])

-----------------------------------------------------------------------------
\* The JSON of a status names that status (ProofRequestStatus).
LEMMA WordsTyped ==
    ASSUME NEW st \in Statuses, NEW q \in SUBSET Quotes
    PROVE  /\ WordsOf(st, q) \in SUBSET Statuses
           /\ st \in WordsOf(st, q)
           /\ st # "failed" => WordsOf(st, q) = {st}
  BY StoreAssumption DEF WordsOf

\* A table of an older version is consistent (BoundlessStorage::initialize).
LEMMA InitInv == Init => Inv
  <1> SUFFICES ASSUME Init PROVE Inv
    OBVIOUS
  <1>1. ASSUME NEW row \in OldRows PROVE row \in Rows /\ row.updated = 0 /\ Consistent(row)
    <2>1. PICK st \in Statuses, q \in SUBSET Quotes, e \in OldExpiries :
             row = [st |-> st, words |-> WordsOf(st, q), code |-> Null, updated |-> 0, expires |-> e]
      BY DEF OldRows
    <2>2. WordsOf(st, q) \in SUBSET Statuses
      BY WordsTyped
    <2>3. row \in Rows /\ row.updated = 0
      BY <2>1, <2>2, StoreAssumption DEF Rows
    <2>4. Consistent(row)
      BY <2>1, WordsTyped DEF Consistent
    <2> QED BY <2>3, <2>4
  <1>2. TypeOK
    BY <1>1 DEF Init, TypeOK
  <1> QED BY <1>1, <1>2 DEF Init, Inv

\* A row that is written is well formed and consistent (store_request).
LEMMA StoreInv ==
    ASSUME Inv, NEW r \in Requests, StoreRequest(r)
    PROVE  Inv'
  <1> DEFINE row == [st |-> "preparing", words |-> WordsOf("preparing", {}), code |-> "preparing",
                     updated |-> now, expires |-> now + Life]
  <1>1. "preparing" \in Statuses /\ {} \in SUBSET Quotes /\ now \in Nat
    BY DEF Statuses, Inv, TypeOK
  <1>2. row \in Rows /\ row.updated = now /\ Consistent(row)
    BY <1>1, WordsTyped, StoreAssumption DEF Rows, Consistent
  <1>3. rows' = [rows EXCEPT ![r] = row] /\ now' = now /\ call' = call
    BY DEF StoreRequest
  <1> HIDE DEF row
  <1> QED BY <1>1, <1>2, <1>3 DEF Inv, TypeOK

\* So is one whose status changes (update_status).
LEMMA UpdateInv ==
    ASSUME Inv, NEW r \in Requests, NEW st \in Statuses, NEW q \in SUBSET Quotes,
           UpdateStatus(r, st, q)
    PROVE  Inv'
  <1> DEFINE row == [rows[r] EXCEPT !.st = st, !.words = WordsOf(st, q), !.code = st, !.updated = now]
  <1>1. rows[r] \in Rows /\ now \in Nat
    BY DEF UpdateStatus, Inv, TypeOK
  <1>2. row \in Rows /\ row.updated = now /\ Consistent(row)
    BY <1>1, WordsTyped DEF Rows, Consistent
  <1>3. rows' = [rows EXCEPT ![r] = row] /\ now' = now /\ call' = call
    BY DEF UpdateStatus
  <1> HIDE DEF row
  <1> QED BY <1>1, <1>2, <1>3 DEF Inv, TypeOK

\* Every step keeps the table well formed and consistent (BoundlessStorage).
LEMMA NextInv ==
    ASSUME Inv, [Next]_vars
    PROVE  Inv'
  <1>1. ASSUME NEW r \in Requests, StoreRequest(r) PROVE Inv'
    BY <1>1, StoreInv
  <1>2. ASSUME NEW r \in Requests, NEW st \in Statuses \ {"preparing", "failed"}, UpdateStatus(r, st, {})
        PROVE  Inv'
    BY <1>2, UpdateInv
  <1>3. ASSUME NEW r \in Requests, NEW q \in SUBSET Quotes, UpdateStatus(r, "failed", q)
        PROVE  Inv'
    <2>1. "failed" \in Statuses
      BY DEF Statuses, Completed
    <2> QED BY <1>3, <2>1, UpdateInv
  <1>4. CASE DeleteAll
    BY <1>4 DEF DeleteAll, Inv, TypeOK
  <1>5. ASSUME NEW c \in Connections, Delete(c) PROVE Inv'
    BY <1>5 DEF Delete, Inv, TypeOK
  <1>6. ASSUME NEW c \in Connections, NEW kind \in {"hour", "ttl"}, Select(c, kind) PROVE Inv'
    <2> DEFINE ids == {r \in Present : IF kind = "hour" THEN HourSelects(rows[r]) ELSE TtlSelects(rows[r])}
               new == [kind |-> kind, at |-> now, ids |-> ids]
    <2>1. new \in Calls
      BY DEF Calls, Present, Inv, TypeOK
    <2>2. call' = [call EXCEPT ![c] = new] /\ rows' = rows /\ now' = now
      BY <1>6 DEF Select
    <2> HIDE DEF new
    <2> QED BY <2>1, <2>2 DEF Inv, TypeOK
  <1>7. ASSUME NEW later \in Instants, Tick(later) PROVE Inv'
    <2>1. later \in Nat /\ now' = later /\ now < later /\ rows' = rows /\ call' = call
      BY <1>7, StoreAssumption DEF Tick
    <2>2. \A r \in Requests : rows[r] # Null => rows[r].updated \in Nat
      BY DEF Inv, TypeOK, Rows
    <2> QED BY <2>1, <2>2 DEF Inv, TypeOK
  <1>8. CASE UNCHANGED vars
    BY <1>8 DEF vars, Inv, TypeOK
  <1> QED BY <1>1, <1>2, <1>3, <1>4, <1>5, <1>6, <1>7, <1>8 DEF Next

\* The table is well formed.
THEOREM StoreTypeCorrect == Spec => []TypeOK
  <1>1. Inv => TypeOK
    BY DEF Inv
  <1> QED BY <1>1, InitInv, NextInv, PTL DEF Spec

\* Lists and counts tell the status of every row that is not ambiguous
\* (list_active_requests, get_pending_requests, get_stats).
THEOREM ListsAreTruthful == Spec => []ListsTruthful
  <1>1. Inv => ListsTruthful
    <2> SUFFICES ASSUME Inv, NEW r \in Present, ~ Ambiguous(rows[r])
                 PROVE  /\ ListedActive(rows[r]) <=> rows[r].st \notin Completed
                        /\ ListedPending(rows[r]) <=> rows[r].st \in Pending
                        /\ \A st \in Completed : CountedAs(rows[r], st) <=> rows[r].st = st
      BY DEF ListsTruthful
    <2>1. rows[r] # Null /\ Consistent(rows[r]) /\ rows[r].st \in Statuses
      BY DEF Inv, TypeOK, Present, Rows
    <2>2. CASE rows[r].code # Null
      BY <2>1, <2>2 DEF Consistent, ListedActive, ListedPending, CountedAs
    <2>3. CASE rows[r].code = Null
      <3>1. rows[r].words = {rows[r].st}
        BY <2>3 DEF Ambiguous
      <3> QED BY <2>1, <2>3, <3>1 DEF ListedActive, ListedPending, CountedAs, Like, Completed, Pending, Statuses
    <2> QED BY <2>2, <2>3
  <1> QED BY <1>1, InitInv, NextInv, PTL DEF Spec

-----------------------------------------------------------------------------
(* The store implements RequestTable.                                      *)

\* What a purge deletes is overdue (delete_expired_requests,
\* delete_expired_ttl_requests).
LEMMA DoomedOverdue ==
    ASSUME Inv, NEW r \in Requests, rows[r] # Null,
           HourDeletes(rows[r]) \/ TtlDeletes(rows[r])
    PROVE  Table!Overdue(TableRow(rows[r]))
  <1>1. Consistent(rows[r]) /\ rows[r].st \in Statuses
    BY DEF Inv, TypeOK, Rows
  <1>2. CASE HourDeletes(rows[r])
    BY <1>1, <1>2 DEF HourDeletes, Unchanged, Like, Consistent, Table!Overdue, TableRow
  <1>3. CASE TtlDeletes(rows[r])
    <2>1. rows[r].st \in Completed
      <3>1. CASE rows[r].code # Null
        BY <1>1, <1>3, <3>1 DEF TtlDeletes, Consistent
      <3>2. CASE rows[r].code = Null
        BY <1>1, <1>3, <3>2 DEF TtlDeletes, Consistent, Like, Completed
      <3> QED BY <3>1, <3>2
    <2> QED BY <1>3, <2>1 DEF TtlDeletes, Outlived, Table!Overdue, TableRow, Table!Completed, Completed
  <1> QED BY <1>2, <1>3

\* Every step of the store is a step of the table, or none of it
\* (BoundlessStorage).
LEMMA StepSimulates ==
    ASSUME Inv, [Next]_vars
    PROVE  [Table!Next]_(Table!vars)
  <1> DEFINE Tab == [r \in Requests |-> IF rows[r] = Null THEN Null ELSE TableRow(rows[r])]
  <1>0. ASSUME NEW row \in Rows PROVE row # Null /\ TableRow(row) # Null
    <2>1. TableRow(row) \in [st : Statuses, changed : Nat, until : Nat \union {Null}]
      BY DEF TableRow, Rows
    <2> QED BY <2>1, NullAssumption
  <1>1. ASSUME NEW r \in Requests, StoreRequest(r) PROVE Table!Enter(r)
    <2> DEFINE row == [st |-> "preparing", words |-> WordsOf("preparing", {}), code |-> "preparing",
                       updated |-> now, expires |-> now + Life]
    <2>1. row # Null /\ TableRow(row) = [st |-> "preparing", changed |-> now, until |-> now + Life]
      <3>1. "preparing" \in Statuses /\ {} \in SUBSET Quotes /\ now \in Nat
        BY DEF Statuses, Inv, TypeOK
      <3>2. row \in Rows
        BY <3>1, WordsTyped, StoreAssumption DEF Rows
      <3> QED BY <1>0, <3>2 DEF TableRow
    <2>2. rows' = [rows EXCEPT ![r] = row] /\ now' = now
      BY <1>1 DEF StoreRequest
    <2> HIDE DEF row
    <2>3. Tab' = [Tab EXCEPT ![r] = TableRow(row)]
      BY <2>1, <2>2 DEF Inv, TypeOK
    <2> QED BY <2>1, <2>2, <2>3 DEF Table!Enter
  <1>2. ASSUME NEW r \in Requests, NEW st \in Statuses, NEW q \in SUBSET Quotes, UpdateStatus(r, st, q)
        PROVE  Table!Change(r, st)
    <2> DEFINE row == [rows[r] EXCEPT !.st = st, !.words = WordsOf(st, q), !.code = st, !.updated = now]
    <2>1. rows[r] \in Rows /\ rows[r] # Null /\ now \in Nat
      BY <1>2 DEF UpdateStatus, Inv, TypeOK
    <2>2. row \in Rows
      BY <2>1, WordsTyped DEF Rows
    <2>3. rows' = [rows EXCEPT ![r] = row] /\ now' = now
      BY <1>2 DEF UpdateStatus
    <2>4. TableRow(row) = [st |-> st, changed |-> now, until |-> TableRow(rows[r]).until]
      <3>1. row.st = st /\ row.updated = now /\ row.expires = rows[r].expires
        BY <2>1 DEF Rows
      <3> HIDE DEF row
      <3> QED BY <3>1 DEF TableRow
    <2>5. Tab[r] = TableRow(rows[r]) /\ Tab[r] # Null
      BY <1>0, <2>1
    <2> HIDE DEF row
    <2>6. Tab' = [Tab EXCEPT ![r] = TableRow(row)]
      BY <1>0, <2>2, <2>3 DEF Inv, TypeOK
    <2>7. Tab' = [Tab EXCEPT ![r] = [st |-> st, changed |-> now, until |-> @.until]]
      BY <2>4, <2>5, <2>6
    <2> QED BY <2>3, <2>5, <2>7 DEF Table!Change
  <1>3. ASSUME DeleteAll PROVE Table!Clear
    BY <1>3 DEF DeleteAll, Table!Clear
  <1>4. ASSUME NEW c \in Connections, Delete(c) PROVE \E S \in SUBSET Requests : Table!Drop(S)
    <2>0. Doomed(call[c].kind) \in SUBSET Requests
      BY DEF Doomed, Present
    <2>1. PICK S \in SUBSET Requests : S = Doomed(call[c].kind)
      BY <2>0
    <2>2. now' = now /\ rows' = [r \in Requests |-> IF r \in S THEN Null ELSE rows[r]]
      BY <1>4, <2>1 DEF Delete
    <2>3. ASSUME NEW r \in S PROVE Tab[r] # Null /\ Table!Overdue(Tab[r])
      <3>1. r \in Requests /\ rows[r] # Null /\ rows[r] \in Rows
        BY <2>1 DEF Doomed, Present, Inv, TypeOK
      <3>2. HourDeletes(rows[r]) \/ TtlDeletes(rows[r])
        BY <2>1 DEF Doomed
      <3>3. Table!Overdue(TableRow(rows[r]))
        BY <3>1, <3>2, DoomedOverdue
      <3>4. Tab[r] = TableRow(rows[r])
        BY <3>1
      <3> QED BY <1>0, <3>1, <3>3, <3>4
    <2>4. Tab' = [r \in Requests |-> IF r \in S THEN Null ELSE Tab[r]]
      BY <2>2
    <2>5. Table!Drop(S)
      BY <2>2, <2>3, <2>4 DEF Table!Drop
    <2> QED BY <2>5
  <1>5. ASSUME NEW c \in Connections, NEW kind \in {"hour", "ttl"}, Select(c, kind)
        PROVE  UNCHANGED Table!vars
    BY <1>5 DEF Select, Table!vars
  <1>6. ASSUME NEW later \in Instants, Tick(later) PROVE Table!Tick(later)
    BY <1>6 DEF Tick, Table!Tick
  <1>7. ASSUME UNCHANGED vars PROVE UNCHANGED Table!vars
    BY <1>7 DEF vars, Table!vars
  <1>8. ASSUME NEW r \in Requests, NEW q \in SUBSET Quotes, UpdateStatus(r, "failed", q)
        PROVE  \E st \in Table!Statuses : Table!Change(r, st)
    <2>1. "failed" \in Statuses /\ "failed" \in Table!Statuses
      BY DEF Statuses, Completed, Table!Statuses, Table!Completed
    <2> QED BY <1>2, <1>8, <2>1
  <1>9. ASSUME NEW r \in Requests, NEW st \in Statuses \ {"preparing", "failed"}, UpdateStatus(r, st, {})
        PROVE  \E s \in Table!Statuses : Table!Change(r, s)
    <2>1. st \in Table!Statuses
      BY DEF Statuses, Pending, Completed, Table!Statuses, Table!Completed
    <2> QED BY <1>2, <1>9, <2>1
  <1> QED BY <1>1, <1>3, <1>4, <1>5, <1>6, <1>7, <1>8, <1>9 DEF Next, Table!Next

\* The store implements the table it promises to be: every row that goes was
\* overdue, or went with all others.
THEOREM StoreImplementsTable == Spec => ImplementsTable
  <1>1. Init => Table!Init
    <2> SUFFICES ASSUME Init PROVE Table!Init
      OBVIOUS
    <2>1. ASSUME NEW r \in Requests
          PROVE  (IF rows[r] = Null THEN Null ELSE TableRow(rows[r]))
                    \in {TableRow(row) : row \in OldRows} \union {Null}
      BY DEF Init
    <2> QED BY <2>1 DEF Init, Table!Init
  <1> QED BY <1>1, InitInv, NextInv, StepSimulates, PTL DEF Spec, ImplementsTable, Table!Spec

-----------------------------------------------------------------------------
(* What a purge reports is gone.  Between its two statements the clock     *)
(* moves and other connections write, so the invariant says of each row it *)
(* has selected that it is gone, written since, or still to be deleted.    *)

Deletes(kind, row) == IF kind = "hour" THEN HourDeletes(row) ELSE TtlDeletes(row)

ReportInv ==
    \A c \in Connections : call[c] # Null =>
        /\ call[c].at <= now
        /\ \A r \in call[c].ids :
              \/ rows[r] = Null
              \/ rows[r].updated >= call[c].at
              \/ Deletes(call[c].kind, rows[r])

\* The DELETE of a purge covers what its SELECT has found
\* (delete_expired_requests, delete_expired_ttl_requests).
LEMMA SelectedDeleted ==
    ASSUME NEW row \in Rows, Consistent(row)
    PROVE  /\ HourSelects(row) => HourDeletes(row)
           /\ TtlSelects(row) => TtlDeletes(row)
  <1>1. CASE row.code = Null
    BY <1>1 DEF HourSelects, HourDeletes, TtlSelects, TtlDeletes
  <1>2. CASE row.code # Null
    <2>1. row.code = row.st /\ row.st \in row.words /\ (row.st # "failed" => row.words = {row.st})
      BY <1>2 DEF Consistent
    <2>2. TtlSelects(row) => TtlDeletes(row)
      BY <1>2, <2>1 DEF TtlSelects, TtlDeletes, Like, Completed
    <2>3. HourSelects(row) => HourDeletes(row)
      BY <1>2, <2>1 DEF HourSelects, HourDeletes, Like, Completed
    <2> QED BY <2>2, <2>3
  <1> QED BY <1>1, <1>2

\* What is to be deleted stays so as time passes.
LEMMA DeletesLater ==
    ASSUME Inv, NEW row \in Rows, NEW kind, Deletes(kind, row), now' \in Nat, now <= now'
    PROVE  Deletes(kind, row)'
  <1>1. Unchanged(row) => Unchanged(row)'
    BY StoreAssumption DEF Unchanged, Rows, Inv, TypeOK
  <1>2. Outlived(row) => Outlived(row)'
    BY DEF Outlived, Rows, Inv, TypeOK
  <1> QED BY <1>1, <1>2 DEF Deletes, HourDeletes, TtlDeletes, Like

\* Every step keeps what is selected gone, written since, or to be deleted.
LEMMA NextReport ==
    ASSUME Inv, ReportInv, [Next]_vars
    PROVE  ReportInv'
  <1>0. Inv'
    BY NextInv
  <1>1. /\ now \in Nat
        /\ rows \in [Requests -> Rows \union {Null}]
        /\ call \in [Connections -> Calls \union {Null}]
        /\ \A c \in Connections : call[c] # Null => call[c].ids \subseteq Requests /\ call[c].at \in Nat
    BY DEF Inv, TypeOK, Calls
  <1>2. ASSUME NEW r \in Requests, NEW row \in Rows, row.updated = now,
               rows' = [rows EXCEPT ![r] = row], UNCHANGED <<now, call>>
        PROVE  ReportInv'
    BY <1>1, <1>2 DEF ReportInv, Deletes, HourDeletes, TtlDeletes, Unchanged, Outlived
  <1>3. ASSUME NEW r \in Requests, StoreRequest(r) PROVE ReportInv'
    <2> DEFINE row == [st |-> "preparing", words |-> WordsOf("preparing", {}), code |-> "preparing",
                       updated |-> now, expires |-> now + Life]
    <2>1. "preparing" \in Statuses /\ {} \in SUBSET Quotes
      BY DEF Statuses
    <2>2. row \in Rows /\ row.updated = now
      BY <1>1, <2>1, WordsTyped, StoreAssumption DEF Rows
    <2>3. rows' = [rows EXCEPT ![r] = row] /\ UNCHANGED <<now, call>>
      BY <1>3 DEF StoreRequest
    <2> HIDE DEF row
    <2> QED BY <1>2, <2>2, <2>3
  <1>4. ASSUME NEW r \in Requests, NEW st \in Statuses, NEW q \in SUBSET Quotes, UpdateStatus(r, st, q)
        PROVE  ReportInv'
    <2> DEFINE row == [rows[r] EXCEPT !.st = st, !.words = WordsOf(st, q), !.code = st, !.updated = now]
    <2>1. rows[r] \in Rows
      BY <1>1, <1>4 DEF UpdateStatus
    <2>2. row \in Rows /\ row.updated = now
      BY <1>1, <2>1, WordsTyped DEF Rows
    <2>3. rows' = [rows EXCEPT ![r] = row] /\ UNCHANGED <<now, call>>
      BY <1>4 DEF UpdateStatus
    <2> HIDE DEF row
    <2> QED BY <1>2, <2>2, <2>3
  <1>5. ASSUME NEW S, rows' = [r \in Requests |-> IF r \in S THEN Null ELSE rows[r]],
               UNCHANGED now, NEW c \in Connections, call'[c] \in {call[c], Null},
               \A d \in Connections \ {c} : call'[d] = call[d]
        PROVE  ReportInv'
    BY <1>1, <1>5 DEF ReportInv, Deletes, HourDeletes, TtlDeletes, Unchanged, Outlived
  <1>6. CASE DeleteAll
    <2>1. UNCHANGED <<now, call>> /\ \A r \in Requests : rows'[r] = Null
      BY <1>6 DEF DeleteAll
    <2> QED BY <1>1, <2>1 DEF ReportInv
  <1>7. ASSUME NEW c \in Connections, Delete(c) PROVE ReportInv'
    <2>1. call'[c] = Null /\ \A d \in Connections \ {c} : call'[d] = call[d]
      BY <1>1, <1>7 DEF Delete
    <2> QED BY <1>5, <1>7, <2>1 DEF Delete
  <1>8. ASSUME NEW c \in Connections, NEW kind \in {"hour", "ttl"}, Select(c, kind) PROVE ReportInv'
    <2> DEFINE ids == {r \in Present : IF kind = "hour" THEN HourSelects(rows[r]) ELSE TtlSelects(rows[r])}
               new == [kind |-> kind, at |-> now, ids |-> ids]
    <2>1. \A r \in ids : Deletes(kind, rows[r])
      <3> SUFFICES ASSUME NEW r \in ids PROVE Deletes(kind, rows[r])
        OBVIOUS
      <3>1. rows[r] \in Rows /\ Consistent(rows[r])
        BY <1>1 DEF Present, Inv
      <3> QED BY <3>1, SelectedDeleted DEF Deletes
    <2>2. call' = [call EXCEPT ![c] = new] /\ UNCHANGED <<now, rows>>
      BY <1>8 DEF Select
    <2>3. new.at = now /\ new.ids = ids /\ new.kind = kind
      OBVIOUS
    <2> HIDE DEF new, ids
    <2>4. \A d \in Connections : call'[d] = IF d = c THEN new ELSE call[d]
      BY <1>1, <2>2
    <2> QED BY <1>1, <2>1, <2>2, <2>3, <2>4
        DEF ReportInv, Deletes, HourDeletes, TtlDeletes, Unchanged, Outlived
  <1>9. ASSUME NEW later \in Instants, Tick(later) PROVE ReportInv'
    <2>1. now' \in Nat /\ now <= now' /\ UNCHANGED <<rows, call>>
      BY <1>1, <1>9, StoreAssumption DEF Tick
    <2>2. \A row \in Rows, kind \in {"hour", "ttl"} : Deletes(kind, row) => Deletes(kind, row)'
      BY <2>1, DeletesLater
    <2> SUFFICES ASSUME NEW c \in Connections, call[c] # Null, NEW r \in call[c].ids,
                        rows[r] # Null, rows[r].updated < call[c].at
                 PROVE  Deletes(call[c].kind, rows[r])'
      BY <1>1, <2>1 DEF ReportInv, Inv, TypeOK, Rows
    <2>3. rows[r] \in Rows /\ call[c].kind \in {"hour", "ttl"} /\ Deletes(call[c].kind, rows[r])
      BY <1>1 DEF ReportInv, Calls, Rows
    <2>4. PICK row \in Rows, kind \in {"hour", "ttl"} : row = rows[r] /\ kind = call[c].kind
      BY <2>3
    <2> QED BY <2>1, <2>2, <2>3, <2>4
  <1>10. CASE UNCHANGED vars
    BY <1>10 DEF vars, ReportInv, Deletes, HourDeletes, TtlDeletes, Unchanged, Outlived
  <1>11. "failed" \in Statuses /\ {} \in SUBSET Quotes
    BY DEF Statuses, Completed
  <1> QED BY <1>3, <1>4, <1>6, <1>7, <1>8, <1>9, <1>10, <1>11 DEF Next

\* Every id that a purge returns for the clean-up of the map has no row when
\* it returns, or one written since the purge began.
THEOREM ReportedIsGone == Spec => ReportedAreGone
  <1>1. Init => ReportInv
    BY DEF Init, ReportInv
  <1>2. ASSUME Inv, ReportInv, [Next]_vars
        PROVE  [\A c \in Connections : call[c] # Null /\ call'[c] = Null =>
                   \A r \in call[c].ids : rows'[r] = Null \/ rows'[r].updated >= call[c].at]_vars
    <2> SUFFICES ASSUME Next, NEW c \in Connections, call[c] # Null, call'[c] = Null,
                        NEW r \in call[c].ids
                 PROVE  rows'[r] = Null \/ rows'[r].updated >= call[c].at
      BY <1>2
    <2>1. call[c] \in Calls /\ r \in Requests
      BY <1>2 DEF Inv, TypeOK, Calls
    <2>2. Delete(c)
      <3>1. call' # call
        OBVIOUS
      <3>2. ASSUME NEW d \in Connections, NEW kind \in {"hour", "ttl"}, Select(d, kind) PROVE FALSE
        <4> DEFINE new == [kind |-> kind, at |-> now,
                           ids |-> {x \in Present : IF kind = "hour" THEN HourSelects(rows[x])
                                                    ELSE TtlSelects(rows[x])}]
        <4>1. call' = [call EXCEPT ![d] = new] /\ call[d] = Null
          BY <3>2 DEF Select
        <4>2. new \in Calls
          BY <1>2 DEF Calls, Present, Inv, TypeOK
        <4> HIDE DEF new
        <4> QED BY <1>2, <4>1, <4>2, NullAssumption DEF Inv, TypeOK
      <3>3. ASSUME NEW d \in Connections, Delete(d) PROVE d = c
        BY <1>2, <3>3 DEF Delete, Inv, TypeOK
      <3> QED BY <3>1, <3>2, <3>3 DEF Next, StoreRequest, UpdateStatus, DeleteAll, Tick
    <2>3. \/ rows[r] = Null \/ rows[r].updated >= call[c].at \/ Deletes(call[c].kind, rows[r])
      BY <1>2, <2>1 DEF ReportInv
    <2>4. rows[r] # Null /\ Deletes(call[c].kind, rows[r]) => r \in Doomed(call[c].kind)
      BY <2>1 DEF Doomed, Present, Deletes
    <2>5. rows'[r] = IF r \in Doomed(call[c].kind) THEN Null ELSE rows[r]
      BY <2>1, <2>2 DEF Delete
    <2> QED BY <2>3, <2>4, <2>5
  <1> QED BY <1>1, <1>2, InitInv, NextInv, NextReport, PTL DEF Spec, ReportedAreGone
=============================================================================
