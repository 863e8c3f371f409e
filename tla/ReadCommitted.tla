--------------------------- MODULE ReadCommitted ---------------------------
(***************************************************************************)
(* One row of a PostgreSQL table, as the callbacks of withTenant see it.   *)
(* `prisma.$transaction` is called without an isolation level, so every    *)
(* transaction runs READ COMMITTED: a plain read returns the last          *)
(* committed version (or the transaction's own write) and takes no lock; a *)
(* write, or SELECT ... FOR UPDATE, waits for the row's current writer and *)
(* keeps the row until its transaction ends.                               *)
(*                                                                         *)
(* A row is a record: `com' is the committed version, `cur' the version    *)
(* its holder has written and `by' the transaction holding it.  `cur' is   *)
(* meaningful only while `by' is a transaction.                            *)
(***************************************************************************)

CONSTANT NoTx        \* what `by' is while no transaction holds the row

\* Rows over the values V that members of T may hold.
RowOf(V, T) == [com : V, cur : V, by : T \cup {NoTx}]

\* A row at rest, holding v.
Row(v) == [com |-> v, cur |-> v, by |-> NoTx]

\* What a statement of transaction t reads.
Sees(row, t) == IF row.by = t THEN row.cur ELSE row.com

\* A write or a locking read of t need not wait.
Free(row, t) == row.by \in {NoTx, t}

\* The row after t wrote v (or locked it, with v the value it already had).
Put(row, t, v) == [row EXCEPT !.cur = v, !.by = t]

\* The row once t has committed, and once t has rolled back.
Committed(row, t) == IF row.by = t THEN Row(row.cur) ELSE row
RolledBack(row, t) == IF row.by = t THEN Row(row.com) ELSE row

\* The same for every row of a table.
CommitAll(table, t) == [k \in DOMAIN table |-> Committed(table[k], t)]
RollbackAll(table, t) == [k \in DOMAIN table |-> RolledBack(table[k], t)]

\* A connection that dies takes its transaction with it: what the rows hold
\* once every transaction has been rolled back.
Restarted(table) == [k \in DOMAIN table |-> Row(table[k].com)]

\* The transactions of S wait for each other for ever: each waits for a row
\* that another member holds.  Waits(t, u): t is blocked by u.
Deadlocked(S, Waits(_, _)) ==
    /\ S # {}
    /\ \A t \in S : \E u \in S \ {t} : Waits(t, u)
=============================================================================
