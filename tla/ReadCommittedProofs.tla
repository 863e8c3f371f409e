------------------------ MODULE ReadCommittedProofs ------------------------
(* What the row operators of ReadCommitted preserve, for any values.       *)
EXTENDS ReadCommitted, TLAPS

\* Every operator on a row stays within the row's type.
LEMMA RowTypes ==
    ASSUME NEW V, NEW T, NEW row \in RowOf(V, T), NEW t \in T, NEW v \in V
    PROVE  /\ Sees(row, t) \in V
           /\ Row(v) \in RowOf(V, T)
           /\ Put(row, t, v) \in RowOf(V, T)
           /\ Committed(row, t) \in RowOf(V, T)
           /\ RolledBack(row, t) \in RowOf(V, T)
BY DEF RowOf, Sees, Row, Put, Committed, RolledBack

\* A table after a write of t to one of its rows.
LEMMA PutTypes ==
    ASSUME NEW K, NEW V, NEW T, NEW table \in [K -> RowOf(V, T)],
           NEW k \in K, NEW t \in T
    PROVE  /\ Sees(table[k], t) \in V
           /\ \A v \in V : [table EXCEPT ![k] = Put(@, t, v)] \in [K -> RowOf(V, T)]
<1>1. table[k] \in RowOf(V, T)
  OBVIOUS
<1>2. ASSUME NEW v \in V
      PROVE  [table EXCEPT ![k] = Put(@, t, v)] \in [K -> RowOf(V, T)]
  <2>1. Put(table[k], t, v) \in RowOf(V, T)
    BY <1>1, RowTypes
  <2>2. QED
    BY <2>1
<1>3. Sees(table[k], t) \in V
  BY <1>1 DEF Sees, RowOf
<1>4. QED
  BY <1>2, <1>3

\* So does ending a transaction in a whole table.
LEMMA TableTypes ==
    ASSUME NEW K, NEW V, NEW T, NEW table \in [K -> RowOf(V, T)], NEW t \in T
    PROVE  /\ CommitAll(table, t) \in [K -> RowOf(V, T)]
           /\ RollbackAll(table, t) \in [K -> RowOf(V, T)]
BY DEF RowOf, CommitAll, RollbackAll, Committed, RolledBack, Row

\* And ending all of them.
LEMMA RestartedTypes ==
    ASSUME NEW K, NEW V, NEW T, NEW table \in [K -> RowOf(V, T)]
    PROVE  Restarted(table) \in [K -> RowOf(V, T)]
BY DEF RowOf, Restarted, Row

\* Both versions of a row have property P.  A predicate on rows is kept by
\* ending a transaction when it holds of both versions before.
LEMMA EndedVersions ==
    ASSUME NEW row, NEW t
    PROVE  /\ Committed(row, t).com \in {row.com, row.cur}
           /\ Committed(row, t).cur \in {row.com, row.cur}
           /\ RolledBack(row, t).com = row.com
           /\ RolledBack(row, t).cur \in {row.com, row.cur}
BY DEF Committed, RolledBack, Row

\* What a write of v by t to row k of a table does, field by field.
Wrote(old, new, K, k, v, t) ==
    /\ new[k].com = old[k].com /\ new[k].cur = v /\ new[k].by = t
    /\ \A j \in K : j # k => new[j] = old[j]

LEMMA Written ==
    ASSUME NEW K, NEW V, NEW T, NEW table \in [K -> RowOf(V, T)], NEW k \in K,
           NEW t, NEW v
    PROVE  Wrote(table, [table EXCEPT ![k] = Put(@, t, v)], K, k, v, t)
<1> DEFINE row == Put(table[k], t, v)
<1>1. row.com = table[k].com /\ row.cur = v /\ row.by = t
  BY DEF Put, RowOf
<1> HIDE DEF row
<1>2. Wrote(table, [table EXCEPT ![k] = row], K, k, v, t)
  BY <1>1 DEF Wrote
<1>3. QED
  BY <1>2 DEF row

\* What the end of t does to a row: t lets go of it, and what it wrote stays
\* (ok) or goes; rows of others are left alone.
EndedRow(old, new, t, ok) ==
    /\ old.by # t => new = old
    /\ old.by = t => /\ new.by = NoTx
                     /\ new.cur = new.com
                     /\ new.com = IF ok THEN old.cur ELSE old.com

LEMMA Released ==
    ASSUME NEW K, NEW V, NEW T, NEW table \in [K -> RowOf(V, T)], NEW t, NEW k \in K
    PROVE  /\ EndedRow(table[k], CommitAll(table, t)[k], t, TRUE)
           /\ EndedRow(table[k], RollbackAll(table, t)[k], t, FALSE)
BY DEF CommitAll, RollbackAll, Committed, RolledBack, Row, EndedRow

\* After a restart nothing is held, and only what was committed is left.
LEMMA Rebooted ==
    ASSUME NEW K, NEW V, NEW T, NEW table \in [K -> RowOf(V, T)], NEW k \in K
    PROVE  /\ Restarted(table)[k].by = NoTx
           /\ Restarted(table)[k].com = table[k].com
           /\ Restarted(table)[k].cur = table[k].com
BY DEF Restarted, Row
=============================================================================
