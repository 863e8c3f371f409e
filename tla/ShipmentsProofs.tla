-------------------------- MODULE ShipmentsProofs --------------------------
(***************************************************************************)
(* Theorems about shipments, for any shipments, number of connections,     *)
(* estimates, thresholds and requests: a status is backed by its event,    *)
(* no transactions wait for each other, and requests that take turns on a  *)
(* shipment leave it in order.                                             *)
(***************************************************************************)
EXTENDS Shipments, ReadCommittedProofs, FiniteSetTheorems, SequenceTheorems,
        WellFoundedInduction

-----------------------------------------------------------------------------
(* The inductive invariant.                                                *)

\* A status is backed in one version of a shipment.
Backed(v) ==
    /\ v.status \in {"IN_TRANSIT", "ARRIVED", "DELIVERED"} => v.departed # Never
    /\ v.status \in {"ARRIVED", "DELIVERED"} => v.arrived # Never
    /\ v.status = "DELIVERED" => v.delivered # Never

\* A write takes nothing away: what it leaves exists, and has departed, if
\* what it found did.
Grows(v, w) ==
    /\ v.status # "NONE" => w.status # "NONE"
    /\ v.departed # Never => w.departed # Never

Targets == {"BOOKED", "IN_TRANSIT", "ARRIVED", "DELIVERED", "CANCELLED", "EVENT", "ETA"}

\* What a transaction works through exists, and it has a shipment at hand; a
\* request that is about to write knows when, and one that is to arrive or to
\* deliver a shipment was allowed to because it had departed.
Ready(r, rows) ==
    /\ \A i \in DOMAIN r.work : rows[r.work[i]].com.status # "NONE"
    /\ r.at # "idle" => r.next \in DOMAIN r.work
    /\ r.at = "write" =>
           /\ r.to \in Targets
           /\ r.stamp # Never
           /\ 1 \in DOMAIN r.work
           /\ r.to \in {"ARRIVED", "DELIVERED"} => rows[r.work[1]].com.departed # Never

\* Both versions of a row are backed, and the one that is written grows.
Sound(row) == Backed(row.com) /\ Backed(row.cur) /\ Grows(row.com, row.cur)

IInv ==
    /\ now \in 0 .. MaxTime
    /\ ship \in [Ships -> RowOf(Shipment, Txs)]
    /\ exc \in [Ships \X Kinds \X Slots -> RowOf(Levels, Txs)]
    /\ tx \in [Txs -> TxRecords]
    /\ plan \in Plans /\ calm \in [Ships -> BOOLEAN]
    /\ \A s \in Ships : Sound(ship[s])
    /\ \A t \in Txs : Ready(tx[t], ship)

LEMMA IInvImplies == IInv => TypeOK /\ StatusBacked
<1> SUFFICES ASSUME IInv PROVE TypeOK /\ StatusBacked
  OBVIOUS
<1>1. ASSUME NEW t \in Txs
      PROVE  Scope(t) \subseteq Existing
  <2>1. \A i \in DOMAIN tx[t].work : tx[t].work[i] \in Ships
    BY LenProperties, ElementOfSeq DEF IInv, TxRecords
  <2>2. QED
    BY <2>1 DEF IInv, Ready, Scope, Existing
<1>2. QED
  BY <1>1 DEF IInv, TypeOK, Ready, At, StatusBacked, Sound, Backed

-----------------------------------------------------------------------------
(* Types of what the operations compute.                                   *)

LEMMA WantedType ==
    ASSUME NEW v, NEW time
    PROVE  Wanted(v, time) \in [Kinds -> Levels]
BY DEF Wanted, Levels

LEMMA ShipsFinite == IsFiniteSet(Ships) /\ Ships \subseteq Nat \ {0}
BY ShipsAssumption, FS_CardinalityType

\* Times a request may carry.
LEMMA TimesType ==
    /\ \A n \in Nat : n \in Times /\ n # Never
    /\ Never \in Times
    /\ Etas \subseteq Times /\ Stamps \subseteq Times
BY TimesAssumption DEF Times, Never

LEMMA IdleType == Idle \in TxRecords
<1>1. <<>> \in Seq(Ships)
  BY EmptySeq
<1>2. [k \in Kinds |-> "NONE"] \in [Kinds -> Levels]
  BY DEF Levels
<1>3. QED
  BY <1>1, <1>2, TimesType DEF Idle, TxRecords, Requests, Statuses, Kinds

\* A sequence of one shipment.
LEMMA OneShip ==
    ASSUME NEW s \in Ships
    PROVE  /\ <<s>> \in Seq(Ships)
           /\ DOMAIN <<s>> = {1} /\ <<s>>[1] = s
OBVIOUS

\* A record that has decided.
LEMMA DecidedType ==
    ASSUME NEW r \in TxRecords, NEW v
    PROVE  /\ Decided(r, v) \in TxRecords
           /\ Decided(r, v).at = "exception"
           /\ Decided(r, v).work = r.work
           /\ Decided(r, v).next = r.next
<1> DEFINE w == Wanted(v, now)
<1>1. w \in [Kinds -> Levels]
  BY WantedType
<1> HIDE DEF w
<1>2. [r EXCEPT !.at = "exception", !.want = w] \in TxRecords
  BY <1>1 DEF TxRecords
<1>3. Decided(r, v) = [r EXCEPT !.at = "exception", !.want = w]
  BY DEF Decided, w
<1>4. QED
  BY <1>2, <1>3 DEF TxRecords

\* A transaction that is done with a kind goes on with a shipment it has.
LEMMA EvaluatedType ==
    ASSUME NEW t \in Txs, tx[t] \in TxRecords, tx[t].next \in DOMAIN tx[t].work
    PROVE  /\ Evaluated(t) \in TxRecords
           /\ Evaluated(t).at \in {"exception", "commit", "evaluate"}
           /\ Evaluated(t).work = tx[t].work
           /\ Evaluated(t).next \in DOMAIN tx[t].work
<1> DEFINE r == tx[t]
           n == IF r.next = Len(r.work) THEN r.next ELSE r.next + 1
           at == IF r.next = Len(r.work) THEN "commit" ELSE "evaluate"
<1>1. DOMAIN r.work = 1 .. Len(r.work) /\ Len(r.work) \in Nat
  BY LenProperties DEF TxRecords
<1>2. n \in DOMAIN r.work /\ n \in Nat \ {0}
  BY <1>1
<1>3. at \in {"commit", "evaluate"}
  OBVIOUS
<1>4. CASE r.kind = "ETA_EXCEEDED"
  BY <1>4 DEF Evaluated, TxRecords, Kinds
<1>5. CASE r.kind # "ETA_EXCEEDED"
  <2>1. Evaluated(t) = [r EXCEPT !.at = at, !.next = n, !.kind = "ETA_EXCEEDED",
                                 !.want = Idle.want, !.found = 0]
    BY <1>5 DEF Evaluated, TxRecords
  <2>2. Idle.want \in [Kinds -> Levels]
    BY IdleType DEF TxRecords
  <2> HIDE DEF n, at
  <2>3. QED
    BY <2>1, <2>2, <1>2, <1>3 DEF TxRecords, Kinds
<1>6. QED
  BY <1>4, <1>5

-----------------------------------------------------------------------------
(* What a write leaves.                                                    *)

LEMMA ChangedKeeps ==
    ASSUME NEW t \in Txs, tx[t] \in TxRecords, NEW v \in Shipment,
           tx[t].to \in Targets, tx[t].stamp # Never,
           tx[t].to \in {"ARRIVED", "DELIVERED"} => v.departed # Never,
           Backed(v)
    PROVE  /\ Changed(v, t) \in Shipment
           /\ Backed(Changed(v, t))
           /\ Grows(v, Changed(v, t))
<1> DEFINE to == tx[t].to
           stamp == tx[t].stamp
           kept == tx[t].kept
           dated == [v EXCEPT !.last = stamp]
           first == Or(kept, stamp)
<1>1. stamp \in Times /\ kept \in Times /\ first \in Times /\ first # Never
  BY DEF TxRecords, Or
<1>2. dated \in Shipment
  BY <1>1 DEF Shipment
<1> HIDE DEF first, stamp, kept
<1>3. CASE to = "EVENT"
  <2>1. Changed(v, t) = dated
    BY <1>3 DEF Changed, stamp
  <2>2. QED
    BY <2>1, <1>2 DEF Shipment, Backed, Grows
<1>4. CASE to = "ETA"
  <2>1. Changed(v, t) = [dated EXCEPT !.eta = kept]
    BY <1>4 DEF Changed, stamp, kept
  <2>2. QED
    BY <2>1, <1>1, <1>2 DEF Shipment, Backed, Grows
<1>5. CASE to = "IN_TRANSIT"
  <2>1. Changed(v, t) = [dated EXCEPT !.status = to, !.departed = first]
    BY <1>5 DEF Changed, stamp, kept, first
  <2>2. QED
    BY <2>1, <1>1, <1>2, <1>5 DEF Shipment, Backed, Grows, Statuses
<1>6. CASE to = "ARRIVED"
  <2>1. Changed(v, t) = [dated EXCEPT !.status = to, !.arrived = first]
    BY <1>6 DEF Changed, stamp, kept, first
  <2>2. QED
    BY <2>1, <1>1, <1>2, <1>6 DEF Shipment, Backed, Grows, Statuses
<1>7. CASE to = "DELIVERED"
  <2>1. Changed(v, t) = [dated EXCEPT !.status = to, !.arrived = first, !.delivered = stamp]
    BY <1>7 DEF Changed, stamp, kept, first
  <2>2. stamp # Never
    BY DEF stamp
  <2>3. QED
    BY <2>1, <2>2, <1>1, <1>2, <1>7 DEF Shipment, Backed, Grows, Statuses
<1>8. CASE to \in {"BOOKED", "CANCELLED"}
  <2>1. Changed(v, t) = [dated EXCEPT !.status = to]
    BY <1>8 DEF Changed, stamp
  <2>2. QED
    BY <2>1, <1>2, <1>8 DEF Shipment, Backed, Grows, Statuses
<1>9. QED
  BY <1>3, <1>4, <1>5, <1>6, <1>7, <1>8 DEF Targets
-----------------------------------------------------------------------------
(* Steps.                                                                  *)

\* Rows that only grow leave a transaction ready.
LEMMA ReadyLasts ==
    ASSUME NEW r \in TxRecords, NEW old, NEW new,
           \A s \in Ships : Grows(old[s].com, new[s].com),
           Ready(r, old)
    PROVE  Ready(r, new)
<1>1. \A i \in DOMAIN r.work : r.work[i] \in Ships
  BY LenProperties, ElementOfSeq DEF TxRecords
<1>2. QED
  BY <1>1 DEF Ready, Grows

LEMMA GrowsItself == \A v : Grows(v, v)
BY DEF Grows

\* The shipments a ready transaction works through.
LEMMA AtHand ==
    ASSUME IInv, NEW t \in Txs
    PROVE  /\ tx[t] \in TxRecords /\ Ready(tx[t], ship)
           /\ \A i \in DOMAIN tx[t].work : tx[t].work[i] \in Ships
           /\ ~ At(t, "idle") => /\ tx[t].next \in DOMAIN tx[t].work
                                 /\ Current(t) \in Ships
<1>1. tx[t] \in TxRecords /\ Ready(tx[t], ship)
  BY DEF IInv
<1>2. \A i \in DOMAIN tx[t].work : tx[t].work[i] \in Ships
  BY <1>1, LenProperties, ElementOfSeq DEF TxRecords
<1>3. ~ At(t, "idle") => tx[t].next \in DOMAIN tx[t].work
  BY <1>1 DEF Ready, At
<1>4. ~ At(t, "idle") => Current(t) \in Ships
  BY <1>2, <1>3 DEF Current
<1>5. QED
  BY <1>1, <1>2, <1>3, <1>4

\* A step that leaves the shipments alone, and each transaction ready.
LEMMA RowsAlone ==
    ASSUME IInv, ship' = ship, plan' = plan, now' \in 0 .. MaxTime,
           calm' \in [Ships -> BOOLEAN],
           exc' \in [Ships \X Kinds \X Slots -> RowOf(Levels, Txs)],
           tx' \in [Txs -> TxRecords], \A u \in Txs : Ready(tx'[u], ship)
    PROVE  IInv'
BY DEF IInv

\* A transaction that only takes another record.
LEMMA TakesRecord ==
    ASSUME IInv, NEW t \in Txs, NEW r \in TxRecords, Ready(r, ship),
           tx' = [tx EXCEPT ![t] = r],
           exc' \in [Ships \X Kinds \X Slots -> RowOf(Levels, Txs)],
           UNCHANGED <<now, ship, plan, calm>>
    PROVE  IInv'
<1>1. tx' \in [Txs -> TxRecords]
  BY DEF IInv
<1>2. \A u \in Txs : Ready(tx'[u], ship)
  BY DEF IInv
<1>3. QED
  BY <1>1, <1>2, RowsAlone DEF IInv

LEMMA BeginsKeeps ==
    ASSUME IInv, NEW t \in Txs, NEW r \in TxRecords, Ready(r, ship), Begins(t, r)
    PROVE  IInv'
<1> DEFINE met == {u \in Txs : Scope(u) \cap {r.work[i] : i \in DOMAIN r.work} # {}}
           b == met = {}
<1>1. /\ tx' = [u \in Txs |-> IF u = t THEN [r EXCEPT !.alone = b]
                               ELSE IF u \in met THEN [tx[u] EXCEPT !.alone = FALSE] ELSE tx[u]]
      /\ calm' \in [Ships -> BOOLEAN]
      /\ UNCHANGED <<now, ship, exc, plan>>
  BY DEF Begins, IInv
<1>2. b \in BOOLEAN
  OBVIOUS
<1> HIDE DEF met, b
<1>3. \A q \in TxRecords, c \in BOOLEAN :
        /\ [q EXCEPT !.alone = c] \in TxRecords
        /\ Ready(q, ship) => Ready([q EXCEPT !.alone = c], ship)
  <2> TAKE q \in TxRecords, c \in BOOLEAN
  <2> DEFINE p == [q EXCEPT !.alone = c]
  <2>1. p \in TxRecords
    BY DEF TxRecords
  <2>2. p.at = q.at /\ p.to = q.to /\ p.stamp = q.stamp /\ p.work = q.work /\ p.next = q.next
    BY DEF TxRecords
  <2> HIDE DEF p
  <2>3. Ready(q, ship) => Ready(p, ship)
    BY <2>2 DEF Ready
  <2>4. QED
    BY <2>1, <2>3 DEF p
<1>4. ASSUME NEW u \in Txs
      PROVE  tx'[u] \in TxRecords /\ Ready(tx'[u], ship)
  BY <1>1, <1>2, <1>3 DEF IInv
<1>5. tx' \in [Txs -> TxRecords]
  BY <1>1, <1>4
<1>6. QED
  BY <1>1, <1>4, <1>5, RowsAlone DEF IInv

\* A change that begins, on one shipment that exists, is ready.
LEMMA ChangeReady ==
    ASSUME IInv, NEW s \in Existing, NEW r \in TxRecords,
           r.at = "write", r.to \in Targets, r.stamp # Never,
           r.work = <<s>>, r.next = 1,
           r.to \in {"ARRIVED", "DELIVERED"} => ship[s].com.departed # Never
    PROVE  Ready(r, ship)
<1>1. s \in Ships /\ ship[s].com.status # "NONE"
  BY DEF Existing
<1>2. DOMAIN r.work = {1} /\ r.work[1] = s
  BY <1>1, OneShip
<1>3. QED
  BY <1>1, <1>2 DEF Ready

LEMMA TransitionKeeps ==
    ASSUME IInv, NEW t \in Txs, NEW s \in Ships, NEW to, Transition(t, s, to)
    PROVE  IInv'
<1> DEFINE kept == IF to = "IN_TRANSIT" THEN ship[s].com.departed ELSE ship[s].com.arrived
           r == [Idle EXCEPT !.at = "write", !.to = to, !.stamp = now, !.kept = kept,
                             !.work = <<s>>]
<1>1. <<ship[s].com.status, to>> \in ShipmentTransitions
  BY DEF Transition
<1>2. /\ s \in Existing /\ to \in Targets
      /\ to \in {"ARRIVED", "DELIVERED"} => ship[s].com.status \in {"IN_TRANSIT", "ARRIVED"}
  BY <1>1 DEF ShipmentTransitions, Existing, Targets
<1>3. to \in {"ARRIVED", "DELIVERED"} => ship[s].com.departed # Never
  BY <1>2 DEF IInv, Sound, Backed
<1>4. now \in Times /\ now # Never
  BY TimesAssumption, TimesType DEF IInv
<1>5. ship[s].com.departed \in Times /\ ship[s].com.arrived \in Times
  BY DEF IInv, RowOf, Shipment
<1>6. r \in TxRecords /\ Ready(r, ship)
  <2>1. kept \in Times /\ to \in Requests /\ <<s>> \in Seq(Ships)
    BY <1>2, <1>5, OneShip DEF Targets, Requests, Statuses
  <2> HIDE DEF kept
  <2>2. r \in TxRecords
    BY <2>1, <1>4, IdleType DEF TxRecords
  <2>3. r.at = "write" /\ r.to = to /\ r.stamp = now /\ r.work = <<s>> /\ r.next = 1
    BY IdleType DEF TxRecords, Idle
  <2> HIDE DEF r
  <2>4. QED
    BY <2>2, <2>3, <1>2, <1>3, <1>4, ChangeReady
<1>7. Begins(t, r)
  BY DEF Transition
<1>8. QED
  BY <1>6, <1>7, BeginsKeeps

LEMMA TrackingEventKeeps ==
    ASSUME IInv, NEW t \in Txs, NEW s \in Ships, NEW stamp \in Stamps \cup {now},
           TrackingEvent(t, s, stamp)
    PROVE  IInv'
<1> DEFINE r == [Idle EXCEPT !.at = "write", !.to = "EVENT", !.stamp = stamp, !.work = <<s>>]
<1>1. s \in Existing
  BY DEF TrackingEvent
<1>2. stamp \in Times /\ stamp # Never
  BY TimesAssumption, TimesType DEF IInv
<1>3. <<s>> \in Seq(Ships) /\ "EVENT" \in Requests /\ "EVENT" \in Targets
  BY OneShip DEF Requests, Targets
<1>4. Begins(t, r)
  BY DEF TrackingEvent
<1>5. r \in TxRecords
  BY <1>2, <1>3, IdleType DEF TxRecords
<1>6. r.at = "write" /\ r.to = "EVENT" /\ r.stamp = stamp /\ r.work = <<s>> /\ r.next = 1
  BY IdleType DEF TxRecords, Idle
<1> HIDE DEF r
<1>7. Ready(r, ship)
  BY <1>1, <1>2, <1>3, <1>5, <1>6, ChangeReady
<1>8. QED
  BY <1>4, <1>5, <1>7, BeginsKeeps

LEMMA UpdateEtaKeeps ==
    ASSUME IInv, NEW t \in Txs, NEW s \in Ships, NEW eta \in Etas,
           UpdateEta(t, s, eta)
    PROVE  IInv'
<1> DEFINE r == [Idle EXCEPT !.at = "write", !.to = "ETA", !.stamp = now, !.kept = eta, !.work = <<s>>]
<1>1. s \in Existing
  BY DEF UpdateEta
<1>2. now \in Times /\ now # Never /\ eta \in Times
  BY TimesAssumption, TimesType DEF IInv
<1>3. <<s>> \in Seq(Ships) /\ "ETA" \in Requests /\ "ETA" \in Targets
  BY OneShip DEF Requests, Targets
<1>4. Begins(t, r)
  BY DEF UpdateEta
<1>5. r \in TxRecords
  BY <1>2, <1>3, IdleType DEF TxRecords
<1>6. r.at = "write" /\ r.to = "ETA" /\ r.stamp = now /\ r.work = <<s>> /\ r.next = 1
  BY IdleType DEF TxRecords, Idle
<1> HIDE DEF r
<1>7. Ready(r, ship)
  BY <1>1, <1>2, <1>3, <1>5, <1>6, ChangeReady
<1>8. QED
  BY <1>4, <1>5, <1>7, BeginsKeeps

LEMMA LoadKeeps ==
    ASSUME IInv, NEW t \in Txs, NEW S \in SUBSET Existing, Load(t, S)
    PROVE  IInv'
<1>1. PICK w \in NewestFirst(S) : Begins(t, Decided([Idle EXCEPT !.work = w], ship[w[1]].com))
  BY DEF Load
<1>2. S \subseteq Ships /\ IsFiniteSet(S) /\ S # {}
  BY ShipsFinite, FS_Subset DEF Load, Existing
<1>3. Cardinality(S) \in Nat \ {0}
  BY <1>2, FS_CardinalityType, FS_EmptySet
<1>4. w \in [1 .. Cardinality(S) -> S]
  BY DEF NewestFirst, AnyOrder
<1>5. w \in Seq(Ships) /\ 1 \in DOMAIN w /\ \A i \in DOMAIN w : w[i] \in Existing
  BY <1>2, <1>3, <1>4, SeqDef
<1> DEFINE r == [Idle EXCEPT !.work = w]
           d == Decided(r, ship[w[1]].com)
<1>6. r \in TxRecords /\ r.work = w /\ r.next = 1
  BY <1>5, IdleType DEF TxRecords, Idle
<1> HIDE DEF r
<1>7. d \in TxRecords /\ d.at = "exception" /\ d.work = w /\ d.next = 1
  BY <1>6, DecidedType
<1> HIDE DEF d
<1>8. Ready(d, ship)
  BY <1>5, <1>7 DEF Ready, Existing
<1>9. QED
  BY <1>1, <1>7, <1>8, BeginsKeeps DEF d, r

\* A write is a sound version of the row, whoever wrote it before.
LEMMA WriteKeeps ==
    ASSUME IInv, NEW t \in Txs, Write(t)
    PROVE  IInv'
<1> DEFINE s == tx[t].work[1]
           v == Sees(ship[s], t)
           w == Changed(v, t)
           r == [tx[t] EXCEPT !.to = "NONE", !.stamp = Never, !.kept = Never]
           d == Decided(r, ship'[s].cur)
<1>1. /\ tx[t] \in TxRecords /\ tx[t].at = "write" /\ Ready(tx[t], ship)
      /\ Free(ship[s], t)
      /\ ship' = [ship EXCEPT ![s] = Put(@, t, w)]
      /\ tx' = [tx EXCEPT ![t] = d]
      /\ UNCHANGED <<now, exc, plan, calm>>
  BY DEF Write, At, IInv
<1>2. s \in Ships /\ ship[s] \in RowOf(Shipment, Txs) /\ Sound(ship[s])
  BY <1>1, AtHand DEF IInv, Ready
<1>3. v \in {ship[s].com, ship[s].cur} /\ v \in Shipment
  BY <1>2 DEF Sees, RowOf
<1>4. Backed(v) /\ Grows(ship[s].com, v)
  BY <1>2, <1>3, GrowsItself DEF Sound
<1>5. /\ tx[t].to \in Targets /\ tx[t].stamp # Never
      /\ tx[t].to \in {"ARRIVED", "DELIVERED"} => v.departed # Never
  BY <1>1, <1>4 DEF Ready, Grows
<1>6. w \in Shipment /\ Backed(w) /\ Grows(ship[s].com, w)
  <2> HIDE DEF v
  <2>1. w \in Shipment /\ Backed(w) /\ Grows(v, w)
    BY <1>1, <1>3, <1>4, <1>5, ChangedKeeps
  <2> HIDE DEF w
  <2>2. QED
    BY <2>1, <1>4 DEF Grows
<1> HIDE DEF w, v
<1>7. ship' \in [Ships -> RowOf(Shipment, Txs)] /\ \A k \in Ships : Sound(ship'[k])
  <2>1. Put(ship[s], t, w) \in RowOf(Shipment, Txs)
    BY <1>2, <1>6, RowTypes
  <2>2. Put(ship[s], t, w).com = ship[s].com /\ Put(ship[s], t, w).cur = w
    BY <1>2 DEF Put, RowOf
  <2>3. Sound(Put(ship[s], t, w))
    BY <1>2, <1>6, <2>2 DEF Sound
  <2>4. QED
    BY <1>1, <1>2, <2>1, <2>3 DEF IInv
<1>8. \A k \in Ships : ship'[k].com = ship[k].com
  BY <1>1, <1>2 DEF IInv, Put, RowOf
<1>9. /\ r \in TxRecords
      /\ r.at = "write" /\ r.work = tx[t].work /\ r.next = tx[t].next
  BY <1>1, TimesType DEF TxRecords, Requests, Statuses
<1> HIDE DEF r
<1>10. d \in TxRecords /\ d.at = "exception" /\ d.work = tx[t].work /\ d.next = tx[t].next
  BY <1>9, DecidedType
<1> HIDE DEF d
<1>11. Ready(d, ship)
  BY <1>1, <1>10 DEF Ready
<1>12. tx' \in [Txs -> TxRecords] /\ \A u \in Txs : Ready(tx'[u], ship)
  BY <1>1, <1>10, <1>11 DEF IInv
<1>13. \A u \in Txs : Ready(tx'[u], ship')
  BY <1>8, <1>12, GrowsItself, ReadyLasts
<1>14. QED
  BY <1>1, <1>7, <1>12, <1>13 DEF IInv

LEMMA CreateKeeps ==
    ASSUME IInv, NEW s \in Ships, Create(s)
    PROVE  IInv'
<1> DEFINE v == [NoShipment EXCEPT !.status = "CREATED", !.last = now]
<1>1. /\ ship[s].com.status = "NONE"
      /\ ship' = [ship EXCEPT ![s] = Row(v)]
      /\ UNCHANGED <<now, exc, tx, plan, calm>>
  BY DEF Create, Existing
<1>2. now \in Times
  BY TimesAssumption, TimesType DEF IInv
<1>3. v \in Shipment /\ v.status = "CREATED" /\ v.departed = Never
  BY <1>2, TimesType DEF NoShipment, Shipment, Statuses
<1> HIDE DEF v
<1>4. Row(v) \in RowOf(Shipment, Txs) /\ Sound(Row(v)) /\ Row(v).com = v
  BY <1>3, GrowsItself DEF Row, RowOf, Sound, Backed
<1>5. ship' \in [Ships -> RowOf(Shipment, Txs)] /\ \A k \in Ships : Sound(ship'[k])
  BY <1>1, <1>4 DEF IInv
<1>6. \A k \in Ships \ {s} : ship'[k] = ship[k]
  BY <1>1 DEF IInv
<1>7. ASSUME NEW t \in Txs
      PROVE  Ready(tx[t], ship')
  <2>1. Ready(tx[t], ship) /\ \A i \in DOMAIN tx[t].work : tx[t].work[i] \in Ships
    BY AtHand
  <2>2. \A i \in DOMAIN tx[t].work : ship'[tx[t].work[i]] = ship[tx[t].work[i]]
    BY <1>1, <1>6, <2>1 DEF Ready
  <2>3. QED
    BY <2>1, <2>2 DEF Ready
<1>8. QED
  BY <1>1, <1>5, <1>7 DEF IInv

LEMMA EvaluateNextKeeps ==
    ASSUME IInv, NEW t \in Txs, EvaluateNext(t)
    PROVE  IInv'
<1> DEFINE d == Decided(tx[t], ship[Current(t)].com)
<1>1. tx[t] \in TxRecords /\ Ready(tx[t], ship) /\ tx[t].at = "evaluate"
  BY DEF IInv, EvaluateNext, At
<1>2. d \in TxRecords /\ d.at = "exception" /\ d.work = tx[t].work /\ d.next = tx[t].next
  BY <1>1, DecidedType
<1>3. tx' = [tx EXCEPT ![t] = d] /\ UNCHANGED <<now, ship, exc, plan, calm>>
  BY DEF EvaluateNext
<1> HIDE DEF d
<1>4. Ready(d, ship)
  BY <1>1, <1>2 DEF Ready
<1>5. QED
  BY <1>2, <1>3, <1>4, TakesRecord DEF IInv

\* A transaction that has done its part for a kind of exception.
LEMMA EvaluatedKeeps ==
    ASSUME IInv, NEW t \in Txs, ~ At(t, "idle"), tx' = [tx EXCEPT ![t] = Evaluated(t)],
           exc' \in [Ships \X Kinds \X Slots -> RowOf(Levels, Txs)],
           UNCHANGED <<now, ship, plan, calm>>
    PROVE  IInv'
<1>1. tx[t] \in TxRecords /\ Ready(tx[t], ship) /\ tx[t].next \in DOMAIN tx[t].work
  BY AtHand
<1>2. /\ Evaluated(t) \in TxRecords
      /\ Evaluated(t).at \in {"exception", "commit", "evaluate"}
      /\ Evaluated(t).work = tx[t].work
      /\ Evaluated(t).next \in DOMAIN tx[t].work
  BY <1>1, EvaluatedType
<1>3. Ready(Evaluated(t), ship)
  BY <1>1, <1>2 DEF Ready
<1>4. QED
  BY <1>2, <1>3, TakesRecord

LEMMA ResolveKeeps ==
    ASSUME IInv, NEW t \in Txs, Resolve(t)
    PROVE  IInv'
<1> DEFINE X == Ships \X Kinds \X Slots
<1>1. /\ ~ At(t, "idle")
      /\ exc' = [x \in DOMAIN exc |-> IF x \in Open(t) THEN Put(exc[x], t, "NONE") ELSE exc[x]]
      /\ tx' = [tx EXCEPT ![t] = Evaluated(t)]
      /\ UNCHANGED <<now, ship, plan, calm>>
  BY DEF Resolve, At
<1>2. exc \in [X -> RowOf(Levels, Txs)] /\ "NONE" \in Levels
  BY DEF IInv, Levels
<1> HIDE DEF X
<1>3. \A x \in X : Put(exc[x], t, "NONE") \in RowOf(Levels, Txs)
  BY <1>2, RowTypes
<1>4. exc' \in [X -> RowOf(Levels, Txs)]
  BY <1>1, <1>2, <1>3
<1>5. QED
  BY <1>1, <1>4, EvaluatedKeeps DEF X

\* Insert and Mend write one row, with a level.
LEMMA OneRowKeeps ==
    ASSUME IInv, NEW t \in Txs, ~ At(t, "idle"), NEW x, NEW level \in Levels,
           exc' = [exc EXCEPT ![x] = Put(@, t, level)],
           tx' = [tx EXCEPT ![t] = Evaluated(t)],
           UNCHANGED <<now, ship, plan, calm>>
    PROVE  IInv'
<1> DEFINE X == Ships \X Kinds \X Slots
<1>1. exc \in [X -> RowOf(Levels, Txs)]
  BY DEF IInv
<1> HIDE DEF X
<1>2. \A k \in X : Put(exc[k], t, level) \in RowOf(Levels, Txs)
  BY <1>1, RowTypes
<1>3. exc' \in [X -> RowOf(Levels, Txs)]
  BY <1>1, <1>2
<1>4. QED
  BY <1>3, EvaluatedKeeps DEF X

LEMMA LevelNow ==
    ASSUME IInv, NEW t \in Txs
    PROVE  WantedNow(t) \in Levels
BY DEF IInv, TxRecords, WantedNow

LEMMA InsertKeeps ==
    ASSUME IInv, NEW t \in Txs, Insert(t)
    PROVE  IInv'
<1> DEFINE mine == CHOOSE x \in Unused(t) : TRUE
<1>1. /\ ~ At(t, "idle")
      /\ exc' = [exc EXCEPT ![mine] = Put(@, t, WantedNow(t))]
      /\ tx' = [tx EXCEPT ![t] = Evaluated(t)]
      /\ UNCHANGED <<now, ship, plan, calm>>
  BY DEF Insert, At
<1> HIDE DEF mine
<1>2. QED
  BY <1>1, LevelNow, OneRowKeeps

LEMMA FindKeeps ==
    ASSUME IInv, NEW t \in Txs, Find(t)
    PROVE  IInv'
<1>1. PICK x \in Open(t) : tx' = [tx EXCEPT ![t].at = "mend", ![t].found = x[3]]
  BY DEF Find
<1> DEFINE r == [tx[t] EXCEPT !.at = "mend", !.found = x[3]]
<1>2. x[3] \in Slots
  BY DEF Open
<1>3. tx[t] \in TxRecords /\ Ready(tx[t], ship) /\ tx[t].at = "exception"
  BY DEF IInv, Find, At
<1>4. r \in TxRecords /\ r.at = "mend" /\ r.work = tx[t].work /\ r.next = tx[t].next
  BY <1>2, <1>3 DEF TxRecords
<1>5. tx' = [tx EXCEPT ![t] = r] /\ UNCHANGED <<now, ship, exc, plan, calm>>
  BY <1>1 DEF Find, IInv
<1> HIDE DEF r
<1>6. Ready(r, ship)
  BY <1>3, <1>4 DEF Ready
<1>7. QED
  BY <1>4, <1>5, <1>6, TakesRecord DEF IInv

LEMMA MendKeeps ==
    ASSUME IInv, NEW t \in Txs, Mend(t)
    PROVE  IInv'
<1> DEFINE x == <<Current(t), tx[t].kind, tx[t].found>>
           level == IF Sees(exc[x], t) = "NONE" THEN "NONE" ELSE WantedNow(t)
<1>1. /\ ~ At(t, "idle")
      /\ exc' = [exc EXCEPT ![x] = Put(@, t, level)]
      /\ tx' = [tx EXCEPT ![t] = Evaluated(t)]
      /\ UNCHANGED <<now, ship, plan, calm>>
  BY DEF Mend, At
<1>2. level \in Levels
  BY LevelNow DEF Levels
<1> HIDE DEF x, level
<1>3. QED
  BY <1>1, <1>2, OneRowKeeps

-----------------------------------------------------------------------------
(* The end of a transaction, and time.                                     *)

\* Rows after t has ended are sound, and have grown.
LEMMA EndedRows ==
    ASSUME IInv, NEW t, NEW s \in Ships
    PROVE  /\ Sound(Committed(ship[s], t)) /\ Grows(ship[s].com, Committed(ship[s], t).com)
           /\ Sound(RolledBack(ship[s], t)) /\ Grows(ship[s].com, RolledBack(ship[s], t).com)
<1>1. Sound(ship[s])
  BY DEF IInv
<1>2. QED
  BY <1>1 DEF Sound, Grows, Committed, RolledBack, Row

\* Once t has ended, and left the table as `rows'.
LEMMA Ended ==
    ASSUME IInv, NEW t \in Txs,
           ship' \in [Ships -> RowOf(Shipment, Txs)],
           \A s \in Ships : Sound(ship'[s]) /\ Grows(ship[s].com, ship'[s].com),
           exc' \in [Ships \X Kinds \X Slots -> RowOf(Levels, Txs)],
           tx' = [tx EXCEPT ![t] = Idle],
           UNCHANGED <<now, plan, calm>>
    PROVE  IInv'
<1>1. Ready(Idle, ship)
  BY DEF Ready, Idle
<1>2. tx' \in [Txs -> TxRecords] /\ \A u \in Txs : Ready(tx'[u], ship)
  BY <1>1, IdleType DEF IInv
<1>3. \A u \in Txs : Ready(tx'[u], ship')
  BY <1>2, ReadyLasts
<1>4. QED
  BY <1>2, <1>3 DEF IInv

LEMMA CommitKeeps ==
    ASSUME IInv, NEW t \in Txs, Commit(t)
    PROVE  IInv'
<1>1. /\ ship' = CommitAll(ship, t) /\ exc' = CommitAll(exc, t)
      /\ tx' = [tx EXCEPT ![t] = Idle]
      /\ UNCHANGED <<now, plan, calm>>
  BY DEF Commit
<1>2. /\ ship' \in [Ships -> RowOf(Shipment, Txs)]
      /\ exc' \in [Ships \X Kinds \X Slots -> RowOf(Levels, Txs)]
  BY <1>1, TableTypes DEF IInv
<1>3. \A s \in Ships : ship'[s] = Committed(ship[s], t)
  BY <1>1 DEF IInv, CommitAll
<1>4. QED
  BY <1>1, <1>2, <1>3, EndedRows, Ended

LEMMA AbortKeeps ==
    ASSUME IInv, NEW t \in Txs, Abort(t)
    PROVE  IInv'
<1>1. /\ ship' = RollbackAll(ship, t) /\ exc' = RollbackAll(exc, t)
      /\ tx' = [tx EXCEPT ![t] = Idle]
      /\ UNCHANGED <<now, plan, calm>>
  BY DEF Abort
<1>2. /\ ship' \in [Ships -> RowOf(Shipment, Txs)]
      /\ exc' \in [Ships \X Kinds \X Slots -> RowOf(Levels, Txs)]
  BY <1>1, TableTypes DEF IInv
<1>3. \A s \in Ships : ship'[s] = RolledBack(ship[s], t)
  BY <1>1 DEF IInv, RollbackAll
<1>4. QED
  BY <1>1, <1>2, <1>3, EndedRows, Ended

LEMMA TickKeeps ==
    ASSUME IInv, Tick
    PROVE  IInv'
<1>1. now' \in 0 .. MaxTime
  BY TimesAssumption DEF IInv, Tick
<1>2. /\ tx' = [t \in Txs |-> IF tx[t].at = "idle" THEN tx[t] ELSE [tx[t] EXCEPT !.alone = FALSE]]
      /\ UNCHANGED <<ship, exc, plan, calm>>
  BY DEF Tick, At
<1>3. ASSUME NEW q \in TxRecords, Ready(q, ship)
      PROVE  [q EXCEPT !.alone = FALSE] \in TxRecords /\ Ready([q EXCEPT !.alone = FALSE], ship)
  <2> DEFINE p == [q EXCEPT !.alone = FALSE]
  <2>1. p \in TxRecords
    BY DEF TxRecords
  <2>2. p.at = q.at /\ p.to = q.to /\ p.stamp = q.stamp /\ p.work = q.work /\ p.next = q.next
    BY DEF TxRecords
  <2> HIDE DEF p
  <2>3. Ready(p, ship)
    BY <1>3, <2>2 DEF Ready
  <2>4. QED
    BY <2>1, <2>3 DEF p
<1>4. ASSUME NEW t \in Txs
      PROVE  tx'[t] \in TxRecords /\ Ready(tx'[t], ship)
  BY <1>2, <1>3 DEF IInv
<1>5. tx' \in [Txs -> TxRecords]
  BY <1>2, <1>4
<1>6. QED
  BY <1>1, <1>2, <1>4, <1>5, RowsAlone DEF IInv

-----------------------------------------------------------------------------
(* The theorems.                                                           *)

LEMMA InitIInv ==
    ASSUME Init
    PROVE  IInv
<1>1. NoShipment \in Shipment /\ NoShipment.status = "NONE"
  BY TimesType DEF NoShipment, Shipment, Statuses
<1>2. Row(NoShipment) \in RowOf(Shipment, Txs) /\ Sound(Row(NoShipment))
  BY <1>1, GrowsItself DEF Row, RowOf, Sound, Backed
<1>3. Row("NONE") \in RowOf(Levels, Txs)
  BY DEF Row, RowOf, Levels
<1>4. Ready(Idle, ship)
  BY DEF Ready, Idle
<1>5. QED
  BY <1>2, <1>3, <1>4, IdleType, TimesAssumption DEF Init, IInv

LEMMA NextIInv ==
    ASSUME IInv, [Next]_vars
    PROVE  IInv'
<1>1. CASE UNCHANGED vars
  BY <1>1 DEF IInv, vars
<1>2. CASE Tick
  BY <1>2, TickKeeps
<1>3. CASE \E s \in Ships : "CREATED" \in plan[s] /\ Create(s)
  BY <1>3, CreateKeeps
<1>4. ASSUME NEW t \in Txs, Request(t)
      PROVE  IInv'
  <2>1. CASE \E s \in Ships, to \in Requests : Transition(t, s, to)
    BY <2>1, TransitionKeeps
  <2>2. CASE \E s \in Ships, stamp \in Stamps \cup {now} : TrackingEvent(t, s, stamp)
    BY <2>2, TrackingEventKeeps
  <2>3. CASE \E s \in Ships, eta \in Etas : UpdateEta(t, s, eta)
    BY <2>3, UpdateEtaKeeps
  <2>4. CASE \E S \in SUBSET Existing : Load(t, S)
    BY <2>4, LoadKeeps
  <2>5. \A s \in Ships : plan[s] \subseteq Requests
    BY PlansAssumption DEF IInv
  <2>6. QED
    BY <1>4, <2>1, <2>2, <2>3, <2>4, <2>5 DEF Request
<1>5. ASSUME NEW t \in Txs, Proceed(t)
      PROVE  IInv'
  BY <1>5, WriteKeeps, EvaluateNextKeeps, ResolveKeeps, InsertKeeps, FindKeeps, MendKeeps,
     CommitKeeps DEF Proceed
<1>6. CASE \E t \in Txs : Abort(t)
  BY <1>6, AbortKeeps
<1>7. QED
  BY <1>1, <1>2, <1>3, <1>4, <1>5, <1>6 DEF Next

\* The strengthening holds throughout: versions of a shipment only grow, and a
\* request that arrives or delivers one was allowed to because it had left.
THEOREM Inductive == Spec => []IInv
<1>1. Init => IInv
  BY InitIInv
<1>2. IInv /\ [Next]_vars => IInv'
  BY NextIInv
<1>3. QED
  BY <1>1, <1>2, PTL DEF Spec

\* Every row and every transaction keeps its type: what a transaction works
\* through exists, and it never runs past its last shipment.
THEOREM Typing == Spec => []TypeOK
<1>1. IInv => TypeOK
  BY IInvImplies
<1>2. QED
  BY <1>1, Inductive, PTL

\* However requests overlap, fail and race with time, a shipment is never
\* underway without a departure, nor delivered without an arrival and the
\* deliveredAt that OTIF is computed from.
THEOREM AlwaysBacked == Spec => []StatusBacked
<1>1. IInv => StatusBacked
  BY IInvImplies
<1>2. QED
  BY <1>1, Inductive, PTL

-----------------------------------------------------------------------------
(* Requests and page loads of shipments never deadlock.                    *)
(*                                                                         *)
(* A transaction works its way down: from shipment to shipment, and on     *)
(* each from the row of the shipment to its delays and its silences.  Left *)
(* is how far it still is from the bottom, and every row it has locked     *)
(* lies above that; so whoever it waits for is further down than it is,    *)
(* and there is no circle.                                                 *)

Rank(kind) == IF kind = "ETA_EXCEEDED" THEN 1 ELSE 2

Stage(r) ==
    CASE r.at \in {"exception", "mend"} -> Rank(r.kind)
      [] r.at = "commit" -> 3
      [] OTHER -> 0

Left(r) == 4 * r.work[r.next] + 3 - Stage(r)

\* Where the rows of a shipment and of its exceptions lie.
ShipLevel(s) == 4 * s + 3
ExcLevel(x) == 4 * x[1] + 3 - Rank(x[2])

Downward(r) ==
    /\ \A i, j \in DOMAIN r.work : i < j => r.work[j] < r.work[i]
    /\ r.at = "write" => r.next = 1
    /\ r.at = "mend" => r.found \in Slots

Below(r, level) == r.at # "idle" /\ Left(r) < level

Rows == Ships \X Kinds \X Slots

LInv ==
    /\ IInv
    /\ \A t \in Txs : Downward(tx[t])
    /\ \A t \in Txs, s \in Ships : ship[s].by = t => Below(tx[t], ShipLevel(s))
    /\ \A t \in Txs, x \in Rows : exc[x].by = t => Below(tx[t], ExcLevel(x))

\* Two records that are at the same point.
Alike(q, r) == q.at = r.at /\ q.work = r.work /\ q.next = r.next /\ q.kind = r.kind
                /\ q.found = r.found

LEMMA AlikeStays ==
    ASSUME NEW q, NEW r, Alike(q, r)
    PROVE  /\ Downward(q) => Downward(r)
           /\ \A level : Below(q, level) => Below(r, level)
BY DEF Alike, Downward, Below, Left, Stage

LEMMA LeftType ==
    ASSUME IInv, NEW t \in Txs, tx[t].at # "idle"
    PROVE  /\ Current(t) \in Nat \ {0}
           /\ Stage(tx[t]) \in 0 .. 3
           /\ Left(tx[t]) = 4 * Current(t) + 3 - Stage(tx[t])
           /\ Left(tx[t]) \in Nat
<1>1. Current(t) \in Nat \ {0}
  BY AtHand, ShipsFinite DEF At
<1>2. Stage(tx[t]) \in 0 .. 3
  BY DEF Stage, Rank
<1>3. Left(tx[t]) = 4 * Current(t) + 3 - Stage(tx[t])
  BY DEF Left, Current
<1>4. QED
  BY <1>1, <1>2, <1>3

\* The transaction t goes down, and locks what lies above where it gets.
LEMMA GoesDown ==
    ASSUME LInv, IInv', NEW t \in Txs, tx[t].at # "idle", Downward(tx'[t]),
           \A u \in Txs \ {t} : tx'[u] = tx[u],
           tx'[t].at # "idle", Left(tx'[t]) <= Left(tx[t]), Left(tx'[t]) \in Int,
           \A s \in Ships : ship'[s].by = ship[s].by
                            \/ (ship'[s].by = t /\ Left(tx'[t]) < ShipLevel(s)),
           \A x \in Rows : exc'[x].by = exc[x].by
                            \/ (exc'[x].by = t /\ Left(tx'[t]) < ExcLevel(x))
    PROVE  LInv'
<1>1. \A u \in Txs : Downward(tx'[u])
  BY DEF LInv
<1>2. Left(tx[t]) \in Int
  BY LeftType DEF LInv
<1>3. ASSUME NEW u \in Txs, NEW s \in Ships, ship'[s].by = u
      PROVE  Below(tx'[u], ShipLevel(s))
  <2>1. ShipLevel(s) \in Int
    BY ShipsFinite DEF ShipLevel
  <2>2. CASE u # t
    BY <2>2, <1>3 DEF LInv
  <2>3. CASE u = t /\ ship[s].by = t
    BY <2>1, <2>3, <1>2 DEF LInv, Below
  <2>4. CASE u = t /\ ship[s].by # t
    BY <2>4, <1>3 DEF Below
  <2>5. QED
    BY <2>2, <2>3, <2>4
<1>4. ASSUME NEW u \in Txs, NEW x \in Rows, exc'[x].by = u
      PROVE  Below(tx'[u], ExcLevel(x))
  <2>1. ExcLevel(x) \in Int
    <3>1. x[1] \in Nat
      BY ShipsFinite DEF Rows
    <3>2. QED
      BY <3>1 DEF ExcLevel, Rank
  <2>2. CASE u # t
    BY <2>2, <1>4 DEF LInv
  <2>3. CASE u = t /\ exc[x].by = t
    BY <2>1, <2>3, <1>2 DEF LInv, Below
  <2>4. CASE u = t /\ exc[x].by # t
    BY <2>4, <1>4 DEF Below
  <2>5. QED
    BY <2>2, <2>3, <2>4
<1>5. QED
  BY <1>1, <1>3, <1>4 DEF LInv

\* A transaction that begins holds nothing yet.
LEMMA BeginsDown ==
    ASSUME LInv, IInv', NEW t \in Txs, NEW r \in TxRecords, At(t, "idle"), Begins(t, r), Downward(r)
    PROVE  LInv'
<1> DEFINE met == {u \in Txs : Scope(u) \cap {r.work[i] : i \in DOMAIN r.work} # {}}
           b == met = {}
<1>1. /\ tx' = [u \in Txs |-> IF u = t THEN [r EXCEPT !.alone = b]
                               ELSE IF u \in met THEN [tx[u] EXCEPT !.alone = FALSE] ELSE tx[u]]
      /\ UNCHANGED <<ship, exc>>
  BY DEF Begins
<1> HIDE DEF met
<1>2. \A q \in TxRecords : \A c : Alike(q, [q EXCEPT !.alone = c]) /\ Alike(q, q)
  BY DEF TxRecords, Alike
<1>3. \A u \in Txs \ {t} : Alike(tx[u], tx'[u])
  BY <1>1, <1>2 DEF LInv, IInv
<1>4. Alike(r, tx'[t])
  BY <1>1, <1>2
<1>5. \A u \in Txs : Downward(tx'[u])
  BY <1>3, <1>4, AlikeStays DEF LInv
<1>6. \A s \in Ships : ship[s].by # t
  BY DEF LInv, Below, At
<1>7. \A x \in Rows : exc[x].by # t
  BY DEF LInv, Below, At
<1>8. \A u \in Txs, s \in Ships : ship'[s].by = u => Below(tx'[u], ShipLevel(s))
  BY <1>1, <1>3, <1>6, AlikeStays DEF LInv
<1>9. \A u \in Txs, x \in Rows : exc'[x].by = u => Below(tx'[u], ExcLevel(x))
  BY <1>1, <1>3, <1>7, AlikeStays DEF LInv
<1>10. QED
  BY <1>5, <1>8, <1>9 DEF LInv

\* One shipment is a way down.
LEMMA OneIsDownward ==
    ASSUME NEW s \in Ships, NEW r, r.at = "write", r.work = <<s>>, r.next = 1
    PROVE  Downward(r)
<1>1. DOMAIN r.work = {1}
  BY OneShip
<1>2. QED
  BY <1>1 DEF Downward

LEMMA RequestDown ==
    ASSUME LInv, IInv', NEW t \in Txs, Request(t)
    PROVE  LInv'
<1>1. ASSUME NEW s \in Ships, NEW to \in Requests, Transition(t, s, to)
      PROVE  LInv'
  <2> DEFINE kept == IF to = "IN_TRANSIT" THEN ship[s].com.departed ELSE ship[s].com.arrived
             r == [Idle EXCEPT !.at = "write", !.to = to, !.stamp = now, !.kept = kept,
                               !.work = <<s>>]
  <2>1. At(t, "idle") /\ Begins(t, r)
    BY <1>1 DEF Transition
  <2>2. now \in Times /\ kept \in Times /\ <<s>> \in Seq(Ships)
    BY OneShip, TimesAssumption, TimesType DEF LInv, IInv, RowOf, Shipment
  <2> HIDE DEF kept
  <2>3. r \in TxRecords /\ r.at = "write" /\ r.work = <<s>> /\ r.next = 1
    BY <2>2, IdleType DEF TxRecords, Idle
  <2> HIDE DEF r
  <2>4. QED
    BY <2>1, <2>3, OneIsDownward, BeginsDown
<1>2. ASSUME NEW s \in Ships, NEW stamp \in Stamps \cup {now}, TrackingEvent(t, s, stamp)
      PROVE  LInv'
  <2> DEFINE r == [Idle EXCEPT !.at = "write", !.to = "EVENT", !.stamp = stamp, !.work = <<s>>]
  <2>1. At(t, "idle") /\ Begins(t, r)
    BY <1>2 DEF TrackingEvent
  <2>2. stamp \in Times /\ <<s>> \in Seq(Ships) /\ "EVENT" \in Requests
    BY OneShip, TimesAssumption, TimesType DEF LInv, IInv, Requests
  <2>3. r \in TxRecords /\ r.at = "write" /\ r.work = <<s>> /\ r.next = 1
    BY <2>2, IdleType DEF TxRecords, Idle
  <2> HIDE DEF r
  <2>4. QED
    BY <2>1, <2>3, OneIsDownward, BeginsDown
<1>3. ASSUME NEW s \in Ships, NEW eta \in Etas, UpdateEta(t, s, eta)
      PROVE  LInv'
  <2> DEFINE r == [Idle EXCEPT !.at = "write", !.to = "ETA", !.stamp = now, !.kept = eta,
                               !.work = <<s>>]
  <2>1. At(t, "idle") /\ Begins(t, r)
    BY <1>3 DEF UpdateEta
  <2>2. now \in Times /\ eta \in Times /\ <<s>> \in Seq(Ships) /\ "ETA" \in Requests
    BY OneShip, TimesAssumption, TimesType DEF LInv, IInv, Requests
  <2>3. r \in TxRecords /\ r.at = "write" /\ r.work = <<s>> /\ r.next = 1
    BY <2>2, IdleType DEF TxRecords, Idle
  <2> HIDE DEF r
  <2>4. QED
    BY <2>1, <2>3, OneIsDownward, BeginsDown
<1>4. ASSUME NEW S \in SUBSET Existing, Load(t, S)
      PROVE  LInv'
  <2>1. PICK w \in NewestFirst(S) : Begins(t, Decided([Idle EXCEPT !.work = w], ship[w[1]].com))
    BY <1>4 DEF Load
  <2>2. S \subseteq Ships /\ IsFiniteSet(S) /\ S # {} /\ At(t, "idle")
    BY <1>4, ShipsFinite, FS_Subset DEF Load, Existing
  <2>3. Cardinality(S) \in Nat \ {0}
    BY <2>2, FS_CardinalityType, FS_EmptySet
  <2>4. /\ w \in [1 .. Cardinality(S) -> S]
        /\ \A i, j \in DOMAIN w : i < j => w[i] > w[j]
    BY DEF NewestFirst, AnyOrder
  <2>5. w \in Seq(Ships)
    BY <2>2, <2>3, <2>4, SeqDef
  <2>6. \A i, j \in DOMAIN w : i < j => w[j] < w[i]
    <3>1. \A i \in DOMAIN w : w[i] \in Nat
      BY <2>2, <2>4, ShipsFinite
    <3>2. QED
      BY <2>4, <3>1
  <2> DEFINE r == [Idle EXCEPT !.work = w]
             d == Decided(r, ship[w[1]].com)
  <2>7. r \in TxRecords /\ r.work = w /\ r.next = 1
    BY <2>5, IdleType DEF TxRecords, Idle
  <2> HIDE DEF r
  <2>8. d \in TxRecords /\ d.at = "exception" /\ d.work = w /\ d.next = 1
    BY <2>7, DecidedType
  <2>9. Begins(t, d)
    BY <2>1 DEF r
  <2> HIDE DEF d
  <2>10. Downward(d)
    BY <2>6, <2>8 DEF Downward
  <2>11. QED
    BY <2>2, <2>8, <2>9, <2>10, BeginsDown
<1>5. \A s \in Ships : plan[s] \subseteq Requests
  BY PlansAssumption DEF LInv, IInv
<1>6. QED
  BY <1>1, <1>2, <1>3, <1>4, <1>5 DEF Request

\* A transaction that ends holds nothing any more.
LEMMA EndsDown ==
    ASSUME LInv, IInv', NEW t \in Txs, tx' = [tx EXCEPT ![t] = Idle],
           \/ ship' = CommitAll(ship, t) /\ exc' = CommitAll(exc, t)
           \/ ship' = RollbackAll(ship, t) /\ exc' = RollbackAll(exc, t)
    PROVE  LInv'
<1>1. Downward(Idle)
  BY DEF Downward, Idle
<1>2. \A u \in Txs : Downward(tx'[u])
  BY <1>1 DEF LInv, IInv
<1>3. \A u \in Txs \ {t} : tx'[u] = tx[u]
  BY DEF LInv, IInv
<1>4. \A row : /\ Committed(row, t).by \in {row.by, NoTx} \ {t}
               /\ RolledBack(row, t).by \in {row.by, NoTx} \ {t}
  BY NoTxAssumption DEF Committed, RolledBack, Row
<1>5. \A s \in Ships : ship'[s].by \in {ship[s].by, NoTx} \ {t}
  <2>1. \A s \in Ships : ship'[s] \in {Committed(ship[s], t), RolledBack(ship[s], t)}
    BY DEF LInv, IInv, CommitAll, RollbackAll
  <2>2. QED
    BY <1>4, <2>1
<1>6. \A x \in Rows : exc'[x].by \in {exc[x].by, NoTx} \ {t}
  <2>1. \A x \in Rows : exc'[x] \in {Committed(exc[x], t), RolledBack(exc[x], t)}
    BY DEF LInv, IInv, CommitAll, RollbackAll, Rows
  <2>2. QED
    BY <1>4, <2>1
<1>7. ASSUME NEW u \in Txs, NEW s \in Ships, ship'[s].by = u
      PROVE  Below(tx'[u], ShipLevel(s))
  BY <1>3, <1>5, <1>7, NoTxAssumption DEF LInv
<1>8. ASSUME NEW u \in Txs, NEW x \in Rows, exc'[x].by = u
      PROVE  Below(tx'[u], ExcLevel(x))
  BY <1>3, <1>6, <1>8, NoTxAssumption DEF LInv
<1>9. QED
  BY <1>2, <1>7, <1>8 DEF LInv

\* What t does next lies below what it has done: it is done with a kind.
LEMMA EvaluatedDown ==
    ASSUME LInv, NEW t \in Txs, tx[t].at \in {"exception", "mend"}
    PROVE  /\ Downward(Evaluated(t)) /\ Evaluated(t).at # "idle"
           /\ Left(Evaluated(t)) \in Int
           /\ Left(Evaluated(t)) < ExcLevel(<<Current(t), tx[t].kind, 1>>)
           /\ Left(tx[t]) = ExcLevel(<<Current(t), tx[t].kind, 1>>)
<1> DEFINE r == tx[t]
           e == Evaluated(t)
           n == IF r.next = Len(r.work) THEN r.next ELSE r.next + 1
           at == IF r.next = Len(r.work) THEN "commit" ELSE "evaluate"
<1>1. /\ r \in TxRecords /\ r.next \in DOMAIN r.work
      /\ \A i \in DOMAIN r.work : r.work[i] \in Nat
  BY AtHand, ShipsFinite DEF LInv, At
<1>2. DOMAIN r.work = 1 .. Len(r.work) /\ Len(r.work) \in Nat
  BY <1>1, LenProperties DEF TxRecords
<1>3. Downward(r)
  BY DEF LInv
<1>4. Current(t) \in Nat /\ Current(t) = r.work[r.next]
  BY <1>1 DEF Current
<1>5. CASE r.kind = "ETA_EXCEEDED"
  <2>1. e.at = "exception" /\ e.kind = "TRACKING_STALE" /\ e.work = r.work /\ e.next = r.next
    BY <1>1, <1>5 DEF Evaluated, TxRecords
  <2> HIDE DEF e
  <2>2. Left(e) = 4 * Current(t) + 1
    BY <1>4, <2>1 DEF Left, Stage, Rank
  <2>3. Left(r) = 4 * Current(t) + 2 /\ ExcLevel(<<Current(t), r.kind, 1>>) = 4 * Current(t) + 2
    BY <1>4, <1>5 DEF Left, Stage, Rank, ExcLevel
  <2>4. Downward(e)
    BY <1>3, <2>1 DEF Downward
  <2>5. QED
    BY <1>4, <2>1, <2>2, <2>3, <2>4 DEF e
<1>6. CASE r.kind # "ETA_EXCEEDED"
  <2>1. e = [r EXCEPT !.at = at, !.next = n, !.kind = "ETA_EXCEEDED",
                      !.want = Idle.want, !.found = 0]
    BY <1>6, <1>1 DEF Evaluated, TxRecords
  <2> HIDE DEF e, n, at
  <2>2. e.at = at /\ e.work = r.work /\ e.next = n
    BY <1>1, <2>1 DEF TxRecords
  <2>3. Left(r) = 4 * Current(t) + 1 /\ ExcLevel(<<Current(t), r.kind, 1>>) = 4 * Current(t) + 1
    BY <1>4, <1>6 DEF Left, Stage, Rank, ExcLevel
  <2>4. CASE r.next = Len(r.work)
    <3>1. at = "commit" /\ n = r.next
      BY <2>4 DEF at, n
    <3>2. Left(e) = 4 * Current(t)
      BY <1>4, <2>2, <3>1 DEF Left, Stage
    <3>3. Downward(e)
      BY <1>3, <2>2, <3>1 DEF Downward
    <3>4. QED
      BY <1>4, <2>2, <2>3, <3>1, <3>2, <3>3 DEF e
  <2>5. CASE r.next # Len(r.work)
    <3>1. at = "evaluate" /\ n = r.next + 1
      BY <2>5 DEF at, n
    <3>2. n \in DOMAIN r.work /\ r.next < n
      BY <1>1, <1>2, <2>5, <3>1
    <3>3. r.work[n] \in Nat /\ r.work[n] < Current(t)
      BY <1>1, <1>3, <1>4, <3>2 DEF Downward
    <3>4. Left(e) = 4 * r.work[n] + 3
      BY <3>3, <2>2, <3>1 DEF Left, Stage
    <3>5. Downward(e)
      BY <1>3, <2>2, <3>1 DEF Downward
    <3>6. QED
      BY <1>4, <2>2, <2>3, <3>1, <3>3, <3>4, <3>5 DEF e
  <2>6. QED
    BY <2>4, <2>5
<1>7. QED
  BY <1>5, <1>6

\* The rows of exceptions that t writes are those of the kind at hand.
LEMMA KindDown ==
    ASSUME LInv, IInv', NEW t \in Txs, tx[t].at \in {"exception", "mend"},
           tx' = [tx EXCEPT ![t] = Evaluated(t)], ship' = ship,
           \A x \in Rows : exc'[x].by = exc[x].by
                            \/ (exc'[x].by = t /\ x[1] = Current(t) /\ x[2] = tx[t].kind)
    PROVE  LInv'
<1>1. /\ Downward(Evaluated(t)) /\ Evaluated(t).at # "idle"
      /\ Left(Evaluated(t)) \in Int
      /\ Left(Evaluated(t)) < ExcLevel(<<Current(t), tx[t].kind, 1>>)
      /\ Left(tx[t]) = ExcLevel(<<Current(t), tx[t].kind, 1>>)
  BY EvaluatedDown
<1>2. tx'[t] = Evaluated(t) /\ \A u \in Txs \ {t} : tx'[u] = tx[u]
  BY DEF LInv, IInv
<1>3. Left(tx[t]) \in Int
  BY LeftType DEF LInv
<1>4. \A x \in Rows : x[1] = Current(t) /\ x[2] = tx[t].kind =>
                         ExcLevel(x) = ExcLevel(<<Current(t), tx[t].kind, 1>>)
  BY DEF ExcLevel
<1>5. \A x \in Rows : exc'[x].by = exc[x].by
                       \/ (exc'[x].by = t /\ Left(tx'[t]) < ExcLevel(x))
  BY <1>1, <1>2, <1>4
<1>6. Left(tx'[t]) <= Left(tx[t]) /\ Left(tx'[t]) \in Int
  BY <1>1, <1>2, <1>3
<1>7. Downward(tx'[t]) /\ tx'[t].at # "idle" /\ tx[t].at # "idle"
  BY <1>1, <1>2
<1>8. \A s \in Ships : ship'[s].by = ship[s].by
  OBVIOUS
<1>9. QED
  BY <1>2, <1>5, <1>6, <1>7, <1>8, GoesDown

\* Insert and Mend write a row of the kind at hand.
LEMMA OneRowDown ==
    ASSUME LInv, IInv', NEW t \in Txs, tx[t].at \in {"exception", "mend"},
           NEW x, x[1] = Current(t), x[2] = tx[t].kind, NEW level \in Levels,
           exc' = [exc EXCEPT ![x] = Put(@, t, level)],
           tx' = [tx EXCEPT ![t] = Evaluated(t)], ship' = ship
    PROVE  LInv'
<1>1. ASSUME NEW k \in Rows
      PROVE  exc'[k].by = exc[k].by \/ (exc'[k].by = t /\ k = x)
  <2>1. exc[k] \in RowOf(Levels, Txs) /\ k \in DOMAIN exc
    BY DEF LInv, IInv, Rows
  <2>2. exc'[k] = IF k = x THEN Put(exc[k], t, level) ELSE exc[k]
    BY <2>1
  <2>3. Put(exc[k], t, level).by = t
    BY <2>1 DEF Put, RowOf
  <2>4. QED
    BY <2>2, <2>3
<1>2. QED
  BY <1>1, KindDown

LEMMA ProceedDown ==
    ASSUME LInv, IInv', NEW t \in Txs, Proceed(t)
    PROVE  LInv'
<1>0. tx[t] \in TxRecords /\ IInv
  BY DEF LInv, IInv
<1>1. CASE Write(t)
  <2> DEFINE s == tx[t].work[1]
             r == [tx[t] EXCEPT !.to = "NONE", !.stamp = Never, !.kept = Never]
             d == Decided(r, ship'[s].cur)
  <2>1. /\ tx[t].at = "write" /\ tx' = [tx EXCEPT ![t] = d] /\ exc' = exc
        /\ ship' = [ship EXCEPT ![s] = Put(@, t, Changed(Sees(@, t), t))]
    BY <1>1 DEF Write, At
  <2>2. tx[t].next = 1 /\ s = Current(t) /\ s \in Nat
    BY <2>1, LeftType DEF LInv, Downward, Current
  <2>3. /\ r \in TxRecords
        /\ r.work = tx[t].work /\ r.next = tx[t].next
    BY <1>0, TimesType DEF TxRecords, Requests, Statuses
  <2> HIDE DEF r
  <2>4. d \in TxRecords /\ d.at = "exception" /\ d.work = tx[t].work /\ d.next = tx[t].next
    BY <2>3, DecidedType
  <2> HIDE DEF d
  <2>5. Left(d) \in {4 * s + 1, 4 * s + 2} /\ Left(tx[t]) = 4 * s + 3
    BY <2>1, <2>2, <2>4 DEF Left, Stage, Rank
  <2>6. Downward(d)
    BY <2>4 DEF Downward, LInv
  <2>7. \A k \in Ships : ship'[k].by = ship[k].by \/ (ship'[k].by = t /\ k = s)
    <3>1. \A k \in Ships : ship[k] \in RowOf(Shipment, Txs) /\ k \in DOMAIN ship
      BY <1>0 DEF IInv
    <3>2. \A k \in Ships \ {s} : ship'[k] = ship[k]
      BY <2>1, <3>1
    <3>3. s \in Ships => ship'[s] = Put(ship[s], t, Changed(Sees(ship[s], t), t))
      BY <2>1, <3>1
    <3>4. s \in Ships => ship'[s].by = t
      BY <3>1, <3>3 DEF Put, RowOf
    <3>5. QED
      BY <3>2, <3>4
  <2>8. tx'[t] = d /\ \A u \in Txs \ {t} : tx'[u] = tx[u]
    BY <2>1, <1>0 DEF IInv
  <2>9. \A k \in Ships : ship'[k].by = ship[k].by
                          \/ (ship'[k].by = t /\ Left(tx'[t]) < ShipLevel(k))
    BY <2>2, <2>5, <2>7, <2>8 DEF ShipLevel
  <2>10. Left(tx'[t]) <= Left(tx[t]) /\ Left(tx'[t]) \in Int
    BY <2>2, <2>5, <2>8
  <2>11. Downward(tx'[t]) /\ tx'[t].at # "idle" /\ tx[t].at # "idle"
    BY <2>1, <2>4, <2>6, <2>8
  <2>12. \A x \in Rows : exc'[x].by = exc[x].by
    BY <2>1
  <2>13. QED
    BY <2>8, <2>9, <2>10, <2>11, <2>12, GoesDown
<1>2. CASE EvaluateNext(t)
  <2> DEFINE d == Decided(tx[t], ship[Current(t)].com)
  <2>1. tx[t].at = "evaluate" /\ tx' = [tx EXCEPT ![t] = d] /\ UNCHANGED <<ship, exc>>
    BY <1>2 DEF EvaluateNext, At
  <2>2. d \in TxRecords /\ d.at = "exception" /\ d.work = tx[t].work /\ d.next = tx[t].next
    BY <1>0, DecidedType
  <2> HIDE DEF d
  <2>3. Current(t) \in Nat /\ Current(t) = tx[t].work[tx[t].next]
    BY <1>0, <2>1, LeftType DEF Current
  <2>4. /\ Left(d) \in {4 * Current(t) + 1, 4 * Current(t) + 2}
        /\ Left(tx[t]) = 4 * Current(t) + 3
    BY <2>1, <2>2, <2>3 DEF Left, Stage, Rank
  <2>5. Downward(d)
    BY <2>2 DEF Downward, LInv
  <2>6. tx'[t] = d /\ \A u \in Txs \ {t} : tx'[u] = tx[u]
    BY <2>1, <1>0 DEF IInv
  <2>7. Left(tx'[t]) <= Left(tx[t]) /\ Left(tx'[t]) \in Int
    BY <2>3, <2>4, <2>6
  <2>8. Downward(tx'[t]) /\ tx'[t].at # "idle" /\ tx[t].at # "idle"
    BY <2>1, <2>2, <2>5, <2>6
  <2>9. /\ \A s \in Ships : ship'[s].by = ship[s].by
        /\ \A x \in Rows : exc'[x].by = exc[x].by
    BY <2>1
  <2>10. QED
    BY <2>6, <2>7, <2>8, <2>9, GoesDown
<1>3. CASE Resolve(t)
  <2>1. /\ tx[t].at = "exception" /\ tx' = [tx EXCEPT ![t] = Evaluated(t)] /\ ship' = ship
        /\ exc' = [x \in DOMAIN exc |-> IF x \in Open(t) THEN Put(exc[x], t, "NONE") ELSE exc[x]]
    BY <1>3 DEF Resolve, At
  <2>2. \A x \in Open(t) : x[1] = Current(t) /\ x[2] = tx[t].kind
    BY DEF Open
  <2>3. ASSUME NEW x \in Rows
        PROVE  exc'[x].by = exc[x].by \/ (exc'[x].by = t /\ x \in Open(t))
    <3>1. exc[x] \in RowOf(Levels, Txs) /\ x \in DOMAIN exc
      BY <1>0 DEF IInv, Rows
    <3>2. exc'[x] = IF x \in Open(t) THEN Put(exc[x], t, "NONE") ELSE exc[x]
      BY <2>1, <3>1
    <3>3. Put(exc[x], t, "NONE").by = t
      BY <3>1 DEF Put, RowOf
    <3>4. QED
      BY <3>2, <3>3
  <2>4. QED
    BY <2>1, <2>2, <2>3, KindDown
<1>4. WantedNow(t) \in Levels /\ "NONE" \in Levels
  BY <1>0, LevelNow DEF Levels
<1>5. CASE Insert(t)
  <2> DEFINE mine == CHOOSE x \in Unused(t) : TRUE
  <2>1. /\ tx[t].at = "exception" /\ tx' = [tx EXCEPT ![t] = Evaluated(t)] /\ ship' = ship
        /\ exc' = [exc EXCEPT ![mine] = Put(@, t, WantedNow(t))]
        /\ mine \in Unused(t)
    BY <1>5 DEF Insert, At
  <2> HIDE DEF mine
  <2>2. mine[1] = Current(t) /\ mine[2] = tx[t].kind
    BY <2>1 DEF Unused
  <2>3. QED
    BY <1>4, <2>1, <2>2, OneRowDown
<1>6. CASE Find(t)
  <2>1. PICK y \in Open(t) : tx' = [tx EXCEPT ![t].at = "mend", ![t].found = y[3]]
    BY <1>6 DEF Find
  <2> DEFINE r == [tx[t] EXCEPT !.at = "mend", !.found = y[3]]
  <2>2. tx[t].at = "exception" /\ tx' = [tx EXCEPT ![t] = r] /\ UNCHANGED <<ship, exc>>
    BY <1>0, <1>6, <2>1 DEF Find, IInv, At
  <2>3. r.at = "mend" /\ r.found \in Slots /\ r.work = tx[t].work /\ r.next = tx[t].next /\ r.kind = tx[t].kind
    BY <1>0, <2>1 DEF TxRecords, Open
  <2> HIDE DEF r
  <2>4. Left(r) = Left(tx[t]) /\ Left(tx[t]) \in Int
    BY <1>0, <2>2, <2>3, LeftType DEF Left, Stage
  <2>5. Downward(r)
    BY <2>3 DEF Downward, LInv
  <2>6. tx'[t] = r /\ \A u \in Txs \ {t} : tx'[u] = tx[u]
    BY <2>2, <1>0 DEF IInv
  <2>7. Left(tx'[t]) <= Left(tx[t]) /\ Left(tx'[t]) \in Int
    BY <2>4, <2>6
  <2>8. Downward(tx'[t]) /\ tx'[t].at # "idle" /\ tx[t].at # "idle"
    BY <2>2, <2>3, <2>5, <2>6
  <2>9. /\ \A s \in Ships : ship'[s].by = ship[s].by
        /\ \A x \in Rows : exc'[x].by = exc[x].by
    BY <2>2
  <2>10. QED
    BY <2>6, <2>7, <2>8, <2>9, GoesDown
<1>7. CASE Mend(t)
  <2> DEFINE x == <<Current(t), tx[t].kind, tx[t].found>>
             level == IF Sees(exc[x], t) = "NONE" THEN "NONE" ELSE WantedNow(t)
  <2>1. /\ tx[t].at = "mend" /\ tx' = [tx EXCEPT ![t] = Evaluated(t)] /\ ship' = ship
        /\ exc' = [exc EXCEPT ![x] = Put(@, t, level)]
    BY <1>7 DEF Mend, At
  <2>2. x[1] = Current(t) /\ x[2] = tx[t].kind /\ level \in Levels
    BY <1>4
  <2> HIDE DEF x, level
  <2>3. QED
    BY <2>1, <2>2, OneRowDown
<1>8. CASE Commit(t)
  BY <1>8, EndsDown DEF Commit, CommitAll, Committed, Row
<1>9. QED
  BY <1>1, <1>2, <1>3, <1>5, <1>6, <1>7, <1>8 DEF Proceed

LEMMA NextDown ==
    ASSUME LInv, IInv', [Next]_vars
    PROVE  LInv'
<1>1. CASE UNCHANGED vars
  BY <1>1 DEF LInv, vars
<1>2. CASE Tick
  <2>1. /\ tx' = [t \in Txs |-> IF tx[t].at = "idle" THEN tx[t] ELSE [tx[t] EXCEPT !.alone = FALSE]]
        /\ UNCHANGED <<ship, exc>>
    BY <1>2 DEF Tick, At
  <2>2. \A q \in TxRecords : Alike(q, [q EXCEPT !.alone = FALSE]) /\ Alike(q, q)
    BY DEF TxRecords, Alike
  <2>3. \A u \in Txs : Alike(tx[u], tx'[u])
    BY <2>1, <2>2 DEF LInv, IInv
  <2>4. QED
    BY <2>1, <2>3, AlikeStays DEF LInv
<1>3. ASSUME NEW s \in Ships, Create(s)
      PROVE  LInv'
  <2>1. tx' = tx /\ exc' = exc /\ ship' = [ship EXCEPT ![s] = Row([NoShipment EXCEPT !.status = "CREATED", !.last = now])]
    BY <1>3 DEF Create
  <2>2. \A k \in Ships : ship'[k].by \in {ship[k].by, NoTx}
    BY <2>1 DEF LInv, IInv, Row
  <2>3. QED
    BY <2>1, <2>2, NoTxAssumption DEF LInv
<1>4. CASE \E t \in Txs : Abort(t)
  BY <1>4, EndsDown DEF Abort
<1>5. QED
  BY <1>1, <1>2, <1>3, <1>4, RequestDown, ProceedDown DEF Next

\* Whoever a transaction waits for is further down.
LEMMA WaitsBelow ==
    ASSUME LInv, NEW t \in Txs, NEW u \in Txs, WaitsFor(t, u)
    PROVE  Left(tx[t]) \in Nat /\ Left(tx[u]) \in Nat /\ Left(tx[u]) < Left(tx[t])
<1>1. IInv /\ u \in Holders(t)
  BY DEF LInv, WaitsFor
<1>2. tx[t].at \in {"write", "mend", "exception"}
  BY <1>1 DEF Holders, At
<1>3. Current(t) \in Ships /\ Current(t) \in Nat
  BY <1>1, <1>2, AtHand, ShipsFinite DEF At
<1>4. CASE tx[t].at = "write"
  <2>1. ship[Current(t)].by = u
    BY <1>1, <1>4 DEF Holders, At
  <2>2. Below(tx[u], ShipLevel(Current(t)))
    BY <1>3, <2>1 DEF LInv
  <2>3. Left(tx[t]) = ShipLevel(Current(t))
    BY <1>3, <1>4 DEF Left, Stage, ShipLevel, Current
  <2>4. QED
    BY <1>1, <1>2, <2>2, <2>3, LeftType DEF Below
<1>5. CASE tx[t].at # "write"
  <2>1. PICK x : /\ exc[x].by = u /\ x[1] = Current(t) /\ x[2] = tx[t].kind
                 /\ x \in Rows
    <3>1. tx[t].kind \in Kinds
      BY <1>1 DEF IInv, TxRecords
    <3>2. CASE tx[t].at = "mend"
      BY <1>1, <1>3, <3>1, <3>2 DEF Holders, At, Rows, LInv, Downward
    <3>3. CASE tx[t].at = "exception"
      <4>1. PICK x \in Open(t) : exc[x].by = u
        BY <1>1, <3>3 DEF Holders, At
      <4>2. QED
        BY <1>3, <3>1, <4>1 DEF Open, Rows
    <3>4. QED
      BY <1>2, <1>5, <3>2, <3>3
  <2>2. Below(tx[u], ExcLevel(x))
    BY <2>1 DEF LInv
  <2>3. Left(tx[t]) = ExcLevel(x)
    BY <1>2, <1>3, <1>5, <2>1 DEF Left, Stage, ExcLevel, Current
  <2>4. QED
    BY <1>1, <1>2, <2>2, <2>3, LeftType DEF Below
<1>6. QED
  BY <1>4, <1>5

LEMMA NoCircle == LInv => LoadsNeverDeadlock
<1> SUFFICES ASSUME LInv, NEW S \in SUBSET Txs, Deadlocked(S, WaitsFor)
             PROVE  FALSE
  BY DEF LoadsNeverDeadlock
<1>1. S # {} /\ \A t \in S : \E u \in S \ {t} : WaitsFor(t, u)
  BY DEF Deadlocked
<1> DEFINE T == {Left(tx[t]) : t \in S}
<1>2. T \subseteq Nat /\ T # {}
  BY <1>1, WaitsBelow
<1>3. \E m \in T : \A n \in T : ~ (<<n, m>> \in OpToRel(<, Nat))
  <2> HIDE DEF T
  <2>1. QED
    BY <1>2, NatLessThanWellFounded, WFMin
<1>4. PICK t \in S : \A n \in T : ~ (n < Left(tx[t]))
  BY <1>2, <1>3 DEF OpToRel
<1>5. PICK u \in S : WaitsFor(t, u)
  BY <1>1
<1>6. Left(tx[u]) < Left(tx[t])
  BY <1>5, WaitsBelow
<1>7. QED
  BY <1>4, <1>6

LEMMA InitLInv ==
    ASSUME Init
    PROVE  LInv
<1>1. Downward(Idle)
  BY DEF Downward, Idle
<1>2. \A s \in Ships : ship[s].by = NoTx
  BY DEF Init, Row
<1>3. \A x \in Rows : exc[x].by = NoTx
  BY DEF Init, Row, Rows
<1>4. \A t \in Txs : Downward(tx[t])
  BY <1>1 DEF Init
<1>5. QED
  BY <1>2, <1>3, <1>4, InitIInv, NoTxAssumption DEF LInv

LEMMA NextLInv ==
    ASSUME LInv, [Next]_vars
    PROVE  LInv'
BY NextIInv, NextDown DEF LInv

\* Page loads, of any number of shipments, and changes never wait for each
\* other in a circle, however many connections there are.
THEOREM NeverDeadlocked == Spec => []LoadsNeverDeadlock
<1>1. Init => LInv
  BY InitLInv
<1>2. LInv /\ [Next]_vars => LInv'
  BY NextLInv
<1>3. LInv => LoadsNeverDeadlock
  BY NoCircle
<1>4. QED
  BY <1>1, <1>2, <1>3, PTL DEF Spec

-----------------------------------------------------------------------------
(***************************************************************************)
(* What requests that take turns on a shipment leave behind.               *)
(*                                                                         *)
(* A transaction that shares a shipment with no other owns the shipment's  *)
(* row and its exceptions: whatever it sees stays true until it ends.  The *)
(* invariant says what it has read, what it has settled so far, and that   *)
(* both versions of the rows are in order.                                 *)
(***************************************************************************)


-----------------------------------------------------------------------------
(* The inductive invariant.                                                *)

Over(v) == v.status \notin ACTIVE_STATUSES

\* The times of a version of a shipment are in order, none is ahead of the
\* clock, and none is set before the status says so.
Ordered(v, time) ==
    /\ v.status \in {"NONE", "CREATED", "BOOKED"} => v.departed = Never
    /\ v.status \in {"NONE", "CREATED", "BOOKED", "IN_TRANSIT", "CANCELLED"} => v.arrived = Never
    /\ v.status # "DELIVERED" => v.delivered = Never
    /\ v.departed <= time /\ v.arrived <= time /\ v.delivered <= time
    /\ v.arrived # Never => v.departed # Never /\ v.departed <= v.arrived
    /\ v.delivered # Never => v.arrived <= v.delivered

\* v has become w by a step of the lifecycle, or has kept its status.
Moved(v, w) ==
    /\ v.status # w.status => <<v.status, w.status>> \in ShipmentTransitions
    /\ v.delivered # Never => w.delivered = v.delivered

\* The exceptions of a shipment in a table, by kind and slot.
File(table, s) == [k \in Kinds |-> [i \in Slots |-> table[<<s, k, i>>]]]

\* At most one exception of a kind is open, before and after the commit of
\* the transaction at work, and none if the shipment is over.
Tidy(row, file) ==
    \A k \in Kinds :
        /\ \A i, j \in Slots :
            /\ file[k][i].com # "NONE" /\ file[k][j].com # "NONE" => i = j
            /\ file[k][i].cur # "NONE" /\ file[k][j].cur # "NONE" => i = j
        /\ Over(row.com) => \A i \in Slots : file[k][i].com = "NONE"

Orderly(row, file, time) ==
    /\ Ordered(row.com, time) /\ Ordered(row.cur, time)
    /\ Moved(row.com, row.cur)
    /\ Tidy(row, file)

\* r is deciding on the exceptions of s.
Handles(r, s) == r.at \in {"exception", "mend"} /\ r.work[r.next] = s

\* r has done its part for the exceptions of kind k of s.
Settled(r, s, k) ==
    \E i \in DOMAIN r.work :
        /\ r.work[i] = s
        /\ \/ i < r.next
           \/ i = r.next /\ r.at = "commit"
           \/ /\ i = r.next /\ r.at \in {"exception", "mend"}
              /\ r.kind = "TRACKING_STALE" /\ k = "ETA_EXCEEDED"

\* What a request has read when it is about to change a status.
Permitted(r, v, time) ==
    /\ <<v.status, r.to>> \in ShipmentTransitions
    /\ r.stamp \in 0 .. time /\ v.departed <= r.stamp /\ v.arrived <= r.stamp
    /\ r.kept = IF r.to = "IN_TRANSIT" THEN v.departed ELSE v.arrived

NoneOpen(rows) == \A i \in Slots : rows[i].cur = "NONE"

\* r takes its turn on s.
Turn(r, s, row, file, time) ==
    /\ r.at = "write" /\ r.work[1] = s /\ r.to \in Statuses => Permitted(r, row.com, time)
    /\ Over(row.cur) =>
        \A k \in Kinds : /\ Handles(r, s) => r.want[k] = "NONE"
                         /\ Settled(r, s, k) => NoneOpen(file[k])

\* The transaction at work leaves the exceptions of a kind as they were.
Kept(rows) == \A i \in Slots : rows[i].cur = rows[i].com

\* It closes those of a kind that is not wanted; else it brings one that was
\* open, or a new one if there was none, to the level, and keeps the others.
Matches(rows, level) ==
    IF level = "NONE" THEN NoneOpen(rows)
    ELSE \E i \in Slots :
            /\ rows[i].cur = level
            /\ rows[i].com # "NONE" \/ \A j \in Slots : rows[j].com = "NONE"
            /\ \A j \in Slots \ {i} : rows[j].cur = rows[j].com

\* r has been alone with s, and no time has passed.
Heals(r, s, row, file, time) ==
    /\ Handles(r, s) => r.want = Wanted(row.cur, time)
    /\ Handles(r, s) /\ r.at = "mend" => file[r.kind][r.found].cur # "NONE"
    /\ \A k \in Kinds : Settled(r, s, k) => Matches(file[k], Wanted(row.cur, time)[k])
    /\ \A k \in Kinds : ~ Settled(r, s, k) => Kept(file[k])

\* Where a transaction stands.
Placed(r) ==
    /\ r.at = "idle" => r.work = <<>>
    /\ r.at \in {"write", "evaluate"} => r.kind = "ETA_EXCEEDED"
    /\ r.at = "commit" => r.next = Len(r.work)
    /\ r.at = "mend" => r.want[r.kind] # "NONE"

\* A row nobody holds has one version; whoever holds one works on its shipment.
AtRest ==
    /\ \A s \in Ships : ship[s].by = NoTx => ship[s].cur = ship[s].com
    /\ \A x \in Rows : exc[x].by = NoTx => exc[x].cur = exc[x].com

HeldInScope ==
    /\ \A t \in Txs, s \in Ships : ship[s].by = t => s \in Scope(t)
    /\ \A t \in Txs, x \in Rows : exc[x].by = t => x[1] \in Scope(t)

\* Nobody else works on s while t does.
Owns(t, s) == s \in Scope(t) /\ (calm[s] \/ tx[t].alone)

Apart == \A t, u \in Txs, s \in Ships : Owns(t, s) /\ u # t => s \notin Scope(u)

InPlace == \A t \in Txs : Placed(tx[t])

InOrder == \A s \in Ships : calm[s] => Orderly(ship[s], File(exc, s), now)

TakingTurns ==
    \A t \in Txs, s \in Ships :
        s \in Scope(t) /\ calm[s] => Turn(tx[t], s, ship[s], File(exc, s), now)

Healing ==
    \A t \in Txs, s \in Ships :
        s \in Scope(t) /\ tx[t].alone => Heals(tx[t], s, ship[s], File(exc, s), now)

TInv ==
    /\ LInv
    /\ AtRest /\ HeldInScope /\ Apart /\ InPlace
    /\ InOrder /\ TakingTurns /\ Healing

-----------------------------------------------------------------------------
(* What follows from the invariant in a state.                             *)

LEMMA ScopeOf ==
    ASSUME IInv, NEW t \in Txs
    PROVE  /\ tx[t] \in TxRecords
           /\ Scope(t) = {tx[t].work[i] : i \in DOMAIN tx[t].work}
           /\ Scope(t) \subseteq Existing
           /\ Scope(t) \subseteq Ships
           /\ ~ At(t, "idle") => Current(t) \in Scope(t) /\ Current(t) \in Ships
<1>1. /\ tx[t] \in TxRecords /\ Ready(tx[t], ship)
      /\ \A i \in DOMAIN tx[t].work : tx[t].work[i] \in Ships
      /\ ~ At(t, "idle") => tx[t].next \in DOMAIN tx[t].work /\ Current(t) \in Ships
  BY AtHand
<1>2. Scope(t) \subseteq Existing
  BY <1>1 DEF Scope, Existing, Ready
<1>3. ~ At(t, "idle") => Current(t) \in Scope(t)
  BY <1>1 DEF Current, Scope
<1>4. QED
  BY <1>1, <1>2, <1>3 DEF Scope, Existing

LEMMA TInvTypes ==
    ASSUME TInv
    PROVE  /\ IInv
           /\ \A s \in Ships : ship[s] \in RowOf(Shipment, Txs)
           /\ \A x \in Rows : exc[x] \in RowOf(Levels, Txs)
           /\ \A s \in Ships, k \in Kinds, i \in Slots :
                 <<s, k, i>> \in Rows /\ File(exc, s)[k][i] = exc[<<s, k, i>>]
BY DEF TInv, LInv, IInv, File, Rows

\* The rows of a shipment that t owns are held by t or by nobody, and t sees
\* their current version.
LEMMA Owned ==
    ASSUME TInv, NEW t \in Txs, NEW s \in Ships, Owns(t, s)
    PROVE  /\ ship[s].by \in {t, NoTx} /\ Sees(ship[s], t) = ship[s].cur
           /\ \A x \in Rows : x[1] = s => exc[x].by \in {t, NoTx} /\ Sees(exc[x], t) = exc[x].cur
<1>1. \A u \in Txs : u # t => s \notin Scope(u)
  BY DEF TInv, Apart
<1>2. ship[s].by \in {t, NoTx}
  <2>1. ship[s].by \in Txs \cup {NoTx}
    BY TInvTypes DEF RowOf
  <2>2. QED
    BY <1>1, <2>1 DEF TInv, HeldInScope
<1>3. ASSUME NEW x \in Rows, x[1] = s
      PROVE  exc[x].by \in {t, NoTx}
  <2>1. exc[x].by \in Txs \cup {NoTx}
    BY TInvTypes DEF RowOf
  <2>2. QED
    BY <1>1, <1>3, <2>1 DEF TInv, HeldInScope
<1>4. QED
  BY <1>2, <1>3, NoTxAssumption DEF TInv, AtRest, Sees

\* Nobody holds a row of a shipment that nobody works on.
LEMMA Unheld ==
    ASSUME TInv, NEW s \in Ships, \A t \in Txs : s \notin Scope(t)
    PROVE  /\ ship[s].by = NoTx /\ ship[s].cur = ship[s].com
           /\ \A k \in Kinds : Kept(File(exc, s)[k])
<1>1. ship[s].by \in Txs \cup {NoTx}
  BY TInvTypes DEF RowOf
<1>2. ASSUME NEW k \in Kinds, NEW i \in Slots
      PROVE  File(exc, s)[k][i].cur = File(exc, s)[k][i].com
  <2>1. <<s, k, i>> \in Rows /\ File(exc, s)[k][i] = exc[<<s, k, i>>]
    BY DEF File, Rows
  <2>2. exc[<<s, k, i>>].by \in Txs \cup {NoTx}
    BY <2>1, TInvTypes DEF RowOf
  <2>3. \A t \in Txs : exc[<<s, k, i>>].by # t
    BY <2>1 DEF TInv, HeldInScope
  <2>4. QED
    BY <2>1, <2>2, <2>3 DEF TInv, AtRest
<1>3. \A k \in Kinds : Kept(File(exc, s)[k])
  BY <1>2 DEF Kept
<1>4. QED
  BY <1>1, <1>3 DEF TInv, HeldInScope, AtRest

\* Whether a transaction takes its turn, heals and is in its place does not
\* depend on its being alone.
Same(q, r) ==
    /\ q.at = r.at /\ q.to = r.to /\ q.stamp = r.stamp /\ q.kept = r.kept
    /\ q.work = r.work /\ q.next = r.next /\ q.kind = r.kind
    /\ q.want = r.want /\ q.found = r.found

LEMMA SameStays ==
    ASSUME NEW q, NEW r, Same(q, r)
    PROVE  /\ Placed(q) => Placed(r)
           /\ \A s, row, file, time :
                 /\ Turn(q, s, row, file, time) => Turn(r, s, row, file, time)
                 /\ Heals(q, s, row, file, time) => Heals(r, s, row, file, time)
<1>1. Placed(q) => Placed(r)
  BY DEF Same, Placed
<1>2. \A s, k : Settled(q, s, k) <=> Settled(r, s, k)
  BY DEF Same, Settled
<1>3. \A s : Handles(q, s) <=> Handles(r, s)
  BY DEF Same, Handles
<1>4. \A v, time : Permitted(q, v, time) => Permitted(r, v, time)
  BY DEF Same, Permitted
<1>5. ASSUME NEW s, NEW row, NEW file, NEW time, Turn(q, s, row, file, time)
      PROVE  Turn(r, s, row, file, time)
  BY <1>2, <1>3, <1>4, <1>5 DEF Same, Turn
<1>6. ASSUME NEW s, NEW row, NEW file, NEW time, Heals(q, s, row, file, time)
      PROVE  Heals(r, s, row, file, time)
  BY <1>2, <1>3, <1>6 DEF Same, Heals
<1>7. QED
  BY <1>1, <1>5, <1>6

\* A clock that moves on leaves what is in order so.
LEMMA OrderLasts ==
    ASSUME NEW row \in RowOf(Shipment, Txs), NEW file, NEW m \in Nat, NEW n \in Nat, m <= n,
           Orderly(row, file, m)
    PROVE  Orderly(row, file, n)
<1>1. \A v \in Shipment : /\ v.departed \in Int /\ v.arrived \in Int /\ v.delivered \in Int
  BY DEF Shipment, Times, Never
<1>2. ASSUME NEW v \in Shipment, Ordered(v, m) PROVE Ordered(v, n)
  <2>1. v.departed <= n /\ v.arrived <= n /\ v.delivered <= n
    BY <1>1, <1>2 DEF Ordered
  <2>2. QED
    BY <1>2, <2>1 DEF Ordered
<1>3. row.com \in Shipment /\ row.cur \in Shipment
  BY DEF RowOf
<1>4. QED
  BY <1>2, <1>3 DEF Orderly

LEMMA TurnLasts ==
    ASSUME NEW r \in TxRecords, NEW s, NEW row, NEW file, NEW m \in Nat, NEW n \in Nat, m <= n,
           Turn(r, s, row, file, m)
    PROVE  Turn(r, s, row, file, n)
<1>1. r.stamp \in 0 .. m => r.stamp \in 0 .. n
  OBVIOUS
<1>2. QED
  BY <1>1 DEF Turn, Permitted

-----------------------------------------------------------------------------
(* A transaction that works, or ends.                                      *)

\* A step of t that works on its own shipments: what it owes is that its rows
\* are at rest or held in its scope, in order where nobody overlapped, and
\* that its record says what it has read and done.
LEMMA WorksOn ==
    ASSUME TInv, LInv', NEW t \in Txs, NEW q \in TxRecords,
           tx' = [tx EXCEPT ![t] = q], UNCHANGED <<now, calm>>,
           Placed(q),
           q.work = tx[t].work /\ q.alone = tx[t].alone,
           AtRest', HeldInScope',
           \A s \in Ships \ Scope(t) :
               ship'[s] = ship[s] /\ File(exc', s) = File(exc, s),
           \A s \in Ships : s \in Scope(t) /\ calm[s] =>
               /\ Orderly(ship'[s], File(exc', s), now)
               /\ Turn(q, s, ship'[s], File(exc', s), now),
           \A s \in Ships : s \in Scope(t) /\ tx[t].alone =>
               Heals(q, s, ship'[s], File(exc', s), now)
    PROVE  TInv'
<1>1. tx'[t] = q /\ \A u \in Txs \ {t} : tx'[u] = tx[u]
  BY TInvTypes DEF IInv
<1>2. \A u \in Txs : Scope(u)' = Scope(u)
  BY <1>1 DEF Scope
<1>3. \A u \in Txs, s \in Ships : Owns(u, s)' <=> Owns(u, s)
  BY <1>1, <1>2 DEF Owns
<1>4. Apart'
  BY <1>2, <1>3 DEF TInv, Apart
<1>5. InPlace'
  BY <1>1 DEF TInv, InPlace
<1>6. InOrder'
  BY DEF TInv, InOrder
<1>7. ASSUME NEW u \in Txs \ {t}, NEW s \in Ships, Owns(u, s)
      PROVE  s \in Ships \ Scope(t)
  BY <1>7 DEF TInv, Apart
<1>8. TakingTurns'
  <2> SUFFICES ASSUME NEW u \in Txs, NEW s \in Ships, s \in Scope(u)', calm'[s]
               PROVE  Turn(tx'[u], s, ship'[s], File(exc', s), now')
    BY DEF TakingTurns
  <2>1. s \in Scope(u) /\ calm[s] /\ Owns(u, s)
    BY <1>2 DEF Owns
  <2>2. CASE u = t
    BY <2>1, <2>2, <1>1
  <2>3. CASE u # t
    <3>1. Turn(tx[u], s, ship[s], File(exc, s), now)
      BY <2>1 DEF TInv, TakingTurns
    <3>2. QED
      BY <2>1, <2>3, <3>1, <1>1, <1>7
  <2>4. QED
    BY <2>2, <2>3
<1>9. Healing'
  <2> SUFFICES ASSUME NEW u \in Txs, NEW s \in Ships, s \in Scope(u)', tx'[u].alone
               PROVE  Heals(tx'[u], s, ship'[s], File(exc', s), now')
    BY DEF Healing
  <2>1. s \in Scope(u)
    BY <1>2
  <2>2. CASE u = t
    BY <2>1, <2>2, <1>1
  <2>3. CASE u # t
    <3>1. tx[u].alone /\ Owns(u, s)
      BY <2>1, <2>3, <1>1 DEF Owns
    <3>2. Heals(tx[u], s, ship[s], File(exc, s), now)
      BY <2>1, <3>1 DEF TInv, Healing
    <3>3. QED
      BY <2>3, <3>1, <3>2, <1>1, <1>7
  <2>4. QED
    BY <2>2, <2>3
<1>10. QED
  BY <1>4, <1>5, <1>6, <1>8, <1>9 DEF TInv

\* A row stays at rest or held in scope if t writes it or leaves it alone.
LEMMA HoldsIn ==
    ASSUME TInv, NEW t \in Txs, NEW q \in TxRecords,
           tx' = [tx EXCEPT ![t] = q], q.work = tx[t].work,
           \A s \in Ships : ship'[s] = ship[s] \/ (ship'[s].by = t /\ s \in Scope(t)),
           \A x \in Rows : exc'[x] = exc[x] \/ (exc'[x].by = t /\ x[1] \in Scope(t))
    PROVE  AtRest' /\ HeldInScope'
<1>1. tx'[t] = q /\ \A u \in Txs \ {t} : tx'[u] = tx[u]
  BY TInvTypes DEF IInv
<1>2. \A u \in Txs : Scope(u)' = Scope(u)
  BY <1>1 DEF Scope
<1>3. AtRest'
  BY NoTxAssumption DEF TInv, AtRest
<1>4. HeldInScope'
  BY <1>2 DEF TInv, HeldInScope
<1>5. QED
  BY <1>3, <1>4

\* What a transaction that is to read a shipment has settled: those before it.
LEMMA SettledBefore ==
    ASSUME NEW q, NEW r, q.work = r.work, q.next = r.next, q.at = "exception",
           q.kind = "ETA_EXCEEDED", NEW s, NEW k, Settled(q, s, k)
    PROVE  Settled(r, s, k)
BY DEF Settled

\* It has lost nothing by that.
LEMMA SettledStill ==
    ASSUME NEW q, NEW r, q.work = r.work, q.next = r.next, r.at \notin {"exception", "mend", "commit"},
           NEW s, NEW k, Settled(r, s, k)
    PROVE  Settled(q, s, k)
BY DEF Settled

\* Deciding for what t reads.
LEMMA Decides ==
    ASSUME NEW r \in TxRecords, NEW v
    PROVE  LET d == Decided(r, v)
           IN  /\ d \in TxRecords
               /\ d.at = "exception" /\ d.want = Wanted(v, now)
               /\ d.work = r.work /\ d.next = r.next /\ d.kind = r.kind /\ d.alone = r.alone
               /\ Over(v) => \A k \in Kinds : d.want[k] = "NONE"
<1> DEFINE d == Decided(r, v)
<1>1. d \in TxRecords
  BY DecidedType
<1>2. /\ d.at = "exception" /\ d.want = Wanted(v, now)
      /\ d.work = r.work /\ d.next = r.next /\ d.kind = r.kind /\ d.alone = r.alone
  BY DEF Decided, TxRecords
<1>3. Over(v) => \A k \in Kinds : Wanted(v, now)[k] = "NONE"
  BY DEF Over, Wanted
<1> HIDE DEF d
<1>4. QED
  BY <1>1, <1>2, <1>3 DEF d

LEMMA EvaluateNextTurns ==
    ASSUME TInv, LInv', NEW t \in Txs, EvaluateNext(t)
    PROVE  TInv'
<1> DEFINE c == Current(t)
           d == Decided(tx[t], ship[c].com)
<1>1. /\ tx[t].at = "evaluate" /\ tx' = [tx EXCEPT ![t] = d]
      /\ UNCHANGED <<now, ship, exc, calm>>
  BY DEF EvaluateNext, At
<1>2. tx[t] \in TxRecords /\ c \in Scope(t) /\ c \in Ships
  BY <1>1, TInvTypes, ScopeOf DEF At
<1>3. tx[t].kind = "ETA_EXCEEDED" /\ c = tx[t].work[tx[t].next]
  BY <1>1 DEF TInv, InPlace, Placed, Current
<1> HIDE DEF c
<1>4. /\ d \in TxRecords
      /\ d.at = "exception" /\ d.want = Wanted(ship[c].com, now)
      /\ d.work = tx[t].work /\ d.next = tx[t].next /\ d.kind = tx[t].kind
      /\ d.alone = tx[t].alone
      /\ Over(ship[c].com) => \A k \in Kinds : d.want[k] = "NONE"
  BY <1>2, Decides
<1> HIDE DEF d
<1>5. Owns(t, c) => ship[c].cur = ship[c].com
  <2> SUFFICES ASSUME Owns(t, c) PROVE ship[c].cur = ship[c].com
    OBVIOUS
  <2>1. ship[c].by # t
    <3>1. Left(tx[t]) = 4 * c + 3 /\ c \in Nat
      BY <1>1, <1>2, LeftType, TInvTypes DEF Stage, c
    <3>2. ship[c].by = t => Below(tx[t], ShipLevel(c))
      BY <1>2 DEF TInv, LInv
    <3>3. QED
      BY <3>1, <3>2 DEF Below, ShipLevel
  <2>2. QED
    BY <1>2, <2>1, Owned DEF TInv, AtRest
<1>6. AtRest' /\ HeldInScope'
  BY <1>1, <1>4, HoldsIn
<1>7. Placed(d)
  BY <1>4 DEF Placed
<1>8. \A s, k : Settled(d, s, k) <=> Settled(tx[t], s, k)
  BY <1>1, <1>3, <1>4, SettledBefore, SettledStill
<1>9. \A s : Handles(d, s) => s = c
  BY <1>3, <1>4 DEF Handles
<1>10. ASSUME NEW s \in Ships, s \in Scope(t), calm[s]
       PROVE  Turn(d, s, ship[s], File(exc, s), now)
  <2>1. Turn(tx[t], s, ship[s], File(exc, s), now)
    BY <1>10 DEF TInv, TakingTurns
  <2>2. Handles(d, s) /\ Over(ship[s].cur) => \A k \in Kinds : d.want[k] = "NONE"
    BY <1>4, <1>5, <1>9, <1>10 DEF Owns
  <2>3. QED
    BY <2>1, <2>2, <1>4, <1>8 DEF Turn
<1>11. ASSUME NEW s \in Ships, s \in Scope(t), tx[t].alone
       PROVE  Heals(d, s, ship[s], File(exc, s), now)
  <2>1. Heals(tx[t], s, ship[s], File(exc, s), now)
    BY <1>11 DEF TInv, Healing
  <2>2. Handles(d, s) => d.want = Wanted(ship[s].cur, now)
    BY <1>4, <1>5, <1>9, <1>11 DEF Owns
  <2>3. QED
    BY <2>1, <2>2, <1>4, <1>8 DEF Heals
<1>12. ASSUME NEW s \in Ships, calm[s] PROVE Orderly(ship[s], File(exc, s), now)
  BY <1>12 DEF TInv, InOrder
<1>13. QED
  BY <1>1, <1>4, <1>6, <1>7, <1>10, <1>11, <1>12, WorksOn

-----------------------------------------------------------------------------
(* A change, where requests take turns.                                    *)

LEMMA ChangedOrder ==
    ASSUME NEW t \in Txs, tx[t] \in TxRecords, tx[t].to \in Targets, now \in Nat,
           NEW v \in Shipment, Ordered(v, now), Backed(v),
           tx[t].to \in Statuses => Permitted(tx[t], v, now)
    PROVE  Ordered(Changed(v, t), now) /\ Moved(v, Changed(v, t))
<1> DEFINE to == tx[t].to
           stamp == tx[t].stamp
           kept == tx[t].kept
           dated == [v EXCEPT !.last = stamp]
           first == Or(kept, stamp)
           w == Changed(v, t)
<1>1. v.departed \in Int /\ v.arrived \in Int /\ v.delivered \in Int
  BY DEF Shipment, Times, Never
<1>2. /\ dated.status = v.status /\ dated.departed = v.departed
      /\ dated.arrived = v.arrived /\ dated.delivered = v.delivered
      /\ dated \in [status : Statuses, eta : Times, last : {stamp}, departed : Times,
                    arrived : Times, delivered : Times]
  BY DEF Shipment
<1> HIDE DEF dated
<1>3. CASE to \in {"EVENT", "ETA"}
  <2>1. w = dated \/ w = [dated EXCEPT !.eta = kept]
    BY <1>3 DEF Changed, dated, stamp, kept
  <2>2. /\ w.status = v.status /\ w.departed = v.departed
        /\ w.arrived = v.arrived /\ w.delivered = v.delivered
    BY <1>2, <2>1
  <2>3. QED
    BY <2>2 DEF Ordered, Moved
<1>4. CASE to \in Statuses
  <2>1. /\ <<v.status, to>> \in ShipmentTransitions
        /\ stamp \in Nat /\ stamp <= now /\ stamp # Never
        /\ v.departed <= stamp /\ v.arrived <= stamp
        /\ kept = IF to = "IN_TRANSIT" THEN v.departed ELSE v.arrived
    BY <1>4 DEF Permitted, Never
  <2> HIDE DEF stamp, kept
  <2>2. CASE to = "IN_TRANSIT"
    <3>1. v.status = "BOOKED" /\ kept = Never /\ first = stamp
      BY <2>1, <2>2 DEF ShipmentTransitions, Ordered, Or
    <3>2. w = [dated EXCEPT !.status = to, !.departed = first]
      BY <2>2 DEF Changed, dated, stamp, kept, first
    <3>3. /\ w.status = to /\ w.departed = stamp
          /\ w.arrived = v.arrived /\ w.delivered = v.delivered
      BY <1>2, <3>1, <3>2
    <3>4. v.arrived = Never /\ v.delivered = Never
      BY <3>1 DEF Ordered
    <3>5. Ordered(w, now)
      BY <2>1, <2>2, <3>3, <3>4 DEF Ordered, Never
    <3>6. Moved(v, w)
      BY <2>1, <3>3, <3>4 DEF Moved
    <3>7. QED
      BY <3>5, <3>6
  <2>3. CASE to = "ARRIVED"
    <3>1. v.status = "IN_TRANSIT" /\ kept = Never /\ first = stamp
      BY <2>1, <2>3 DEF ShipmentTransitions, Ordered, Or
    <3>2. w = [dated EXCEPT !.status = to, !.arrived = first]
      BY <2>3 DEF Changed, dated, stamp, kept, first
    <3>3. /\ w.status = to /\ w.departed = v.departed
          /\ w.arrived = stamp /\ w.delivered = v.delivered
      BY <1>2, <3>1, <3>2
    <3>4. v.delivered = Never /\ v.departed # Never
      BY <3>1 DEF Ordered, Backed
    <3>5. v.departed <= now
      BY DEF Ordered
    <3>6. Ordered(w, now)
      BY <2>1, <2>3, <3>3, <3>4, <3>5 DEF Ordered, Never
    <3>7. Moved(v, w)
      BY <2>1, <3>3, <3>4 DEF Moved
    <3>8. QED
      BY <3>6, <3>7
  <2>4. CASE to = "DELIVERED"
    <3>1. v.status = "ARRIVED" /\ kept = v.arrived
      BY <2>1, <2>4 DEF ShipmentTransitions
    <3>2. w = [dated EXCEPT !.status = to, !.arrived = first, !.delivered = stamp]
      BY <2>4 DEF Changed, dated, stamp, kept, first
    <3>3. /\ w.status = to /\ w.departed = v.departed
          /\ w.arrived = first /\ w.delivered = stamp
      BY <1>2, <3>2
    <3>4. /\ v.arrived # Never /\ first = v.arrived
          /\ v.departed # Never /\ v.delivered = Never
      BY <3>1 DEF Ordered, Backed, Or
    <3>5. v.departed <= now /\ v.arrived <= now /\ v.departed <= v.arrived
      BY <3>4 DEF Ordered
    <3>6. Ordered(w, now)
      BY <2>1, <2>4, <3>3, <3>4, <3>5 DEF Ordered, Never
    <3>7. Moved(v, w)
      BY <2>1, <3>3, <3>4 DEF Moved
    <3>8. QED
      BY <3>6, <3>7
  <2>5. CASE to \in {"BOOKED", "CANCELLED"}
    <3>1. w = [dated EXCEPT !.status = to]
      BY <2>5 DEF Changed, dated, stamp
    <3>2. /\ w.status = to /\ w.departed = v.departed
          /\ w.arrived = v.arrived /\ w.delivered = v.delivered
      BY <1>2, <3>1
    <3>3. v.status \in {"CREATED", "BOOKED", "IN_TRANSIT"}
      BY <2>1, <2>5 DEF ShipmentTransitions
    <3>4. v.delivered = Never /\ v.arrived = Never
      BY <3>3 DEF Ordered
    <3>5. to = "BOOKED" => v.departed = Never
      BY <2>1, <3>3 DEF Ordered, ShipmentTransitions
    <3>6. Ordered(w, now)
      BY <2>5, <3>2, <3>4, <3>5 DEF Ordered
    <3>7. Moved(v, w)
      BY <2>1, <3>2, <3>4 DEF Moved
    <3>8. QED
      BY <3>6, <3>7
  <2>6. QED
    BY <1>4, <2>2, <2>3, <2>4, <2>5 DEF Targets, Statuses
<1>5. QED
  BY <1>3, <1>4 DEF Targets, Statuses

\* What a write does, field by field.
LEMMA Writes ==
    ASSUME TInv, NEW t \in Txs, Write(t)
    PROVE  LET s == Current(t)
               v == Sees(ship[s], t)
           IN  /\ tx[t].at = "write" /\ tx[t].next = 1 /\ s = tx[t].work[1]
               /\ s \in Ships /\ s \in Scope(t)
               /\ ship[s].by # t /\ v = ship[s].com
               /\ ship'[s].com = ship[s].com /\ ship'[s].cur = Changed(v, t) /\ ship'[s].by = t
               /\ \A k \in Ships : k # s => ship'[k] = ship[k]
               /\ exc' = exc /\ now' = now /\ calm' = calm
               /\ \E q \in TxRecords :
                    /\ tx' = [tx EXCEPT ![t] = q]
                    /\ q.at = "exception" /\ q.want = Wanted(ship'[s].cur, now)
                    /\ Over(ship'[s].cur) => \A k \in Kinds : q.want[k] = "NONE"
                    /\ q.work = tx[t].work /\ q.next = 1
                    /\ q.kind = "ETA_EXCEEDED" /\ q.alone = tx[t].alone
<1> DEFINE s == Current(t)
           v == Sees(ship[s], t)
           w == Changed(v, t)
           r == [tx[t] EXCEPT !.to = "NONE", !.stamp = Never, !.kept = Never]
           d == Decided(r, ship'[s].cur)
<1>1. /\ At(t, "write") /\ tx[t].at = "write"
      /\ UNCHANGED <<now, exc, calm>>
  BY DEF Write, At
<1>2. tx[t].next = 1 /\ tx[t].kind = "ETA_EXCEEDED"
  BY <1>1 DEF TInv, LInv, Downward, InPlace, Placed
<1>3. s = tx[t].work[1]
  BY <1>2 DEF Current
<1>4. tx[t] \in TxRecords /\ s \in Ships /\ s \in Scope(t)
  BY <1>1, TInvTypes, ScopeOf DEF At
<1>5. ship' = [ship EXCEPT ![s] = Put(@, t, Changed(Sees(@, t), t))] /\ tx' = [tx EXCEPT ![t] = d]
  BY <1>3 DEF Write
<1>6. ship[s].by # t
  <2>1. Left(tx[t]) = 4 * s + 3 /\ s \in Nat
    BY <1>1, LeftType, TInvTypes DEF Stage, s
  <2>2. ship[s].by = t => Below(tx[t], ShipLevel(s))
    BY <1>4 DEF TInv, LInv
  <2>3. QED
    BY <2>1, <2>2 DEF Below, ShipLevel
<1> HIDE DEF s
<1>7. v = ship[s].com
  BY <1>6 DEF Sees
<1>8. ship[s] \in RowOf(Shipment, Txs) /\ ship \in [Ships -> RowOf(Shipment, Txs)]
  BY <1>4, TInvTypes DEF IInv
<1>9. ship'[s] = Put(ship[s], t, w) /\ \A k \in Ships : k # s => ship'[k] = ship[k]
  BY <1>4, <1>5, <1>8
<1>10. ship'[s].com = ship[s].com /\ ship'[s].cur = w /\ ship'[s].by = t
  BY <1>8, <1>9 DEF Put, RowOf
<1>11. /\ r \in TxRecords
       /\ r.work = tx[t].work /\ r.next = tx[t].next /\ r.kind = tx[t].kind
       /\ r.alone = tx[t].alone
  BY <1>4, TimesType DEF TxRecords, Requests, Statuses
<1> HIDE DEF r
<1>12. /\ d \in TxRecords
       /\ d.at = "exception" /\ d.want = Wanted(ship'[s].cur, now)
       /\ d.work = r.work /\ d.next = r.next /\ d.kind = r.kind /\ d.alone = r.alone
       /\ Over(ship'[s].cur) => \A k \in Kinds : d.want[k] = "NONE"
  BY <1>11, Decides
<1> HIDE DEF d, v, w
<1>13. \E q \in TxRecords :
          /\ tx' = [tx EXCEPT ![t] = q]
          /\ q.at = "exception" /\ q.want = Wanted(ship'[s].cur, now)
          /\ Over(ship'[s].cur) => \A k \in Kinds : q.want[k] = "NONE"
          /\ q.work = tx[t].work /\ q.next = 1
          /\ q.kind = "ETA_EXCEEDED" /\ q.alone = tx[t].alone
  BY <1>2, <1>5, <1>11, <1>12
<1>14. QED
  BY <1>1, <1>2, <1>3, <1>4, <1>6, <1>7, <1>9, <1>10, <1>13 DEF s, v, w

\* A record that is at its first shipment, and decides, has settled nothing.
LEMMA NothingSettled ==
    ASSUME NEW q \in TxRecords, q.at = "exception", q.kind = "ETA_EXCEEDED", q.next = 1
    PROVE  \A s, k : ~ Settled(q, s, k)
<1>1. DOMAIN q.work = 1 .. Len(q.work) /\ Len(q.work) \in Nat
  BY LenProperties DEF TxRecords
<1>2. QED
  BY <1>1 DEF Settled

LEMMA WriteTurns ==
    ASSUME TInv, LInv', NEW t \in Txs, Write(t)
    PROVE  TInv'
<1> DEFINE c == Current(t)
           v == ship[c].com
           w == Changed(v, t)
<1>1. /\ tx[t].at = "write" /\ tx[t].next = 1 /\ c = tx[t].work[1]
      /\ c \in Ships /\ c \in Scope(t)
      /\ ship[c].by # t
      /\ ship'[c].com = v /\ ship'[c].cur = w /\ ship'[c].by = t
      /\ \A k \in Ships : k # c => ship'[k] = ship[k]
      /\ exc' = exc /\ now' = now /\ calm' = calm
  BY Writes
<1>2. PICK q \in TxRecords :
          /\ tx' = [tx EXCEPT ![t] = q]
          /\ q.at = "exception" /\ q.want = Wanted(ship'[c].cur, now)
          /\ Over(ship'[c].cur) => \A k \in Kinds : q.want[k] = "NONE"
          /\ q.work = tx[t].work /\ q.next = 1
          /\ q.kind = "ETA_EXCEEDED" /\ q.alone = tx[t].alone
  BY Writes
<1> HIDE DEF c
<1>3. Placed(q)
  BY <1>2 DEF Placed
<1>4. \A s, k : ~ Settled(q, s, k)
  BY <1>2, NothingSettled
<1>5. \A s : Handles(q, s) => s = c
  BY <1>1, <1>2 DEF Handles
<1>6. AtRest' /\ HeldInScope'
  BY <1>1, <1>2, HoldsIn
<1>7. ASSUME NEW s \in Ships, s \in Scope(t), calm[s]
      PROVE  Orderly(ship'[s], File(exc, s), now) /\ Turn(q, s, ship'[s], File(exc, s), now)
  <2>1. Turn(tx[t], s, ship[s], File(exc, s), now) /\ Orderly(ship[s], File(exc, s), now)
    BY <1>7 DEF TInv, TakingTurns, InOrder
  <2>2. ASSUME s = c
        PROVE  Ordered(w, now) /\ Moved(v, w)
    <3>1. tx[t].to \in Statuses => Permitted(tx[t], v, now)
      BY <1>1, <2>1, <2>2 DEF Turn
    <3>2. tx[t] \in TxRecords /\ tx[t].to \in Targets /\ now \in Nat
      <4>1. tx[t] \in TxRecords /\ Ready(tx[t], ship) /\ now \in 0 .. MaxTime
        BY TInvTypes DEF IInv
      <4>2. tx[t].to \in Targets
        BY <1>1, <4>1 DEF Ready
      <4>3. QED
        BY <4>1, <4>2, TimesAssumption
    <3>3. v \in Shipment /\ Backed(v)
      BY <1>1, TInvTypes DEF IInv, Sound, RowOf
    <3>4. Ordered(v, now)
      BY <2>1, <2>2 DEF Orderly
    <3> HIDE DEF v
    <3>5. QED
      BY <3>1, <3>2, <3>3, <3>4, ChangedOrder
  <2>3. Orderly(ship'[s], File(exc, s), now)
    <3>1. CASE s = c
      <4>1. Tidy(ship'[s], File(exc, s))
        BY <1>1, <2>1, <3>1 DEF Orderly, Tidy
      <4>2. Ordered(v, now)
        BY <2>1, <3>1 DEF Orderly
      <4> HIDE DEF v, w
      <4>3. QED
        BY <1>1, <2>2, <3>1, <4>1, <4>2 DEF Orderly
    <3>2. CASE s # c
      BY <1>1, <2>1, <3>2
    <3>3. QED
      BY <3>1, <3>2
  <2>4. Turn(q, s, ship'[s], File(exc, s), now)
    BY <1>2, <1>4, <1>5 DEF Turn
  <2>5. QED
    BY <2>3, <2>4
<1>8. ASSUME NEW s \in Ships, s \in Scope(t), tx[t].alone
      PROVE  Heals(q, s, ship'[s], File(exc, s), now)
  <2>1. Heals(tx[t], s, ship[s], File(exc, s), now)
    BY <1>8 DEF TInv, Healing
  <2>2. \A k \in Kinds : ~ Settled(tx[t], s, k)
    BY <1>1, <1>2, <1>4, SettledStill
  <2>3. QED
    BY <1>2, <1>4, <1>5, <2>1, <2>2 DEF Heals
<1>9. QED
  BY <1>1, <1>2, <1>3, <1>6, <1>7, <1>8, WorksOn

-----------------------------------------------------------------------------
(* The exceptions of a shipment, one kind after the other.                 *)

\* What a transaction has settled once it is done with a kind: that kind, and
\* what it had settled before.
LEMMA EvaluatedTurns ==
    ASSUME TInv, NEW t \in Txs, tx[t].at \in {"exception", "mend"}
    PROVE  LET q == Evaluated(t)
           IN  /\ q \in TxRecords /\ Placed(q)
               /\ q.work = tx[t].work /\ q.alone = tx[t].alone
               /\ q.at \in {"exception", "commit", "evaluate"}
               /\ \A s \in Ships, k \in Kinds : Settled(q, s, k) =>
                    Settled(tx[t], s, k) \/ (s = Current(t) /\ k = tx[t].kind)
               /\ \A s \in Ships : Handles(q, s) =>
                    /\ Handles(tx[t], s) /\ s = Current(t) /\ q.want = tx[t].want
                    /\ tx[t].kind = "ETA_EXCEEDED"
<1> DEFINE r == tx[t]
           q == Evaluated(t)
           n == IF r.next = Len(r.work) THEN r.next ELSE r.next + 1
           at == IF r.next = Len(r.work) THEN "commit" ELSE "evaluate"
<1>1. r \in TxRecords /\ r.next \in DOMAIN r.work /\ Current(t) = r.work[r.next]
  BY TInvTypes, AtHand DEF At, Current
<1>2. /\ q \in TxRecords
      /\ q.at \in {"exception", "commit", "evaluate"}
      /\ q.work = r.work
  BY <1>1, EvaluatedType
<1>3. DOMAIN r.work = 1 .. Len(r.work) /\ Len(r.work) \in Nat
  BY <1>1, LenProperties DEF TxRecords
<1>4. CASE r.kind = "ETA_EXCEEDED"
  <2>1. /\ q.at = "exception" /\ q.kind = "TRACKING_STALE" /\ q.next = r.next
        /\ q.want = r.want /\ q.alone = r.alone
    BY <1>1, <1>4 DEF Evaluated, TxRecords
  <2> HIDE DEF q
  <2>2. Placed(q)
    BY <2>1 DEF Placed
  <2>3. \A s \in Ships, k \in Kinds : Settled(q, s, k) =>
            Settled(r, s, k) \/ (s = Current(t) /\ k = r.kind)
    BY <1>1, <1>2, <1>4, <2>1 DEF Settled
  <2>4. \A s \in Ships : Handles(q, s) => Handles(r, s) /\ s = Current(t)
    BY <1>1, <1>2, <2>1 DEF Handles
  <2>5. QED
    BY <1>2, <1>4, <2>1, <2>2, <2>3, <2>4 DEF q
<1>5. CASE r.kind = "TRACKING_STALE"
  <2>1. q = [r EXCEPT !.at = at, !.next = n, !.kind = "ETA_EXCEEDED",
                      !.want = Idle.want, !.found = 0]
    BY <1>5, <1>1 DEF Evaluated, TxRecords
  <2>2. at \in {"commit", "evaluate"} /\ (at = "commit" => n = Len(r.work))
    OBVIOUS
  <2>3. n \in Nat /\ n <= r.next + 1 /\ (at = "commit" => n = r.next)
    BY <1>1, <1>3
  <2> HIDE DEF q, n, at
  <2>4. q.at = at /\ q.next = n /\ q.kind = "ETA_EXCEEDED" /\ q.alone = r.alone
    BY <1>1, <2>1 DEF TxRecords
  <2>5. Placed(q)
    BY <1>2, <2>2, <2>4 DEF Placed
  <2>6. ASSUME NEW s \in Ships, NEW k \in Kinds, Settled(q, s, k)
        PROVE  Settled(r, s, k) \/ (s = Current(t) /\ k = r.kind)
    <3>1. PICK i \in DOMAIN r.work : r.work[i] = s /\ (i < n \/ (i = n /\ at = "commit"))
      BY <1>2, <2>2, <2>4, <2>6 DEF Settled
    <3>2. i < r.next \/ i = r.next
      BY <1>1, <1>3, <2>3, <3>1
    <3>3. CASE i < r.next
      BY <3>1, <3>3 DEF Settled
    <3>4. CASE i = r.next
      <4>1. s = Current(t)
        BY <1>1, <3>1, <3>4
      <4>2. k = "ETA_EXCEEDED" => Settled(r, s, k)
        BY <1>5, <3>1, <3>4 DEF Settled
      <4>3. QED
        BY <1>5, <4>1, <4>2 DEF Kinds
    <3>5. QED
      BY <3>2, <3>3, <3>4
  <2>7. \A s : ~ Handles(q, s)
    BY <2>2, <2>4 DEF Handles
  <2>8. QED
    BY <1>2, <2>4, <2>5, <2>6, <2>7 DEF q
<1>6. QED
  BY <1>1, <1>4, <1>5 DEF TxRecords, Kinds

\* It has settled the kind at hand now, which it had not before.
LEMMA EvaluatedSettles ==
    ASSUME TInv, NEW t \in Txs, tx[t].at \in {"exception", "mend"}
    PROVE  /\ \A s, k : Settled(tx[t], s, k) => Settled(Evaluated(t), s, k)
           /\ Settled(Evaluated(t), Current(t), tx[t].kind)
           /\ ~ Settled(tx[t], Current(t), tx[t].kind)
<1> DEFINE r == tx[t]
           q == Evaluated(t)
           n == IF r.next = Len(r.work) THEN r.next ELSE r.next + 1
           at == IF r.next = Len(r.work) THEN "commit" ELSE "evaluate"
<1>1. r \in TxRecords /\ r.next \in DOMAIN r.work /\ Current(t) = r.work[r.next]
  BY TInvTypes, AtHand DEF At, Current
<1>2. DOMAIN r.work = 1 .. Len(r.work) /\ Len(r.work) \in Nat
  BY <1>1, LenProperties DEF TxRecords
<1>3. r.at \in {"exception", "mend"}
  OBVIOUS
<1>4. \A i \in DOMAIN r.work : i < r.next => r.work[i] # Current(t)
  <2>1. \A i \in DOMAIN r.work : r.work[i] \in Nat
    BY <1>1, <1>2, ElementOfSeq, ShipsFinite DEF TxRecords
  <2>2. \A i \in DOMAIN r.work : i < r.next => r.work[r.next] < r.work[i]
    BY <1>1 DEF TInv, LInv, Downward
  <2>3. QED
    BY <1>1, <2>1, <2>2
<1>5. CASE r.kind = "ETA_EXCEEDED"
  <2>1. q.at = "exception" /\ q.kind = "TRACKING_STALE" /\ q.next = r.next /\ q.work = r.work
    BY <1>1, <1>5 DEF Evaluated, TxRecords
  <2> HIDE DEF q
  <2>2. \A s, k : Settled(r, s, k) => Settled(q, s, k)
    BY <1>3, <1>5, <2>1 DEF Settled
  <2>3. Settled(q, Current(t), r.kind)
    BY <1>1, <1>5, <2>1 DEF Settled
  <2>4. ~ Settled(r, Current(t), r.kind)
    BY <1>3, <1>4, <1>5 DEF Settled
  <2>5. QED
    BY <2>2, <2>3, <2>4 DEF q
<1>6. CASE r.kind = "TRACKING_STALE"
  <2>1. q = [r EXCEPT !.at = at, !.next = n, !.kind = "ETA_EXCEEDED",
                      !.want = Idle.want, !.found = 0]
    BY <1>6, <1>1 DEF Evaluated, TxRecords
  <2>2. n \in Nat /\ (n = r.next + 1 \/ (n = r.next /\ at = "commit"))
    BY <1>1, <1>2
  <2>3. \A i \in DOMAIN r.work : i <= r.next => i < n \/ (i = n /\ at = "commit")
    BY <1>1, <1>2, <2>2
  <2> HIDE DEF q, n, at
  <2>4. q.at = at /\ q.next = n /\ q.work = r.work
    BY <1>1, <2>1 DEF TxRecords
  <2>5. \A s, k : Settled(r, s, k) => Settled(q, s, k)
    <3> SUFFICES ASSUME NEW s, NEW k, Settled(r, s, k)
                 PROVE  Settled(q, s, k)
      OBVIOUS
    <3>1. PICK i \in DOMAIN r.work : r.work[i] = s /\ i <= r.next
      BY <1>1, <1>2 DEF Settled
    <3>2. QED
      BY <2>3, <2>4, <3>1 DEF Settled
  <2>6. Settled(q, Current(t), r.kind)
    <3>1. r.next \in DOMAIN r.work /\ r.next <= r.next
      BY <1>1, <1>2
    <3>2. r.next < n \/ (r.next = n /\ at = "commit")
      BY <2>3, <3>1
    <3>3. QED
      BY <1>1, <2>4, <3>2 DEF Settled
  <2>7. ~ Settled(r, Current(t), r.kind)
    BY <1>3, <1>4, <1>6 DEF Settled
  <2>8. QED
    BY <2>5, <2>6, <2>7 DEF q
<1>7. QED
  BY <1>1, <1>5, <1>6 DEF TxRecords, Kinds

\* A statement brings the open exceptions of a kind, which are `old', to the
\* level that is wanted; or it has no effect, for what it found is resolved.
Settles(old, new, want) ==
    /\ \A i \in Slots : new[i].com = old[i].com
    /\ \/ want = "NONE" /\ NoneOpen(new)
       \/ /\ want # "NONE"
          /\ \E i \in Slots : /\ new[i].cur = want
                              /\ \A j \in Slots : j # i => new[j].cur = old[j].cur
                              /\ NoneOpen(old) \/ old[i].cur # "NONE"

Misses(old, new, want) ==
    /\ \A i \in Slots : new[i].com = old[i].com /\ new[i].cur = old[i].cur
    /\ want # "NONE"

LEMMA SettlesOne ==
    ASSUME NEW old, NEW new, NEW want, Settles(old, new, want) \/ Misses(old, new, want)
    PROVE  /\ \A i \in Slots : new[i].com = old[i].com
           /\ (\A i, j \in Slots : old[i].cur # "NONE" /\ old[j].cur # "NONE" => i = j)
                => \A i, j \in Slots : new[i].cur # "NONE" /\ new[j].cur # "NONE" => i = j
           /\ want = "NONE" => NoneOpen(new)
           /\ Settles(old, new, want) /\ Kept(old) => Matches(new, want)
<1>1. \A i \in Slots : new[i].com = old[i].com
  BY DEF Settles, Misses
<1>2. want = "NONE" => NoneOpen(new)
  BY DEF Settles, Misses
<1>3. ASSUME Settles(old, new, want), Kept(old)
      PROVE  Matches(new, want)
  <2>1. CASE want = "NONE"
    BY <1>3, <2>1 DEF Settles, Matches
  <2>2. CASE want # "NONE"
    <3>1. PICK i \in Slots : /\ new[i].cur = want
                             /\ \A j \in Slots : j # i => new[j].cur = old[j].cur
                             /\ NoneOpen(old) \/ old[i].cur # "NONE"
      BY <1>3, <2>2 DEF Settles
    <3>2. \A j \in Slots : new[j].com = old[j].com /\ old[j].cur = old[j].com
      BY <1>1, <1>3 DEF Kept
    <3>3. new[i].com # "NONE" \/ \A j \in Slots : new[j].com = "NONE"
      BY <3>1, <3>2 DEF NoneOpen
    <3>4. \A j \in Slots \ {i} : new[j].cur = new[j].com
      BY <3>1, <3>2
    <3>5. QED
      BY <2>2, <3>1, <3>3, <3>4 DEF Matches
  <2>3. QED
    BY <2>1, <2>2
<1>4. ASSUME \A i, j \in Slots : old[i].cur # "NONE" /\ old[j].cur # "NONE" => i = j
      PROVE  \A i, j \in Slots : new[i].cur # "NONE" /\ new[j].cur # "NONE" => i = j
  <2>1. CASE Misses(old, new, want)
    BY <1>4, <2>1 DEF Misses
  <2>2. CASE NoneOpen(new)
    BY <2>2 DEF NoneOpen
  <2>3. ASSUME NEW i \in Slots, \A j \in Slots : j # i => new[j].cur = old[j].cur,
               NoneOpen(old) \/ old[i].cur # "NONE"
        PROVE  \A j, k \in Slots : new[j].cur # "NONE" /\ new[k].cur # "NONE" => j = k
    <3>1. \A j \in Slots : j # i => new[j].cur = "NONE"
      BY <1>4, <2>3 DEF NoneOpen
    <3>2. QED
      BY <3>1
  <2>4. QED
    BY <2>1, <2>2, <2>3 DEF Settles
<1>5. QED
  BY <1>1, <1>2, <1>3, <1>4

\* The step in which t is done with a kind.
LEMMA KindTurns ==
    ASSUME TInv, LInv', NEW t \in Txs, tx[t].at \in {"exception", "mend"},
           tx' = [tx EXCEPT ![t] = Evaluated(t)], UNCHANGED <<now, ship, calm>>,
           \A x \in Rows : exc'[x] = exc[x]
                            \/ (exc'[x].by = t /\ x[1] = Current(t) /\ x[2] = tx[t].kind),
           Owns(t, Current(t)) =>
               LET old == File(exc, Current(t))[tx[t].kind]
                   new == File(exc', Current(t))[tx[t].kind]
               IN  \/ Settles(old, new, WantedNow(t))
                   \/ Misses(old, new, WantedNow(t)) /\ ~ tx[t].alone
    PROVE  TInv'
<1> DEFINE c == Current(t)
           q == Evaluated(t)
           kind == tx[t].kind
           want == WantedNow(t)
           old == File(exc, c)
           new == File(exc', c)
<1>1. tx[t] \in TxRecords /\ c \in Scope(t) /\ c \in Ships /\ kind \in Kinds
  BY TInvTypes, ScopeOf DEF At, TxRecords
<1>2. Handles(tx[t], c) /\ want = tx[t].want[kind]
  BY DEF Handles, Current, WantedNow
<1>3. /\ q \in TxRecords /\ Placed(q)
      /\ q.work = tx[t].work /\ q.alone = tx[t].alone
      /\ q.at \in {"exception", "commit", "evaluate"}
  BY EvaluatedTurns
<1>4. \A s \in Ships, k \in Kinds : Settled(q, s, k) =>
          Settled(tx[t], s, k) \/ (s = c /\ k = kind)
  BY EvaluatedTurns
<1>5. \A s \in Ships : Handles(q, s) =>
          Handles(tx[t], s) /\ s = c /\ q.want = tx[t].want
  BY EvaluatedTurns
<1>6. tx' = [tx EXCEPT ![t] = q]
  OBVIOUS
<1>7. \A s \in Ships : s # c => File(exc', s) = File(exc, s)
  BY DEF File, Rows
<1>8. \A k \in Kinds : k # kind => new[k] = old[k]
  BY <1>1 DEF File, Rows
<1>9. Owns(t, c) => /\ Settles(old[kind], new[kind], want) \/ Misses(old[kind], new[kind], want)
                    /\ tx[t].alone => Settles(old[kind], new[kind], want)
  OBVIOUS
<1>10. AtRest' /\ HeldInScope'
  BY <1>1, <1>3, HoldsIn
<1>11. /\ \A s, k : Settled(tx[t], s, k) => Settled(q, s, k)
       /\ Settled(q, c, kind) /\ ~ Settled(tx[t], c, kind)
  BY EvaluatedSettles
<1> HIDE DEF q, c, kind, want, old, new
<1>12. ASSUME NEW s \in Ships, s \in Scope(t), calm[s]
       PROVE  Orderly(ship[s], File(exc', s), now) /\ Turn(q, s, ship[s], File(exc', s), now)
  <2>1. Turn(tx[t], s, ship[s], File(exc, s), now) /\ Orderly(ship[s], File(exc, s), now)
    BY <1>12 DEF TInv, TakingTurns, InOrder
  <2>2. CASE s # c
    <3>1. Turn(q, s, ship[s], File(exc, s), now)
      BY <1>3, <1>4, <1>5, <2>1, <2>2 DEF Turn
    <3>2. QED
      BY <1>7, <2>1, <2>2, <3>1
  <2>3. CASE s = c
    <3>1. Settles(old[kind], new[kind], want) \/ Misses(old[kind], new[kind], want)
      BY <1>9, <1>12, <2>3 DEF Owns
    <3>2. /\ \A i \in Slots : new[kind][i].com = old[kind][i].com
          /\ (\A i, j \in Slots : old[kind][i].cur # "NONE" /\ old[kind][j].cur # "NONE" => i = j)
               => \A i, j \in Slots : new[kind][i].cur # "NONE" /\ new[kind][j].cur # "NONE" => i = j
          /\ want = "NONE" => NoneOpen(new[kind])
      BY <3>1, SettlesOne
    <3>3. Tidy(ship[c], old)
      BY <2>1, <2>3 DEF Orderly, old
    <3>4. Tidy(ship[c], new)
      <4> SUFFICES ASSUME NEW k \in Kinds
                   PROVE  /\ \A i, j \in Slots :
                              /\ new[k][i].com # "NONE" /\ new[k][j].com # "NONE" => i = j
                              /\ new[k][i].cur # "NONE" /\ new[k][j].cur # "NONE" => i = j
                          /\ Over(ship[c].com) => \A i \in Slots : new[k][i].com = "NONE"
        BY DEF Tidy
      <4>1. CASE k = kind
        BY <3>2, <3>3, <4>1 DEF Tidy
      <4>2. CASE k # kind
        BY <1>8, <3>3, <4>2 DEF Tidy
      <4>3. QED
        BY <4>1, <4>2
    <3>5. Orderly(ship[c], new, now)
      BY <2>1, <2>3, <3>4 DEF Orderly
    <3>6. ASSUME Over(ship[c].cur), NEW k \in Kinds
          PROVE  /\ Handles(q, c) => q.want[k] = "NONE"
                 /\ Settled(q, c, k) => NoneOpen(new[k])
      <4>1. \A j \in Kinds : /\ tx[t].want[j] = "NONE"
                             /\ Settled(tx[t], c, j) => NoneOpen(old[j])
        BY <1>2, <2>1, <2>3, <3>6 DEF Turn, old
      <4>2. NoneOpen(new[kind])
        BY <1>1, <1>2, <3>2, <4>1
      <4>3. QED
        BY <1>1, <1>4, <1>5, <1>8, <4>1, <4>2
    <3>7. Turn(q, c, ship[c], new, now)
      BY <1>3, <3>6 DEF Turn
    <3>8. QED
      BY <2>3, <3>5, <3>7 DEF new
  <2>4. QED
    BY <2>2, <2>3
<1>13. ASSUME NEW s \in Ships, s \in Scope(t), tx[t].alone
       PROVE  Heals(q, s, ship[s], File(exc', s), now)
  <2>1. Heals(tx[t], s, ship[s], File(exc, s), now)
    BY <1>13 DEF TInv, Healing
  <2>2. CASE s # c
    <3>1. Heals(q, s, ship[s], File(exc, s), now)
      BY <1>3, <1>4, <1>5, <1>11, <2>1, <2>2 DEF Heals
    <3>2. QED
      BY <1>7, <2>2, <3>1
  <2>3. CASE s = c
    <3>1. \A k \in Kinds : ~ Settled(tx[t], c, k) => Kept(old[k])
      BY <2>1, <2>3 DEF Heals, old
    <3>2. Matches(new[kind], want)
      <4>1. Kept(old[kind])
        BY <1>1, <1>11, <3>1
      <4>2. Settles(old[kind], new[kind], want)
        BY <1>9, <1>13, <2>3 DEF Owns
      <4>3. QED
        BY <4>1, <4>2, SettlesOne
    <3>3. tx[t].want = Wanted(ship[c].cur, now)
      BY <1>2, <2>1, <2>3 DEF Heals
    <3>4. \A k \in Kinds : Settled(tx[t], c, k) => Matches(old[k], Wanted(ship[c].cur, now)[k])
      BY <2>1, <2>3 DEF Heals, old
    <3>5. \A k \in Kinds : Settled(q, c, k) => Matches(new[k], Wanted(ship[c].cur, now)[k])
      BY <1>1, <1>2, <1>4, <1>8, <3>2, <3>3, <3>4
    <3>6. \A k \in Kinds : ~ Settled(q, c, k) => Kept(new[k])
      BY <1>8, <1>11, <3>1
    <3>7. Heals(q, c, ship[c], new, now)
      BY <1>1, <1>3, <1>5, <3>3, <3>5, <3>6 DEF Heals
    <3>8. QED
      BY <2>3, <3>7 DEF new
  <2>4. QED
    BY <2>2, <2>3
<1>14. \A s \in Ships \ Scope(t) : File(exc', s) = File(exc, s)
  BY <1>1, <1>7
<1>15. QED
  BY <1>3, <1>6, <1>10, <1>12, <1>13, <1>14, WorksOn

\* What t sees of the exceptions at hand, if it owns their shipment.
LEMMA OpenOnes ==
    ASSUME TInv, NEW t \in Txs, ~ At(t, "idle")
    PROVE  LET c == Current(t)
               k == tx[t].kind
               old == File(exc, c)[k]
           IN  /\ c \in Ships /\ k \in Kinds
               /\ \A i \in Slots : <<c, k, i>> \in Rows /\ old[i] = exc[<<c, k, i>>]
               /\ \A x \in Open(t) : x[1] = c /\ x[2] = k /\ x[3] \in Slots /\ x = <<c, k, x[3]>>
               /\ Owns(t, c) => \A i \in Slots : <<c, k, i>> \in Open(t) <=> old[i].cur # "NONE"
<1> DEFINE c == Current(t)
           k == tx[t].kind
           old == File(exc, c)[k]
<1>1. c \in Ships /\ k \in Kinds
  BY TInvTypes, ScopeOf DEF TxRecords
<1>2. \A i \in Slots : <<c, k, i>> \in Rows /\ old[i] = exc[<<c, k, i>>]
  BY <1>1, TInvTypes
<1>3. \A x \in Open(t) : x[1] = c /\ x[2] = k /\ x[3] \in Slots /\ x = <<c, k, x[3]>>
  BY DEF Open
<1>4. ASSUME Owns(t, c), NEW i \in Slots
      PROVE  <<c, k, i>> \in Open(t) <=> old[i].cur # "NONE"
  <2>1. Sees(exc[<<c, k, i>>], t) = exc[<<c, k, i>>].cur
    BY <1>1, <1>2, <1>4, Owned
  <2>2. <<c, k, i>> \in Open(t) <=> Sees(exc[<<c, k, i>>], t) # "NONE"
    BY DEF Open
  <2>3. QED
    BY <1>2, <2>1, <2>2
<1>5. QED
  BY <1>1, <1>2, <1>3, <1>4

LEMMA ResolveTurns ==
    ASSUME TInv, LInv', NEW t \in Txs, Resolve(t)
    PROVE  TInv'
<1> DEFINE c == Current(t)
           k == tx[t].kind
           old == File(exc, c)[k]
           new == File(exc', c)[k]
<1>1. /\ tx[t].at = "exception" /\ ~ At(t, "idle") /\ WantedNow(t) = "NONE"
      /\ tx' = [tx EXCEPT ![t] = Evaluated(t)] /\ UNCHANGED <<now, ship, calm>>
      /\ exc' = [x \in DOMAIN exc |-> IF x \in Open(t) THEN Put(exc[x], t, "NONE") ELSE exc[x]]
  BY DEF Resolve, At
<1>2. /\ c \in Ships /\ k \in Kinds
      /\ \A i \in Slots : <<c, k, i>> \in Rows /\ old[i] = exc[<<c, k, i>>]
      /\ \A x \in Open(t) : x[1] = c /\ x[2] = k
      /\ Owns(t, c) => \A i \in Slots : <<c, k, i>> \in Open(t) <=> old[i].cur # "NONE"
  BY <1>1, OpenOnes
<1>3. \A x \in Rows : exc'[x] = IF x \in Open(t) THEN Put(exc[x], t, "NONE") ELSE exc[x]
  BY <1>1, TInvTypes DEF IInv, Rows
<1>4. \A x \in Rows : Put(exc[x], t, "NONE").by = t /\ Put(exc[x], t, "NONE").cur = "NONE"
                       /\ Put(exc[x], t, "NONE").com = exc[x].com
  BY TInvTypes DEF Put, RowOf
<1>5. \A i \in Slots : new[i] = exc'[<<c, k, i>>]
  BY <1>2 DEF File
<1>6. \A x \in Rows : exc'[x] = exc[x] \/ (exc'[x].by = t /\ x[1] = c /\ x[2] = k)
  BY <1>2, <1>3, <1>4
<1>7. Owns(t, c) => Settles(old, new, "NONE")
  <2> SUFFICES ASSUME Owns(t, c) PROVE Settles(old, new, "NONE")
    OBVIOUS
  <2>1. ASSUME NEW i \in Slots
        PROVE  new[i].com = old[i].com /\ new[i].cur = "NONE"
    <3> DEFINE x == <<c, k, i>>
    <3>1. /\ x \in Rows /\ old[i] = exc[x] /\ new[i] = exc'[x]
          /\ x \in Open(t) <=> old[i].cur # "NONE"
      BY <1>2, <1>5
    <3> HIDE DEF x, old, new
    <3>2. exc'[x] = IF x \in Open(t) THEN Put(exc[x], t, "NONE") ELSE exc[x]
      BY <1>3, <3>1
    <3>3. QED
      BY <1>4, <3>1, <3>2
  <2> HIDE DEF c, k, old, new
  <2>2. QED
    BY <2>1 DEF Settles, NoneOpen
<1>8. QED
  BY <1>1, <1>6, <1>7, KindTurns

\* Insert and Mend write one row of the kind at hand.
LEMMA OneRowTurns ==
    ASSUME TInv, LInv', NEW t \in Txs, tx[t].at \in {"exception", "mend"},
           NEW i \in Slots, NEW level,
           exc' = [exc EXCEPT ![<<Current(t), tx[t].kind, i>>] = Put(@, t, level)],
           tx' = [tx EXCEPT ![t] = Evaluated(t)], UNCHANGED <<now, ship, calm>>,
           WantedNow(t) # "NONE",
           Owns(t, Current(t)) =>
               LET old == File(exc, Current(t))[tx[t].kind]
               IN  \/ level = WantedNow(t) /\ (NoneOpen(old) \/ old[i].cur # "NONE")
                   \/ level = old[i].cur /\ ~ tx[t].alone
    PROVE  TInv'
<1> DEFINE c == Current(t)
           k == tx[t].kind
           x == <<c, k, i>>
           old == File(exc, c)[k]
           new == File(exc', c)[k]
<1>1. c \in Ships /\ k \in Kinds /\ \A j \in Slots : <<c, k, j>> \in Rows /\ old[j] = exc[<<c, k, j>>]
  BY OpenOnes DEF At
<1>2. x \in Rows /\ exc \in [Rows -> RowOf(Levels, Txs)]
  BY <1>1, TInvTypes DEF IInv, Rows
<1>3. exc' = [exc EXCEPT ![x] = Put(@, t, level)]
  OBVIOUS
<1>4. exc'[x].com = exc[x].com /\ exc'[x].cur = level /\ exc'[x].by = t
      /\ \A y \in Rows : y # x => exc'[y] = exc[y]
  <2> HIDE DEF x
  <2>1. Wrote(exc, [exc EXCEPT ![x] = Put(@, t, level)], Rows, x, level, t)
    BY <1>2, Written
  <2>2. QED
    BY <1>3, <2>1 DEF Wrote
<1>5. \A j \in Slots : new[j] = exc'[<<c, k, j>>]
  BY <1>1 DEF File
<1>6. \A y \in Rows : exc'[y] = exc[y] \/ (exc'[y].by = t /\ y[1] = c /\ y[2] = k)
  BY <1>4
<1>7. /\ new[i].com = old[i].com /\ new[i].cur = level
      /\ \A j \in Slots : j # i => new[j] = old[j]
  <2>1. \A j \in Slots : j # i => <<c, k, j>> # x
    OBVIOUS
  <2>2. QED
    BY <1>1, <1>4, <1>5, <2>1
<1>8. Owns(t, c) => \/ level = WantedNow(t) /\ (NoneOpen(old) \/ old[i].cur # "NONE")
                    \/ level = old[i].cur /\ ~ tx[t].alone
  OBVIOUS
<1> HIDE DEF old, new, c, k
<1>9. \A j \in Slots : new[j].com = old[j].com
  BY <1>7
<1>10. Owns(t, c) => \/ Settles(old, new, WantedNow(t))
                     \/ Misses(old, new, WantedNow(t)) /\ ~ tx[t].alone
  <2>1. CASE level = WantedNow(t) /\ (NoneOpen(old) \/ old[i].cur # "NONE")
    BY <1>7, <1>9, <2>1 DEF Settles
  <2>2. CASE level = old[i].cur /\ ~ tx[t].alone
    BY <1>7, <1>9, <2>2 DEF Misses
  <2>3. QED
    BY <1>8, <2>1, <2>2
<1>11. QED
  BY <1>6, <1>10, KindTurns DEF old, new, c, k

LEMMA InsertTurns ==
    ASSUME TInv, LInv', NEW t \in Txs, Insert(t)
    PROVE  TInv'
<1> DEFINE mine == CHOOSE x \in Unused(t) : TRUE
           c == Current(t)
           k == tx[t].kind
<1>1. /\ tx[t].at = "exception" /\ ~ At(t, "idle")
      /\ WantedNow(t) # "NONE" /\ Open(t) = {} /\ Unused(t) # {}
      /\ exc' = [exc EXCEPT ![mine] = Put(@, t, WantedNow(t))]
      /\ tx' = [tx EXCEPT ![t] = Evaluated(t)] /\ UNCHANGED <<now, ship, calm>>
  BY DEF Insert, At
<1>2. mine \in Unused(t)
  BY <1>1
<1> HIDE DEF mine
<1>3. mine[3] \in Slots /\ mine = <<c, k, mine[3]>>
  BY <1>2 DEF Unused
<1>4. Owns(t, c) => NoneOpen(File(exc, c)[k])
  BY <1>1, OpenOnes DEF NoneOpen
<1>5. PICK i \in Slots : mine = <<c, k, i>>
  BY <1>3
<1>6. QED
  BY <1>1, <1>4, <1>5, OneRowTurns

LEMMA MendTurns ==
    ASSUME TInv, LInv', NEW t \in Txs, Mend(t)
    PROVE  TInv'
<1> DEFINE c == Current(t)
           k == tx[t].kind
           i == tx[t].found
           x == <<c, k, i>>
           level == IF Sees(exc[x], t) = "NONE" THEN "NONE" ELSE WantedNow(t)
           old == File(exc, c)[k]
<1>1. /\ tx[t].at = "mend" /\ ~ At(t, "idle")
      /\ exc' = [exc EXCEPT ![x] = Put(@, t, level)]
      /\ tx' = [tx EXCEPT ![t] = Evaluated(t)] /\ UNCHANGED <<now, ship, calm>>
  BY DEF Mend, At
<1>2. i \in Slots /\ WantedNow(t) # "NONE"
  BY <1>1 DEF TInv, LInv, Downward, InPlace, Placed, WantedNow
<1>3. x \in Rows /\ old[i] = exc[x] /\ c \in Ships /\ c \in Scope(t) /\ k \in Kinds
  BY <1>1, <1>2, OpenOnes, TInvTypes, ScopeOf
<1>4. ASSUME Owns(t, c)
      PROVE  \/ level = WantedNow(t) /\ (NoneOpen(old) \/ old[i].cur # "NONE")
             \/ level = old[i].cur /\ ~ tx[t].alone
  <2>1. Sees(exc[x], t) = old[i].cur
    BY <1>3, <1>4, Owned
  <2>2. CASE old[i].cur # "NONE"
    BY <2>1, <2>2
  <2>3. CASE old[i].cur = "NONE"
    <3>1. level = old[i].cur
      BY <2>1, <2>3
    <3>2. Handles(tx[t], c)
      BY <1>1 DEF Handles, Current
    <3>3. ASSUME tx[t].alone PROVE FALSE
      <4>1. Heals(tx[t], c, ship[c], File(exc, c), now)
        BY <1>3, <3>3 DEF TInv, Healing
      <4>2. QED
        BY <1>1, <2>3, <3>2, <4>1 DEF Heals
    <3>4. QED
      BY <3>1, <3>3
  <2>4. QED
    BY <2>2, <2>3
<1> HIDE DEF level, i
<1>5. QED
  BY <1>1, <1>2, <1>4, OneRowTurns

LEMMA FindTurns ==
    ASSUME TInv, LInv', NEW t \in Txs, Find(t)
    PROVE  TInv'
<1> DEFINE c == Current(t)
           k == tx[t].kind
<1>1. /\ tx[t].at = "exception" /\ ~ At(t, "idle") /\ WantedNow(t) # "NONE"
      /\ UNCHANGED <<now, ship, exc, calm>>
  BY DEF Find, At
<1>2. PICK x \in Open(t) : tx' = [tx EXCEPT ![t].at = "mend", ![t].found = x[3]]
  BY DEF Find
<1> DEFINE i == x[3]
           q == [tx[t] EXCEPT !.at = "mend", !.found = i]
<1>3. i \in Slots /\ x = <<c, k, i>> /\ c \in Ships /\ k \in Kinds
  BY <1>1, OpenOnes
<1>4. Owns(t, c) => File(exc, c)[k][i].cur # "NONE"
  BY <1>1, <1>3, OpenOnes
<1>5. tx[t] \in TxRecords /\ tx \in [Txs -> TxRecords]
  BY TInvTypes DEF IInv
<1>6. tx' = [tx EXCEPT ![t] = q]
  BY <1>2, <1>5
<1>7. /\ q.at = "mend" /\ q.found = i /\ q.work = tx[t].work /\ q.next = tx[t].next
      /\ q.kind = k /\ q.want = tx[t].want /\ q.alone = tx[t].alone
  BY <1>5 DEF TxRecords
<1>8. q \in TxRecords
  BY <1>3, <1>5 DEF TxRecords
<1> HIDE DEF q, i
<1>9. Placed(q)
  BY <1>1, <1>7 DEF Placed, WantedNow
<1>10. \A s, j : Settled(q, s, j) <=> Settled(tx[t], s, j)
  BY <1>1, <1>7 DEF Settled
<1>11. \A s : (Handles(q, s) <=> Handles(tx[t], s)) /\ (Handles(q, s) => s = c)
  BY <1>1, <1>7 DEF Handles, Current
<1>12. AtRest' /\ HeldInScope'
  BY <1>1, <1>6, <1>7, <1>8, HoldsIn
<1>13. ASSUME NEW s \in Ships, s \in Scope(t), calm[s]
       PROVE  Orderly(ship[s], File(exc, s), now) /\ Turn(q, s, ship[s], File(exc, s), now)
  <2>1. Turn(tx[t], s, ship[s], File(exc, s), now) /\ Orderly(ship[s], File(exc, s), now)
    BY <1>13 DEF TInv, TakingTurns, InOrder
  <2>2. QED
    BY <1>7, <1>10, <1>11, <2>1 DEF Turn
<1>14. ASSUME NEW s \in Ships, s \in Scope(t), tx[t].alone
       PROVE  Heals(q, s, ship[s], File(exc, s), now)
  <2>1. Heals(tx[t], s, ship[s], File(exc, s), now)
    BY <1>14 DEF TInv, Healing
  <2>2. Handles(q, s) => File(exc, s)[k][i].cur # "NONE"
    BY <1>4, <1>11, <1>14 DEF Owns
  <2>3. QED
    BY <1>7, <1>10, <1>11, <2>1, <2>2 DEF Heals
<1>15. QED
  BY <1>1, <1>6, <1>7, <1>8, <1>9, <1>12, <1>13, <1>14, WorksOn

-----------------------------------------------------------------------------
(* The end of a transaction, its beginning, and what else happens.         *)

\* At its commit a transaction has settled all of its shipments.
LEMMA AllSettled ==
    ASSUME TInv, NEW t \in Txs, At(t, "commit"), NEW s \in Scope(t), NEW k
    PROVE  Settled(tx[t], s, k)
<1>1. tx[t] \in TxRecords /\ tx[t].at = "commit" /\ tx[t].next = Len(tx[t].work)
  BY TInvTypes, ScopeOf DEF At, TInv, InPlace, Placed
<1>2. DOMAIN tx[t].work = 1 .. Len(tx[t].work) /\ Len(tx[t].work) \in Nat
  BY <1>1, LenProperties DEF TxRecords
<1>3. PICK i \in DOMAIN tx[t].work : tx[t].work[i] = s
  BY DEF Scope
<1>4. i < tx[t].next \/ i = tx[t].next
  BY <1>1, <1>2
<1>5. QED
  BY <1>1, <1>3, <1>4 DEF Settled

\* What remains of the rows of a shipment that t owned: one version.
LEMMA EndOwned ==
    ASSUME TInv, NEW t \in Txs, NEW ok \in BOOLEAN, NEW s \in Ships, Owns(t, s),
           EndedRow(ship[s], ship'[s], t, ok),
           \A x \in Rows : EndedRow(exc[x], exc'[x], t, ok)
    PROVE  /\ ship'[s].com = (IF ok THEN ship[s].cur ELSE ship[s].com) /\ ship'[s].cur = ship'[s].com
           /\ \A k \in Kinds, i \in Slots :
                 LET old == File(exc, s)[k][i]
                     new == File(exc', s)[k][i]
                 IN  new.com = (IF ok THEN old.cur ELSE old.com) /\ new.cur = new.com
<1>1. ship[s].by \in {t, NoTx} /\ (ship[s].by = NoTx => ship[s].cur = ship[s].com)
  BY Owned DEF TInv, AtRest
<1>2. ship'[s].com = (IF ok THEN ship[s].cur ELSE ship[s].com) /\ ship'[s].cur = ship'[s].com
  BY <1>1, NoTxAssumption DEF EndedRow
<1>3. ASSUME NEW k \in Kinds, NEW i \in Slots
      PROVE  LET old == File(exc, s)[k][i]
                 new == File(exc', s)[k][i]
             IN  new.com = (IF ok THEN old.cur ELSE old.com) /\ new.cur = new.com
  <2> DEFINE x == <<s, k, i>>
  <2>1. x \in Rows /\ File(exc, s)[k][i] = exc[x] /\ File(exc', s)[k][i] = exc'[x] /\ x[1] = s
    BY DEF File, Rows
  <2> HIDE DEF x
  <2>2. exc[x].by \in {t, NoTx} /\ (exc[x].by = NoTx => exc[x].cur = exc[x].com)
    BY <2>1, Owned DEF TInv, AtRest
  <2>3. EndedRow(exc[x], exc'[x], t, ok)
    BY <2>1
  <2>4. exc'[x].com = (IF ok THEN exc[x].cur ELSE exc[x].com) /\ exc'[x].cur = exc'[x].com
    BY <2>2, <2>3, NoTxAssumption DEF EndedRow
  <2>5. QED
    BY <2>1, <2>4
<1>4. QED
  BY <1>2, <1>3

LEMMA EndTurns ==
    ASSUME TInv, LInv', NEW t \in Txs, NEW ok \in BOOLEAN, ok => At(t, "commit"),
           tx' = [tx EXCEPT ![t] = Idle], UNCHANGED <<now, calm>>,
           \A s \in Ships : EndedRow(ship[s], ship'[s], t, ok),
           \A x \in Rows : EndedRow(exc[x], exc'[x], t, ok)
    PROVE  TInv'
<1>1. tx'[t] = Idle /\ \A u \in Txs \ {t} : tx'[u] = tx[u]
  BY TInvTypes DEF IInv
<1>2. Scope(t)' = {} /\ \A u \in Txs \ {t} : Scope(u)' = Scope(u)
  <2>1. DOMAIN Idle.work = {}
    BY DEF Idle
  <2>2. QED
    BY <1>1, <2>1 DEF Scope
<1>3. AtRest'
  BY DEF TInv, AtRest, EndedRow
<1>4. HeldInScope'
  BY <1>2, NoTxAssumption DEF TInv, HeldInScope, EndedRow
<1>5. \A u \in Txs, s \in Ships : Owns(u, s)' => u # t /\ Owns(u, s)
  BY <1>1, <1>2 DEF Owns
<1>6. Apart'
  BY <1>2, <1>5 DEF TInv, Apart
<1>7. InPlace'
  BY <1>1 DEF TInv, InPlace, Placed, Idle
<1>8. ASSUME NEW s \in Ships, s \notin Scope(t)
      PROVE  ship'[s] = ship[s] /\ File(exc', s) = File(exc, s)
  <2>1. ship[s].by # t
    BY <1>8 DEF TInv, HeldInScope
  <2>2. ship'[s] = ship[s]
    BY <2>1 DEF EndedRow
  <2>3. \A x \in Rows : x[1] = s => exc[x].by # t
    BY <1>8 DEF TInv, HeldInScope
  <2>4. \A x \in Rows : x[1] = s => exc'[x] = exc[x]
    BY <2>3 DEF EndedRow
  <2>5. File(exc', s) = File(exc, s)
    BY <2>4 DEF File, Rows
  <2>6. QED
    BY <2>2, <2>5
<1>9. ASSUME NEW s \in Ships, calm[s]
      PROVE  Orderly(ship'[s], File(exc', s), now)
  <2> DEFINE old == File(exc, s)
             new == File(exc', s)
  <2>1. Orderly(ship[s], old, now)
    BY <1>9 DEF TInv, InOrder
  <2>2. CASE s \notin Scope(t)
    BY <1>8, <2>1, <2>2
  <2>3. CASE s \in Scope(t)
    <3>1. Owns(t, s)
      BY <1>9, <2>3 DEF Owns
    <3>2. /\ ship'[s].com = (IF ok THEN ship[s].cur ELSE ship[s].com)
          /\ ship'[s].cur = ship'[s].com
          /\ \A k \in Kinds, i \in Slots :
                 /\ new[k][i].com = (IF ok THEN old[k][i].cur ELSE old[k][i].com)
                 /\ new[k][i].cur = new[k][i].com
      BY <3>1, EndOwned
    <3>3. ok /\ Over(ship[s].cur) => \A k \in Kinds : NoneOpen(old[k])
      <4>1. Turn(tx[t], s, ship[s], old, now)
        BY <1>9, <2>3 DEF TInv, TakingTurns
      <4>2. QED
        BY <2>3, <4>1, AllSettled DEF Turn
    <3> HIDE DEF old, new
    <3>4. Ordered(ship'[s].com, now) /\ Ordered(ship'[s].cur, now)
      BY <2>1, <3>2 DEF Orderly
    <3>5. Moved(ship'[s].com, ship'[s].cur)
      BY <3>2 DEF Moved
    <3>6. Tidy(ship'[s], new)
      <4>1. Tidy(ship[s], old)
        BY <2>1 DEF Orderly
      <4>2. CASE ok
        <5>1. \A k \in Kinds, i \in Slots : new[k][i].com = old[k][i].cur /\ new[k][i].cur = old[k][i].cur
          BY <3>2, <4>2
        <5>2. Over(ship'[s].com) => \A k \in Kinds, i \in Slots : new[k][i].com = "NONE"
          BY <3>2, <3>3, <4>2, <5>1 DEF NoneOpen
        <5>3. QED
          BY <4>1, <5>1, <5>2 DEF Tidy
      <4>3. CASE ~ ok
        <5>1. \A k \in Kinds, i \in Slots : new[k][i].com = old[k][i].com /\ new[k][i].cur = old[k][i].com
          BY <3>2, <4>3
        <5>2. ship'[s].com = ship[s].com
          BY <3>2, <4>3
        <5>3. QED
          BY <4>1, <5>1, <5>2 DEF Tidy
      <4>4. QED
        BY <4>2, <4>3
    <3>7. QED
      BY <3>4, <3>5, <3>6 DEF Orderly, new
  <2>4. QED
    BY <2>2, <2>3
<1>10. InOrder'
  BY <1>9 DEF InOrder
<1>11. ASSUME NEW u \in Txs, NEW s \in Ships, Owns(u, s)'
       PROVE  /\ u # t /\ s \in Scope(u)
              /\ ship'[s] = ship[s] /\ File(exc', s) = File(exc, s) /\ tx'[u] = tx[u]
  <2>1. u # t /\ Owns(u, s)
    BY <1>5, <1>11
  <2>2. s \notin Scope(t)
    BY <2>1 DEF TInv, Apart
  <2>3. QED
    BY <1>1, <1>8, <2>1, <2>2 DEF Owns
<1>12. TakingTurns'
  <2> SUFFICES ASSUME NEW u \in Txs, NEW s \in Ships, s \in Scope(u)', calm'[s]
               PROVE  Turn(tx'[u], s, ship'[s], File(exc', s), now')
    BY DEF TakingTurns
  <2>1. Owns(u, s)'
    BY DEF Owns
  <2>2. Turn(tx[u], s, ship[s], File(exc, s), now)
    BY <1>11, <2>1 DEF TInv, TakingTurns
  <2>3. QED
    BY <1>11, <2>1, <2>2
<1>13. Healing'
  <2> SUFFICES ASSUME NEW u \in Txs, NEW s \in Ships, s \in Scope(u)', tx'[u].alone
               PROVE  Heals(tx'[u], s, ship'[s], File(exc', s), now')
    BY DEF Healing
  <2>1. Owns(u, s)'
    BY DEF Owns
  <2>2. Heals(tx[u], s, ship[s], File(exc, s), now)
    BY <1>11, <2>1 DEF TInv, Healing
  <2>3. QED
    BY <1>11, <2>1, <2>2
<1>14. QED
  BY <1>3, <1>4, <1>6, <1>7, <1>10, <1>12, <1>13 DEF TInv

LEMMA CommitTurns ==
    ASSUME TInv, LInv', NEW t \in Txs, Commit(t)
    PROVE  TInv'
<1>1. /\ At(t, "commit") /\ ship' = CommitAll(ship, t) /\ exc' = CommitAll(exc, t)
      /\ tx' = [tx EXCEPT ![t] = Idle] /\ UNCHANGED <<now, calm>>
  BY DEF Commit
<1>2. \A s \in Ships : EndedRow(ship[s], ship'[s], t, TRUE)
  BY <1>1, TInvTypes, Released DEF IInv
<1>3. \A x \in Rows : EndedRow(exc[x], exc'[x], t, TRUE)
  BY <1>1, TInvTypes, Released DEF IInv, Rows
<1>4. QED
  BY <1>1, <1>2, <1>3, EndTurns

LEMMA AbortTurns ==
    ASSUME TInv, LInv', NEW t \in Txs, Abort(t)
    PROVE  TInv'
<1>1. /\ ship' = RollbackAll(ship, t) /\ exc' = RollbackAll(exc, t)
      /\ tx' = [tx EXCEPT ![t] = Idle] /\ UNCHANGED <<now, calm>>
  BY DEF Abort
<1>2. \A s \in Ships : EndedRow(ship[s], ship'[s], t, FALSE)
  BY <1>1, TInvTypes, Released DEF IInv
<1>3. \A x \in Rows : EndedRow(exc[x], exc'[x], t, FALSE)
  BY <1>1, TInvTypes, Released DEF IInv, Rows
<1>4. QED
  BY <1>1, <1>2, <1>3, EndTurns

\* A transaction begins: it has read what is committed, and owns what nobody
\* else works on.
LEMMA BeginsTurns ==
    ASSUME TInv, LInv', NEW t \in Txs, At(t, "idle"), NEW r \in TxRecords, Begins(t, r), Placed(r),
           r.next = 1, r.kind = "ETA_EXCEEDED", r.at \in {"write", "exception"},
           r.at = "write" /\ r.to \in Statuses /\ calm[r.work[1]] =>
               Permitted(r, ship[r.work[1]].com, now),
           r.at = "exception" => r.want = Wanted(ship[r.work[1]].com, now)
    PROVE  TInv'
<1> DEFINE scope == {r.work[i] : i \in DOMAIN r.work}
           met == {u \in Txs : Scope(u) \cap scope # {}}
           b == met = {}
<1>1. /\ tx' = [u \in Txs |-> IF u = t THEN [r EXCEPT !.alone = b]
                               ELSE IF u \in met THEN [tx[u] EXCEPT !.alone = FALSE] ELSE tx[u]]
      /\ calm' = [s \in Ships |-> calm[s] /\ ~ \E u \in met : s \in Scope(u) \cap scope]
      /\ UNCHANGED <<now, ship, exc>>
  BY DEF Begins
<1>2. Scope(t) = {}
  <2>1. tx[t].work = <<>>
    BY DEF TInv, InPlace, Placed, At
  <2>2. DOMAIN tx[t].work = {}
    BY <2>1
  <2>3. QED
    BY <2>2 DEF Scope
<1>3. \A u \in met, s \in scope : s \in Scope(u) => ~ calm'[s] \/ s \notin Ships
  BY <1>1
<1>4. \A u \in Txs, s \in scope : s \in Scope(u) => u \in met
  OBVIOUS
<1>5. ASSUME NEW q \in TxRecords, NEW c
      PROVE  Same(q, [q EXCEPT !.alone = c]) /\ [q EXCEPT !.alone = c].alone = c
  BY DEF TxRecords, Same
<1>6. Same(r, tx'[t]) /\ (tx'[t].alone <=> met = {})
  <2>1. tx'[t] = [r EXCEPT !.alone = b]
    BY <1>1
  <2> HIDE DEF b
  <2>2. Same(r, tx'[t]) /\ tx'[t].alone = b
    BY <1>5, <2>1
  <2>3. QED
    BY <2>2 DEF b
<1>7. ASSUME NEW u \in Txs \ {t}
      PROVE  /\ Same(tx[u], tx'[u])
             /\ tx'[u].alone => tx[u].alone /\ u \notin met
  <2>1. tx[u] \in TxRecords /\ Same(tx[u], tx[u])
    BY TInvTypes DEF IInv, Same
  <2>2. CASE u \in met
    BY <1>1, <1>5, <2>1, <2>2
  <2>3. CASE u \notin met
    BY <1>1, <2>1, <2>3
  <2>4. QED
    BY <2>2, <2>3
<1>8. Scope(t)' = scope /\ \A u \in Txs \ {t} : Scope(u)' = Scope(u)
  BY <1>6, <1>7 DEF Scope, Same
<1>9. \A s \in Ships : calm'[s] => calm[s]
  BY <1>1
<1> HIDE DEF scope, met, b
<1>10. AtRest'
  BY <1>1 DEF TInv, AtRest
<1>11. HeldInScope'
  BY <1>1, <1>2, <1>8 DEF TInv, HeldInScope
<1>12. ASSUME NEW s \in Ships, s \in scope, calm'[s] \/ tx'[t].alone
       PROVE  \A u \in Txs : s \notin Scope(u)
  <2> SUFFICES ASSUME NEW u \in Txs, s \in Scope(u) PROVE FALSE
    OBVIOUS
  <2>1. u \in met
    BY <1>4, <1>12
  <2>2. ~ calm'[s]
    BY <1>3, <1>12, <2>1
  <2>3. QED
    BY <1>6, <1>12, <2>1, <2>2
<1>13. ASSUME NEW u \in Txs \ {t}, NEW s \in Ships, Owns(u, s)'
       PROVE  Owns(u, s) /\ s \notin scope
  <2>1. s \in Scope(u) /\ (calm'[s] \/ tx'[u].alone)
    BY <1>8, <1>13 DEF Owns
  <2>2. Owns(u, s)
    BY <1>7, <1>9, <2>1 DEF Owns
  <2>3. s \notin scope
    BY <1>3, <1>4, <1>7, <2>1
  <2>4. QED
    BY <2>2, <2>3
<1>14. Apart'
  <2> SUFFICES ASSUME NEW u \in Txs, NEW v \in Txs, NEW s \in Ships, Owns(u, s)', v # u
               PROVE  s \notin Scope(v)'
    BY DEF Apart
  <2>1. CASE u = t
    <3>1. s \in scope /\ (calm'[s] \/ tx'[t].alone)
      BY <1>8, <2>1 DEF Owns
    <3>2. QED
      BY <1>8, <1>12, <2>1, <3>1
  <2>2. CASE u # t
    <3>1. Owns(u, s) /\ s \notin scope
      BY <1>13, <2>2
    <3>2. s \notin Scope(v)
      BY <3>1 DEF TInv, Apart
    <3>3. QED
      BY <1>8, <3>1, <3>2
  <2>3. QED
    BY <2>1, <2>2
<1>15. InPlace'
  BY <1>6, <1>7, SameStays DEF TInv, InPlace
<1>16. InOrder'
  BY <1>1, <1>9 DEF TInv, InOrder
<1>17. \A s, k : ~ Settled(r, s, k)
  <2>1. DOMAIN r.work = 1 .. Len(r.work) /\ Len(r.work) \in Nat
    BY LenProperties DEF TxRecords
  <2>2. QED
    BY <2>1 DEF Settled
<1>18. ASSUME NEW s \in Ships, s \in scope, calm'[s] \/ tx'[t].alone, Handles(r, s)
       PROVE  /\ r.want = Wanted(ship[s].cur, now) /\ r.at = "exception"
              /\ Over(ship[s].cur) => \A k \in Kinds : r.want[k] = "NONE"
  <2>1. ship[s].cur = ship[s].com
    BY <1>12, <1>18, Unheld
  <2>2. r.at = "exception" /\ r.work[1] = s
    BY <1>18 DEF Handles
  <2>3. r.want = Wanted(ship[s].cur, now)
    BY <2>1, <2>2
  <2>4. Over(ship[s].cur) => \A k \in Kinds : Wanted(ship[s].cur, now)[k] = "NONE"
    BY DEF Over, Wanted
  <2>5. QED
    BY <2>2, <2>3, <2>4
<1>19. TakingTurns'
  <2> SUFFICES ASSUME NEW u \in Txs, NEW s \in Ships, s \in Scope(u)', calm'[s]
               PROVE  Turn(tx'[u], s, ship[s], File(exc, s), now)
    BY <1>1 DEF TakingTurns
  <2>1. CASE u = t
    <3>1. s \in scope
      BY <1>8, <2>1
    <3>2. r.at = "write" /\ r.work[1] = s /\ r.to \in Statuses => Permitted(r, ship[s].com, now)
      BY <1>9
    <3>3. Turn(r, s, ship[s], File(exc, s), now)
      BY <1>17, <1>18, <3>1, <3>2 DEF Turn
    <3>4. QED
      BY <1>6, <2>1, <3>3, SameStays
  <2>2. CASE u # t
    <3>1. Turn(tx[u], s, ship[s], File(exc, s), now)
      BY <1>8, <1>9, <2>2 DEF TInv, TakingTurns
    <3>2. QED
      BY <1>7, <2>2, <3>1, SameStays
  <2>3. QED
    BY <2>1, <2>2
<1>20. Healing'
  <2> SUFFICES ASSUME NEW u \in Txs, NEW s \in Ships, s \in Scope(u)', tx'[u].alone
               PROVE  Heals(tx'[u], s, ship[s], File(exc, s), now)
    BY <1>1 DEF Healing
  <2>1. CASE u = t
    <3>1. s \in scope
      BY <1>8, <2>1
    <3>2. Handles(r, s) => r.want = Wanted(ship[s].cur, now) /\ r.at = "exception"
      BY <1>18, <2>1, <3>1
    <3>3. \A k \in Kinds : Kept(File(exc, s)[k])
      BY <1>12, <2>1, <3>1, Unheld
    <3>4. Heals(r, s, ship[s], File(exc, s), now)
      BY <1>17, <3>2, <3>3 DEF Heals
    <3>5. QED
      BY <1>6, <2>1, <3>4, SameStays
  <2>2. CASE u # t
    <3>1. Heals(tx[u], s, ship[s], File(exc, s), now)
      BY <1>7, <1>8, <2>2 DEF TInv, Healing
    <3>2. QED
      BY <1>7, <2>2, <3>1, SameStays
  <2>3. QED
    BY <2>1, <2>2
<1>21. QED
  BY <1>10, <1>11, <1>14, <1>15, <1>16, <1>19, <1>20 DEF TInv

\* A change begins: it is due to write one shipment.
LEMMA ChangeTurns ==
    ASSUME TInv, LInv', NEW t \in Txs, At(t, "idle"), NEW s \in Ships, NEW r \in TxRecords,
           Begins(t, r), r.at = "write", r.work = <<s>>, r.next = 1, r.kind = "ETA_EXCEEDED",
           r.to \in Statuses => /\ <<ship[s].com.status, r.to>> \in ShipmentTransitions
                                /\ r.stamp = now
                                /\ r.kept = IF r.to = "IN_TRANSIT" THEN ship[s].com.departed
                                                                   ELSE ship[s].com.arrived
    PROVE  TInv'
<1>1. r.work[1] = s
  BY OneShip
<1>2. Placed(r)
  BY DEF Placed
<1>3. ASSUME r.to \in Statuses, calm[s]
      PROVE  Permitted(r, ship[s].com, now)
  <2>1. Ordered(ship[s].com, now)
    BY <1>3 DEF TInv, InOrder, Orderly
  <2>2. r.stamp = now /\ now \in Nat
    BY <1>3, TInvTypes, TimesAssumption DEF IInv
  <2>3. QED
    BY <1>3, <2>1, <2>2 DEF Ordered, Permitted
<1>4. QED
  BY <1>1, <1>2, <1>3, BeginsTurns

LEMMA TransitionTurns ==
    ASSUME TInv, LInv', NEW t \in Txs, NEW s \in Ships, NEW to, Transition(t, s, to)
    PROVE  TInv'
<1> DEFINE kept == IF to = "IN_TRANSIT" THEN ship[s].com.departed ELSE ship[s].com.arrived
           r == [Idle EXCEPT !.at = "write", !.to = to, !.stamp = now, !.kept = kept,
                             !.work = <<s>>]
<1>1. <<ship[s].com.status, to>> \in ShipmentTransitions /\ At(t, "idle") /\ Begins(t, r)
  BY DEF Transition
<1>2. to \in Requests
  BY <1>1 DEF ShipmentTransitions, Requests, Statuses
<1>3. now \in Times
  BY TInvTypes, TimesAssumption, TimesType DEF IInv
<1>4. kept \in Times /\ <<s>> \in Seq(Ships)
  BY TInvTypes, OneShip DEF RowOf, Shipment
<1> HIDE DEF kept
<1>5. r \in TxRecords
  BY <1>2, <1>3, <1>4, IdleType DEF TxRecords
<1>6. /\ r.at = "write" /\ r.to = to /\ r.stamp = now /\ r.kept = kept /\ r.work = <<s>>
      /\ r.next = 1 /\ r.kind = "ETA_EXCEEDED"
  BY IdleType DEF TxRecords, Idle
<1> HIDE DEF r
<1>7. QED
  BY <1>1, <1>5, <1>6, ChangeTurns DEF kept

LEMMA TrackingEventTurns ==
    ASSUME TInv, LInv', NEW t \in Txs, NEW s \in Ships, NEW stamp \in Stamps \cup {now},
           TrackingEvent(t, s, stamp)
    PROVE  TInv'
<1> DEFINE r == [Idle EXCEPT !.at = "write", !.to = "EVENT", !.stamp = stamp, !.work = <<s>>]
<1>1. At(t, "idle") /\ Begins(t, r)
  BY DEF TrackingEvent
<1>2. stamp \in Times
  BY TInvTypes, TimesAssumption, TimesType DEF IInv
<1>3. r \in TxRecords
  BY <1>2, OneShip, IdleType DEF TxRecords, Requests
<1>4. r.at = "write" /\ r.to = "EVENT" /\ r.work = <<s>> /\ r.next = 1 /\ r.kind = "ETA_EXCEEDED"
  BY IdleType DEF TxRecords, Idle
<1>5. r.to \notin Statuses
  BY <1>4 DEF Statuses
<1> HIDE DEF r
<1>6. QED
  BY <1>1, <1>3, <1>4, <1>5, ChangeTurns

LEMMA UpdateEtaTurns ==
    ASSUME TInv, LInv', NEW t \in Txs, NEW s \in Ships, NEW eta \in Etas, UpdateEta(t, s, eta)
    PROVE  TInv'
<1> DEFINE r == [Idle EXCEPT !.at = "write", !.to = "ETA", !.stamp = now, !.kept = eta,
                             !.work = <<s>>]
<1>1. At(t, "idle") /\ Begins(t, r)
  BY DEF UpdateEta
<1>2. now \in Times /\ eta \in Times
  BY TInvTypes, TimesAssumption, TimesType DEF IInv
<1>3. r \in TxRecords
  BY <1>2, OneShip, IdleType DEF TxRecords, Requests
<1>4. r.at = "write" /\ r.to = "ETA" /\ r.work = <<s>> /\ r.next = 1 /\ r.kind = "ETA_EXCEEDED"
  BY IdleType DEF TxRecords, Idle
<1>5. r.to \notin Statuses
  BY <1>4 DEF Statuses
<1> HIDE DEF r
<1>6. QED
  BY <1>1, <1>3, <1>4, <1>5, ChangeTurns

LEMMA LoadTurns ==
    ASSUME TInv, LInv', NEW t \in Txs, NEW S \in SUBSET Existing, Load(t, S)
    PROVE  TInv'
<1>1. PICK w \in NewestFirst(S) : Begins(t, Decided([Idle EXCEPT !.work = w], ship[w[1]].com))
  BY DEF Load
<1>2. S \subseteq Ships /\ IsFiniteSet(S) /\ S # {} /\ At(t, "idle")
  BY ShipsFinite, FS_Subset DEF Load, Existing
<1>3. Cardinality(S) \in Nat \ {0}
  BY <1>2, FS_CardinalityType, FS_EmptySet
<1>4. w \in [1 .. Cardinality(S) -> S]
  BY DEF NewestFirst, AnyOrder
<1>5. w \in Seq(Ships)
  BY <1>2, <1>3, <1>4, SeqDef
<1> DEFINE r == [Idle EXCEPT !.work = w]
           d == Decided(r, ship[w[1]].com)
<1>6. r \in TxRecords /\ r.work = w /\ r.next = 1 /\ r.kind = "ETA_EXCEEDED"
  BY <1>5, IdleType DEF TxRecords, Idle
<1> HIDE DEF r
<1>7. /\ d \in TxRecords /\ d.at = "exception" /\ d.want = Wanted(ship[w[1]].com, now)
      /\ d.work = w /\ d.next = 1 /\ d.kind = "ETA_EXCEEDED"
  BY <1>6, Decides
<1>8. Begins(t, d)
  BY <1>1 DEF r
<1> HIDE DEF d
<1>9. Placed(d)
  BY <1>7 DEF Placed
<1>10. QED
  BY <1>2, <1>7, <1>8, <1>9, BeginsTurns

LEMMA CreateTurns ==
    ASSUME TInv, LInv', NEW s \in Ships, Create(s)
    PROVE  TInv'
<1> DEFINE v == [NoShipment EXCEPT !.status = "CREATED", !.last = now]
<1>1. /\ s \notin Existing /\ ship' = [ship EXCEPT ![s] = Row(v)]
      /\ UNCHANGED <<now, exc, tx, calm>>
  BY DEF Create
<1>2. /\ v.status = "CREATED" /\ v.departed = Never /\ v.arrived = Never /\ v.delivered = Never
  BY DEF NoShipment
<1> HIDE DEF v
<1>3. /\ ship'[s] = Row(v) /\ Row(v).com = v /\ Row(v).cur = v /\ Row(v).by = NoTx
      /\ \A k \in Ships : k # s => ship'[k] = ship[k]
  BY <1>1, TInvTypes DEF IInv, Row
<1>4. \A u \in Txs : s \notin Scope(u) /\ Scope(u)' = Scope(u)
  BY <1>1, TInvTypes, ScopeOf DEF Scope
<1>5. AtRest'
  BY <1>1, <1>3 DEF TInv, AtRest
<1>6. HeldInScope'
  BY <1>1, <1>3, <1>4, NoTxAssumption DEF TInv, HeldInScope
<1>7. \A u \in Txs, k \in Ships : Owns(u, k)' <=> Owns(u, k)
  BY <1>1, <1>4 DEF Owns
<1>8. Apart'
  BY <1>4, <1>7 DEF TInv, Apart
<1>9. InPlace'
  BY <1>1 DEF TInv, InPlace
<1>10. ASSUME calm[s] PROVE Orderly(ship'[s], File(exc, s), now)
  <2>1. Tidy(ship[s], File(exc, s))
    BY <1>10 DEF TInv, InOrder, Orderly
  <2>2. ~ Over(ship'[s].com)
    BY <1>2, <1>3 DEF Over, ACTIVE_STATUSES
  <2>3. Tidy(ship'[s], File(exc, s))
    BY <2>1, <2>2 DEF Tidy
  <2>4. now \in Nat
    BY TInvTypes, TimesAssumption DEF IInv
  <2>5. Ordered(v, now)
    BY <1>2, <2>4 DEF Ordered, Never
  <2>6. Moved(v, v)
    BY DEF Moved
  <2>7. QED
    BY <1>3, <2>3, <2>5, <2>6 DEF Orderly
<1>11. InOrder'
  BY <1>1, <1>3, <1>10 DEF TInv, InOrder
<1>12. \A u \in Txs, k \in Ships : k \in Scope(u) => ship'[k] = ship[k]
  BY <1>3, <1>4
<1>13. TakingTurns'
  <2> SUFFICES ASSUME NEW u \in Txs, NEW k \in Ships, k \in Scope(u)', calm'[k]
               PROVE  Turn(tx[u], k, ship'[k], File(exc, k), now)
    BY <1>1 DEF TakingTurns
  <2>1. Turn(tx[u], k, ship[k], File(exc, k), now)
    BY <1>1, <1>4 DEF TInv, TakingTurns
  <2>2. QED
    BY <1>4, <1>12, <2>1
<1>14. Healing'
  <2> SUFFICES ASSUME NEW u \in Txs, NEW k \in Ships, k \in Scope(u)', tx'[u].alone
               PROVE  Heals(tx[u], k, ship'[k], File(exc, k), now)
    BY <1>1 DEF Healing
  <2>1. Heals(tx[u], k, ship[k], File(exc, k), now)
    BY <1>1, <1>4 DEF TInv, Healing
  <2>2. QED
    BY <1>4, <1>12, <2>1
<1>15. QED
  BY <1>5, <1>6, <1>8, <1>9, <1>11, <1>13, <1>14 DEF TInv

LEMMA TickTurns ==
    ASSUME TInv, LInv', Tick
    PROVE  TInv'
<1>1. /\ now \in Nat /\ now' = now + 1 /\ now' \in Nat /\ now <= now'
      /\ tx' = [t \in Txs |-> IF At(t, "idle") THEN tx[t] ELSE [tx[t] EXCEPT !.alone = FALSE]]
      /\ UNCHANGED <<ship, exc, calm>>
  BY TInvTypes, TimesAssumption DEF IInv, Tick
<1>2. ASSUME NEW u \in Txs
      PROVE  Same(tx[u], tx'[u]) /\ (At(u, "idle") \/ ~ tx'[u].alone)
  <2>1. tx[u] \in TxRecords
    BY TInvTypes DEF IInv
  <2>2. CASE At(u, "idle")
    BY <1>1, <2>2 DEF Same
  <2>3. CASE ~ At(u, "idle")
    <3>1. tx'[u] = [tx[u] EXCEPT !.alone = FALSE]
      BY <1>1, <2>3
    <3>2. QED
      BY <2>1, <3>1 DEF TxRecords, Same
  <2>4. QED
    BY <2>2, <2>3
<1>3. \A u \in Txs : Scope(u)' = Scope(u)
  BY <1>2 DEF Scope, Same
<1>4. \A u \in Txs : At(u, "idle") => Scope(u) = {}
  <2> SUFFICES ASSUME NEW u \in Txs, At(u, "idle") PROVE Scope(u) = {}
    OBVIOUS
  <2>1. tx[u].work = <<>>
    BY DEF TInv, InPlace, Placed, At
  <2>2. DOMAIN tx[u].work = {}
    BY <2>1
  <2>3. QED
    BY <2>2 DEF Scope
<1>5. AtRest' /\ HeldInScope'
  BY <1>1, <1>3 DEF TInv, AtRest, HeldInScope
<1>6. \A u \in Txs, s \in Ships : Owns(u, s)' => Owns(u, s)
  BY <1>1, <1>2, <1>3, <1>4 DEF Owns
<1>7. Apart'
  BY <1>3, <1>6 DEF TInv, Apart
<1>8. InPlace'
  BY <1>2, SameStays DEF TInv, InPlace
<1>9. InOrder'
  <2> SUFFICES ASSUME NEW s \in Ships, calm[s]
               PROVE  Orderly(ship[s], File(exc, s), now')
    BY <1>1 DEF InOrder
  <2>1. Orderly(ship[s], File(exc, s), now) /\ ship[s] \in RowOf(Shipment, Txs)
    BY TInvTypes DEF TInv, InOrder
  <2>2. QED
    BY <1>1, <2>1, OrderLasts
<1>10. TakingTurns'
  <2> SUFFICES ASSUME NEW u \in Txs, NEW s \in Ships, s \in Scope(u)', calm[s]
               PROVE  Turn(tx'[u], s, ship[s], File(exc, s), now')
    BY <1>1 DEF TakingTurns
  <2>1. Turn(tx[u], s, ship[s], File(exc, s), now) /\ tx[u] \in TxRecords
    BY <1>3, TInvTypes DEF TInv, TakingTurns, IInv
  <2>2. Turn(tx[u], s, ship[s], File(exc, s), now')
    BY <1>1, <2>1, TurnLasts
  <2>3. QED
    BY <1>2, <2>2, SameStays
<1>11. Healing'
  <2> SUFFICES ASSUME NEW u \in Txs, NEW s \in Ships, s \in Scope(u)', tx'[u].alone
               PROVE  FALSE
    BY DEF Healing
  <2>1. QED
    BY <1>2, <1>3, <1>4
<1>12. QED
  BY <1>5, <1>7, <1>8, <1>9, <1>10, <1>11 DEF TInv

-----------------------------------------------------------------------------
(* The theorems.                                                           *)

LEMMA InitTInv ==
    ASSUME Init
    PROVE  TInv
<1>1. LInv
  BY InitLInv
<1>2. /\ now = 0 /\ \A t \in Txs : tx[t] = Idle
      /\ ship = [s \in Ships |-> Row(NoShipment)]
      /\ exc = [x \in Ships \X Kinds \X Slots |-> Row("NONE")]
  BY DEF Init
<1>3. \A s \in Ships : ship[s].com = NoShipment /\ ship[s].cur = NoShipment /\ ship[s].by = NoTx
  BY <1>2 DEF Row
<1>4. \A x \in Rows : exc[x].com = "NONE" /\ exc[x].cur = "NONE" /\ exc[x].by = NoTx
  BY <1>2 DEF Row, Rows
<1>5. \A t \in Txs : Scope(t) = {}
  <2>1. DOMAIN Idle.work = {}
    BY DEF Idle
  <2>2. QED
    BY <1>2, <2>1 DEF Scope
<1>6. AtRest /\ HeldInScope
  BY <1>3, <1>4, NoTxAssumption DEF AtRest, HeldInScope
<1>7. Apart /\ TakingTurns /\ Healing
  BY <1>5 DEF Apart, TakingTurns, Healing
<1>8. InPlace
  BY <1>2 DEF InPlace, Placed, Idle
<1>9. InOrder
  <2>1. \A s \in Ships, k \in Kinds, i \in Slots :
            File(exc, s)[k][i].com = "NONE" /\ File(exc, s)[k][i].cur = "NONE"
    BY <1>4 DEF File, Rows
  <2>2. Ordered(NoShipment, 0)
    BY DEF Ordered, NoShipment, Never
  <2>3. \A v : Moved(v, v)
    BY DEF Moved
  <2>4. \A s \in Ships : Tidy(ship[s], File(exc, s))
    BY <2>1 DEF Tidy
  <2>5. QED
    BY <1>2, <1>3, <2>2, <2>3, <2>4 DEF InOrder, Orderly
<1>10. QED
  BY <1>1, <1>6, <1>7, <1>8, <1>9 DEF TInv

\* A request, and the other steps of a transaction.
LEMMA RequestTurns ==
    ASSUME TInv, LInv', NEW t \in Txs, Request(t)
    PROVE  TInv'
<1>1. CASE \E s \in Ships, to \in Requests : Transition(t, s, to)
  BY <1>1, TransitionTurns
<1>2. CASE \E s \in Ships, stamp \in Stamps \cup {now} : TrackingEvent(t, s, stamp)
  BY <1>2, TrackingEventTurns
<1>3. CASE \E s \in Ships, eta \in Etas : UpdateEta(t, s, eta)
  BY <1>3, UpdateEtaTurns
<1>4. CASE \E S \in SUBSET Existing : Load(t, S)
  BY <1>4, LoadTurns
<1>5. \A s \in Ships : plan[s] \subseteq Requests
  BY PlansAssumption, TInvTypes DEF IInv
<1>6. QED
  BY <1>1, <1>2, <1>3, <1>4, <1>5 DEF Request

LEMMA NextTInv ==
    ASSUME TInv, [Next]_vars
    PROVE  TInv'
<1>1. LInv'
  BY NextLInv DEF TInv
<1>2. CASE UNCHANGED vars
  <2>1. now' = now /\ ship' = ship /\ exc' = exc /\ tx' = tx /\ calm' = calm
    BY <1>2 DEF vars
  <2>2. AtRest' /\ HeldInScope' /\ Apart' /\ InPlace'
    BY <2>1 DEF TInv, AtRest, HeldInScope, Apart, InPlace, Owns, Scope
  <2>3. InOrder' /\ TakingTurns' /\ Healing'
    BY <2>1 DEF TInv, InOrder, TakingTurns, Healing, Scope
  <2>4. QED
    BY <1>1, <2>2, <2>3 DEF TInv
<1>3. CASE Tick
  BY <1>1, <1>3, TickTurns
<1>4. CASE \E s \in Ships : "CREATED" \in plan[s] /\ Create(s)
  BY <1>1, <1>4, CreateTurns
<1>5. ASSUME NEW t \in Txs, Proceed(t)
      PROVE  TInv'
  BY <1>1, <1>5, WriteTurns, EvaluateNextTurns, ResolveTurns, InsertTurns, FindTurns, MendTurns,
     CommitTurns DEF Proceed
<1>6. CASE \E t \in Txs : Abort(t)
  BY <1>1, <1>6, AbortTurns
<1>7. QED
  BY <1>1, <1>2, <1>3, <1>4, <1>5, <1>6, RequestTurns DEF Next

\* The invariant holds: what a transaction that shares its shipments with no
\* other has read stays true, and what it leaves is in order.
THEOREM InTurn == Spec => []TInv
<1>1. Init => TInv
  BY InitTInv
<1>2. TInv /\ [Next]_vars => TInv'
  BY NextTInv
<1>3. QED
  BY <1>1, <1>2, PTL DEF Spec

\* Requests that take turns on a shipment leave its times in the order of its
\* lifecycle, at most one open exception of a kind, and none once it is over.
THEOREM TurnsKeepOrder == Spec => []TurnsLeaveOrder
<1>1. ASSUME TInv PROVE TurnsLeaveOrder
  <2> SUFFICES ASSUME NEW s \in Ships, calm[s]
               PROVE  LET v == ship[s].com
                          open(k) == {i \in Slots : exc[<<s, k, i>>].com # "NONE"}
                      IN  /\ v.arrived # Never => v.departed # Never /\ v.departed <= v.arrived
                          /\ v.delivered # Never => v.arrived <= v.delivered /\ v.delivered <= now
                          /\ \A k \in Kinds : Cardinality(open(k)) <= 1
                          /\ v.status \notin ACTIVE_STATUSES => \A k \in Kinds : open(k) = {}
    BY DEF TurnsLeaveOrder
  <2> DEFINE v == ship[s].com
             open(k) == {i \in Slots : exc[<<s, k, i>>].com # "NONE"}
  <2>1. Ordered(v, now) /\ Tidy(ship[s], File(exc, s))
    BY <1>1 DEF TInv, InOrder, Orderly
  <2>2. /\ v.arrived # Never => v.departed # Never /\ v.departed <= v.arrived
        /\ v.delivered # Never => v.arrived <= v.delivered /\ v.delivered <= now
    BY <2>1 DEF Ordered
  <2>3. \A k \in Kinds, i \in Slots : File(exc, s)[k][i] = exc[<<s, k, i>>]
    BY <1>1, TInvTypes
  <2>4. \A k \in Kinds, i, j \in Slots :
            exc[<<s, k, i>>].com # "NONE" /\ exc[<<s, k, j>>].com # "NONE" => i = j
    BY <2>1, <2>3 DEF Tidy
  <2>5. ASSUME NEW k \in Kinds
        PROVE  Cardinality(open(k)) <= 1
    <3>1. \A i, j \in open(k) : i = j
      BY <2>4
    <3> HIDE DEF open
    <3>2. open(k) = {} \/ \E i : open(k) = {i}
      BY <3>1
    <3>3. Cardinality(open(k)) \in {0, 1}
      BY <3>2, FS_EmptySet, FS_Singleton
    <3>4. QED
      BY <3>3
  <2>6. v.status \notin ACTIVE_STATUSES => \A k \in Kinds : open(k) = {}
    BY <2>1, <2>3 DEF Tidy, Over
  <2>7. QED
    BY <2>2, <2>5, <2>6
<1>2. QED
  BY InTurn, <1>1, PTL

\* What is committed of a shipment changes with its creation and with the
\* commit of the transaction that holds its row.
LEMMA OnlyCommits ==
    ASSUME TInv, [Next]_vars, NEW s \in Ships
    PROVE  \/ ship'[s].com = ship[s].com
           \/ ship[s].com.status = "NONE" /\ ship'[s].com.status = "CREATED"
           \/ ship'[s].com = ship[s].cur
<1>1. CASE UNCHANGED ship
  BY <1>1
<1>2. ASSUME NEW r \in Ships, Create(r)
      PROVE  \/ ship'[s].com = ship[s].com
             \/ ship[s].com.status = "NONE" /\ ship'[s].com.status = "CREATED"
  <2>1. /\ r \notin Existing
        /\ ship' = [ship EXCEPT ![r] = Row([NoShipment EXCEPT !.status = "CREATED", !.last = now])]
    BY <1>2 DEF Create
  <2>2. CASE s = r
    BY <2>1, <2>2, TInvTypes DEF IInv, Existing, Row, NoShipment
  <2>3. CASE s # r
    BY <2>1, <2>3, TInvTypes DEF IInv
  <2>4. QED
    BY <2>2, <2>3
<1>3. ASSUME NEW t \in Txs, Write(t)
      PROVE  ship'[s].com = ship[s].com
  BY <1>3, Writes
<1>4. ASSUME NEW t \in Txs, Commit(t)
      PROVE  ship'[s].com \in {ship[s].com, ship[s].cur}
  <2>1. EndedRow(ship[s], ship'[s], t, TRUE)
    BY <1>4, TInvTypes, Released DEF Commit, IInv
  <2>2. QED
    BY <2>1 DEF EndedRow
<1>5. ASSUME NEW t \in Txs, Abort(t)
      PROVE  ship'[s].com = ship[s].com
  <2>1. EndedRow(ship[s], ship'[s], t, FALSE)
    BY <1>5, TInvTypes, Released DEF Abort, IInv
  <2>2. QED
    BY <2>1 DEF EndedRow
<1>6. ASSUME NEW t \in Txs, Request(t)
      PROVE  UNCHANGED ship
  <2>1. \A r : Begins(t, r) => UNCHANGED ship
    BY DEF Begins
  <2>2. \E r : Begins(t, r)
    BY <1>6 DEF Request, Transition, TrackingEvent, UpdateEta, Load
  <2>3. QED
    BY <2>1, <2>2
<1>7. CASE Tick
  BY <1>1, <1>7 DEF Tick
<1>8. ASSUME NEW t \in Txs, Proceed(t)
      PROVE  ship'[s].com \in {ship[s].com, ship[s].cur}
  <2>1. CASE EvaluateNext(t) \/ Resolve(t) \/ Insert(t) \/ Find(t) \/ Mend(t)
    BY <2>1 DEF EvaluateNext, Resolve, Insert, Find, Mend
  <2>2. QED
    BY <1>3, <1>4, <1>8, <2>1 DEF Proceed
<1>9. QED
  BY <1>1, <1>2, <1>5, <1>6, <1>7, <1>8 DEF Next, vars

\* Requests that take turns on a shipment move it along its lifecycle, and
\* nobody changes the time of a delivery.
THEOREM AlongTheLifecycle == Spec => LegalTransitions
<1> DEFINE A == \A s \in Ships : calm[s] =>
                  LET v == ship[s].com
                      w == ship'[s].com
                  IN  /\ v.status # w.status =>
                             <<v.status, w.status>> \in ShipmentTransitions \cup {<<"NONE", "CREATED">>}
                      /\ v.delivered # Never => w.delivered = v.delivered
<1>1. ASSUME TInv, [Next]_vars PROVE A
  <2> SUFFICES ASSUME NEW s \in Ships, calm[s]
               PROVE  /\ ship[s].com.status # ship'[s].com.status =>
                            <<ship[s].com.status, ship'[s].com.status>>
                                \in ShipmentTransitions \cup {<<"NONE", "CREATED">>}
                      /\ ship[s].com.delivered # Never =>
                            ship'[s].com.delivered = ship[s].com.delivered
    OBVIOUS
  <2>1. Ordered(ship[s].com, now) /\ Moved(ship[s].com, ship[s].cur)
    BY <1>1 DEF TInv, InOrder, Orderly
  <2>2. CASE ship'[s].com = ship[s].com
    BY <2>2
  <2>3. CASE ship[s].com.status = "NONE" /\ ship'[s].com.status = "CREATED"
    BY <2>1, <2>3 DEF Ordered
  <2>4. CASE ship'[s].com = ship[s].cur
    BY <2>1, <2>4 DEF Moved
  <2>5. QED
    BY <1>1, <2>2, <2>3, <2>4, OnlyCommits
<1>2. QED
  BY InTurn, <1>1, PTL DEF LegalTransitions, Spec

\* A transaction that has been alone with its shipments closes every open
\* exception that is not wanted; of a kind that is wanted it brings one to its
\* level and leaves the others, a race's duplicates, as they were.
THEOREM AloneSettles == Spec => EvaluationSettles
<1> DEFINE A == \A t \in Txs : (tx[t].alone /\ Commit(t)) =>
                  \A s \in Scope(t), k \in Kinds :
                      LET was(i) == exc[<<s, k, i>>].com
                          is(i) == exc'[<<s, k, i>>].com
                          want == Wanted(ship'[s].com, now)[k]
                      IN  IF want = "NONE" THEN \A i \in Slots : is(i) = "NONE"
                          ELSE \E i \in Slots :
                                  /\ is(i) = want
                                  /\ was(i) # "NONE" \/ \A j \in Slots : was(j) = "NONE"
                                  /\ \A j \in Slots \ {i} : is(j) = was(j)
<1>1. ASSUME TInv, NEW t \in Txs, tx[t].alone, Commit(t), NEW s \in Scope(t), NEW k \in Kinds
      PROVE  LET was(i) == exc[<<s, k, i>>].com
                 is(i) == exc'[<<s, k, i>>].com
                 want == Wanted(ship'[s].com, now)[k]
             IN  IF want = "NONE" THEN \A i \in Slots : is(i) = "NONE"
                 ELSE \E i \in Slots :
                         /\ is(i) = want
                         /\ was(i) # "NONE" \/ \A j \in Slots : was(j) = "NONE"
                         /\ \A j \in Slots \ {i} : is(j) = was(j)
  <2> DEFINE old == File(exc, s)[k]
             new == File(exc', s)[k]
             want == Wanted(ship'[s].com, now)[k]
  <2>1. s \in Ships /\ Owns(t, s) /\ At(t, "commit")
    BY <1>1, TInvTypes, ScopeOf DEF Owns, Commit
  <2>2. EndedRow(ship[s], ship'[s], t, TRUE)
    BY <1>1, <2>1, TInvTypes, Released DEF Commit, IInv
  <2>3. \A x \in Rows : EndedRow(exc[x], exc'[x], t, TRUE)
    BY <1>1, TInvTypes, Released DEF Commit, IInv, Rows
  <2>4. ship'[s].com = ship[s].cur /\ \A i \in Slots : new[i].com = old[i].cur
    BY <1>1, <2>1, <2>2, <2>3, EndOwned
  <2>5. Matches(old, want)
    <3>1. Heals(tx[t], s, ship[s], File(exc, s), now)
      BY <1>1, <2>1 DEF TInv, Healing
    <3>2. Settled(tx[t], s, k)
      BY <1>1, <2>1, AllSettled
    <3>3. Matches(old, Wanted(ship[s].cur, now)[k])
      BY <3>1, <3>2 DEF Heals
    <3>4. QED
      BY <2>4, <3>3
  <2>6. \A i \in Slots : new[i] = exc'[<<s, k, i>>] /\ old[i] = exc[<<s, k, i>>]
    BY DEF File
  <2> HIDE DEF old, new, want
  <2>7. \A i \in Slots : exc'[<<s, k, i>>].com = old[i].cur /\ exc[<<s, k, i>>].com = old[i].com
    BY <2>4, <2>6
  <2>8. IF want = "NONE" THEN \A i \in Slots : exc'[<<s, k, i>>].com = "NONE"
        ELSE \E i \in Slots :
                /\ exc'[<<s, k, i>>].com = want
                /\ \/ exc[<<s, k, i>>].com # "NONE"
                   \/ \A j \in Slots : exc[<<s, k, j>>].com = "NONE"
                /\ \A j \in Slots \ {i} : exc'[<<s, k, j>>].com = exc[<<s, k, j>>].com
    BY <2>5, <2>7 DEF Matches, NoneOpen
  <2>9. QED
    BY <2>8 DEF want
<1>2. ASSUME TInv PROVE A
  BY <1>1, <1>2
<1>3. QED
  BY InTurn, <1>2, PTL DEF EvaluationSettles
=============================================================================
