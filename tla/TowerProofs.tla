----------------------------- MODULE TowerProofs -----------------------------
(***************************************************************************)
(* Theorems about a database in use, for any plan, clock, waits and        *)
(* quantities.                                                             *)
(***************************************************************************)
EXTENDS ControlTower, Sums

-----------------------------------------------------------------------------
(* The type of the tables.                                                 *)

IsTable(f, K, R) ==
    f \in [DOMAIN f -> R] /\ DOMAIN f \subseteq K /\ IsFiniteSet(DOMAIN f)

\* No more is received than was ordered, none reserved or fulfilled beyond what
\* was asked for, and neither before the order is allocated.
PORecords == [supplier : SupplierCodes, status : OPEN_PO_STATUSES \cup {"RECEIVED", "CANCELLED"},
              ordered : Int, expected : Int, approved : Int, product : Products,
              qty : Nat, got : Nat, cost : Nat]
PORows == {r \in PORecords : r.got <= r.qty}
SORecords == [customer : Customers, status : OPEN_SO_STATUSES \cup {"FULFILLED", "CANCELLED"},
              ordered : Int, requested : Int, product : Products,
              qty : Nat, reserved : Nat, fulfilled : Nat]
SORows == {r \in SORecords : /\ r.reserved + r.fulfilled <= r.qty
                             /\ r.status \in {"DRAFT", "CONFIRMED"}
                                    => r.reserved = 0 /\ r.fulfilled = 0}
ShipmentRows == [direction : {"INBOUND", "OUTBOUND"},
                 status : ACTIVE_STATUSES \cup {"DELIVERED", "CANCELLED"}, of : Nat,
                 sited : BOOLEAN, eta : Int, last : Int, departed : Int, arrived : Int,
                 delivered : Int]
ExceptionRows == [severity : {"WARNING", "CRITICAL"}, open : BOOLEAN, at : Int]
MovementRows == [type : {"RECEIPT", "FULFILLMENT"}, product : Products, delta : Int, at : Int]
StockRows == [onHand : Int, reserved : Int]

Sequences == {"PO", "SO", "CUS", "SHP"}
TableNames == {"pos", "receipts", "sos", "shipments", "exceptions", "movements", "stock", "seq"}

DbTypes(d) ==
    /\ d = [t \in TableNames |-> d[t]]
    /\ IsTable(d.pos, Nat, PORows)
    /\ IsTable(d.receipts, Nat \X Nat, Int)
    /\ IsTable(d.sos, Nat, SORows)
    /\ IsTable(d.shipments, Nat, ShipmentRows)
    /\ IsTable(d.exceptions, Nat \X Kinds, ExceptionRows)
    /\ IsTable(d.movements, {"PO", "SO", "RISK"} \X Nat \X Nat, MovementRows)
    /\ d.stock \in [Products -> StockRows]
    /\ d.seq \in [Sequences -> Nat]

Same(d, e, ts) == \A t \in ts : e[t] = d[t]

-----------------------------------------------------------------------------
(* What the requests write.                                                *)

LEMMA CreateEffect ==
    ASSUME DbTypes(db), CreatePO
    PROVE  LET n == NextNumber("PO")
               row == PO("SUP-003", "DRAFT", now, now + Day, Never, "ELEC-002", 600, 0, 45)
           IN  /\ Numbered("PO", db.pos)
               /\ db' = [t \in TableNames |-> db'[t]]
               /\ Same(db, db', TableNames \ {"seq", "pos"})
               /\ db'.seq = [db.seq EXCEPT !["PO"] = n]
               /\ db'.pos = (n :> row) @@ db.pos
<1> DEFINE n == NextNumber("PO")
           row == PO("SUP-003", "DRAFT", now, now + Day, Never, "ELEC-002", 600, 0, 45)
           pos == (n :> row) @@ db.pos
<1>1. Numbered("PO", db.pos) /\ db' = [db EXCEPT !.seq["PO"] = n, !.pos = pos]
  BY DEF CreatePO, Commits, NewPO
<1> HIDE DEF n, pos
<1>2. /\ db' = [t \in TableNames |-> db'[t]]
      /\ Same(db, db', TableNames \ {"seq", "pos"})
      /\ db'.seq = [db.seq EXCEPT !["PO"] = n]
      /\ db'.pos = pos
  BY <1>1 DEF DbTypes, TableNames, Same
<1>3. QED
  BY <1>1, <1>2 DEF n, pos

\* A purchase order that is moved to a status.
MovedTo(po, status, approved) == [po EXCEPT !.status = status, !.approved = approved]

LEMMA MoveEffect ==
    ASSUME DbTypes(db), NEW n \in DOMAIN db.pos, NEW status, NEW approved,
           MovePO(n, status, approved)
    PROVE  /\ <<db.pos[n].status, status>> \in PurchaseTransitions
           /\ db' = [t \in TableNames |-> db'[t]]
           /\ Same(db, db', TableNames \ {"pos"})
           /\ db'.pos = [db.pos EXCEPT ![n] = MovedTo(db.pos[n], status, approved)]
BY DEF MovePO, Commits, DbTypes, TableNames, Same, MovedTo

\* A shipment that has just been created.
NewShipment(direction, of) ==
    [direction |-> direction, status |-> "CREATED", of |-> of, sited |-> TRUE, eta |-> Never,
     last |-> now, departed |-> Never, arrived |-> Never, delivered |-> Never]

LEMMA ShipEffect ==
    ASSUME DbTypes(db), NEW n \in DOMAIN db.pos, Ship(n)
    PROVE  LET s == NextNumber("SHP")
           IN  /\ db.pos[n].status = "APPROVED" /\ Numbered("SHP", db.shipments)
               /\ db' = [t \in TableNames |-> db'[t]]
               /\ Same(db, db', TableNames \ {"seq", "pos", "shipments"})
               /\ db'.seq = [db.seq EXCEPT !["SHP"] = s]
               /\ db'.pos = [db.pos EXCEPT ![n] = [db.pos[n] EXCEPT !.status = "SHIPPED"]]
               /\ db'.shipments = (s :> NewShipment("INBOUND", n)) @@ db.shipments
<1> DEFINE s == NextNumber("SHP")
           shipments == (s :> NewShipment("INBOUND", n)) @@ db.shipments
<1>1. /\ db.pos[n].status = "APPROVED" /\ Numbered("SHP", db.shipments)
      /\ db' = [db EXCEPT !.seq["SHP"] = s, !.pos[n].status = "SHIPPED", !.shipments = shipments]
  BY DEF Ship, Commits, NewShipment
<1> HIDE DEF s, shipments
<1>2. /\ db' = [t \in TableNames |-> db'[t]]
      /\ Same(db, db', TableNames \ {"seq", "pos", "shipments"})
      /\ db'.seq = [db.seq EXCEPT !["SHP"] = s]
      /\ db'.pos = [db.pos EXCEPT ![n] = [db.pos[n] EXCEPT !.status = "SHIPPED"]]
      /\ db'.shipments = shipments
  BY <1>1 DEF DbTypes, TableNames, Same
<1>3. QED
  BY <1>1, <1>2 DEF s, shipments

ReceiptNumber(n) == Count({r \in DOMAIN db.receipts : r[1] = n}) + 1

LEMMA ReceiveEffect ==
    ASSUME DbTypes(db), NEW n \in DOMAIN db.pos, NEW q, Receive(n, q)
    PROVE  LET po == db.pos[n]
               k == ReceiptNumber(n)
               to == IF po.got + q >= po.qty THEN "RECEIVED" ELSE "PARTIALLY_RECEIVED"
           IN  /\ po.status \in RECEIVABLE_STATUSES
               /\ db' = [t \in TableNames |-> db'[t]]
               /\ Same(db, db', {"sos", "shipments", "exceptions", "seq"})
               /\ db'.receipts = (<<n, k>> :> now) @@ db.receipts
               /\ db'.pos = [db.pos EXCEPT ![n] = [po EXCEPT !.got = @ + q, !.status = to]]
               /\ db'.stock = Moved(po.product, q)
               /\ db'.movements = Entered(<<"PO", n, k>>, "RECEIPT", po.product, q)
<1> DEFINE po == db.pos[n]
           k == ReceiptNumber(n)
           to == IF po.got + q >= po.qty THEN "RECEIVED" ELSE "PARTIALLY_RECEIVED"
           a == (<<n, k>> :> now) @@ db.receipts
           b == Moved(po.product, q)
           c == Entered(<<"PO", n, k>>, "RECEIPT", po.product, q)
<1>1. /\ po.status \in RECEIVABLE_STATUSES
      /\ db' = [db EXCEPT !.receipts = a, !.pos[n].got = @ + q, !.pos[n].status = to,
                          !.stock = b, !.movements = c]
  BY DEF Receive, Commits, ReceiptNumber
<1> HIDE DEF to, a, b, c
<1>2. /\ db' = [t \in TableNames |-> db'[t]]
      /\ Same(db, db', {"sos", "shipments", "exceptions", "seq"})
      /\ db'.receipts = a /\ db'.stock = b /\ db'.movements = c
      /\ db'.pos = [db.pos EXCEPT ![n] = [po EXCEPT !.got = @ + q, !.status = to]]
  BY <1>1 DEF DbTypes, TableNames, Same
<1>3. QED
  BY <1>1, <1>2 DEF to, a, b, c

LEMMA ConfirmEffect ==
    ASSUME DbTypes(db), NEW n \in DOMAIN db.sos, Confirm(n)
    PROVE  /\ db.sos[n].status = "DRAFT"
           /\ db' = [t \in TableNames |-> db'[t]]
           /\ Same(db, db', TableNames \ {"sos"})
           /\ db'.sos = [db.sos EXCEPT ![n] = [db.sos[n] EXCEPT !.status = "CONFIRMED"]]
BY DEF Confirm, Commits, DbTypes, TableNames, Same, SalesTransitions

LEMMA AllocateEffect ==
    ASSUME DbTypes(db), NEW n \in DOMAIN db.sos, Allocate(n)
    PROVE  LET so == db.sos[n]
           IN  /\ so.status = "CONFIRMED"
               /\ so.qty <= db.stock[so.product].onHand - db.stock[so.product].reserved
               /\ db' = [t \in TableNames |-> db'[t]]
               /\ Same(db, db', TableNames \ {"sos", "stock"})
               /\ db'.sos = [db.sos EXCEPT ![n] =
                                [so EXCEPT !.status = "ALLOCATED", !.reserved = so.qty]]
               /\ db'.stock = [db.stock EXCEPT ![so.product] =
                                  [db.stock[so.product] EXCEPT !.reserved = @ + so.qty]]
BY DEF Allocate, Commits, DbTypes, TableNames, Same, SalesTransitions

LEMMA CancelEffect ==
    ASSUME DbTypes(db), NEW n \in DOMAIN db.sos, CancelSO(n)
    PROVE  LET so == db.sos[n]
           IN  /\ so.status \in OPEN_SO_STATUSES
               /\ db' = [t \in TableNames |-> db'[t]]
               /\ Same(db, db', TableNames \ {"sos", "stock"})
               /\ db'.sos = [db.sos EXCEPT ![n] =
                                [so EXCEPT !.status = "CANCELLED", !.reserved = 0]]
               /\ db'.stock = [db.stock EXCEPT ![so.product] =
                                  [db.stock[so.product] EXCEPT !.reserved = @ - so.reserved]]
BY DEF CancelSO, Commits, DbTypes, TableNames, Same, SalesTransitions, OPEN_SO_STATUSES

DeliveryNumber(n) == Count({m \in DOMAIN db.movements : m[1] = "SO" /\ m[2] = n}) + 1

LEMMA FulfillEffect ==
    ASSUME DbTypes(db), NEW n \in DOMAIN db.sos, NEW q, Fulfill(n, q)
    PROVE  LET so == db.sos[n]
               k == DeliveryNumber(n)
               done == so.fulfilled + q
               to == IF done >= so.qty THEN "FULFILLED" ELSE "PARTIALLY_FULFILLED"
           IN  /\ so.status \in FULFILLABLE_STATUSES /\ 0 < q /\ q <= so.reserved
               /\ db' = [t \in TableNames |-> db'[t]]
               /\ Same(db, db', TableNames \ {"sos", "stock", "movements"})
               /\ db'.sos = [db.sos EXCEPT ![n] =
                                [so EXCEPT !.fulfilled = done, !.reserved = @ - q, !.status = to]]
               /\ db'.stock = [Moved(so.product, -q) EXCEPT ![so.product].reserved = @ - q]
               /\ db'.movements = Entered(<<"SO", n, k>>, "FULFILLMENT", so.product, -q)
<1> DEFINE so == db.sos[n]
           k == DeliveryNumber(n)
           done == so.fulfilled + q
           to == IF done >= so.qty THEN "FULFILLED" ELSE "PARTIALLY_FULFILLED"
           b == [Moved(so.product, -q) EXCEPT ![so.product].reserved = @ - q]
           c == Entered(<<"SO", n, k>>, "FULFILLMENT", so.product, -q)
<1>1. /\ so.status \in FULFILLABLE_STATUSES /\ 0 < q /\ q <= so.reserved
      /\ db' = [db EXCEPT !.sos[n].fulfilled = done, !.sos[n].reserved = @ - q,
                          !.sos[n].status = to, !.stock = b, !.movements = c]
  BY DEF Fulfill, Commits, DeliveryNumber
<1> HIDE DEF done, to, b, c
<1>2. /\ db' = [t \in TableNames |-> db'[t]]
      /\ Same(db, db', TableNames \ {"sos", "stock", "movements"})
      /\ db'.stock = b /\ db'.movements = c
      /\ db'.sos = [db.sos EXCEPT ![n] =
                       [so EXCEPT !.fulfilled = done, !.reserved = @ - q, !.status = to]]
  BY <1>1 DEF DbTypes, TableNames, Same
<1>3. QED
  BY <1>1, <1>2 DEF done, to, b, c

LEMMA DispatchEffect ==
    ASSUME DbTypes(db), NEW n \in DOMAIN db.sos, Dispatch(n)
    PROVE  LET s == NextNumber("SHP")
           IN  /\ Numbered("SHP", db.shipments)
               /\ db' = [t \in TableNames |-> db'[t]]
               /\ Same(db, db', TableNames \ {"seq", "shipments"})
               /\ db'.seq = [db.seq EXCEPT !["SHP"] = s]
               /\ db'.shipments = (s :> NewShipment("OUTBOUND", n)) @@ db.shipments
<1> DEFINE s == NextNumber("SHP")
           shipments == (s :> NewShipment("OUTBOUND", n)) @@ db.shipments
<1>1. /\ Numbered("SHP", db.shipments)
      /\ db' = [db EXCEPT !.seq["SHP"] = s, !.shipments = shipments]
  BY DEF Dispatch, Commits, NewShipment
<1> HIDE DEF s, shipments
<1>2. /\ db' = [t \in TableNames |-> db'[t]]
      /\ Same(db, db', TableNames \ {"seq", "shipments"})
      /\ db'.seq = [db.seq EXCEPT !["SHP"] = s]
      /\ db'.shipments = shipments
  BY <1>1 DEF DbTypes, TableNames, Same
<1>3. QED
  BY <1>1, <1>2 DEF s, shipments

\* The exceptions of a shipment s that is v, as an evaluation leaves those in x.
Due(s, v, time) == {<<s, k>> : k \in {k \in Kinds : Wanted(v, time)[k] # "NONE"}}
DueRow(x, y, v, time) ==
    IF y \in DOMAIN x /\ x[y].open
    THEN [x[y] EXCEPT !.severity = Wanted(v, time)[y[2]]]
    ELSE [severity |-> Wanted(v, time)[y[2]], open |-> TRUE, at |-> time]
Kept(x, s) == [y \in DOMAIN x |-> [x[y] EXCEPT !.open = @ /\ y[1] # s]]
Reviewed(x, s, v, time) == [y \in Due(s, v, time) |-> DueRow(x, y, v, time)] @@ Kept(x, s)

LEMMA EvaluatedEffect ==
    ASSUME NEW d, d = [t \in TableNames |-> d[t]], NEW s
    PROVE  LET e == Evaluated(d, s)
           IN  /\ e = [t \in TableNames |-> e[t]]
               /\ Same(d, e, TableNames \ {"exceptions"})
               /\ e.exceptions = Reviewed(d.exceptions, s, d.shipments[s], now)
<1> DEFINE v == d.shipments[s]
           due == {<<s, k>> : k \in {k \in Kinds : Wanted(v, now)[k] # "NONE"}}
           row(x) == IF x \in OpenExceptions(d)
                     THEN [d.exceptions[x] EXCEPT !.severity = Wanted(v, now)[x[2]]]
                     ELSE [severity |-> Wanted(v, now)[x[2]], open |-> TRUE, at |-> now]
           kept == [x \in DOMAIN d.exceptions |->
                      [d.exceptions[x] EXCEPT !.open = @ /\ x[1] # s]]
           new == [x \in due |-> row(x)] @@ kept
<1>1. Evaluated(d, s) = [d EXCEPT !.exceptions = new]
  BY DEF Evaluated
<1>2. new = Reviewed(d.exceptions, s, v, now)
  <2>1. due = Due(s, v, now)
    BY DEF Due
  <2>2. \A x \in due : row(x) = DueRow(d.exceptions, x, v, now)
    BY DEF DueRow, OpenExceptions
  <2>3. kept = Kept(d.exceptions, s)
    BY DEF Kept
  <2> HIDE DEF due, row, kept
  <2>4. [x \in due |-> row(x)] = [x \in Due(s, v, now) |-> DueRow(d.exceptions, x, v, now)]
    BY <2>1, <2>2
  <2>5. QED
    BY <2>3, <2>4 DEF Reviewed
<1> HIDE DEF new
<1>3. QED
  BY <1>1, <1>2 DEF TableNames, Same

\* The shipment s becomes v, and its exceptions are evaluated.
Rewrites(s, v) ==
    /\ db' = [t \in TableNames |-> db'[t]]
    /\ Same(db, db', TableNames \ {"shipments", "exceptions"})
    /\ db'.shipments = [db.shipments EXCEPT ![s] = v]
    /\ db'.exceptions = Reviewed(db.exceptions, s, v, now)

LEMMA RewrittenEffect ==
    ASSUME DbTypes(db), NEW s \in DOMAIN db.shipments, NEW v, NEW d,
           d = [t \in TableNames |-> d[t]],
           Same(db, d, TableNames \ {"shipments"}),
           d.shipments = [db.shipments EXCEPT ![s] = v],
           db' = Evaluated(d, s)
    PROVE  Rewrites(s, v)
<1>1. db.shipments = [x \in DOMAIN db.shipments |-> db.shipments[x]]
  BY DEF DbTypes, IsTable
<1>2. d.shipments[s] = v /\ d.exceptions = db.exceptions
  BY <1>1 DEF Same, TableNames
<1>3. /\ db' = [t \in TableNames |-> db'[t]]
      /\ Same(d, db', TableNames \ {"exceptions"})
      /\ db'.exceptions = Reviewed(db.exceptions, s, v, now)
  <2> DEFINE e == Evaluated(d, s)
  <2>1. /\ e = [t \in TableNames |-> e[t]]
        /\ Same(d, e, TableNames \ {"exceptions"})
        /\ e.exceptions = Reviewed(d.exceptions, s, d.shipments[s], now)
    BY EvaluatedEffect
  <2>2. db' = e
    OBVIOUS
  <2> HIDE DEF e
  <2>3. QED
    BY <1>2, <2>1, <2>2
<1>4. QED
  BY <1>3 DEF Rewrites, Same, TableNames

LEMMA AdvanceEffect ==
    ASSUME DbTypes(db), NEW s \in DOMAIN db.shipments, NEW to, Advance(s, to)
    PROVE  /\ <<db.shipments[s].status, to>> \in ShipmentTransitions
           /\ Rewrites(s, Progressed(db.shipments[s], to))
<1> DEFINE w == Progressed(db.shipments[s], to)
           d == [db EXCEPT !.shipments[s] = w]
<1>1. /\ <<db.shipments[s].status, to>> \in ShipmentTransitions
      /\ db' = Evaluated(d, s)
  BY DEF Advance, Commits, DbTypes, TableNames, IsTable
<1> HIDE DEF w
<1>2. /\ d = [t \in TableNames |-> d[t]]
      /\ Same(db, d, TableNames \ {"shipments"})
      /\ d.shipments = [db.shipments EXCEPT ![s] = w]
  BY DEF DbTypes, IsTable, TableNames, Same
<1> HIDE DEF d
<1>3. Rewrites(s, w)
  BY <1>1, <1>2, RewrittenEffect
<1>4. QED
  BY <1>1, <1>3 DEF w

LEMMA EtaEffect ==
    ASSUME DbTypes(db), NEW s \in DOMAIN db.shipments, NEW eta, UpdateEta(s, eta)
    PROVE  Rewrites(s, [db.shipments[s] EXCEPT !.eta = eta, !.last = now])
<1> DEFINE w == [db.shipments[s] EXCEPT !.eta = eta, !.last = now]
           d == [db EXCEPT !.shipments[s].eta = eta, !.shipments[s].last = now]
<1>1. db' = Evaluated(d, s)
  BY DEF UpdateEta, Commits
<1>2. /\ d = [t \in TableNames |-> d[t]]
      /\ Same(db, d, TableNames \ {"shipments"})
      /\ d.shipments = [db.shipments EXCEPT ![s] = w]
  BY DEF DbTypes, IsTable, ShipmentRows, TableNames, Same
<1> HIDE DEF d, w
<1>3. Rewrites(s, w)
  BY <1>1, <1>2, RewrittenEffect
<1>4. QED
  BY <1>3 DEF w

LEMMA ViewEffect ==
    ASSUME DbTypes(db), NEW s \in DOMAIN db.shipments, View(s)
    PROVE  Rewrites(s, db.shipments[s])
<1> DEFINE v == db.shipments[s]
<1>1. db' = Evaluated(db, s) /\ db = [t \in TableNames |-> db[t]]
  BY DEF View, Commits, DbTypes
<1>2. db.shipments = [db.shipments EXCEPT ![s] = v] /\ Same(db, db, TableNames \ {"shipments"})
  BY DEF DbTypes, IsTable, Same
<1> HIDE DEF v
<1>3. Rewrites(s, v)
  BY <1>1, <1>2, RewrittenEffect
<1>4. QED
  BY <1>3 DEF v

-----------------------------------------------------------------------------
(* Tables that are put together.                                           *)

LEMMA OnlyIsTable ==
    ASSUME NEW K, NEW R, NEW k \in K, NEW r \in R
    PROVE  IsTable(k :> r, K, R) /\ DOMAIN (k :> r) = {k} /\ (k :> r)[k] = r
<1>1. DOMAIN (k :> r) = {k} /\ (k :> r)[k] = r /\ (k :> r) \in [{k} -> R]
  BY DEF :>
<1>2. IsFiniteSet({k})
  BY FS_Singleton
<1>3. QED
  BY <1>1, <1>2 DEF IsTable

LEMMA JoinIsTable ==
    ASSUME NEW K, NEW R, NEW f, NEW g, IsTable(f, K, R), IsTable(g, K, R)
    PROVE  IsTable(f @@ g, K, R) /\ DOMAIN (f @@ g) = DOMAIN f \cup DOMAIN g
<1>1. /\ DOMAIN (f @@ g) = DOMAIN f \cup DOMAIN g
      /\ \A k \in DOMAIN f : (f @@ g)[k] = f[k]
      /\ \A k \in DOMAIN g \ DOMAIN f : (f @@ g)[k] = g[k]
      /\ f @@ g = [k \in DOMAIN f \cup DOMAIN g |-> (f @@ g)[k]]
  BY DEF @@
<1>2. IsFiniteSet(DOMAIN f \cup DOMAIN g)
  BY FS_Union DEF IsTable
<1>3. \A k \in DOMAIN f \cup DOMAIN g : (f @@ g)[k] \in R
  BY <1>1 DEF IsTable
<1> HIDE DEF @@
<1>4. QED
  BY <1>1, <1>2, <1>3 DEF IsTable

\* A row is changed.
LEMMA ChangeIsTable ==
    ASSUME NEW K, NEW R, NEW f, IsTable(f, K, R), NEW k \in DOMAIN f, NEW r \in R
    PROVE  IsTable([f EXCEPT ![k] = r], K, R) /\ DOMAIN [f EXCEPT ![k] = r] = DOMAIN f
BY DEF IsTable

\* A table and its keys.
HasKeys(f, D, K, R) == IsTable(f, K, R) /\ DOMAIN f = D

LEMMA OnlyHasKeys ==
    ASSUME NEW K, NEW R, NEW k \in K, NEW r \in R
    PROVE  HasKeys(k :> r, {k}, K, R)
BY OnlyIsTable DEF HasKeys

LEMMA JoinHasKeys ==
    ASSUME NEW K, NEW R, NEW f, NEW g, NEW D, NEW E, HasKeys(f, D, K, R), HasKeys(g, E, K, R)
    PROVE  HasKeys(f @@ g, D \cup E, K, R)
<1>1. IsTable(f, K, R) /\ IsTable(g, K, R)
  BY DEF HasKeys
<1>2. IsTable(f @@ g, K, R)
  BY <1>1, JoinIsTable
<1>3. DOMAIN (f @@ g) = DOMAIN f \cup DOMAIN g
  BY DEF @@
<1>4. QED
  BY <1>2, <1>3, Zenon DEF HasKeys

LEMMA ThreeRows ==
    ASSUME NEW K, NEW R, NEW i \in K, NEW j \in K, NEW k \in K,
           NEW a \in R, NEW b \in R, NEW c \in R
    PROVE  HasKeys(i :> a @@ j :> b @@ k :> c, {i} \cup {j} \cup {k}, K, R)
<1>1. HasKeys(i :> a, {i}, K, R) /\ HasKeys(j :> b, {j}, K, R) /\ HasKeys(k :> c, {k}, K, R)
  BY OnlyHasKeys, Zenon
<1>2. HasKeys(i :> a @@ j :> b, {i} \cup {j}, K, R)
  BY <1>1, JoinHasKeys, Zenon
<1>3. QED
  BY <1>1, <1>2, JoinHasKeys, Zenon

LEMMA FourRows ==
    ASSUME NEW K, NEW R, NEW i \in K, NEW j \in K, NEW k \in K, NEW l \in K,
           NEW a \in R, NEW b \in R, NEW c \in R, NEW d \in R
    PROVE  HasKeys(i :> a @@ j :> b @@ k :> c @@ l :> d,
                   ({i} \cup {j} \cup {k}) \cup {l}, K, R)
<1>1. HasKeys(i :> a @@ j :> b @@ k :> c, {i} \cup {j} \cup {k}, K, R) /\ HasKeys(l :> d, {l}, K, R)
  BY OnlyHasKeys, ThreeRows
<1>2. QED
  BY <1>1, JoinHasKeys, Zenon

\* What is there already is not seeded again.
LEMMA NothingToSeed ==
    ASSUME NEW f, NEW D, f \in [D -> {f[k] : k \in D}], NEW g, DOMAIN g \subseteq D
    PROVE  f @@ g = f
BY DEF @@

-----------------------------------------------------------------------------
(* What the seed writes.                                                   *)

SeedKeys ==
    [pos |-> {1, 90, 100, 101, 102, 103, 104},
     receipts |-> {<<100, 1>>, <<102, 1>>, <<103, 1>>},
     sos |-> {1, 100, 101, 102, 103, 104},
     shipments |-> {90, 100, 101, 102},
     exceptions |-> {<<90, "ETA_EXCEEDED">>, <<90, "TRACKING_STALE">>},
     movements |-> {<<"PO", 100, 1>>, <<"PO", 102, 1>>, <<"PO", 103, 1>>, <<"SO", 100, 1>>,
                    <<"SO", 101, 1>>, <<"SO", 102, 1>>, <<"RISK", 1, 1>>, <<"RISK", 2, 1>>}]

LEMMA SeededPOs ==
    ASSUME NEW t \in Int
    PROVE  IsTable(SeedPOs(t), Nat, PORows) /\ DOMAIN SeedPOs(t) = SeedKeys.pos
<1> DEFINE ago(d) == t - d * Day
           a == PO("SUP-001", "RECEIVED", ago(26), ago(20), ago(25), "ELEC-001", 200, 200, 85)
           b == PO("SUP-001", "APPROVED", ago(12), ago(5), ago(11), "ELEC-001", 150, 0, 85)
           c == PO("SUP-001", "PARTIALLY_RECEIVED", ago(8), ago(-5), ago(7),
                   "ELEC-001", 300, 150, 85)
           e == PO("SUP-003", "RECEIVED", ago(31), ago(20), ago(30), "ELEC-001", 100, 100, 88)
           w == PO("SUP-001", "DRAFT", t, Never, Never, "ELEC-001", 1000, 0, 85)
           v == PO("SUP-001", "SHIPPED", t, Never, t - 3 * Day, "ELEC-001", 500, 0, 85)
           r == PO("SUP-001", "APPROVED", t - 4 * Day, t + 10 * Day, t - 3 * Day,
                   "ELEC-003", 500, 0, 220)
<1>1. a \in PORows /\ b \in PORows /\ c \in PORows /\ e \in PORows
  BY DEF PO, PORows, PORecords, SupplierCodes, OPEN_PO_STATUSES, Products, Never, Day
<1>2. w \in PORows /\ v \in PORows /\ r \in PORows
  BY DEF PO, PORows, PORecords, SupplierCodes, OPEN_PO_STATUSES, Products, Never, Day
<1>3. /\ SeedPOs(t) = DemoPO(t) @@ VisibilityPO(t) @@ FixturePOs(t) @@ RiskPO(t)
      /\ DemoPO(t) = 1 :> w /\ VisibilityPO(t) = 90 :> v /\ RiskPO(t) = 104 :> r
      /\ FixturePOs(t) = 100 :> a @@ 101 :> b @@ 102 :> c @@ 103 :> e
  BY DEF SeedPOs, DemoPO, VisibilityPO, RiskPO, FixturePOs
<1> HIDE DEF a, b, c, e, w, v, r
<1>4. HasKeys(DemoPO(t) @@ VisibilityPO(t), {1} \cup {90}, Nat, PORows)
  <2>1. HasKeys(DemoPO(t), {1}, Nat, PORows) /\ HasKeys(VisibilityPO(t), {90}, Nat, PORows)
    BY <1>2, <1>3, OnlyHasKeys
  <2>2. QED
    BY <2>1, JoinHasKeys, Zenon
<1>5. HasKeys(FixturePOs(t), ({100} \cup {101} \cup {102}) \cup {103}, Nat, PORows)
  BY <1>1, <1>3, FourRows
<1>6. HasKeys(RiskPO(t), {104}, Nat, PORows)
  BY <1>2, <1>3, OnlyHasKeys
<1>7. HasKeys(SeedPOs(t), ({1} \cup {90}) \cup (({100} \cup {101} \cup {102}) \cup {103}) \cup {104},
              Nat, PORows)
  <2>1. HasKeys(DemoPO(t) @@ VisibilityPO(t) @@ FixturePOs(t),
                ({1} \cup {90}) \cup (({100} \cup {101} \cup {102}) \cup {103}), Nat, PORows)
    BY <1>4, <1>5, JoinHasKeys, ZenonT(60)
  <2>2. HasKeys(DemoPO(t) @@ VisibilityPO(t) @@ FixturePOs(t) @@ RiskPO(t),
                ({1} \cup {90}) \cup (({100} \cup {101} \cup {102}) \cup {103}) \cup {104},
                Nat, PORows)
    BY <1>6, <2>1, JoinHasKeys, Zenon
  <2>3. QED
    BY <1>3, <2>2, Zenon
<1>8. QED
  BY <1>7 DEF SeedKeys, HasKeys

LEMMA SeededReceipts ==
    ASSUME NEW t \in Int
    PROVE  IsTable(SeedReceipts(t), Nat \X Nat, Int) /\ DOMAIN SeedReceipts(t) = SeedKeys.receipts
<1> DEFINE a == t - 21 * Day
           b == t - 2 * Day
           c == t - 15 * Day
           i == <<100, 1>>
           j == <<102, 1>>
           k == <<103, 1>>
<1>1. SeedReceipts(t) = i :> a @@ j :> b @@ k :> c
  BY DEF SeedReceipts
<1>2. a \in Int /\ b \in Int /\ c \in Int
  BY DEF Day
<1>3. i \in Nat \X Nat /\ j \in Nat \X Nat /\ k \in Nat \X Nat
  OBVIOUS
<1>4. SeedKeys.receipts = {i} \cup {j} \cup {k}
  BY DEF SeedKeys
<1> HIDE DEF a, b, c, i, j, k
<1>5. HasKeys(SeedReceipts(t), {i} \cup {j} \cup {k}, Nat \X Nat, Int)
  BY <1>1, <1>2, <1>3, ThreeRows
<1>6. QED
  BY <1>4, <1>5 DEF HasKeys

LEMMA SeededSOs ==
    ASSUME NEW t \in Int
    PROVE  IsTable(SeedSOs(t), Nat, SORows) /\ DOMAIN SeedSOs(t) = SeedKeys.sos
<1> DEFINE ago(d) == t - d * Day
           w == SO("CUS-1", "DRAFT", t, Never, "ELEC-001", 300, 0)
           a == SO("CUS-90", "FULFILLED", ago(15), ago(10), "ELEC-001", 100, 100)
           b == SO("CUS-90", "PARTIALLY_FULFILLED", ago(15), ago(10), "ELEC-001", 100, 80)
           u == RiskSO(t, "ELEC-002", 800)
           v == RiskSO(t, "ELEC-003", 1200)
<1>1. w \in SORows /\ a \in SORows /\ b \in SORows
  BY DEF SO, SORows, SORecords, Customers, OPEN_SO_STATUSES, Products, Never, Day
<1>2. u \in SORows /\ v \in SORows
  BY DEF RiskSO, SO, SORows, SORecords, Customers, OPEN_SO_STATUSES, Products, Never, Day
<1>3. /\ SeedSOs(t) = DemoSO(t) @@ OtifSOs(t) @@ 103 :> u @@ 104 :> v
      /\ DemoSO(t) = 1 :> w
      /\ OtifSOs(t) = 100 :> a @@ 101 :> b @@ 102 :> a
  BY DEF SeedSOs, DemoSO, OtifSOs
<1> HIDE DEF a, b, u, v, w
<1>4. /\ HasKeys(DemoSO(t), {1}, Nat, SORows)
      /\ HasKeys(103 :> u, {103}, Nat, SORows) /\ HasKeys(104 :> v, {104}, Nat, SORows)
  BY <1>1, <1>2, <1>3, OnlyHasKeys
<1>5. HasKeys(OtifSOs(t), {100} \cup {101} \cup {102}, Nat, SORows)
  BY <1>1, <1>3, ThreeRows
<1>6. HasKeys(DemoSO(t) @@ OtifSOs(t), {1} \cup ({100} \cup {101} \cup {102}), Nat, SORows)
  BY <1>4, <1>5, JoinHasKeys, Zenon
<1>7. HasKeys(DemoSO(t) @@ OtifSOs(t) @@ 103 :> u,
              ({1} \cup ({100} \cup {101} \cup {102})) \cup {103}, Nat, SORows)
  BY <1>4, <1>6, JoinHasKeys, Zenon
<1>8. HasKeys(DemoSO(t) @@ OtifSOs(t) @@ 103 :> u @@ 104 :> v,
              (({1} \cup ({100} \cup {101} \cup {102})) \cup {103}) \cup {104}, Nat, SORows)
  BY <1>4, <1>7, JoinHasKeys, ZenonT(60)
<1>9. HasKeys(SeedSOs(t), (({1} \cup ({100} \cup {101} \cup {102})) \cup {103}) \cup {104},
              Nat, SORows)
  BY <1>3, <1>8, Zenon
<1>10. QED
  BY <1>9 DEF SeedKeys, HasKeys

LEMMA SeededShipments ==
    ASSUME NEW t \in Int
    PROVE  /\ IsTable(SeedShipments(t), Nat, ShipmentRows)
           /\ DOMAIN SeedShipments(t) = SeedKeys.shipments
<1> DEFINE ago(d) == t - d * Day
           v == [direction |-> "INBOUND", status |-> "IN_TRANSIT", of |-> 90, sited |-> FALSE,
                 eta |-> t - 30, last |-> t - 40, departed |-> t - 68, arrived |-> Never,
                 delivered |-> Never]
           a == Delivered(100, ago(10), ago(11))
           b == Delivered(101, ago(10), ago(11))
           c == Delivered(102, ago(10), ago(8))
<1>1. v \in ShipmentRows /\ a \in ShipmentRows /\ b \in ShipmentRows /\ c \in ShipmentRows
  BY DEF Delivered, ShipmentRows, ACTIVE_STATUSES, Never, Day
<1>2. SeedShipments(t) = 90 :> v @@ 100 :> a @@ 101 :> b @@ 102 :> c
  BY DEF SeedShipments, VisibilityShipment
<1> HIDE DEF a, b, c, v
<1>3. HasKeys(SeedShipments(t), ({90} \cup {100} \cup {101}) \cup {102}, Nat, ShipmentRows)
  BY <1>1, <1>2, FourRows
<1>4. QED
  BY <1>3 DEF SeedKeys, HasKeys

LEMMA SeededExceptions ==
    ASSUME NEW t \in Int
    PROVE  /\ IsTable(SeedExceptions(t), Nat \X Kinds, ExceptionRows)
           /\ DOMAIN SeedExceptions(t) = SeedKeys.exceptions
<1> DEFINE i == <<90, "ETA_EXCEEDED">>
           j == <<90, "TRACKING_STALE">>
           a == [severity |-> "CRITICAL", open |-> TRUE, at |-> t - 30]
           b == [severity |-> "WARNING", open |-> TRUE, at |-> t - 16]
<1>1. SeedExceptions(t) = i :> a @@ j :> b
  BY DEF SeedExceptions
<1>2. a \in ExceptionRows /\ b \in ExceptionRows /\ i \in Nat \X Kinds /\ j \in Nat \X Kinds
  BY DEF ExceptionRows, Kinds
<1>3. SeedKeys.exceptions = {i} \cup {j}
  BY DEF SeedKeys
<1> HIDE DEF a, b, i, j
<1>4. /\ HasKeys(i :> a, {i}, Nat \X Kinds, ExceptionRows)
      /\ HasKeys(j :> b, {j}, Nat \X Kinds, ExceptionRows)
  BY <1>2, OnlyHasKeys
<1>5. HasKeys(i :> a @@ j :> b, {i} \cup {j}, Nat \X Kinds, ExceptionRows)
  BY <1>4, JoinHasKeys, Zenon
<1>6. HasKeys(SeedExceptions(t), {i} \cup {j}, Nat \X Kinds, ExceptionRows)
  BY <1>1, <1>5, Zenon
<1>7. QED
  BY <1>3, <1>6 DEF HasKeys

-----------------------------------------------------------------------------
(* The units of the ledger.                                                *)

MovementKeys == {"PO", "SO", "RISK"} \X Nat \X Nat
UnitsIn(row, p) == IF row.product = p THEN row.delta ELSE 0
EntriesOf(f, p) == {m \in DOMAIN f : f[m].product = p}
LedgerOf(f, p) == SumFunctionOnSet([m \in EntriesOf(f, p) |-> f[m].delta], EntriesOf(f, p))

LEMMA LedgerType ==
    ASSUME NEW K, NEW f, IsTable(f, K, MovementRows), NEW p
    PROVE  LedgerOf(f, p) \in Int
<1> DEFINE S == EntriesOf(f, p)
           F == [m \in S |-> f[m].delta]
<1>1. IsFiniteSet(S)
  BY FS_Subset DEF IsTable, EntriesOf
<1>2. \A m \in S : F[m] \in Int
  BY DEF EntriesOf, IsTable, MovementRows
<1> HIDE DEF F, S
<1>3. SumFunctionOnSet(F, S) \in Int
  BY <1>1, <1>2, SumType
<1>4. QED
  BY <1>3 DEF LedgerOf, F, S

\* g has the rows of f, and one more.
MoreByOne(f, g, k, r) ==
    /\ k \notin DOMAIN f
    /\ DOMAIN g = DOMAIN f \cup {k}
    /\ \A m \in DOMAIN f : g[m] = f[m]
    /\ g[k] = r

LEMMA LedgerOfOneMore ==
    ASSUME NEW K, NEW f, IsTable(f, K, MovementRows), NEW g, NEW k, NEW r \in MovementRows,
           MoreByOne(f, g, k, r), NEW p
    PROVE  LedgerOf(g, p) = LedgerOf(f, p) + UnitsIn(r, p)
<1> DEFINE S == EntriesOf(f, p)
           T == EntriesOf(g, p)
           F == [m \in S |-> f[m].delta]
           G == [m \in T |-> g[m].delta]
<1>1. LedgerOf(f, p) = SumFunctionOnSet(F, S) /\ LedgerOf(g, p) = SumFunctionOnSet(G, T)
  BY DEF LedgerOf
<1>2. LedgerOf(f, p) \in Int /\ IsFiniteSet(S) /\ k \notin S
  BY LedgerType, FS_Subset DEF IsTable, EntriesOf, MoreByOne
<1>3. \A m \in S : m \in T /\ F[m] \in Int /\ G[m] = F[m]
  BY DEF EntriesOf, MoreByOne, IsTable, MovementRows
<1>4. CASE r.product = p
  <2>1. T = S \cup {k}
    BY <1>4 DEF EntriesOf, MoreByOne
  <2>2. G[k] = r.delta /\ r.delta \in Int
    BY <2>1 DEF MoreByOne, MovementRows
  <2> HIDE DEF F, G, S, T
  <2>3. \A m \in S \cup {k} : G[m] \in Int
    BY <1>3, <2>2
  <2>4. SumFunctionOnSet(G, S \cup {k}) = G[k] + SumFunctionOnSet(G, S)
    BY <1>2, <2>3, SumAdd
  <2>5. SumFunctionOnSet(G, S) = SumFunctionOnSet(F, S)
    BY <1>2, <1>3, SumEqual
  <2>6. QED
    BY <1>1, <1>2, <1>4, <2>1, <2>2, <2>4, <2>5 DEF UnitsIn
<1>5. CASE r.product # p
  <2>1. T = S
    BY <1>5 DEF EntriesOf, MoreByOne
  <2> HIDE DEF F, G, S, T
  <2>2. SumFunctionOnSet(G, S) = SumFunctionOnSet(F, S)
    BY <1>2, <1>3, SumEqual
  <2>3. QED
    BY <1>1, <1>2, <1>5, <2>1, <2>2 DEF UnitsIn
<1>6. QED
  BY <1>4, <1>5

\* A row is entered on either side of a table.
LEMMA OneMoreRow ==
    ASSUME NEW f, NEW k, NEW r, k \notin DOMAIN f
    PROVE  MoreByOne(f, f @@ k :> r, k, r) /\ MoreByOne(f, (k :> r) @@ f, k, r)
BY DEF MoreByOne, @@, :>

\* The ledger f of the keys D tells of a, b and c units of the products.
Tells(f, D, a, b, c) ==
    /\ HasKeys(f, D, MovementKeys, MovementRows)
    /\ LedgerOf(f, "ELEC-001") = a /\ LedgerOf(f, "ELEC-002") = b /\ LedgerOf(f, "ELEC-003") = c

\* So does one row.
Says(r, a, b, c) ==
    /\ UnitsIn(r, "ELEC-001") = a /\ UnitsIn(r, "ELEC-002") = b /\ UnitsIn(r, "ELEC-003") = c
Fits(k, D, r, a, b, c) ==
    k \in MovementKeys /\ k \notin D /\ r \in MovementRows /\ Says(r, a, b, c)

LEMMA TellsOneMore ==
    ASSUME NEW f, NEW D, NEW a, NEW b, NEW c, Tells(f, D, a, b, c),
           NEW k, NEW r, NEW x, NEW y, NEW z, Fits(k, D, r, x, y, z)
    PROVE  Tells(f @@ k :> r, D \cup {k}, a + x, b + y, c + z)
<1> DEFINE g == f @@ k :> r
<1>1. HasKeys(f, D, MovementKeys, MovementRows) /\ HasKeys(k :> r, {k}, MovementKeys, MovementRows)
  BY OnlyHasKeys DEF Tells, Fits
<1>2. HasKeys(g, D \cup {k}, MovementKeys, MovementRows)
  BY <1>1, JoinHasKeys, Zenon
<1>3. IsTable(f, MovementKeys, MovementRows) /\ MoreByOne(f, g, k, r)
  BY <1>1, OneMoreRow DEF HasKeys, Fits
<1> HIDE DEF g
<1>4. \A p : LedgerOf(g, p) = LedgerOf(f, p) + UnitsIn(r, p)
  BY <1>3, LedgerOfOneMore DEF Fits
<1>5. Tells(g, D \cup {k}, a + x, b + y, c + z)
  BY <1>2, <1>4 DEF Tells, Says, Fits
<1>6. QED
  BY <1>5 DEF g

LEMMA JoinAssociates ==
    ASSUME NEW f, NEW g, NEW h
    PROVE  f @@ (g @@ h) = f @@ g @@ h
<1>1. DOMAIN (f @@ g) = DOMAIN f \cup DOMAIN g /\ DOMAIN (g @@ h) = DOMAIN g \cup DOMAIN h
  BY DEF @@
<1>2. \A k \in DOMAIN f \cup DOMAIN g \cup DOMAIN h :
         (f @@ (g @@ h))[k] = (f @@ g @@ h)[k]
  BY DEF @@
<1>3. QED
  BY <1>1, <1>2 DEF @@

LEMMA SeededMovements ==
    ASSUME NEW t \in Int
    PROVE  Tells(SeedMovements(t), SeedKeys.movements, 170, 300, 1000)
<1> DEFINE k1 == <<"PO", 100, 1>>
           k2 == <<"PO", 102, 1>>
           k3 == <<"PO", 103, 1>>
           k4 == <<"SO", 100, 1>>
           k5 == <<"SO", 101, 1>>
           k6 == <<"SO", 102, 1>>
           k7 == <<"RISK", 1, 1>>
           k8 == <<"RISK", 2, 1>>
           In(n) == Entry("RECEIPT", "ELEC-001", n, t)
           Out(n) == Entry("FULFILLMENT", "ELEC-001", -n, t)
           r1 == In(200)
           r2 == In(150)
           r3 == In(100)
           r4 == Out(100)
           r5 == Out(80)
           r7 == Entry("RECEIPT", "ELEC-002", 300, t)
           r8 == Entry("RECEIPT", "ELEC-003", 1000, t)
<1>1. /\ SeedMovements(t) = ReceiptEntries(t) @@ FulfillmentEntries(t) @@ k7 :> r7 @@ k8 :> r8
      /\ ReceiptEntries(t) = k1 :> r1 @@ k2 :> r2 @@ k3 :> r3
      /\ FulfillmentEntries(t) = k4 :> r4 @@ k5 :> r5 @@ k6 :> r4
  BY DEF SeedMovements, ReceiptEntries, FulfillmentEntries
<1>2. /\ k1 \in MovementKeys /\ k2 \in MovementKeys /\ k3 \in MovementKeys /\ k4 \in MovementKeys
      /\ k5 \in MovementKeys /\ k6 \in MovementKeys /\ k7 \in MovementKeys /\ k8 \in MovementKeys
  BY DEF MovementKeys
<1>3. /\ k2 \notin {k1} /\ k3 \notin {k1, k2} /\ k4 \notin {k1, k2, k3}
      /\ k5 \notin {k1, k2, k3, k4} /\ k6 \notin {k1, k2, k3, k4, k5}
      /\ k7 \notin {k1, k2, k3, k4, k5, k6} /\ k8 \notin {k1, k2, k3, k4, k5, k6, k7}
  OBVIOUS
<1>4. /\ r1 \in MovementRows /\ r2 \in MovementRows /\ r3 \in MovementRows
      /\ r4 \in MovementRows /\ r5 \in MovementRows /\ r7 \in MovementRows /\ r8 \in MovementRows
  BY DEF Entry, MovementRows, Products
<1>5. /\ Says(r1, 200, 0, 0) /\ Says(r2, 150, 0, 0) /\ Says(r3, 100, 0, 0)
      /\ Says(r4, -100, 0, 0) /\ Says(r5, -80, 0, 0)
      /\ Says(r7, 0, 300, 0) /\ Says(r8, 0, 0, 1000)
  BY DEF Entry, UnitsIn, Says
<1>6. SeedKeys.movements = {k1, k2, k3, k4, k5, k6, k7, k8}
  BY DEF SeedKeys
<1> HIDE DEF k1, k2, k3, k4, k5, k6, k7, k8, r1, r2, r3, r4, r5, r7, r8
<1> DEFINE f1 == k1 :> r1
           f2 == f1 @@ k2 :> r2
           f3 == f2 @@ k3 :> r3
           f4 == f3 @@ k4 :> r4
           f5 == f4 @@ k5 :> r5
           f6 == f5 @@ k6 :> r4
           f7 == f6 @@ k7 :> r7
           f8 == f7 @@ k8 :> r8
<1>7. Tells(f1, {k1}, 200, 0, 0)
  <2>1. HasKeys(f1, {k1}, MovementKeys, MovementRows)
    BY <1>2, <1>4, OnlyHasKeys
  <2> DEFINE e == [m \in {} |-> r1]
  <2>2. IsTable(e, MovementKeys, MovementRows) /\ MoreByOne(e, f1, k1, r1)
    BY FS_EmptySet DEF IsTable, MoreByOne, :>
  <2>3. EntriesOf(e, "ELEC-001") = {} /\ EntriesOf(e, "ELEC-002") = {} /\ EntriesOf(e, "ELEC-003") = {}
    BY DEF EntriesOf
  <2> HIDE DEF e, f1
  <2>4. LedgerOf(e, "ELEC-001") = 0 /\ LedgerOf(e, "ELEC-002") = 0 /\ LedgerOf(e, "ELEC-003") = 0
    BY <2>3, SumEmpty DEF LedgerOf
  <2>5. \A p : LedgerOf(f1, p) = LedgerOf(e, p) + UnitsIn(r1, p)
    BY <1>4, <2>2, LedgerOfOneMore
  <2>6. QED
    BY <1>5, <2>1, <2>4, <2>5 DEF Tells, Says
<1> HIDE DEF f1
<1> DEFINE D2 == {k1} \cup {k2}
           D3 == D2 \cup {k3}
           D4 == D3 \cup {k4}
           D5 == D4 \cup {k5}
           D6 == D5 \cup {k6}
           D7 == D6 \cup {k7}
           D8 == D7 \cup {k8}
<1>8. D8 = SeedKeys.movements
  BY <1>6
<1>9. /\ Fits(k2, {k1}, r2, 150, 0, 0) /\ Fits(k3, D2, r3, 100, 0, 0)
      /\ Fits(k4, D3, r4, -100, 0, 0) /\ Fits(k5, D4, r5, -80, 0, 0)
      /\ Fits(k6, D5, r4, -100, 0, 0) /\ Fits(k7, D6, r7, 0, 300, 0)
      /\ Fits(k8, D7, r8, 0, 0, 1000)
  BY <1>2, <1>3, <1>4, <1>5 DEF Fits
<1> HIDE DEF D2, D3, D4, D5, D6, D7, D8
<1>10. Tells(f2, D2, 200 + 150, 0 + 0, 0 + 0)
  BY <1>7, <1>9, TellsOneMore, ZenonT(60) DEF D2
<1> HIDE DEF f2
<1>11. Tells(f3, D3, 200 + 150 + 100, 0 + 0 + 0, 0 + 0 + 0)
  BY <1>9, <1>10, TellsOneMore, ZenonT(60) DEF D3
<1> HIDE DEF f3
<1>12. Tells(f3, D3, 450, 0, 0)
  BY <1>11
<1>13. Tells(f4, D4, 450 + (-100), 0 + 0, 0 + 0)
  BY <1>9, <1>12, TellsOneMore, ZenonT(60) DEF D4
<1> HIDE DEF f4
<1> HIDE DEF f4
<1>14. Tells(f4, D4, 350, 0, 0)
  BY <1>13
<1>15. Tells(f5, D5, 350 + (-80), 0 + 0, 0 + 0)
  BY <1>9, <1>14, TellsOneMore, ZenonT(60) DEF D5
<1> HIDE DEF f5
<1>16. Tells(f5, D5, 270, 0, 0)
  BY <1>15
<1>17. Tells(f6, D6, 270 + (-100), 0 + 0, 0 + 0)
  BY <1>9, <1>16, TellsOneMore, ZenonT(60) DEF D6
<1> HIDE DEF f6
<1>18. Tells(f6, D6, 170, 0, 0)
  BY <1>17
<1>19. Tells(f7, D7, 170 + 0, 0 + 300, 0 + 0)
  BY <1>9, <1>18, TellsOneMore, ZenonT(60) DEF D7
<1> HIDE DEF f7
<1>20. Tells(f7, D7, 170, 300, 0)
  BY <1>19
<1>21. Tells(f8, D8, 170 + 0, 300 + 0, 0 + 1000)
  <2>1. Fits(k8, D7, r8, 0, 0, 1000)
    BY <1>9
  <2>2. QED
    BY <1>20, <2>1, TellsOneMore DEF D8
<1>22. f8 = SeedMovements(t)
  <2> DEFINE g == k4 :> r4
             h == k5 :> r5
             i == k6 :> r4
  <2>1. g @@ h @@ i = FulfillmentEntries(t) /\ f3 = ReceiptEntries(t)
    BY <1>1 DEF f3, f2, f1
  <2>2. f8 = f3 @@ g @@ h @@ i @@ k7 :> r7 @@ k8 :> r8
    BY DEF f7, f6, f5, f4
  <2> HIDE DEF f8, g, h, i
  <2>3. f3 @@ (g @@ h @@ i) = f3 @@ (g @@ h) @@ i
    BY JoinAssociates
  <2>4. f3 @@ (g @@ h) = f3 @@ g @@ h
    BY JoinAssociates
  <2>5. QED
    BY <1>1, <2>1, <2>2, <2>3, <2>4
<1> HIDE DEF f8
<1>23. QED
  BY <1>8, <1>21, <1>22

LEMMA SeededStock ==
    ASSUME NEW stock, DOMAIN stock = {} \/ stock \in [Products -> StockRows]
    PROVE  /\ SeedStock(stock) \in [Products -> StockRows]
           /\ SeedStock(stock)["ELEC-001"].onHand = 170
           /\ SeedStock(stock)["ELEC-002"] = [onHand |-> 300, reserved |-> 0]
           /\ SeedStock(stock)["ELEC-003"] = [onHand |-> 1000, reserved |-> 0]
           /\ SeedStock(stock)["ELEC-001"].reserved
                  = IF DOMAIN stock = {} THEN 0 ELSE stock["ELEC-001"].reserved
<1> DEFINE r == IF "ELEC-001" \in DOMAIN stock THEN stock["ELEC-001"].reserved ELSE 0
           a == [onHand |-> 170, reserved |-> r]
           b == [onHand |-> 300, reserved |-> 0]
           c == [onHand |-> 1000, reserved |-> 0]
           s == "ELEC-001" :> a @@ "ELEC-002" :> b @@ "ELEC-003" :> c
<1>1. SeedStock(stock) = s
  BY DEF SeedStock
<1>2. a \in StockRows /\ b \in StockRows /\ c \in StockRows
  BY DEF StockRows, Products
<1>3. r = IF DOMAIN stock = {} THEN 0 ELSE stock["ELEC-001"].reserved
  BY DEF Products
<1>4. a.onHand = 170 /\ a.reserved = r
  OBVIOUS
<1> HIDE DEF a, b, c, r
<1>5. s["ELEC-001"] = a /\ s["ELEC-002"] = b /\ s["ELEC-003"] = c
  BY DEF @@, :>
<1>6. HasKeys(s, {"ELEC-001"} \cup {"ELEC-002"} \cup {"ELEC-003"}, Products, StockRows)
  BY <1>2, ThreeRows DEF Products
<1>7. s \in [Products -> StockRows]
  BY <1>6 DEF HasKeys, IsTable, Products
<1> HIDE DEF s
<1>8. QED
  BY <1>1, <1>3, <1>4, <1>5, <1>7 DEF b, c

LEMMA SeededSequences ==
    ASSUME NEW seq, seq = "SHP" :> 0 \/ seq \in [Sequences -> Nat]
    PROVE  /\ SeedSequences(seq) \in [Sequences -> Nat]
           /\ \A k \in {"PO", "SO", "CUS"} : SeedSequences(seq)[k] = 1
           /\ SeedSequences(seq)["SHP"] = seq["SHP"]
<1>1. DOMAIN seq \in {{"SHP"}, Sequences} /\ seq["SHP"] \in Nat
  BY DEF :>, Sequences
<1>2. QED
  BY <1>1 DEF SeedSequences, @@, Sequences

\* What the seed can be run over: a database in use, or an empty one.
Tabular(d) ==
    /\ IsTable(d.pos, Nat, PORows)
    /\ IsTable(d.receipts, Nat \X Nat, Int)
    /\ IsTable(d.sos, Nat, SORows)
    /\ IsTable(d.shipments, Nat, ShipmentRows)
    /\ IsTable(d.exceptions, Nat \X Kinds, ExceptionRows)
    /\ IsTable(d.movements, MovementKeys, MovementRows)
Seedable(d) ==
    /\ Tabular(d)
    /\ DOMAIN d.stock = {} \/ d.stock \in [Products -> StockRows]
    /\ d.seq = "SHP" :> 0 \/ d.seq \in [Sequences -> Nat]

LEMMA EmptySeedable == Seedable(EmptyDb)
<1> DEFINE e == <<>>
<1>1. DOMAIN e = {} /\ e = [x \in {} |-> 0]
  OBVIOUS
<1>2. /\ EmptyDb.pos = e /\ EmptyDb.receipts = e /\ EmptyDb.sos = e /\ EmptyDb.shipments = e
      /\ EmptyDb.exceptions = e /\ EmptyDb.movements = e /\ EmptyDb.stock = e
      /\ EmptyDb.seq = "SHP" :> 0
  BY DEF EmptyDb
<1> HIDE DEF e
<1>3. ASSUME NEW K, NEW R
      PROVE  IsTable(e, K, R)
  BY <1>1, FS_EmptySet DEF IsTable
<1>4. QED
  BY <1>1, <1>2, <1>3 DEF Seedable, Tabular

\* Every fixture is there.
Fixtures(d) ==
    /\ SeedKeys.pos \subseteq DOMAIN d.pos
    /\ SeedKeys.receipts \subseteq DOMAIN d.receipts
    /\ SeedKeys.sos \subseteq DOMAIN d.sos
    /\ SeedKeys.shipments \subseteq DOMAIN d.shipments
    /\ SeedKeys.exceptions \subseteq DOMAIN d.exceptions
    /\ SeedKeys.movements \subseteq DOMAIN d.movements

LEMMA SeededEffect ==
    ASSUME NEW d, NEW t
    PROVE  LET e == Seeded(d, t)
           IN  /\ e = [x \in TableNames |-> e[x]]
               /\ e.pos = d.pos @@ SeedPOs(t)
               /\ e.receipts = d.receipts @@ SeedReceipts(t)
               /\ e.sos = d.sos @@ SeedSOs(t)
               /\ e.shipments = d.shipments @@ SeedShipments(t)
               /\ e.exceptions = d.exceptions @@ SeedExceptions(t)
               /\ e.movements = d.movements @@ SeedMovements(t)
               /\ e.stock = SeedStock(d.stock)
               /\ e.seq = SeedSequences(d.seq)
<1> DEFINE a == d.pos @@ SeedPOs(t)
           b == d.receipts @@ SeedReceipts(t)
           c == d.sos @@ SeedSOs(t)
           f == d.shipments @@ SeedShipments(t)
           g == d.exceptions @@ SeedExceptions(t)
           h == d.movements @@ SeedMovements(t)
           i == SeedStock(d.stock)
           j == SeedSequences(d.seq)
<1>1. Seeded(d, t) = [pos |-> a, receipts |-> b, sos |-> c, shipments |-> f, exceptions |-> g,
                      movements |-> h, stock |-> i, seq |-> j]
  BY DEF Seeded, Upsert
<1> HIDE DEF a, b, c, f, g, h, i, j
<1>2. LET e == Seeded(d, t)
      IN  /\ e = [x \in TableNames |-> e[x]]
          /\ e.pos = a /\ e.receipts = b /\ e.sos = c /\ e.shipments = f
          /\ e.exceptions = g /\ e.movements = h /\ e.stock = i /\ e.seq = j
  BY <1>1 DEF TableNames
<1>3. QED
  BY <1>2 DEF a, b, c, f, g, h, i, j

LEMMA SeededTypes ==
    ASSUME NEW d, Seedable(d), NEW t \in Int
    PROVE  DbTypes(Seeded(d, t)) /\ Fixtures(Seeded(d, t))
<1> DEFINE e == Seeded(d, t)
<1>1. IsTable(e.pos, Nat, PORows) /\ SeedKeys.pos \subseteq DOMAIN e.pos
  <2>1. IsTable(d.pos, Nat, PORows) /\ IsTable(SeedPOs(t), Nat, PORows)
    BY SeededPOs DEF Seedable, Tabular
  <2>2. e.pos = d.pos @@ SeedPOs(t)
    BY SeededEffect
  <2> HIDE DEF e
  <2>3. IsTable(d.pos @@ SeedPOs(t), Nat, PORows)
    BY <2>1, JoinIsTable
  <2>4. SeedKeys.pos \subseteq DOMAIN (d.pos @@ SeedPOs(t))
    BY SeededPOs DEF @@
  <2>5. QED
    BY <2>2, <2>3, <2>4
<1>2. IsTable(e.receipts, Nat \X Nat, Int) /\ SeedKeys.receipts \subseteq DOMAIN e.receipts
  <2>1. IsTable(d.receipts, Nat \X Nat, Int) /\ IsTable(SeedReceipts(t), Nat \X Nat, Int)
    BY SeededReceipts DEF Seedable, Tabular
  <2>2. e.receipts = d.receipts @@ SeedReceipts(t)
    BY SeededEffect
  <2> HIDE DEF e
  <2>3. IsTable(d.receipts @@ SeedReceipts(t), Nat \X Nat, Int)
    BY <2>1, JoinIsTable
  <2>4. SeedKeys.receipts \subseteq DOMAIN (d.receipts @@ SeedReceipts(t))
    BY SeededReceipts DEF @@
  <2>5. QED
    BY <2>2, <2>3, <2>4
<1>3. IsTable(e.sos, Nat, SORows) /\ SeedKeys.sos \subseteq DOMAIN e.sos
  <2>1. IsTable(d.sos, Nat, SORows) /\ IsTable(SeedSOs(t), Nat, SORows)
    BY SeededSOs DEF Seedable, Tabular
  <2>2. e.sos = d.sos @@ SeedSOs(t)
    BY SeededEffect
  <2> HIDE DEF e
  <2>3. IsTable(d.sos @@ SeedSOs(t), Nat, SORows)
    BY <2>1, JoinIsTable
  <2>4. SeedKeys.sos \subseteq DOMAIN (d.sos @@ SeedSOs(t))
    BY SeededSOs DEF @@
  <2>5. QED
    BY <2>2, <2>3, <2>4
<1>4. IsTable(e.shipments, Nat, ShipmentRows) /\ SeedKeys.shipments \subseteq DOMAIN e.shipments
  <2>1. IsTable(d.shipments, Nat, ShipmentRows) /\ IsTable(SeedShipments(t), Nat, ShipmentRows)
    BY SeededShipments DEF Seedable, Tabular
  <2>2. e.shipments = d.shipments @@ SeedShipments(t)
    BY SeededEffect
  <2> HIDE DEF e
  <2>3. IsTable(d.shipments @@ SeedShipments(t), Nat, ShipmentRows)
    BY <2>1, JoinIsTable
  <2>4. SeedKeys.shipments \subseteq DOMAIN (d.shipments @@ SeedShipments(t))
    BY SeededShipments DEF @@
  <2>5. QED
    BY <2>2, <2>3, <2>4
<1>5. /\ IsTable(e.exceptions, Nat \X Kinds, ExceptionRows)
      /\ SeedKeys.exceptions \subseteq DOMAIN e.exceptions
  <2>1. /\ IsTable(d.exceptions, Nat \X Kinds, ExceptionRows)
        /\ IsTable(SeedExceptions(t), Nat \X Kinds, ExceptionRows)
    BY SeededExceptions DEF Seedable, Tabular
  <2>2. e.exceptions = d.exceptions @@ SeedExceptions(t)
    BY SeededEffect
  <2> HIDE DEF e
  <2>3. IsTable(d.exceptions @@ SeedExceptions(t), Nat \X Kinds, ExceptionRows)
    BY <2>1, JoinIsTable
  <2>4. SeedKeys.exceptions \subseteq DOMAIN (d.exceptions @@ SeedExceptions(t))
    BY SeededExceptions DEF @@
  <2>5. QED
    BY <2>2, <2>3, <2>4
<1>6. IsTable(e.movements, MovementKeys, MovementRows) /\ SeedKeys.movements \subseteq DOMAIN e.movements
  <2>1. /\ IsTable(d.movements, MovementKeys, MovementRows)
        /\ IsTable(SeedMovements(t), MovementKeys, MovementRows)
        /\ DOMAIN SeedMovements(t) = SeedKeys.movements
    BY SeededMovements DEF Seedable, Tabular, Tells, HasKeys
  <2>2. e.movements = d.movements @@ SeedMovements(t)
    BY SeededEffect
  <2> HIDE DEF e
  <2>3. IsTable(d.movements @@ SeedMovements(t), MovementKeys, MovementRows)
    BY <2>1, JoinIsTable
  <2>4. SeedKeys.movements \subseteq DOMAIN (d.movements @@ SeedMovements(t))
    BY <2>1 DEF @@
  <2>5. QED
    BY <2>2, <2>3, <2>4
<1>7. e.stock \in [Products -> StockRows] /\ e.seq \in [Sequences -> Nat]
  <2>1. e.stock = SeedStock(d.stock) /\ e.seq = SeedSequences(d.seq)
    BY SeededEffect
  <2>2. /\ DOMAIN d.stock = {} \/ d.stock \in [Products -> StockRows]
        /\ d.seq = "SHP" :> 0 \/ d.seq \in [Sequences -> Nat]
    BY DEF Seedable
  <2>3. SeedStock(d.stock) \in [Products -> StockRows]
    BY <2>2, SeededStock, ZenonT(30)
  <2>4. SeedSequences(d.seq) \in [Sequences -> Nat]
    BY <2>2, SeededSequences
  <2> HIDE DEF e
  <2>5. QED
    BY <2>1, <2>3, <2>4
<1>8. e = [x \in TableNames |-> e[x]]
  BY SeededEffect
<1> HIDE DEF e
<1>9. DbTypes(e) /\ Fixtures(e)
  BY <1>1, <1>2, <1>3, <1>4, <1>5, <1>6, <1>7, <1>8 DEF DbTypes, Fixtures, MovementKeys
<1>10. QED
  BY <1>9 DEF e

-----------------------------------------------------------------------------
(* Every request keeps the types of the tables.                            *)

LEMMA NewRow ==
    ASSUME NEW K, NEW R, NEW f, IsTable(f, K, R), NEW k \in K, NEW r \in R
    PROVE  IsTable((k :> r) @@ f, K, R)
<1>1. IsTable(k :> r, K, R)
  BY OnlyIsTable
<1>2. QED
  BY <1>1, JoinIsTable

LEMMA NextNumberType ==
    ASSUME DbTypes(db), NEW k \in Sequences
    PROVE  /\ NextNumber(k) \in Nat
           /\ [db.seq EXCEPT ![k] = NextNumber(k)] \in [Sequences -> Nat]
BY DEF DbTypes, NextNumber

LEMMA CreateTypes ==
    ASSUME DbTypes(db), now \in Nat, CreatePO
    PROVE  DbTypes(db')
<1> DEFINE n == NextNumber("PO")
           row == PO("SUP-003", "DRAFT", now, now + Day, Never, "ELEC-002", 600, 0, 45)
<1>1. /\ db' = [t \in TableNames |-> db'[t]]
      /\ Same(db, db', TableNames \ {"seq", "pos"})
      /\ db'.seq = [db.seq EXCEPT !["PO"] = n]
      /\ db'.pos = (n :> row) @@ db.pos
  BY CreateEffect
<1>2. row \in PORows
  BY DEF PO, PORows, PORecords, SupplierCodes, OPEN_PO_STATUSES, Products, Never, Day
<1>3. n \in Nat /\ db'.seq \in [Sequences -> Nat]
  BY <1>1, NextNumberType DEF Sequences
<1>4. IsTable(db.pos, Nat, PORows)
  BY DEF DbTypes
<1> HIDE DEF n, row
<1>5. IsTable((n :> row) @@ db.pos, Nat, PORows)
  BY <1>2, <1>3, <1>4, NewRow
<1>6. QED
  BY <1>1, <1>3, <1>5 DEF DbTypes, Same, TableNames

LEMMA MoveTypes ==
    ASSUME DbTypes(db), NEW n \in DOMAIN db.pos, NEW status, NEW approved \in Int,
           MovePO(n, status, approved)
    PROVE  DbTypes(db')
<1> DEFINE row == MovedTo(db.pos[n], status, approved)
<1>1. /\ <<db.pos[n].status, status>> \in PurchaseTransitions
      /\ db' = [t \in TableNames |-> db'[t]]
      /\ Same(db, db', TableNames \ {"pos"})
      /\ db'.pos = [db.pos EXCEPT ![n] = row]
  BY MoveEffect
<1>2. IsTable(db.pos, Nat, PORows) /\ db.pos[n] \in PORows
  BY DEF DbTypes, IsTable
<1>3. status \in OPEN_PO_STATUSES \cup {"RECEIVED", "CANCELLED"}
  BY <1>1 DEF PurchaseTransitions, OPEN_PO_STATUSES
<1>4. row \in PORows
  BY <1>2, <1>3 DEF PORows, PORecords, MovedTo
<1> HIDE DEF row
<1>5. IsTable([db.pos EXCEPT ![n] = row], Nat, PORows)
  BY <1>2, <1>4, ChangeIsTable
<1>6. QED
  BY <1>1, <1>5 DEF DbTypes, Same, TableNames

LEMMA NewShipmentType ==
    ASSUME now \in Nat, NEW direction \in {"INBOUND", "OUTBOUND"}, NEW of \in Nat
    PROVE  NewShipment(direction, of) \in ShipmentRows
BY DEF NewShipment, ShipmentRows, ACTIVE_STATUSES, Never

LEMMA ShipTypes ==
    ASSUME DbTypes(db), now \in Nat, NEW n \in DOMAIN db.pos, Ship(n)
    PROVE  DbTypes(db')
<1> DEFINE s == NextNumber("SHP")
           row == [db.pos[n] EXCEPT !.status = "SHIPPED"]
           v == NewShipment("INBOUND", n)
<1>1. /\ db' = [t \in TableNames |-> db'[t]]
      /\ Same(db, db', TableNames \ {"seq", "pos", "shipments"})
      /\ db'.seq = [db.seq EXCEPT !["SHP"] = s]
      /\ db'.pos = [db.pos EXCEPT ![n] = row]
      /\ db'.shipments = (s :> v) @@ db.shipments
  BY ShipEffect
<1>2. /\ IsTable(db.pos, Nat, PORows) /\ db.pos[n] \in PORows /\ n \in Nat
      /\ IsTable(db.shipments, Nat, ShipmentRows)
  BY DEF DbTypes, IsTable
<1>3. row \in PORows
  BY <1>2 DEF PORows, PORecords, OPEN_PO_STATUSES
<1>4. v \in ShipmentRows
  BY <1>2, NewShipmentType
<1>5. s \in Nat /\ db'.seq \in [Sequences -> Nat]
  BY <1>1, NextNumberType DEF Sequences
<1> HIDE DEF s, row, v
<1>6. IsTable([db.pos EXCEPT ![n] = row], Nat, PORows)
  BY <1>2, <1>3, ChangeIsTable
<1>7. IsTable((s :> v) @@ db.shipments, Nat, ShipmentRows)
  BY <1>2, <1>4, <1>5, NewRow
<1>8. QED
  BY <1>1, <1>5, <1>6, <1>7 DEF DbTypes, Same, TableNames

LEMMA DispatchTypes ==
    ASSUME DbTypes(db), now \in Nat, NEW n \in DOMAIN db.sos, Dispatch(n)
    PROVE  DbTypes(db')
<1> DEFINE s == NextNumber("SHP")
           v == NewShipment("OUTBOUND", n)
<1>1. /\ db' = [t \in TableNames |-> db'[t]]
      /\ Same(db, db', TableNames \ {"seq", "shipments"})
      /\ db'.seq = [db.seq EXCEPT !["SHP"] = s]
      /\ db'.shipments = (s :> v) @@ db.shipments
  BY DispatchEffect
<1>2. IsTable(db.shipments, Nat, ShipmentRows) /\ n \in Nat
  BY DEF DbTypes, IsTable
<1>3. v \in ShipmentRows
  BY <1>2, NewShipmentType
<1>4. s \in Nat /\ db'.seq \in [Sequences -> Nat]
  BY <1>1, NextNumberType DEF Sequences
<1> HIDE DEF s, v
<1>5. IsTable((s :> v) @@ db.shipments, Nat, ShipmentRows)
  BY <1>2, <1>3, <1>4, NewRow
<1>6. QED
  BY <1>1, <1>4, <1>5 DEF DbTypes, Same, TableNames

LEMMA EnteredType ==
    ASSUME DbTypes(db), now \in Nat, NEW k \in MovementKeys,
           NEW type \in {"RECEIPT", "FULFILLMENT"}, NEW p \in Products, NEW units \in Int
    PROVE  IsTable(Entered(k, type, p, units), MovementKeys, MovementRows)
<1> DEFINE row == [type |-> type, product |-> p, delta |-> units, at |-> now]
<1>1. Entered(k, type, p, units) = (k :> row) @@ db.movements
  BY DEF Entered
<1>2. row \in MovementRows /\ IsTable(db.movements, MovementKeys, MovementRows)
  BY DEF MovementRows, DbTypes, MovementKeys
<1> HIDE DEF row
<1>3. IsTable((k :> row) @@ db.movements, MovementKeys, MovementRows)
  BY <1>2, NewRow
<1>4. QED
  BY <1>1, <1>3

LEMMA SomeUnits ==
    ASSUME NEW r \in Nat, NEW q \in Some(r)
    PROVE  q \in Nat /\ q <= r
BY BoundsAssumption DEF Some

LEMMA ReceiptNumberType ==
    ASSUME DbTypes(db), NEW n
    PROVE  ReceiptNumber(n) \in Nat \ {0}
<1>1. IsFiniteSet({r \in DOMAIN db.receipts : r[1] = n})
  BY FS_Subset DEF DbTypes, IsTable
<1>2. QED
  BY <1>1, FS_CardinalityType DEF ReceiptNumber, Count

LEMMA DeliveryNumberType ==
    ASSUME DbTypes(db), NEW n
    PROVE  DeliveryNumber(n) \in Nat \ {0}
<1>1. IsFiniteSet({m \in DOMAIN db.movements : m[1] = "SO" /\ m[2] = n})
  BY FS_Subset DEF DbTypes, IsTable
<1>2. QED
  BY <1>1, FS_CardinalityType DEF DeliveryNumber, Count

LEMMA ReceivedRow ==
    ASSUME NEW po \in PORows, NEW q \in Nat, po.got + q <= po.qty,
           NEW to \in {"RECEIVED", "PARTIALLY_RECEIVED"}
    PROVE  [po EXCEPT !.got = @ + q, !.status = to] \in PORows
<1> DEFINE row == [po EXCEPT !.got = @ + q, !.status = to]
<1>1. po \in PORecords /\ po.got + q \in Nat
  BY DEF PORows, PORecords
<1>2. row \in PORecords /\ row.got = po.got + q /\ row.qty = po.qty
  BY <1>1 DEF PORecords, OPEN_PO_STATUSES
<1> HIDE DEF row
<1>3. row \in PORows
  BY <1>2 DEF PORows
<1>4. QED
  BY <1>3 DEF row

LEMMA AllocatedRow ==
    ASSUME NEW so \in SORows, so.status = "CONFIRMED"
    PROVE  [so EXCEPT !.status = "ALLOCATED", !.reserved = so.qty] \in SORows
<1> DEFINE row == [so EXCEPT !.status = "ALLOCATED", !.reserved = so.qty]
<1>1. row \in SORecords /\ row.fulfilled = 0 /\ row.reserved = row.qty /\ row.status = "ALLOCATED"
  BY DEF SORows, SORecords, OPEN_SO_STATUSES
<1> HIDE DEF row
<1>2. row \in SORows
  BY <1>1 DEF SORows, SORecords
<1>3. QED
  BY <1>2 DEF row

LEMMA CancelledRow ==
    ASSUME NEW so \in SORows
    PROVE  [so EXCEPT !.status = "CANCELLED", !.reserved = 0] \in SORows
<1> DEFINE row == [so EXCEPT !.status = "CANCELLED", !.reserved = 0]
<1>1. /\ row \in SORecords /\ row.fulfilled = so.fulfilled /\ row.reserved = 0
      /\ row.qty = so.qty /\ row.status = "CANCELLED"
      /\ so.reserved \in Nat /\ so.fulfilled \in Nat /\ so.reserved + so.fulfilled <= so.qty
      /\ so.qty \in Nat
  BY DEF SORows, SORecords, OPEN_SO_STATUSES
<1> HIDE DEF row
<1>2. row \in SORows
  BY <1>1 DEF SORows
<1>3. QED
  BY <1>2 DEF row

LEMMA FulfilledRow ==
    ASSUME NEW so \in SORows, NEW q \in Nat, q <= so.reserved,
           NEW to \in {"FULFILLED", "PARTIALLY_FULFILLED"}
    PROVE  [so EXCEPT !.fulfilled = so.fulfilled + q, !.reserved = @ - q, !.status = to] \in SORows
<1> DEFINE row == [so EXCEPT !.fulfilled = so.fulfilled + q, !.reserved = @ - q, !.status = to]
<1>1. /\ so \in SORecords /\ so.reserved + so.fulfilled <= so.qty
      /\ so.reserved \in Nat /\ so.fulfilled \in Nat /\ so.qty \in Nat
  BY DEF SORows, SORecords
<1>2. so.reserved - q \in Nat /\ so.fulfilled + q \in Nat
  BY <1>1
<1>3. /\ row \in SORecords /\ row.fulfilled = so.fulfilled + q /\ row.reserved = so.reserved - q
      /\ row.qty = so.qty /\ row.status = to
  BY <1>1, <1>2 DEF SORecords, OPEN_SO_STATUSES
<1> HIDE DEF row
<1>4. row \in SORows
  BY <1>1, <1>3 DEF SORows
<1>5. QED
  BY <1>4 DEF row

LEMMA ReceiveTypes ==
    ASSUME DbTypes(db), now \in Nat, NEW n \in DOMAIN db.pos,
           NEW q \in Some(db.pos[n].qty - db.pos[n].got), Receive(n, q)
    PROVE  DbTypes(db')
<1> DEFINE po == db.pos[n]
           k == ReceiptNumber(n)
           to == IF po.got + q >= po.qty THEN "RECEIVED" ELSE "PARTIALLY_RECEIVED"
           row == [po EXCEPT !.got = @ + q, !.status = to]
           key == <<"PO", n, k>>
<1>1. /\ db' = [t \in TableNames |-> db'[t]]
      /\ Same(db, db', {"sos", "shipments", "exceptions", "seq"})
      /\ db'.receipts = (<<n, k>> :> now) @@ db.receipts
      /\ db'.pos = [db.pos EXCEPT ![n] = row]
      /\ db'.stock = Moved(po.product, q)
      /\ db'.movements = Entered(key, "RECEIPT", po.product, q)
  BY ReceiveEffect
<1>2. /\ IsTable(db.pos, Nat, PORows) /\ po \in PORows /\ n \in Nat
      /\ IsTable(db.receipts, Nat \X Nat, Int)
      /\ db.stock \in [Products -> StockRows]
  BY DEF DbTypes, IsTable
<1>3. q \in Nat /\ po.got + q <= po.qty
  <2>1. po.qty - po.got \in Nat /\ po.got \in Nat /\ po.qty \in Nat
    BY <1>2 DEF PORows, PORecords
  <2>2. q \in Nat /\ q <= po.qty - po.got
    BY <2>1, SomeUnits
  <2>3. QED
    BY <2>1, <2>2
<1>4. row \in PORows
  BY <1>2, <1>3, ReceivedRow
<1>5. k \in Nat
  BY ReceiptNumberType
<1>6. po.product \in Products
  BY <1>2 DEF PORows, PORecords
<1>7. key \in MovementKeys /\ <<n, k>> \in Nat \X Nat
  BY <1>2, <1>5 DEF MovementKeys
<1> HIDE DEF k, row, po, key
<1>8. IsTable([db.pos EXCEPT ![n] = row], Nat, PORows)
  BY <1>2, <1>4, ChangeIsTable
<1>9. IsTable(Entered(key, "RECEIPT", po.product, q), MovementKeys, MovementRows)
  BY <1>3, <1>6, <1>7, EnteredType
<1>10. Moved(po.product, q) \in [Products -> StockRows]
  BY <1>2, <1>3, <1>6 DEF Moved, StockRows
<1>11. IsTable((<<n, k>> :> now) @@ db.receipts, Nat \X Nat, Int)
  <2> DEFINE i == <<n, k>>
  <2>1. i \in Nat \X Nat /\ now \in Int
    BY <1>7
  <2> HIDE DEF i
  <2>2. IsTable((i :> now) @@ db.receipts, Nat \X Nat, Int)
    BY <1>2, <2>1, NewRow
  <2>3. QED
    BY <2>2 DEF i
<1>12. QED
  BY <1>1, <1>8, <1>9, <1>10, <1>11 DEF DbTypes, Same, TableNames, MovementKeys

LEMMA ConfirmTypes ==
    ASSUME DbTypes(db), NEW n \in DOMAIN db.sos, Confirm(n)
    PROVE  DbTypes(db')
<1> DEFINE row == [db.sos[n] EXCEPT !.status = "CONFIRMED"]
<1>1. /\ db.sos[n].status = "DRAFT"
      /\ db' = [t \in TableNames |-> db'[t]]
      /\ Same(db, db', TableNames \ {"sos"})
      /\ db'.sos = [db.sos EXCEPT ![n] = row]
  BY ConfirmEffect
<1>2. IsTable(db.sos, Nat, SORows) /\ db.sos[n] \in SORows
  BY DEF DbTypes, IsTable
<1>3. row \in SORows
  BY <1>1, <1>2 DEF SORows, SORecords, OPEN_SO_STATUSES
<1> HIDE DEF row
<1>4. IsTable([db.sos EXCEPT ![n] = row], Nat, SORows)
  BY <1>2, <1>3, ChangeIsTable
<1>5. QED
  BY <1>1, <1>4 DEF DbTypes, Same, TableNames

LEMMA ReservedShelf ==
    ASSUME NEW r \in StockRows, NEW q \in Int
    PROVE  [r EXCEPT !.reserved = @ + q] \in StockRows /\ [r EXCEPT !.reserved = @ - q] \in StockRows
BY DEF StockRows

LEMMA AllocateTypes ==
    ASSUME DbTypes(db), NEW n \in DOMAIN db.sos, Allocate(n)
    PROVE  DbTypes(db')
<1> DEFINE so == db.sos[n]
           row == [so EXCEPT !.status = "ALLOCATED", !.reserved = so.qty]
           shelf == [db.stock[so.product] EXCEPT !.reserved = @ + so.qty]
<1>1. /\ so.status = "CONFIRMED"
      /\ db' = [t \in TableNames |-> db'[t]]
      /\ Same(db, db', TableNames \ {"sos", "stock"})
      /\ db'.sos = [db.sos EXCEPT ![n] = row]
      /\ db'.stock = [db.stock EXCEPT ![so.product] = shelf]
  BY AllocateEffect
<1>2. IsTable(db.sos, Nat, SORows) /\ so \in SORows /\ db.stock \in [Products -> StockRows]
  BY DEF DbTypes, IsTable
<1>3. row \in SORows /\ so.product \in Products
  BY <1>1, <1>2, AllocatedRow DEF SORows, SORecords
<1>4. shelf \in StockRows
  <2> DEFINE r == db.stock[so.product]
             q == so.qty
  <2>1. r \in StockRows
    BY <1>2, <1>3
  <2>2. q \in Int
    BY <1>2 DEF SORows, SORecords
  <2>3. shelf = [r EXCEPT !.reserved = @ + q]
    OBVIOUS
  <2> HIDE DEF r, q, shelf
  <2>4. QED
    BY <2>1, <2>2, <2>3, ReservedShelf
<1> HIDE DEF row, so, shelf
<1>5. IsTable([db.sos EXCEPT ![n] = row], Nat, SORows)
  BY <1>2, <1>3, ChangeIsTable
<1>6. [db.stock EXCEPT ![so.product] = shelf] \in [Products -> StockRows]
  BY <1>2, <1>4
<1>7. QED
  BY <1>1, <1>5, <1>6 DEF DbTypes, Same, TableNames

LEMMA CancelTypes ==
    ASSUME DbTypes(db), NEW n \in DOMAIN db.sos, CancelSO(n)
    PROVE  DbTypes(db')
<1> DEFINE so == db.sos[n]
           row == [so EXCEPT !.status = "CANCELLED", !.reserved = 0]
           shelf == [db.stock[so.product] EXCEPT !.reserved = @ - so.reserved]
<1>1. /\ db' = [t \in TableNames |-> db'[t]]
      /\ Same(db, db', TableNames \ {"sos", "stock"})
      /\ db'.sos = [db.sos EXCEPT ![n] = row]
      /\ db'.stock = [db.stock EXCEPT ![so.product] = shelf]
  BY CancelEffect
<1>2. IsTable(db.sos, Nat, SORows) /\ so \in SORows /\ db.stock \in [Products -> StockRows]
  BY DEF DbTypes, IsTable
<1>3. row \in SORows /\ so.product \in Products
  BY <1>2, CancelledRow DEF SORows, SORecords
<1>4. shelf \in StockRows
  <2> DEFINE r == db.stock[so.product]
             q == so.reserved
  <2>1. r \in StockRows
    BY <1>2, <1>3
  <2>2. q \in Int
    BY <1>2 DEF SORows, SORecords
  <2>3. shelf = [r EXCEPT !.reserved = @ - q]
    OBVIOUS
  <2> HIDE DEF r, q, shelf
  <2>4. QED
    BY <2>1, <2>2, <2>3, ReservedShelf
<1> HIDE DEF row, so, shelf
<1>5. IsTable([db.sos EXCEPT ![n] = row], Nat, SORows)
  BY <1>2, <1>3, ChangeIsTable
<1>6. [db.stock EXCEPT ![so.product] = shelf] \in [Products -> StockRows]
  BY <1>2, <1>4
<1>7. QED
  BY <1>1, <1>5, <1>6 DEF DbTypes, Same, TableNames

LEMMA FulfillTypes ==
    ASSUME DbTypes(db), now \in Nat, NEW n \in DOMAIN db.sos,
           NEW q \in Some(db.sos[n].reserved), Fulfill(n, q)
    PROVE  DbTypes(db')
<1> DEFINE so == db.sos[n]
           k == DeliveryNumber(n)
           done == so.fulfilled + q
           to == IF done >= so.qty THEN "FULFILLED" ELSE "PARTIALLY_FULFILLED"
           row == [so EXCEPT !.fulfilled = done, !.reserved = @ - q, !.status = to]
           key == <<"SO", n, k>>
           stock == [Moved(so.product, -q) EXCEPT ![so.product].reserved = @ - q]
<1>1. /\ so.status \in FULFILLABLE_STATUSES
      /\ db' = [t \in TableNames |-> db'[t]]
      /\ Same(db, db', TableNames \ {"sos", "stock", "movements"})
      /\ db'.sos = [db.sos EXCEPT ![n] = row]
      /\ db'.stock = stock
      /\ db'.movements = Entered(key, "FULFILLMENT", so.product, -q)
  BY FulfillEffect
<1>2. /\ IsTable(db.sos, Nat, SORows) /\ so \in SORows /\ n \in Nat
      /\ db.stock \in [Products -> StockRows]
  BY DEF DbTypes, IsTable
<1>3. q \in Nat /\ q <= so.reserved
  <2>1. so.reserved \in Nat
    BY <1>2 DEF SORows, SORecords
  <2>2. QED
    BY <2>1, SomeUnits
<1>4. row \in SORows
  BY <1>2, <1>3, FulfilledRow
<1>5. k \in Nat
  BY DeliveryNumberType
<1>6. so.product \in Products
  BY <1>2 DEF SORows, SORecords
<1>7. key \in MovementKeys
  BY <1>2, <1>5 DEF MovementKeys
<1> HIDE DEF k, row, so, key
<1>8. IsTable([db.sos EXCEPT ![n] = row], Nat, SORows)
  BY <1>2, <1>4, ChangeIsTable
<1>9. IsTable(Entered(key, "FULFILLMENT", so.product, -q), MovementKeys, MovementRows)
  BY <1>3, <1>6, <1>7, EnteredType
<1>10. stock \in [Products -> StockRows]
  BY <1>2, <1>3, <1>6 DEF Moved, StockRows
<1> HIDE DEF stock
<1>11. QED
  BY <1>1, <1>8, <1>9, <1>10 DEF DbTypes, Same, TableNames, MovementKeys

LEMMA WantedType ==
    ASSUME NEW v, NEW time, NEW k \in Kinds
    PROVE  /\ Wanted(v, time)[k] \in {"NONE", "WARNING", "CRITICAL"}
           /\ Wanted(v, time)[k] # "NONE" => v.status \in ACTIVE_STATUSES
           /\ Wanted(v, time)["ETA_EXCEEDED"] # "NONE" => v.eta # Never /\ time > v.eta
<1>1. /\ Wanted(v, time)[k] \in {"NONE", "WARNING", "CRITICAL"}
      /\ Wanted(v, time)[k] # "NONE" => v.status \in ACTIVE_STATUSES
  BY DEF Wanted
<1>2. Wanted(v, time)["ETA_EXCEEDED"] # "NONE" => v.eta # Never /\ time > v.eta
  BY DEF Wanted, Kinds
<1>3. QED
  BY <1>1, <1>2

LEMMA DueKeys ==
    ASSUME NEW s \in Nat, NEW v, NEW time
    PROVE  /\ Due(s, v, time) \subseteq Nat \X Kinds
           /\ IsFiniteSet(Due(s, v, time))
           /\ \A y \in Due(s, v, time) : y[1] = s /\ Wanted(v, time)[y[2]] # "NONE"
<1>1. Due(s, v, time) \subseteq {<<s, "ETA_EXCEEDED">>} \cup {<<s, "TRACKING_STALE">>}
  BY DEF Due, Kinds
<1>2. IsFiniteSet({<<s, "ETA_EXCEEDED">>} \cup {<<s, "TRACKING_STALE">>})
  <2> DEFINE i == <<s, "ETA_EXCEEDED">>
             j == <<s, "TRACKING_STALE">>
  <2> HIDE DEF i, j
  <2>1. IsFiniteSet({i}) /\ IsFiniteSet({j})
    BY FS_Singleton
  <2>2. IsFiniteSet({i} \cup {j})
    BY <2>1, FS_Union
  <2>3. QED
    BY <2>2 DEF i, j
<1>3. IsFiniteSet(Due(s, v, time))
  BY <1>1, <1>2, FS_Subset
<1>4. \A y \in Due(s, v, time) : /\ y[1] = s /\ Wanted(v, time)[y[2]] # "NONE"
                                 /\ y \in Nat \X Kinds
  BY DEF Due
<1>5. QED
  BY <1>3, <1>4

\* What is open in r is due, or was open in x and is another shipment's.
OpensOnly(r, x, s, due) ==
    \A y \in DOMAIN r : r[y].open => y \in due \/ (y \in DOMAIN x /\ x[y].open /\ y[1] # s)

LEMMA ReviewedRows ==
    ASSUME NEW x, IsTable(x, Nat \X Kinds, ExceptionRows), NEW s \in Nat, NEW v, NEW time \in Int
    PROVE  LET r == Reviewed(x, s, v, time)
           IN  /\ IsTable(r, Nat \X Kinds, ExceptionRows)
               /\ DOMAIN r = Due(s, v, time) \cup DOMAIN x
               /\ OpensOnly(r, x, s, Due(s, v, time))
<1> DEFINE a == [y \in Due(s, v, time) |-> DueRow(x, y, v, time)]
           b == Kept(x, s)
<1>1. Reviewed(x, s, v, time) = a @@ b
  BY DEF Reviewed
<1>2. \A y \in Due(s, v, time) : DueRow(x, y, v, time) \in ExceptionRows
  <2> TAKE y \in Due(s, v, time)
  <2>1. Wanted(v, time)[y[2]] \in {"WARNING", "CRITICAL"}
    <3>1. y[2] \in Kinds /\ Wanted(v, time)[y[2]] # "NONE"
      BY DueKeys
    <3>2. QED
      BY <3>1, WantedType
  <2> DEFINE w == Wanted(v, time)[y[2]]
  <2> HIDE DEF w
  <2>2. CASE y \in DOMAIN x /\ x[y].open
    <3>1. x[y] \in ExceptionRows /\ DueRow(x, y, v, time) = [x[y] EXCEPT !.severity = w]
      BY <2>2 DEF IsTable, DueRow, w
    <3>2. QED
      BY <2>1, <3>1 DEF ExceptionRows, w
  <2>3. CASE ~ (y \in DOMAIN x /\ x[y].open)
    <3>1. DueRow(x, y, v, time) = [severity |-> w, open |-> TRUE, at |-> time]
      BY <2>3 DEF DueRow, w
    <3>2. QED
      BY <2>1, <3>1 DEF ExceptionRows, w
  <2>4. QED
    BY <2>2, <2>3
<1>3. IsTable(a, Nat \X Kinds, ExceptionRows) /\ DOMAIN a = Due(s, v, time)
  BY <1>2, DueKeys DEF IsTable
<1>4. IsTable(b, Nat \X Kinds, ExceptionRows) /\ DOMAIN b = DOMAIN x
  <2>1. \A y \in DOMAIN x : [x[y] EXCEPT !.open = @ /\ y[1] # s] \in ExceptionRows
    BY DEF IsTable, ExceptionRows
  <2>2. QED
    BY <2>1 DEF IsTable, Kept
<1>5. \A y \in DOMAIN b : b[y].open => x[y].open /\ y[1] # s
  BY <1>4 DEF Kept, IsTable, ExceptionRows
<1> HIDE DEF a, b
<1>6. IsTable(a @@ b, Nat \X Kinds, ExceptionRows)
  BY <1>3, <1>4, JoinIsTable
<1>7. DOMAIN (a @@ b) = Due(s, v, time) \cup DOMAIN x
  BY <1>3, <1>4 DEF @@
<1>8. \A y \in DOMAIN (a @@ b) : (a @@ b)[y].open =>
         y \in Due(s, v, time) \/ (y \in DOMAIN x /\ x[y].open /\ y[1] # s)
  BY <1>3, <1>4, <1>5 DEF @@
<1>9. QED
  BY <1>1, <1>6, <1>7, <1>8 DEF OpensOnly

LEMMA RewritesTypes ==
    ASSUME DbTypes(db), now \in Nat, NEW s \in DOMAIN db.shipments, NEW v \in ShipmentRows,
           Rewrites(s, v)
    PROVE  DbTypes(db')
<1>1. /\ IsTable(db.shipments, Nat, ShipmentRows) /\ s \in Nat
      /\ IsTable(db.exceptions, Nat \X Kinds, ExceptionRows)
  BY DEF DbTypes, IsTable
<1>2. IsTable([db.shipments EXCEPT ![s] = v], Nat, ShipmentRows)
  BY <1>1, ChangeIsTable
<1>3. IsTable(Reviewed(db.exceptions, s, v, now), Nat \X Kinds, ExceptionRows)
  <2>1. now \in Int
    OBVIOUS
  <2>2. QED
    BY <1>1, <2>1, ReviewedRows
<1>4. QED
  BY <1>2, <1>3 DEF Rewrites, DbTypes, Same, TableNames

LEMMA ProgressedRow ==
    ASSUME now \in Nat, NEW v \in ShipmentRows,
           NEW to \in ACTIVE_STATUSES \cup {"DELIVERED", "CANCELLED"}
    PROVE  Progressed(v, to) \in ShipmentRows
<1> DEFINE a == IF to = "IN_TRANSIT" THEN Or(v.departed, now) ELSE v.departed
           b == IF to \in {"ARRIVED", "DELIVERED"} THEN Or(v.arrived, now) ELSE v.arrived
           c == IF to = "DELIVERED" THEN now ELSE v.delivered
<1>1. /\ a \in Int /\ b \in Int /\ c \in Int
  BY DEF ShipmentRows, Or, Never
<1>2. Progressed(v, to) = [v EXCEPT !.status = to, !.last = now, !.departed = a, !.arrived = b,
                                    !.delivered = c]
  BY DEF Progressed, ShipmentRows
<1> DEFINE n == now
<1>0. n \in Int
  OBVIOUS
<1> HIDE DEF a, b, c, n
<1>3. [v EXCEPT !.status = to, !.last = n, !.departed = a, !.arrived = b, !.delivered = c]
          \in ShipmentRows
  BY <1>0, <1>1 DEF ShipmentRows
<1>4. QED
  BY <1>2, <1>3 DEF n

\* What a step may do to the shipments it does not create.
LEMMA ShipmentStep ==
    ASSUME DbTypes(db), now \in Nat, NEW s \in DOMAIN db.shipments,
           \/ View(s)
           \/ \E days \in Postponed : UpdateEta(s, now + days * Day)
           \/ \E to \in ACTIVE_STATUSES \cup {"DELIVERED", "CANCELLED"} : Advance(s, to)
    PROVE  \E v \in ShipmentRows : Rewrites(s, v)
<1>1. db.shipments[s] \in ShipmentRows
  BY DEF DbTypes, IsTable
<1>2. CASE View(s)
  BY <1>1, <1>2, ViewEffect
<1>3. ASSUME NEW days \in Postponed, UpdateEta(s, now + days * Day)
      PROVE  \E v \in ShipmentRows : Rewrites(s, v)
  <2> DEFINE eta == now + days * Day
             v == [db.shipments[s] EXCEPT !.eta = eta, !.last = now]
  <2>1. eta \in Int
    BY BoundsAssumption DEF Day
  <2> DEFINE n == now
  <2>2. n \in Int
    OBVIOUS
  <2> HIDE DEF eta, n
  <2>3. [db.shipments[s] EXCEPT !.eta = eta, !.last = n] \in ShipmentRows
    BY <1>1, <2>1, <2>2 DEF ShipmentRows
  <2>4. v \in ShipmentRows
    BY <2>3 DEF n
  <2>5. Rewrites(s, v)
    BY <1>3, EtaEffect DEF eta
  <2>6. QED
    BY <2>4, <2>5
<1>4. ASSUME NEW to \in ACTIVE_STATUSES \cup {"DELIVERED", "CANCELLED"}, Advance(s, to)
      PROVE  \E v \in ShipmentRows : Rewrites(s, v)
  <2>1. Progressed(db.shipments[s], to) \in ShipmentRows
    BY <1>1, ProgressedRow
  <2>2. QED
    BY <1>4, <2>1, AdvanceEffect
<1>5. QED
  BY <1>2, <1>3, <1>4

-----------------------------------------------------------------------------
(* The cases of a step.                                                    *)

\* What a purchase order is moved to by hand.
Moves == {"APPROVED", "CANCELLED"}

\* A request changes the tables, not the clock.
Touches == touched' = TRUE /\ UNCHANGED <<now, plan, overwritten>>

\* Time passes, or nothing happens.
Rests ==
    /\ UNCHANGED <<db, touched, overwritten>>
    /\ now' \in Nat /\ now <= now' /\ (now' = now \/ now' <= MaxTime)

LEMMA StepCases ==
    ASSUME DbTypes(db), now \in Nat, [Next]_vars
    PROVE  \/ CreatePO
           \/ \E n \in DOMAIN db.pos : \E status \in Moves : \E approved \in Int :
                 MovePO(n, status, approved)
           \/ \E n \in DOMAIN db.pos : Ship(n)
           \/ \E n \in DOMAIN db.pos : \E q \in Some(db.pos[n].qty - db.pos[n].got) : Receive(n, q)
           \/ \E n \in DOMAIN db.sos : Confirm(n)
           \/ \E n \in DOMAIN db.sos : Allocate(n)
           \/ \E n \in DOMAIN db.sos : CancelSO(n)
           \/ \E n \in DOMAIN db.sos : Dispatch(n)
           \/ \E n \in DOMAIN db.sos : \E q \in Some(db.sos[n].reserved) : Fulfill(n, q)
           \/ \E s \in DOMAIN db.shipments : \E v \in ShipmentRows : Rewrites(s, v) /\ Touches
           \/ RunSeed
           \/ Rests
<1>1. ASSUME NEW n \in DOMAIN db.pos, Approve(n) \/ CancelPO(n)
      PROVE  \E status \in Moves : \E approved \in Int : MovePO(n, status, approved)
  <2>1. db.pos[n].approved \in Int
    BY DEF DbTypes, IsTable, PORows, PORecords
  <2>2. QED
    BY <1>1, <2>1 DEF Approve, CancelPO, Moves
<1>2. ASSUME NEW s \in DOMAIN db.shipments,
             \/ View(s)
             \/ \E days \in Postponed : UpdateEta(s, now + days * Day)
             \/ \E to \in ACTIVE_STATUSES \cup {"DELIVERED", "CANCELLED"} : Advance(s, to)
      PROVE  \E v \in ShipmentRows : Rewrites(s, v) /\ Touches
  <2>1. Touches
    BY <1>2 DEF View, UpdateEta, Advance, Commits, Touches
  <2>2. \E v \in ShipmentRows : Rewrites(s, v)
    BY <1>2, ShipmentStep
  <2>3. QED
    BY <2>1, <2>2
<1>3. ASSUME NEW hours \in Waits, Pass(hours)
      PROVE  Rests
  BY <1>3, TimesAssumption DEF Pass, Rests
<1>4. CASE UNCHANGED vars
  BY <1>4 DEF vars, Rests
<1>5. CASE Next
  BY <1>1, <1>2, <1>3, <1>5, Zenon DEF Next
<1>6. QED
  BY <1>4, <1>5

LEMMA WorkTouches ==
    ASSUME NEW n, NEW q, NEW status, NEW approved,
           \/ CreatePO \/ MovePO(n, status, approved) \/ Ship(n) \/ Receive(n, q)
           \/ Confirm(n) \/ Allocate(n) \/ CancelSO(n) \/ Dispatch(n) \/ Fulfill(n, q)
    PROVE  Touches
<1>1. ASSUME NEW d, Commits(d)
      PROVE  Touches
  BY <1>1 DEF Commits, Touches
<1> HIDE DEF Commits
<1>2. CASE CreatePO
  BY <1>1, <1>2, Zenon DEF CreatePO
<1>3. CASE MovePO(n, status, approved)
  BY <1>1, <1>3, Zenon DEF MovePO
<1>4. CASE Ship(n)
  BY <1>1, <1>4, Zenon DEF Ship
<1>5. CASE Receive(n, q)
  BY <1>1, <1>5, Zenon DEF Receive
<1>6. CASE Confirm(n) \/ Allocate(n) \/ CancelSO(n)
  BY <1>1, <1>6, Zenon DEF Confirm, Allocate, CancelSO
<1>7. CASE Dispatch(n)
  BY <1>1, <1>7, Zenon DEF Dispatch
<1>8. CASE Fulfill(n, q)
  BY <1>1, <1>8, Zenon DEF Fulfill
<1>9. QED
  BY <1>2, <1>3, <1>4, <1>5, <1>6, <1>7, <1>8

-----------------------------------------------------------------------------
(* The seed over a database in use.                                        *)

LEMMA NothingAdded ==
    ASSUME NEW K, NEW R, NEW f, IsTable(f, K, R), NEW g, DOMAIN g \subseteq DOMAIN f
    PROVE  f @@ g = f
BY DEF @@, IsTable

\* What the seed leaves alone.
LEMMA ReseedEffect ==
    ASSUME DbTypes(db), Fixtures(db), now \in Nat, RunSeed
    PROVE  /\ db' = [t \in TableNames |-> db'[t]]
           /\ Same(db, db', TableNames \ {"stock", "seq"})
           /\ db'.stock = SeedStock(db.stock)
           /\ db'.seq = SeedSequences(db.seq)
<1>1. db' = Seeded(db, now)
  BY DEF RunSeed
<1>2. /\ db' = [t \in TableNames |-> db'[t]]
      /\ db'.pos = db.pos @@ SeedPOs(now)
      /\ db'.receipts = db.receipts @@ SeedReceipts(now)
      /\ db'.sos = db.sos @@ SeedSOs(now)
      /\ db'.shipments = db.shipments @@ SeedShipments(now)
      /\ db'.exceptions = db.exceptions @@ SeedExceptions(now)
      /\ db'.movements = db.movements @@ SeedMovements(now)
      /\ db'.stock = SeedStock(db.stock)
      /\ db'.seq = SeedSequences(db.seq)
  <2> DEFINE e == Seeded(db, now)
  <2>1. /\ e = [t \in TableNames |-> e[t]]
        /\ e.pos = db.pos @@ SeedPOs(now)
        /\ e.receipts = db.receipts @@ SeedReceipts(now)
        /\ e.sos = db.sos @@ SeedSOs(now)
        /\ e.shipments = db.shipments @@ SeedShipments(now)
        /\ e.exceptions = db.exceptions @@ SeedExceptions(now)
        /\ e.movements = db.movements @@ SeedMovements(now)
        /\ e.stock = SeedStock(db.stock)
        /\ e.seq = SeedSequences(db.seq)
    BY SeededEffect
  <2>2. db' = e
    BY <1>1
  <2> HIDE DEF e
  <2>3. QED
    BY <2>1, <2>2
<1>3. now \in Int
  OBVIOUS
<1>4. db.pos @@ SeedPOs(now) = db.pos
  <2>1. IsTable(db.pos, Nat, PORows) /\ DOMAIN SeedPOs(now) \subseteq DOMAIN db.pos
    BY <1>3, SeededPOs DEF DbTypes, Fixtures
  <2>2. QED
    BY <2>1, NothingAdded
<1>5. db.receipts @@ SeedReceipts(now) = db.receipts
  <2>1. IsTable(db.receipts, Nat \X Nat, Int) /\ DOMAIN SeedReceipts(now) \subseteq DOMAIN db.receipts
    BY <1>3, SeededReceipts DEF DbTypes, Fixtures
  <2>2. QED
    BY <2>1, NothingAdded
<1>6. db.sos @@ SeedSOs(now) = db.sos
  <2>1. IsTable(db.sos, Nat, SORows) /\ DOMAIN SeedSOs(now) \subseteq DOMAIN db.sos
    BY <1>3, SeededSOs DEF DbTypes, Fixtures
  <2>2. QED
    BY <2>1, NothingAdded
<1>7. db.shipments @@ SeedShipments(now) = db.shipments
  <2>1. /\ IsTable(db.shipments, Nat, ShipmentRows)
        /\ DOMAIN SeedShipments(now) \subseteq DOMAIN db.shipments
    BY <1>3, SeededShipments DEF DbTypes, Fixtures
  <2>2. QED
    BY <2>1, NothingAdded
<1>8. db.exceptions @@ SeedExceptions(now) = db.exceptions
  <2>1. /\ IsTable(db.exceptions, Nat \X Kinds, ExceptionRows)
        /\ DOMAIN SeedExceptions(now) \subseteq DOMAIN db.exceptions
    BY <1>3, SeededExceptions DEF DbTypes, Fixtures
  <2>2. QED
    BY <2>1, NothingAdded
<1>9. db.movements @@ SeedMovements(now) = db.movements
  <2>1. /\ IsTable(db.movements, MovementKeys, MovementRows)
        /\ DOMAIN SeedMovements(now) \subseteq DOMAIN db.movements
    BY <1>3, SeededMovements, SMTT(30) DEF DbTypes, Fixtures, Tells, HasKeys, MovementKeys
  <2>2. QED
    BY <2>1, NothingAdded
<1>10. QED
  BY <1>2, <1>4, <1>5, <1>6, <1>7, <1>8, <1>9 DEF Same, TableNames

-----------------------------------------------------------------------------
(* Types, and fixtures that stay.                                          *)

Types ==
    /\ now \in Nat /\ SeedTime <= now
    /\ touched \in BOOLEAN /\ overwritten \in BOOLEAN
    /\ DbTypes(db) /\ Fixtures(db)

\* No request deletes a row.
Grown(d, e) ==
    /\ DOMAIN d.pos \subseteq DOMAIN e.pos
    /\ DOMAIN d.receipts \subseteq DOMAIN e.receipts
    /\ DOMAIN d.sos \subseteq DOMAIN e.sos
    /\ DOMAIN d.shipments \subseteq DOMAIN e.shipments
    /\ DOMAIN d.exceptions \subseteq DOMAIN e.exceptions
    /\ DOMAIN d.movements \subseteq DOMAIN e.movements

LEMMA JoinGrows ==
    ASSUME NEW f, NEW g
    PROVE  DOMAIN f \subseteq DOMAIN (f @@ g) /\ DOMAIN f \subseteq DOMAIN (g @@ f)
BY DEF @@

LEMMA CreateGrows ==
    ASSUME DbTypes(db), CreatePO
    PROVE  Grown(db, db')
BY CreateEffect, JoinGrows DEF Grown, Same, TableNames

LEMMA PurchasingGrows ==
    ASSUME DbTypes(db), NEW n \in DOMAIN db.pos, NEW q, NEW status, NEW approved,
           MovePO(n, status, approved) \/ Ship(n) \/ Receive(n, q)
    PROVE  Grown(db, db')
<1>1. CASE MovePO(n, status, approved)
  <2>1. Same(db, db', TableNames \ {"pos"}) /\ DOMAIN db'.pos = DOMAIN db.pos
    BY <1>1 DEF MovePO, Commits, DbTypes, TableNames, Same
  <2>2. QED
    BY <2>1 DEF Grown, Same, TableNames
<1>2. CASE Ship(n)
  <2>1. /\ Same(db, db', TableNames \ {"seq", "pos", "shipments"})
        /\ db'.pos = [db.pos EXCEPT ![n] = [db.pos[n] EXCEPT !.status = "SHIPPED"]]
        /\ db'.shipments = (NextNumber("SHP") :> NewShipment("INBOUND", n)) @@ db.shipments
    BY <1>2, ShipEffect
  <2>2. DOMAIN db'.pos = DOMAIN db.pos /\ DOMAIN db.shipments \subseteq DOMAIN db'.shipments
    BY <2>1, JoinGrows
  <2>3. QED
    BY <2>1, <2>2 DEF Grown, Same, TableNames
<1>3. CASE Receive(n, q)
  <2> DEFINE po == db.pos[n]
             k == ReceiptNumber(n)
             to == IF po.got + q >= po.qty THEN "RECEIVED" ELSE "PARTIALLY_RECEIVED"
  <2>1. /\ Same(db, db', {"sos", "shipments", "exceptions", "seq"})
        /\ db'.receipts = (<<n, k>> :> now) @@ db.receipts
        /\ db'.pos = [db.pos EXCEPT ![n] = [po EXCEPT !.got = @ + q, !.status = to]]
        /\ db'.movements = Entered(<<"PO", n, k>>, "RECEIPT", po.product, q)
    BY <1>3, ReceiveEffect
  <2>2. DOMAIN db'.pos = DOMAIN db.pos /\ DOMAIN db.receipts \subseteq DOMAIN db'.receipts
    BY <2>1, JoinGrows
  <2>3. DOMAIN db.movements \subseteq DOMAIN db'.movements
    BY <2>1, JoinGrows DEF Entered
  <2>4. QED
    BY <2>1, <2>2, <2>3 DEF Grown, Same
<1>4. QED
  BY <1>1, <1>2, <1>3

LEMMA SellingGrows ==
    ASSUME DbTypes(db), NEW n \in DOMAIN db.sos, NEW q,
           Confirm(n) \/ Allocate(n) \/ CancelSO(n) \/ Dispatch(n) \/ Fulfill(n, q)
    PROVE  Grown(db, db')
<1>1. CASE Confirm(n)
  <2>1. /\ Same(db, db', TableNames \ {"sos"})
        /\ db'.sos = [db.sos EXCEPT ![n] = [db.sos[n] EXCEPT !.status = "CONFIRMED"]]
    BY <1>1, ConfirmEffect
  <2>2. QED
    BY <2>1 DEF Grown, Same, TableNames
<1>2. CASE Allocate(n)
  <2>1. /\ Same(db, db', TableNames \ {"sos", "stock"})
        /\ db'.sos = [db.sos EXCEPT ![n] =
                         [db.sos[n] EXCEPT !.status = "ALLOCATED", !.reserved = db.sos[n].qty]]
    BY <1>2, AllocateEffect
  <2>2. QED
    BY <2>1 DEF Grown, Same, TableNames
<1>3. CASE CancelSO(n)
  <2>1. /\ Same(db, db', TableNames \ {"sos", "stock"})
        /\ db'.sos = [db.sos EXCEPT ![n] =
                         [db.sos[n] EXCEPT !.status = "CANCELLED", !.reserved = 0]]
    BY <1>3, CancelEffect
  <2>2. QED
    BY <2>1 DEF Grown, Same, TableNames
<1>4. CASE Dispatch(n)
  <2>1. /\ Same(db, db', TableNames \ {"seq", "shipments"})
        /\ db'.shipments = (NextNumber("SHP") :> NewShipment("OUTBOUND", n)) @@ db.shipments
    BY <1>4, DispatchEffect
  <2>2. DOMAIN db.shipments \subseteq DOMAIN db'.shipments
    BY <2>1, JoinGrows
  <2>3. QED
    BY <2>1, <2>2 DEF Grown, Same, TableNames
<1>5. CASE Fulfill(n, q)
  <2> DEFINE so == db.sos[n]
             to == IF so.fulfilled + q >= so.qty THEN "FULFILLED" ELSE "PARTIALLY_FULFILLED"
  <2>1. /\ Same(db, db', TableNames \ {"sos", "stock", "movements"})
        /\ db'.sos = [db.sos EXCEPT ![n] =
                         [so EXCEPT !.fulfilled = so.fulfilled + q, !.reserved = @ - q, !.status = to]]
        /\ db'.movements = Entered(<<"SO", n, DeliveryNumber(n)>>, "FULFILLMENT", so.product, -q)
    BY <1>5, FulfillEffect
  <2>2. DOMAIN db.movements \subseteq DOMAIN db'.movements
    BY <2>1, JoinGrows DEF Entered
  <2>3. QED
    BY <2>1, <2>2 DEF Grown, Same, TableNames
<1>6. QED
  BY <1>1, <1>2, <1>3, <1>4, <1>5

LEMMA RewritesGrows ==
    ASSUME DbTypes(db), now \in Nat, NEW s \in DOMAIN db.shipments, NEW v, Rewrites(s, v)
    PROVE  Grown(db, db')
<1>1. IsTable(db.exceptions, Nat \X Kinds, ExceptionRows) /\ s \in Nat
  BY DEF DbTypes, IsTable
<1>2. now \in Int
  OBVIOUS
<1>3. DOMAIN Reviewed(db.exceptions, s, v, now) = Due(s, v, now) \cup DOMAIN db.exceptions
  BY <1>1, <1>2, ReviewedRows, ZenonT(30)
<1>4. QED
  BY <1>3 DEF Rewrites, Same, TableNames, Grown

LEMMA TypesStep ==
    ASSUME Types, [Next]_vars
    PROVE  Types'
<1> USE DEF Types
<1>1. DbTypes(db) /\ now \in Nat
  OBVIOUS
<1>2. ASSUME DbTypes(db'), Grown(db, db'), Touches
      PROVE  Types'
  BY <1>2 DEF Touches, Fixtures, Grown
<1> HIDE DEF Types
<1>3. CASE CreatePO
  <2>1. Touches
    BY <1>3, WorkTouches
  <2>2. QED
    BY <1>1, <1>2, <1>3, <2>1, CreateTypes, CreateGrows
<1>4. CASE \E n \in DOMAIN db.pos : \E status \in Moves : \E approved \in Int :
               MovePO(n, status, approved)
  <2>1. PICK n \in DOMAIN db.pos : \E status \in Moves : \E approved \in Int :
                 MovePO(n, status, approved)
    BY <1>4
  <2>2. PICK status : \E approved \in Int : MovePO(n, status, approved)
    BY <2>1
  <2>3. PICK approved \in Int : MovePO(n, status, approved)
    BY <2>2
  <2>4. Touches
    BY <2>3, WorkTouches
  <2>5. DbTypes(db') /\ Grown(db, db')
    BY <1>1, <2>3, MoveTypes, PurchasingGrows
  <2>6. QED
    BY <1>2, <2>4, <2>5
<1>5. CASE \E n \in DOMAIN db.pos : Ship(n)
  <2>1. PICK n \in DOMAIN db.pos : Ship(n)
    BY <1>5
  <2>2. Touches
    BY <2>1, WorkTouches
  <2>3. DbTypes(db') /\ Grown(db, db')
    BY <1>1, <2>1, ShipTypes, PurchasingGrows
  <2>4. QED
    BY <1>2, <2>2, <2>3
<1>6. CASE \E n \in DOMAIN db.pos : \E q \in Some(db.pos[n].qty - db.pos[n].got) : Receive(n, q)
  <2>1. PICK n \in DOMAIN db.pos : \E q \in Some(db.pos[n].qty - db.pos[n].got) : Receive(n, q)
    BY <1>6
  <2>2. PICK q \in Some(db.pos[n].qty - db.pos[n].got) : Receive(n, q)
    BY <2>1
  <2>3. Touches
    BY <2>2, WorkTouches
  <2>4. DbTypes(db') /\ Grown(db, db')
    BY <1>1, <2>2, ReceiveTypes, PurchasingGrows
  <2>5. QED
    BY <1>2, <2>3, <2>4
<1>7. CASE \E n \in DOMAIN db.sos : Confirm(n)
  <2>1. PICK n \in DOMAIN db.sos : Confirm(n)
    BY <1>7
  <2>2. Touches
    BY <2>1, WorkTouches
  <2>3. DbTypes(db') /\ Grown(db, db')
    BY <1>1, <2>1, ConfirmTypes, SellingGrows
  <2>4. QED
    BY <1>2, <2>2, <2>3
<1>8. CASE \E n \in DOMAIN db.sos : Allocate(n)
  <2>1. PICK n \in DOMAIN db.sos : Allocate(n)
    BY <1>8
  <2>2. Touches
    BY <2>1, WorkTouches
  <2>3. DbTypes(db') /\ Grown(db, db')
    BY <1>1, <2>1, AllocateTypes, SellingGrows
  <2>4. QED
    BY <1>2, <2>2, <2>3
<1>9. CASE \E n \in DOMAIN db.sos : CancelSO(n)
  <2>1. PICK n \in DOMAIN db.sos : CancelSO(n)
    BY <1>9
  <2>2. Touches
    BY <2>1, WorkTouches
  <2>3. DbTypes(db') /\ Grown(db, db')
    BY <1>1, <2>1, CancelTypes, SellingGrows
  <2>4. QED
    BY <1>2, <2>2, <2>3
<1>10. CASE \E n \in DOMAIN db.sos : Dispatch(n)
  <2>1. PICK n \in DOMAIN db.sos : Dispatch(n)
    BY <1>10
  <2>2. Touches
    BY <2>1, WorkTouches
  <2>3. DbTypes(db') /\ Grown(db, db')
    BY <1>1, <2>1, DispatchTypes, SellingGrows
  <2>4. QED
    BY <1>2, <2>2, <2>3
<1>11. CASE \E n \in DOMAIN db.sos : \E q \in Some(db.sos[n].reserved) : Fulfill(n, q)
  <2>1. PICK n \in DOMAIN db.sos : \E q \in Some(db.sos[n].reserved) : Fulfill(n, q)
    BY <1>11
  <2>2. PICK q \in Some(db.sos[n].reserved) : Fulfill(n, q)
    BY <2>1
  <2>3. Touches
    BY <2>2, WorkTouches
  <2>4. DbTypes(db') /\ Grown(db, db')
    BY <1>1, <2>2, FulfillTypes, SellingGrows
  <2>5. QED
    BY <1>2, <2>3, <2>4
<1>12. CASE \E s \in DOMAIN db.shipments : \E v \in ShipmentRows : Rewrites(s, v) /\ Touches
  <2>1. PICK s \in DOMAIN db.shipments, v \in ShipmentRows : Rewrites(s, v) /\ Touches
    BY <1>12
  <2>2. DbTypes(db') /\ Grown(db, db')
    BY <1>1, <2>1, RewritesTypes, RewritesGrows
  <2>3. QED
    BY <1>2, <2>1, <2>2
<1>13. CASE RunSeed
  <2>1. Seedable(db)
    BY <1>1 DEF DbTypes, Seedable, Tabular, MovementKeys
  <2>2. DbTypes(Seeded(db, now)) /\ Fixtures(Seeded(db, now))
    BY <1>1, <2>1, SeededTypes
  <2>3. QED
    BY <1>13, <2>2 DEF RunSeed, Types
<1>14. CASE Rests
  BY <1>14, TimesAssumption DEF Rests, Types
<1>15. QED
  BY <1>1, <1>3, <1>4, <1>5, <1>6, <1>7, <1>8, <1>9, <1>10, <1>11, <1>12, <1>13, <1>14, StepCases

LEMMA TypesInit == Init => Types
<1> SUFFICES ASSUME Init
             PROVE  Types
  OBVIOUS
<1>1. SeedTime \in Int /\ now = SeedTime /\ SeedTime \in Nat
  BY TimesAssumption DEF Init
<1>2. DbTypes(Seeded(EmptyDb, SeedTime)) /\ Fixtures(Seeded(EmptyDb, SeedTime))
  BY <1>1, EmptySeedable, SeededTypes
<1>3. db = Seeded(EmptyDb, SeedTime) /\ touched = FALSE /\ overwritten = FALSE
  BY DEF Init
<1>4. DbTypes(db) /\ Fixtures(db)
  BY <1>2, <1>3
<1>5. touched \in BOOLEAN /\ overwritten \in BOOLEAN
  BY <1>3, Zenon
<1>6. now \in Nat /\ SeedTime <= now
  BY <1>1
<1>7. QED
  BY <1>4, <1>5, <1>6 DEF Types

-----------------------------------------------------------------------------
(* A database that was only looked at.                                     *)

Pristine(d) ==
    /\ d.stock["ELEC-001"].onHand = 170
    /\ d.stock["ELEC-002"] = [onHand |-> 300, reserved |-> 0]
    /\ d.stock["ELEC-003"] = [onHand |-> 1000, reserved |-> 0]
    /\ \A k \in {"PO", "SO", "CUS"} : d.seq[k] = 1

LEMMA PristineInit == Init => Pristine(db)
<1> SUFFICES ASSUME Init
             PROVE  Pristine(db)
  OBVIOUS
<1> DEFINE a == EmptyDb.stock
           b == EmptyDb.seq
<1>1. DOMAIN a = {} /\ b = "SHP" :> 0
  BY DEF EmptyDb
<1>2. db.stock = SeedStock(a) /\ db.seq = SeedSequences(b)
  BY SeededEffect DEF Init
<1> HIDE DEF a, b
<1>3. /\ SeedStock(a)["ELEC-001"].onHand = 170
      /\ SeedStock(a)["ELEC-002"] = [onHand |-> 300, reserved |-> 0]
      /\ SeedStock(a)["ELEC-003"] = [onHand |-> 1000, reserved |-> 0]
  BY <1>1, SeededStock
<1>4. \A k \in {"PO", "SO", "CUS"} : SeedSequences(b)[k] = 1
  BY <1>1, SeededSequences
<1>5. QED
  BY <1>2, <1>3, <1>4 DEF Pristine

LEMMA PristineReseed ==
    ASSUME Types, RunSeed, Pristine(db)
    PROVE  db' = db
<1>1. DbTypes(db) /\ Fixtures(db) /\ now \in Nat
  BY DEF Types
<1>2. /\ db' = [t \in TableNames |-> db'[t]]
      /\ Same(db, db', TableNames \ {"stock", "seq"})
      /\ db'.stock = SeedStock(db.stock)
      /\ db'.seq = SeedSequences(db.seq)
  BY <1>1, ReseedEffect
<1> DEFINE a == db.stock
           b == db.seq
<1>3. a \in [Products -> StockRows] /\ b \in [Sequences -> Nat]
  BY <1>1 DEF DbTypes
<1>4. /\ a["ELEC-001"].onHand = 170
      /\ a["ELEC-002"] = [onHand |-> 300, reserved |-> 0]
      /\ a["ELEC-003"] = [onHand |-> 1000, reserved |-> 0]
      /\ \A k \in {"PO", "SO", "CUS"} : b[k] = 1
  BY DEF Pristine
<1> HIDE DEF a, b
<1>5. SeedStock(a) = a
  <2> DEFINE s == SeedStock(a)
  <2>1. /\ s \in [Products -> StockRows]
        /\ s["ELEC-001"].onHand = 170
        /\ s["ELEC-002"] = [onHand |-> 300, reserved |-> 0]
        /\ s["ELEC-003"] = [onHand |-> 1000, reserved |-> 0]
        /\ s["ELEC-001"].reserved = IF DOMAIN a = {} THEN 0 ELSE a["ELEC-001"].reserved
    BY <1>3, SeededStock
  <2> HIDE DEF s
  <2>2. s["ELEC-001"] = a["ELEC-001"]
    BY <1>3, <1>4, <2>1 DEF StockRows, Products
  <2>3. s = a
    BY <1>3, <1>4, <2>1, <2>2 DEF Products
  <2>4. QED
    BY <2>3 DEF s
<1>6. SeedSequences(b) = b
  <2>1. /\ SeedSequences(b) \in [Sequences -> Nat]
        /\ \A k \in {"PO", "SO", "CUS"} : SeedSequences(b)[k] = 1
        /\ SeedSequences(b)["SHP"] = b["SHP"]
    BY <1>3, SeededSequences
  <2>2. QED
    BY <1>3, <1>4, <2>1 DEF Sequences
<1>7. \A t \in TableNames : db'[t] = db[t]
  BY <1>2, <1>5, <1>6 DEF Same, TableNames, a, b
<1>8. QED
  BY <1>1, <1>2, <1>7 DEF DbTypes

PristineInv == ~ touched => Pristine(db)

LEMMA StepKinds ==
    ASSUME Types, [Next]_vars
    PROVE  Touches \/ RunSeed \/ Rests
<1>1. DbTypes(db) /\ now \in Nat
  BY DEF Types
<1>2. QED
  BY <1>1, StepCases, WorkTouches

LEMMA PristineStep ==
    ASSUME Types, PristineInv, [Next]_vars
    PROVE  PristineInv'
<1>1. DbTypes(db) /\ now \in Nat
  BY DEF Types
<1>2. Touches \/ RunSeed \/ Rests
  BY StepKinds
<1>3. CASE Touches
  BY <1>3 DEF Touches, PristineInv
<1>4. CASE RunSeed
  BY <1>4, PristineReseed DEF PristineInv, RunSeed
<1>5. CASE Rests
  BY <1>5 DEF Rests, PristineInv
<1>6. QED
  BY <1>2, <1>3, <1>4, <1>5

\* Running the seed again leaves every document as it is, and a database that
\* was only looked at altogether: ReseedConverges.
THEOREM SeedsAgain == Spec => ReseedConverges
<1> DEFINE Converges == RunSeed =>
               /\ Keeps(db.pos, db'.pos) /\ Keeps(db.sos, db'.sos)
               /\ Keeps(db.shipments, db'.shipments) /\ Keeps(db.receipts, db'.receipts)
               /\ Keeps(db.movements, db'.movements) /\ Keeps(db.exceptions, db'.exceptions)
               /\ ~ touched => db' = db
<1>1. Init => Types /\ PristineInv
  BY TypesInit, PristineInit DEF PristineInv
<1>2. Types /\ PristineInv /\ [Next]_vars => Types' /\ PristineInv'
  BY TypesStep, PristineStep
<1>3. Types /\ PristineInv => Converges
  <2> SUFFICES ASSUME Types, PristineInv, RunSeed
               PROVE  Converges
    OBVIOUS
  <2>1. Same(db, db', TableNames \ {"stock", "seq"})
    BY ReseedEffect DEF Types
  <2>2. ~ touched => db' = db
    BY PristineReseed DEF PristineInv
  <2>3. QED
    BY <2>1, <2>2 DEF Same, TableNames, Keeps
<1>4. QED
  BY <1>1, <1>2, <1>3, PTL DEF Spec, ReseedConverges

-----------------------------------------------------------------------------
(* The exceptions that are open.                                           *)

\* An exception is a shipment's; while it is open the shipment is under way,
\* and past its estimate if it is counted as late.
IsReal(d, x, time) ==
    d.exceptions[x].open =>
        /\ d.shipments[x[1]].status \in ACTIVE_STATUSES
        /\ x[2] = "ETA_EXCEEDED" => PastDue(d.shipments[x[1]].eta, time)
ExceptionsAreReal(d, time) ==
    \A x \in DOMAIN d.exceptions : x[1] \in DOMAIN d.shipments /\ IsReal(d, x, time)

LEMMA RealInit == Init => ExceptionsAreReal(db, now)
<1> SUFFICES ASSUME Init
             PROVE  ExceptionsAreReal(db, now)
  OBVIOUS
<1> DEFINE t == SeedTime
           x == SeedExceptions(t)
           v == SeedShipments(t)
<1>1. t \in Nat /\ 30 < t /\ t - 30 # Never
  BY TimesAssumption DEF Day, Never
<1>2. now = t /\ db = Seeded(EmptyDb, t)
  BY DEF Init
<1>3. db.shipments = EmptyDb.shipments @@ v /\ db.exceptions = EmptyDb.exceptions @@ x
  BY <1>2, SeededEffect
<1>4. DOMAIN EmptyDb.shipments = {} /\ DOMAIN EmptyDb.exceptions = {}
  BY DEF EmptyDb
<1>5. /\ DOMAIN db.shipments = DOMAIN v /\ \A s \in DOMAIN v : db.shipments[s] = v[s]
      /\ DOMAIN db.exceptions = DOMAIN x
  BY <1>3, <1>4 DEF @@
<1>6. DOMAIN v = SeedKeys.shipments /\ DOMAIN x = SeedKeys.exceptions
  BY <1>1, SeededShipments, SeededExceptions
<1>7. v[90].status = "IN_TRANSIT" /\ v[90].eta = t - 30
  BY DEF SeedShipments, VisibilityShipment, @@, :>
<1>8. 90 \in DOMAIN v /\ \A y \in DOMAIN x : y[1] = 90
  BY <1>6 DEF SeedKeys
<1> HIDE DEF t, v, x
<1>9. db.shipments[90].status \in ACTIVE_STATUSES /\ PastDue(db.shipments[90].eta, now)
  BY <1>1, <1>2, <1>5, <1>7, <1>8 DEF ACTIVE_STATUSES, PastDue
<1>10. QED
  BY <1>5, <1>8, <1>9 DEF ExceptionsAreReal, IsReal

\* Requests that leave the exceptions and the shipments that have them alone.
LEMMA RealKept ==
    ASSUME ExceptionsAreReal(db, now), NEW d, d.exceptions = db.exceptions,
           \A s \in DOMAIN db.shipments :
               s \in DOMAIN d.shipments /\ d.shipments[s] = db.shipments[s]
    PROVE  ExceptionsAreReal(d, now)
BY DEF ExceptionsAreReal, IsReal

LEMMA RealRewritten ==
    ASSUME DbTypes(db), now \in Nat, ExceptionsAreReal(db, now),
           NEW s \in DOMAIN db.shipments, NEW v, Rewrites(s, v)
    PROVE  ExceptionsAreReal(db', now)
<1> DEFINE x == db.exceptions
           r == Reviewed(x, s, v, now)
<1>1. /\ IsTable(x, Nat \X Kinds, ExceptionRows) /\ s \in Nat
      /\ db.shipments = [n \in DOMAIN db.shipments |-> db.shipments[n]]
  BY DEF DbTypes, IsTable
<1>2. now \in Int
  OBVIOUS
<1>3. db'.shipments = [db.shipments EXCEPT ![s] = v] /\ db'.exceptions = r
  BY DEF Rewrites
<1>4. /\ DOMAIN db'.shipments = DOMAIN db.shipments /\ db'.shipments[s] = v
      /\ \A n \in DOMAIN db.shipments \ {s} : db'.shipments[n] = db.shipments[n]
  BY <1>1, <1>3
<1> HIDE DEF x
<1>5. /\ DOMAIN r = Due(s, v, now) \cup DOMAIN x
      /\ OpensOnly(r, x, s, Due(s, v, now))
  BY <1>1, <1>2, ReviewedRows, ZenonT(30)
<1>6. Due(s, v, now) \subseteq Nat \X Kinds
      /\ \A y \in Due(s, v, now) : y[1] = s /\ Wanted(v, now)[y[2]] # "NONE"
  BY <1>1, DueKeys
<1> HIDE DEF r
<1>7. ASSUME NEW y \in DOMAIN r
      PROVE  y[1] \in DOMAIN db'.shipments
  BY <1>4, <1>5, <1>6 DEF ExceptionsAreReal, x
<1>8. ASSUME NEW y \in DOMAIN r, r[y].open
      PROVE  /\ db'.shipments[y[1]].status \in ACTIVE_STATUSES
             /\ y[2] = "ETA_EXCEEDED" => PastDue(db'.shipments[y[1]].eta, now)
  <2>1. CASE y \in Due(s, v, now)
    <3>1. y[1] = s /\ y[2] \in Kinds /\ Wanted(v, now)[y[2]] # "NONE"
      BY <1>6, <2>1
    <3>2. v.status \in ACTIVE_STATUSES /\ (y[2] = "ETA_EXCEEDED" => v.eta # Never /\ now > v.eta)
      BY <3>1, WantedType
    <3>3. QED
      BY <1>4, <3>1, <3>2 DEF PastDue
  <2>2. CASE y \in DOMAIN x /\ x[y].open /\ y[1] # s
    <3>1. /\ y[1] \in DOMAIN db.shipments /\ db.shipments[y[1]].status \in ACTIVE_STATUSES
          /\ y[2] = "ETA_EXCEEDED" => PastDue(db.shipments[y[1]].eta, now)
      BY <2>2 DEF ExceptionsAreReal, IsReal, x
    <3>2. db'.shipments[y[1]] = db.shipments[y[1]]
      BY <1>4, <2>2, <3>1
    <3>3. QED
      BY <3>1, <3>2
  <2>3. QED
    BY <1>5, <1>8, <2>1, <2>2 DEF OpensOnly
<1>9. QED
  BY <1>3, <1>7, <1>8 DEF ExceptionsAreReal, IsReal

LEMMA NewShipmentKeeps ==
    ASSUME NEW s, NEW v, NEW f, s \notin DOMAIN f
    PROVE  \A k \in DOMAIN f : k \in DOMAIN ((s :> v) @@ f) /\ ((s :> v) @@ f)[k] = f[k]
BY DEF @@, :>

LEMMA RealStep ==
    ASSUME Types, ExceptionsAreReal(db, now), [Next]_vars
    PROVE  ExceptionsAreReal(db', now')
<1>1. DbTypes(db) /\ now \in Nat
  BY DEF Types
<1>2. ASSUME db'.exceptions = db.exceptions, db'.shipments = db.shipments, now' = now
      PROVE  ExceptionsAreReal(db', now')
  BY <1>2, RealKept
<1>3. ASSUME NEW s, NEW v, s \notin DOMAIN db.shipments, db'.exceptions = db.exceptions,
             db'.shipments = (s :> v) @@ db.shipments, now' = now
      PROVE  ExceptionsAreReal(db', now')
  BY <1>3, NewShipmentKeeps, RealKept
<1>4. CASE CreatePO
  <2>1. Touches
    BY <1>4, WorkTouches
  <2>2. Same(db, db', TableNames \ {"seq", "pos"})
    BY <1>1, <1>4, CreateEffect
  <2>3. QED
    BY <1>2, <2>1, <2>2 DEF Same, TableNames, Touches
<1>5. ASSUME NEW n \in DOMAIN db.pos, NEW status, NEW approved, MovePO(n, status, approved)
      PROVE  ExceptionsAreReal(db', now')
  <2>1. Touches
    BY <1>5, WorkTouches
  <2>2. Same(db, db', TableNames \ {"pos"})
    BY <1>1, <1>5 DEF MovePO, Commits, DbTypes, TableNames, Same
  <2>3. QED
    BY <1>2, <2>1, <2>2 DEF Same, TableNames, Touches
<1>6. ASSUME NEW n \in DOMAIN db.pos, Ship(n)
      PROVE  ExceptionsAreReal(db', now')
  <2> DEFINE s == NextNumber("SHP")
             v == NewShipment("INBOUND", n)
  <2>1. Touches
    BY <1>6, WorkTouches
  <2>2. /\ s \notin DOMAIN db.shipments
        /\ Same(db, db', TableNames \ {"seq", "pos", "shipments"})
        /\ db'.shipments = (s :> v) @@ db.shipments
    BY <1>1, <1>6, ShipEffect DEF Numbered
  <2> HIDE DEF s, v
  <2>3. QED
    BY <1>3, <2>1, <2>2 DEF Same, TableNames, Touches
<1>7. ASSUME NEW n \in DOMAIN db.pos, NEW q, Receive(n, q)
      PROVE  ExceptionsAreReal(db', now')
  <2>1. Touches
    BY <1>7, WorkTouches
  <2>2. Same(db, db', {"sos", "shipments", "exceptions", "seq"})
    BY <1>1, <1>7, ReceiveEffect
  <2>3. QED
    BY <1>2, <2>1, <2>2 DEF Same, Touches
<1>8. ASSUME NEW n \in DOMAIN db.sos, NEW q,
             Confirm(n) \/ Allocate(n) \/ CancelSO(n) \/ Fulfill(n, q)
      PROVE  ExceptionsAreReal(db', now')
  <2>1. Touches
    BY <1>8, WorkTouches
  <2>2. Same(db, db', {"shipments", "exceptions"})
    <3>1. CASE Confirm(n)
      BY <1>1, <3>1, ConfirmEffect DEF Same, TableNames
    <3>2. CASE Allocate(n)
      BY <1>1, <3>2, AllocateEffect DEF Same, TableNames
    <3>3. CASE CancelSO(n)
      BY <1>1, <3>3, CancelEffect DEF Same, TableNames
    <3>4. CASE Fulfill(n, q)
      BY <1>1, <3>4, FulfillEffect DEF Same, TableNames
    <3>5. QED
      BY <1>8, <3>1, <3>2, <3>3, <3>4
  <2>3. QED
    BY <1>2, <2>1, <2>2 DEF Same, Touches
<1>9. ASSUME NEW n \in DOMAIN db.sos, Dispatch(n)
      PROVE  ExceptionsAreReal(db', now')
  <2> DEFINE s == NextNumber("SHP")
             v == NewShipment("OUTBOUND", n)
  <2>1. Touches
    BY <1>9, WorkTouches
  <2>2. /\ s \notin DOMAIN db.shipments
        /\ Same(db, db', TableNames \ {"seq", "shipments"})
        /\ db'.shipments = (s :> v) @@ db.shipments
    BY <1>1, <1>9, DispatchEffect DEF Numbered
  <2> HIDE DEF s, v
  <2>3. QED
    BY <1>3, <2>1, <2>2 DEF Same, TableNames, Touches
<1>10. ASSUME NEW s \in DOMAIN db.shipments, NEW v, Rewrites(s, v), Touches
       PROVE  ExceptionsAreReal(db', now')
  <2>1. ExceptionsAreReal(db', now)
    BY <1>1, <1>10, RealRewritten
  <2>2. QED
    BY <1>10, <2>1 DEF Touches
<1>11. CASE RunSeed
  <2>1. Same(db, db', TableNames \ {"stock", "seq"})
    BY <1>11, ReseedEffect DEF Types
  <2>2. QED
    BY <1>2, <1>11, <2>1 DEF Same, TableNames, RunSeed
<1>12. CASE Rests
  <2>1. db' = db /\ now' \in Nat /\ now <= now'
    BY <1>12 DEF Rests
  <2>2. \A s \in DOMAIN db.shipments : db.shipments[s].eta \in Int
    BY <1>1 DEF DbTypes, IsTable, ShipmentRows
  <2>3. QED
    BY <1>1, <2>1, <2>2 DEF ExceptionsAreReal, IsReal, PastDue
<1>13. QED
  BY <1>1, <1>4, <1>5, <1>6, <1>7, <1>8, <1>9, <1>10, <1>11, <1>12, StepCases

\* What is counted as delayed is really past the estimate it has now:
\* DelaysAreReal.
THEOREM DelaysReal == Spec => []DelaysAreReal
<1>1. Init => Types /\ ExceptionsAreReal(db, now)
  BY TypesInit, RealInit
<1>2. Types /\ ExceptionsAreReal(db, now) /\ [Next]_vars
          => Types' /\ ExceptionsAreReal(db, now)'
  BY TypesStep, RealStep
<1>3. Types /\ ExceptionsAreReal(db, now) => DelaysAreReal
  BY DEF ExceptionsAreReal, IsReal, DelaysAreReal, OpenExceptions
<1>4. QED
  BY <1>1, <1>2, <1>3, PTL DEF Spec

-----------------------------------------------------------------------------
(* Document numbers.                                                       *)

\* The orders are the fixtures and those numbered from 2 to some n, which is
\* where the counter stands, unless the seed has set it back.
NumberedTo(d, n) ==
    /\ DOMAIN d.pos = SeedKeys.pos \cup 2 .. n
    /\ d.seq["PO"] \in {1, n}
NumberingInv == \E n \in 1 .. FirstFixture - 1 : NumberedTo(db, n)

LEMMA NumberingInit == Init => NumberingInv
<1> SUFFICES ASSUME Init
             PROVE  NumberingInv
  OBVIOUS
<1>1. db.pos = EmptyDb.pos @@ SeedPOs(SeedTime) /\ SeedTime \in Int
  BY SeededEffect, TimesAssumption DEF Init
<1>2. DOMAIN EmptyDb.pos = {} /\ DOMAIN SeedPOs(SeedTime) = SeedKeys.pos
  BY <1>1, SeededPOs DEF EmptyDb
<1>3. DOMAIN db.pos = SeedKeys.pos
  BY <1>1, <1>2 DEF @@
<1>4. db.seq["PO"] = 1
  BY PristineInit DEF Pristine
<1>5. 2 .. 1 = {} /\ 1 \in 1 .. FirstFixture - 1
  BY DEF FirstFixture
<1>6. NumberedTo(db, 1)
  BY <1>3, <1>4, <1>5 DEF NumberedTo
<1>7. QED
  BY <1>5, <1>6 DEF NumberingInv

LEMMA NumberingStep ==
    ASSUME Types, NumberingInv, [Next]_vars
    PROVE  NumberingInv'
<1>1. DbTypes(db) /\ now \in Nat
  BY DEF Types
<1>2. ASSUME DOMAIN db'.pos = DOMAIN db.pos, db'.seq["PO"] = db.seq["PO"]
      PROVE  NumberingInv'
  BY <1>2 DEF NumberingInv, NumberedTo
<1>3. CASE CreatePO
  <2> DEFINE m == NextNumber("PO")
             row == PO("SUP-003", "DRAFT", now, now + Day, Never, "ELEC-002", 600, 0, 45)
  <2>1. /\ Numbered("PO", db.pos)
        /\ db'.seq = [db.seq EXCEPT !["PO"] = m]
        /\ db'.pos = (m :> row) @@ db.pos
    BY <1>1, <1>3, CreateEffect
  <2>2. m = db.seq["PO"] + 1 /\ db.seq["PO"] \in Nat /\ db'.seq["PO"] = m
    BY <1>1, <2>1 DEF DbTypes, NextNumber, Sequences
  <2>3. m \notin DOMAIN db.pos
    BY <2>1 DEF Numbered
  <2> HIDE DEF m, row
  <2>4. DOMAIN db'.pos = {m} \cup DOMAIN db.pos
    BY <2>1 DEF @@, :>
  <2>5. PICK n \in 1 .. FirstFixture - 1 : NumberedTo(db, n)
    BY DEF NumberingInv
  <2>6. n \in Nat /\ 1 <= n /\ n <= 89
    BY DEF FirstFixture
  <2>7. m = n + 1 /\ m # 90
    <3>1. m # 90
      BY <2>3, <2>5 DEF NumberedTo, SeedKeys
    <3>2. ~ (db.seq["PO"] = 1 /\ n > 1)
      BY <2>2, <2>3, <2>5, <2>6 DEF NumberedTo
    <3>3. QED
      BY <2>2, <2>5, <2>6, <3>1, <3>2 DEF NumberedTo
  <2>8. m \in 1 .. FirstFixture - 1
    BY <2>6, <2>7 DEF FirstFixture
  <2>9. {m} \cup (SeedKeys.pos \cup 2 .. n) = SeedKeys.pos \cup 2 .. m
    BY <2>6, <2>7
  <2>10. NumberedTo(db', m)
    BY <2>2, <2>4, <2>5, <2>9 DEF NumberedTo
  <2>11. QED
    BY <2>8, <2>10 DEF NumberingInv
<1>4. ASSUME NEW n \in DOMAIN db.pos, NEW status, NEW approved, MovePO(n, status, approved)
      PROVE  NumberingInv'
  <2>1. Same(db, db', TableNames \ {"pos"}) /\ DOMAIN db'.pos = DOMAIN db.pos
    BY <1>1, <1>4 DEF MovePO, Commits, DbTypes, TableNames, Same
  <2>2. QED
    BY <1>2, <2>1 DEF Same, TableNames
<1>5. ASSUME NEW n \in DOMAIN db.pos, Ship(n)
      PROVE  NumberingInv'
  <2>1. /\ db'.seq = [db.seq EXCEPT !["SHP"] = NextNumber("SHP")]
        /\ db'.pos = [db.pos EXCEPT ![n] = [db.pos[n] EXCEPT !.status = "SHIPPED"]]
    BY <1>1, <1>5, ShipEffect
  <2>2. QED
    BY <1>1, <1>2, <2>1 DEF DbTypes, Sequences
<1>6. ASSUME NEW n \in DOMAIN db.pos, NEW q, Receive(n, q)
      PROVE  NumberingInv'
  <2> DEFINE po == db.pos[n]
             to == IF po.got + q >= po.qty THEN "RECEIVED" ELSE "PARTIALLY_RECEIVED"
  <2>1. /\ Same(db, db', {"sos", "shipments", "exceptions", "seq"})
        /\ db'.pos = [db.pos EXCEPT ![n] = [po EXCEPT !.got = @ + q, !.status = to]]
    BY <1>1, <1>6, ReceiveEffect
  <2>2. QED
    BY <1>2, <2>1 DEF Same
<1>7. ASSUME NEW n \in DOMAIN db.sos, NEW q,
             Confirm(n) \/ Allocate(n) \/ CancelSO(n) \/ Fulfill(n, q)
      PROVE  NumberingInv'
  <2>1. Same(db, db', {"pos", "seq"})
    <3>1. CASE Confirm(n)
      BY <1>1, <3>1, ConfirmEffect DEF Same, TableNames
    <3>2. CASE Allocate(n)
      BY <1>1, <3>2, AllocateEffect DEF Same, TableNames
    <3>3. CASE CancelSO(n)
      BY <1>1, <3>3, CancelEffect DEF Same, TableNames
    <3>4. CASE Fulfill(n, q)
      BY <1>1, <3>4, FulfillEffect DEF Same, TableNames
    <3>5. QED
      BY <1>7, <3>1, <3>2, <3>3, <3>4
  <2>2. QED
    BY <1>2, <2>1 DEF Same
<1>8. ASSUME NEW n \in DOMAIN db.sos, Dispatch(n)
      PROVE  NumberingInv'
  <2>1. /\ Same(db, db', TableNames \ {"seq", "shipments"})
        /\ db'.seq = [db.seq EXCEPT !["SHP"] = NextNumber("SHP")]
    BY <1>1, <1>8, DispatchEffect
  <2>2. QED
    BY <1>1, <1>2, <2>1 DEF DbTypes, Sequences, Same, TableNames
<1>9. ASSUME NEW s \in DOMAIN db.shipments, NEW v, Rewrites(s, v)
      PROVE  NumberingInv'
  BY <1>2, <1>9 DEF Rewrites, Same, TableNames
<1>10. CASE RunSeed
  <2>1. db'.pos = db.pos /\ db'.seq = SeedSequences(db.seq)
    BY <1>1, <1>10, ReseedEffect DEF Types, Same, TableNames
  <2>2. SeedSequences(db.seq)["PO"] = 1
    BY <1>1, SeededSequences DEF DbTypes
  <2>3. PICK n \in 1 .. FirstFixture - 1 : NumberedTo(db, n)
    BY DEF NumberingInv
  <2>4. NumberedTo(db', n)
    BY <2>1, <2>2, <2>3 DEF NumberedTo
  <2>5. QED
    BY <2>4 DEF NumberingInv
<1>11. CASE Rests
  BY <1>2, <1>11 DEF Rests
<1>12. QED
  BY <1>1, <1>3, <1>4, <1>5, <1>6, <1>7, <1>8, <1>9, <1>10, <1>11, StepCases

\* The orders created are numbered from 2 on without a gap, and creation is
\* refused in two cases only, before the first fixture's number and after the
\* seed has set the counter back: NumbersRunOn.  Nothing is assumed of how
\* many orders are created, or of when the seed is run.
THEOREM NumbersKept == Spec => []NumbersRunOn
<1>1. Init => Types /\ NumberingInv
  BY TypesInit, NumberingInit
<1>2. Types /\ NumberingInv /\ [Next]_vars => Types' /\ NumberingInv'
  BY TypesStep, NumberingStep
<1>3. Types /\ NumberingInv => NumbersRunOn
  <2> SUFFICES ASSUME Types, NEW n \in 1 .. FirstFixture - 1, NumberedTo(db, n)
               PROVE  /\ DOMAIN db.pos \ DOMAIN SeedPOs(SeedTime) = 2 .. n
                      /\ db.seq["PO"] \in {1, n}
                      /\ Numbered("PO", db.pos) <=>
                            db.seq["PO"] = n /\ n < FirstFixture - 1
    BY DEF NumberingInv, NumbersRunOn
  <2>1. n \in Nat /\ 1 <= n /\ n <= 89
    BY DEF FirstFixture
  <2>2. DOMAIN SeedPOs(SeedTime) = SeedKeys.pos
    BY SeededPOs, TimesAssumption
  <2>3. (SeedKeys.pos \cup 2 .. n) \ SeedKeys.pos = 2 .. n
    BY <2>1 DEF SeedKeys
  <2>4. db.seq["PO"] \in {1, n} /\ DOMAIN db.pos = SeedKeys.pos \cup 2 .. n
    BY DEF NumberedTo
  <2> DEFINE m == db.seq["PO"]
  <2>5. Numbered("PO", db.pos) <=> m + 1 \notin SeedKeys.pos /\ m + 1 \notin 2 .. n
    BY <2>4 DEF Numbered, NextNumber
  <2>6. m \in Nat /\ 1 <= m /\ m <= n
    BY <2>1, <2>4
  <2> HIDE DEF m
  <2>7. m + 1 \in SeedKeys.pos <=> m = 89
    BY <2>1, <2>6 DEF SeedKeys
  <2>8. m + 1 \in 2 .. n <=> m < n
    BY <2>1, <2>6
  <2>9. Numbered("PO", db.pos) <=> m = n /\ n < FirstFixture - 1
    BY <2>1, <2>5, <2>6, <2>7, <2>8 DEF FirstFixture
  <2>10. QED
    BY <2>2, <2>3, <2>4, <2>9 DEF m
<1>4. QED
  BY <1>1, <1>2, <1>3, PTL DEF Spec

-----------------------------------------------------------------------------
(* The projection.                                                         *)

\* What a purchase order is still to bring of product p, and a sales order
\* still to take.
ToCome(po, p) ==
    IF po.product = p /\ po.status \in INCOMING_PO_STATUSES THEN po.qty - po.got ELSE 0
ToGo(so, p) ==
    IF so.product = p /\ so.status \in OPEN_DEMAND_SO_STATUSES THEN so.qty - so.fulfilled ELSE 0

LEMMA IncomingIsSum ==
    ASSUME NEW d, IsTable(d.pos, Nat, PORows), NEW p
    PROVE  /\ \A n \in DOMAIN d.pos : ToCome(d.pos[n], p) \in Int
           /\ Incoming(d, p)
                  = SumFunctionOnSet([n \in DOMAIN d.pos |-> ToCome(d.pos[n], p)], DOMAIN d.pos)
<1> DEFINE S == DOMAIN d.pos
           T == {n \in S : d.pos[n].product = p /\ d.pos[n].status \in INCOMING_PO_STATUSES}
           F == [n \in S |-> ToCome(d.pos[n], p)]
           G == [n \in T |-> d.pos[n].qty - d.pos[n].got]
<1>1. \A n \in S : d.pos[n].qty \in Int /\ d.pos[n].got \in Int
  BY DEF IsTable, PORows, PORecords
<1>2. \A n \in S : ToCome(d.pos[n], p) \in Int
  BY <1>1 DEF ToCome
<1>3. /\ T \subseteq S /\ IsFiniteSet(S) /\ IsFiniteSet(T)
      /\ \A n \in S : F[n] \in Int
      /\ \A n \in S \ T : F[n] = 0
      /\ \A n \in T : G[n] = F[n]
  <2>1. IsFiniteSet(S) /\ T \subseteq S
    BY DEF IsTable
  <2>2. IsFiniteSet(T)
    BY <2>1, FS_Subset
  <2>3. QED
    BY <1>2, <2>1, <2>2 DEF ToCome
<1>4. Incoming(d, p) = SumFunctionOnSet(G, T)
  BY DEF Incoming, Total
<1> HIDE DEF F, G, S, T
<1>5. SumFunctionOnSet(F, S) = SumFunctionOnSet(F, T)
  BY <1>3, SumWhere
<1>6. SumFunctionOnSet(G, T) = SumFunctionOnSet(F, T)
  BY <1>3, SumEqual
<1>7. QED
  BY <1>2, <1>4, <1>5, <1>6 DEF F, S

LEMMA DemandIsSum ==
    ASSUME NEW d, IsTable(d.sos, Nat, SORows), NEW p
    PROVE  /\ \A n \in DOMAIN d.sos : ToGo(d.sos[n], p) \in Int
           /\ Demand(d, p)
                  = SumFunctionOnSet([n \in DOMAIN d.sos |-> ToGo(d.sos[n], p)], DOMAIN d.sos)
<1> DEFINE S == DOMAIN d.sos
           T == {n \in S : d.sos[n].product = p /\ d.sos[n].status \in OPEN_DEMAND_SO_STATUSES}
           F == [n \in S |-> ToGo(d.sos[n], p)]
           G == [n \in T |-> d.sos[n].qty - d.sos[n].fulfilled]
<1>1. \A n \in S : d.sos[n].qty \in Int /\ d.sos[n].fulfilled \in Int
  BY DEF IsTable, SORows, SORecords
<1>2. \A n \in S : ToGo(d.sos[n], p) \in Int
  BY <1>1 DEF ToGo
<1>3. /\ T \subseteq S /\ IsFiniteSet(S) /\ IsFiniteSet(T)
      /\ \A n \in S : F[n] \in Int
      /\ \A n \in S \ T : F[n] = 0
      /\ \A n \in T : G[n] = F[n]
  <2>1. IsFiniteSet(S) /\ T \subseteq S
    BY DEF IsTable
  <2>2. IsFiniteSet(T)
    BY <2>1, FS_Subset
  <2>3. QED
    BY <1>2, <2>1, <2>2 DEF ToGo
<1>4. Demand(d, p) = SumFunctionOnSet(G, T)
  BY DEF Demand, Total
<1> HIDE DEF F, G, S, T
<1>5. SumFunctionOnSet(F, S) = SumFunctionOnSet(F, T)
  BY <1>3, SumWhere
<1>6. SumFunctionOnSet(G, T) = SumFunctionOnSet(F, T)
  BY <1>3, SumEqual
<1>7. QED
  BY <1>2, <1>4, <1>5, <1>6 DEF F, S

\* A row of a table is replaced.
Replaced(s, t, n, row) == t = [s EXCEPT ![n] = row]

LEMMA SameOrders ==
    ASSUME NEW d, NEW e, NEW p
    PROVE  /\ e.pos = d.pos => Incoming(e, p) = Incoming(d, p)
           /\ e.sos = d.sos => Demand(e, p) = Demand(d, p)
BY DEF Incoming, Demand, Total

ShiftsIncoming(d, e, n, row, p) ==
    Incoming(e, p) = Incoming(d, p) + (ToCome(row, p) - ToCome(d.pos[n], p))

LEMMA IncomingChanges ==
    ASSUME NEW d, NEW e, IsTable(d.pos, Nat, PORows), NEW n \in DOMAIN d.pos, NEW row \in PORows,
           Replaced(d.pos, e.pos, n, row), NEW p
    PROVE  ShiftsIncoming(d, e, n, row, p)
<1> DEFINE S == DOMAIN d.pos
           F == [m \in S |-> ToCome(d.pos[m], p)]
           G == [m \in S |-> ToCome(e.pos[m], p)]
<1>1. IsTable(e.pos, Nat, PORows) /\ DOMAIN e.pos = S
  BY ChangeIsTable DEF Replaced
<1>2. e.pos[n] = row /\ \A m \in S \ {n} : e.pos[m] = d.pos[m]
  BY DEF IsTable, Replaced
<1>3. Incoming(d, p) = SumFunctionOnSet(F, S) /\ \A m \in S : F[m] \in Int
  BY IncomingIsSum
<1>4. Incoming(e, p) = SumFunctionOnSet(G, S) /\ \A m \in S : G[m] \in Int
  BY <1>1, IncomingIsSum
<1>5. G[n] = ToCome(row, p) /\ F[n] = ToCome(d.pos[n], p) /\ \A m \in S \ {n} : G[m] = F[m]
  BY <1>2
<1>6. IsFiniteSet(S) /\ n \in S
  BY DEF IsTable
<1> HIDE DEF S, F, G
<1>7. SumFunctionOnSet(G, S) = SumFunctionOnSet(F, S) + (G[n] - F[n])
  BY <1>3, <1>4, <1>5, <1>6, SumChange
<1>8. SumFunctionOnSet(F, S) \in Int
  BY <1>3, <1>6, SumType
<1>9. QED
  BY <1>3, <1>4, <1>5, <1>7, <1>8 DEF ShiftsIncoming

ShiftsDemand(d, e, n, row, p) ==
    Demand(e, p) = Demand(d, p) + (ToGo(row, p) - ToGo(d.sos[n], p))

LEMMA DemandChanges ==
    ASSUME NEW d, NEW e, IsTable(d.sos, Nat, SORows), NEW n \in DOMAIN d.sos, NEW row \in SORows,
           Replaced(d.sos, e.sos, n, row), NEW p
    PROVE  ShiftsDemand(d, e, n, row, p)
<1> DEFINE S == DOMAIN d.sos
           F == [m \in S |-> ToGo(d.sos[m], p)]
           G == [m \in S |-> ToGo(e.sos[m], p)]
<1>1. IsTable(e.sos, Nat, SORows) /\ DOMAIN e.sos = S
  BY ChangeIsTable DEF Replaced
<1>2. e.sos[n] = row /\ \A m \in S \ {n} : e.sos[m] = d.sos[m]
  BY DEF IsTable, Replaced
<1>3. Demand(d, p) = SumFunctionOnSet(F, S) /\ \A m \in S : F[m] \in Int
  BY DemandIsSum
<1>4. Demand(e, p) = SumFunctionOnSet(G, S) /\ \A m \in S : G[m] \in Int
  BY <1>1, DemandIsSum
<1>5. G[n] = ToGo(row, p) /\ F[n] = ToGo(d.sos[n], p) /\ \A m \in S \ {n} : G[m] = F[m]
  BY <1>2
<1>6. IsFiniteSet(S) /\ n \in S
  BY DEF IsTable
<1> HIDE DEF S, F, G
<1>7. SumFunctionOnSet(G, S) = SumFunctionOnSet(F, S) + (G[n] - F[n])
  BY <1>3, <1>4, <1>5, <1>6, SumChange
<1>8. SumFunctionOnSet(F, S) \in Int
  BY <1>3, <1>6, SumType
<1>9. QED
  BY <1>3, <1>4, <1>5, <1>7, <1>8 DEF ShiftsDemand

\* The projection of a product, with what is reserved of it.
Net(d, p) == d.stock[p].onHand + Incoming(d, p) - Demand(d, p)

LEMMA BalanceIsNet ==
    ASSUME NEW d, DbTypes(d), NEW p \in Products
    PROVE  /\ Incoming(d, p) \in Int /\ Demand(d, p) \in Int /\ d.stock[p].onHand \in Int
           /\ InventoryRow(d, p).projected + d.stock[p].reserved = Net(d, p)
<1>1. Incoming(d, p) \in Int
  <2> DEFINE S == DOMAIN d.pos
             F == [n \in S |-> ToCome(d.pos[n], p)]
  <2>1. IsTable(d.pos, Nat, PORows) /\ IsFiniteSet(S)
    BY DEF DbTypes, IsTable
  <2>2. Incoming(d, p) = SumFunctionOnSet(F, S) /\ \A n \in S : F[n] \in Int
    BY <2>1, IncomingIsSum
  <2> HIDE DEF S, F
  <2>3. QED
    BY <2>1, <2>2, SumType
<1>2. Demand(d, p) \in Int
  <2> DEFINE S == DOMAIN d.sos
             F == [n \in S |-> ToGo(d.sos[n], p)]
  <2>1. IsTable(d.sos, Nat, SORows) /\ IsFiniteSet(S)
    BY DEF DbTypes, IsTable
  <2>2. Demand(d, p) = SumFunctionOnSet(F, S) /\ \A n \in S : F[n] \in Int
    BY <2>1, DemandIsSum
  <2> HIDE DEF S, F
  <2>3. QED
    BY <2>1, <2>2, SumType
<1>3. d.stock[p].onHand \in Int /\ d.stock[p].reserved \in Int
  BY DEF DbTypes, StockRows
<1>4. InventoryRow(d, p).projected
          = (d.stock[p].onHand - d.stock[p].reserved) + Incoming(d, p) - Demand(d, p)
  BY DEF InventoryRow
<1>5. QED
  BY <1>1, <1>2, <1>3, <1>4 DEF Net

\* What moves a product's units, and what moves those reserved, on a row.
LEMMA ShelfMoves ==
    ASSUME NEW stock \in [Products -> StockRows], NEW r \in Products, NEW q \in Int,
           NEW p \in Products
    PROVE  [stock EXCEPT ![r].onHand = @ + q][p].onHand
               = stock[p].onHand + (IF r = p THEN q ELSE 0)
<1>1. CASE r = p
  BY <1>1 DEF StockRows
<1>2. CASE r # p
  BY <1>2 DEF StockRows
<1>3. QED
  BY <1>1, <1>2

LEMMA ReservedAside ==
    ASSUME NEW stock \in [Products -> StockRows], NEW r \in Products, NEW q \in Int,
           NEW p \in Products
    PROVE  [stock EXCEPT ![r].reserved = @ - q][p].onHand = stock[p].onHand
<1>1. CASE r = p
  BY <1>1 DEF StockRows
<1>2. CASE r # p
  BY <1>2 DEF StockRows
<1>3. QED
  BY <1>1, <1>2

LEMMA MovedOnHand ==
    ASSUME db.stock \in [Products -> StockRows], NEW r \in Products, NEW q \in Int,
           NEW p \in Products
    PROVE  /\ Moved(r, q) \in [Products -> StockRows]
           /\ Moved(r, q)[p].onHand = db.stock[p].onHand + (IF r = p THEN q ELSE 0)
<1> DEFINE st == db.stock
<1>1. Moved(r, q) = [st EXCEPT ![r].onHand = @ + q]
  BY DEF Moved
<1>2. st \in [Products -> StockRows]
  OBVIOUS
<1> HIDE DEF st
<1>3. [st EXCEPT ![r].onHand = @ + q][p].onHand = st[p].onHand + (IF r = p THEN q ELSE 0)
  BY <1>2, ShelfMoves
<1>4. [st EXCEPT ![r].onHand = @ + q] \in [Products -> StockRows]
  BY <1>2 DEF StockRows
<1>5. QED
  BY <1>1, <1>3, <1>4 DEF st

LEMMA ReceiveKeepsNet ==
    ASSUME DbTypes(db), now \in Nat, NEW n \in DOMAIN db.pos,
           NEW q \in Some(db.pos[n].qty - db.pos[n].got), Receive(n, q), NEW p \in Products
    PROVE  Net(db', p) = Net(db, p)
<1> DEFINE po == db.pos[n]
           k == ReceiptNumber(n)
           to == IF po.got + q >= po.qty THEN "RECEIVED" ELSE "PARTIALLY_RECEIVED"
           row == [po EXCEPT !.got = @ + q, !.status = to]
<1>1. /\ po.status \in RECEIVABLE_STATUSES
      /\ Same(db, db', {"sos", "shipments", "exceptions", "seq"})
      /\ db'.pos = [db.pos EXCEPT ![n] = row]
      /\ db'.stock = Moved(po.product, q)
  BY ReceiveEffect
<1>2. /\ IsTable(db.pos, Nat, PORows) /\ po \in PORows
      /\ db.stock \in [Products -> StockRows]
  BY DEF DbTypes, IsTable
<1>3. q \in Nat /\ po.got + q <= po.qty /\ po.got \in Nat /\ po.qty \in Nat
  <2>1. po.qty - po.got \in Nat /\ po.got \in Nat /\ po.qty \in Nat
    BY <1>2 DEF PORows, PORecords
  <2>2. q \in Nat /\ q <= po.qty - po.got
    BY <2>1, SomeUnits
  <2>3. QED
    BY <2>1, <2>2
<1>4. row \in PORows
  BY <1>2, <1>3, ReceivedRow
<1>5. /\ row.product = po.product /\ row.qty = po.qty /\ row.got = po.got + q /\ row.status = to
      /\ po.product \in Products
  BY <1>2 DEF PORows, PORecords
<1>6. ToCome(row, p) - ToCome(po, p) = IF po.product = p THEN -q ELSE 0
  BY <1>1, <1>3, <1>5 DEF ToCome, RECEIVABLE_STATUSES, INCOMING_PO_STATUSES, OPEN_PO_STATUSES
<1>7. db'.stock[p].onHand = db.stock[p].onHand + (IF po.product = p THEN q ELSE 0)
  BY <1>1, <1>2, <1>3, <1>5, MovedOnHand
<1>8. Incoming(db', p) = Incoming(db, p) + (ToCome(row, p) - ToCome(po, p))
  <2> DEFINE d == db
             e == db'
  <2>1. IsTable(d.pos, Nat, PORows) /\ Replaced(d.pos, e.pos, n, row) /\ n \in DOMAIN d.pos
    BY <1>1, <1>2 DEF Replaced
  <2>2. po = d.pos[n]
    OBVIOUS
  <2> HIDE DEF d, e, po, row
  <2>3. ShiftsIncoming(d, e, n, row, p)
    BY <1>4, <2>1, IncomingChanges
  <2>4. Incoming(e, p) = Incoming(d, p) + (ToCome(row, p) - ToCome(d.pos[n], p))
    BY <2>3 DEF ShiftsIncoming
  <2>5. QED
    BY <2>2, <2>4 DEF d, e
<1> HIDE DEF po, row
<1>9. Demand(db', p) = Demand(db, p)
  <2>1. db'.sos = db.sos
    BY <1>1 DEF Same
  <2>2. QED
    BY <2>1, SameOrders
<1>10. Incoming(db, p) \in Int /\ Demand(db, p) \in Int /\ db.stock[p].onHand \in Int
  BY BalanceIsNet
<1>11. QED
  BY <1>3, <1>6, <1>7, <1>8, <1>9, <1>10 DEF Net

LEMMA FulfillKeepsNet ==
    ASSUME DbTypes(db), now \in Nat, NEW n \in DOMAIN db.sos,
           NEW q \in Some(db.sos[n].reserved), Fulfill(n, q), NEW p \in Products
    PROVE  Net(db', p) = Net(db, p)
<1> DEFINE so == db.sos[n]
           done == so.fulfilled + q
           to == IF done >= so.qty THEN "FULFILLED" ELSE "PARTIALLY_FULFILLED"
           row == [so EXCEPT !.fulfilled = done, !.reserved = @ - q, !.status = to]
<1>1. /\ so.status \in FULFILLABLE_STATUSES
      /\ Same(db, db', TableNames \ {"sos", "stock", "movements"})
      /\ db'.sos = [db.sos EXCEPT ![n] = row]
      /\ db'.stock = [Moved(so.product, -q) EXCEPT ![so.product].reserved = @ - q]
  BY FulfillEffect
<1>2. /\ IsTable(db.sos, Nat, SORows) /\ so \in SORows
      /\ db.stock \in [Products -> StockRows]
  BY DEF DbTypes, IsTable
<1>3. /\ so.reserved \in Nat /\ so.fulfilled \in Nat /\ so.qty \in Nat
      /\ so.reserved + so.fulfilled <= so.qty /\ so.product \in Products
  BY <1>2 DEF SORows, SORecords
<1>4. q \in Nat /\ q <= so.reserved
  BY <1>3, SomeUnits
<1>5. row \in SORows
  BY <1>2, <1>4, FulfilledRow
<1>6. row.product = so.product /\ row.qty = so.qty /\ row.fulfilled = so.fulfilled + q /\ row.status = to
  BY <1>2 DEF SORows, SORecords
<1>7. ToGo(row, p) - ToGo(so, p) = IF so.product = p THEN -q ELSE 0
  BY <1>1, <1>3, <1>4, <1>6
     DEF ToGo, FULFILLABLE_STATUSES, OPEN_DEMAND_SO_STATUSES, OPEN_SO_STATUSES
<1>8. db'.stock[p].onHand = db.stock[p].onHand + (IF so.product = p THEN -q ELSE 0)
  <2> DEFINE r == so.product
             st == Moved(r, -q)
  <2>1. r \in Products /\ -q \in Int /\ q \in Int
    BY <1>3, <1>4
  <2>2. db'.stock = [st EXCEPT ![r].reserved = @ - q]
    BY <1>1
  <2> HIDE DEF st
  <2>3. st \in [Products -> StockRows]
    BY <1>2, <2>1, MovedOnHand DEF st
  <2>4. [st EXCEPT ![r].reserved = @ - q][p].onHand = st[p].onHand
    <3> HIDE DEF r
    <3>1. QED
      BY <2>1, <2>3, ReservedAside
  <2>5. st[p].onHand = db.stock[p].onHand + (IF r = p THEN -q ELSE 0)
    BY <1>2, <2>1, MovedOnHand DEF st
  <2>6. QED
    BY <2>2, <2>4, <2>5
<1>9. Demand(db', p) = Demand(db, p) + (ToGo(row, p) - ToGo(so, p))
  <2> DEFINE d == db
             e == db'
  <2>1. IsTable(d.sos, Nat, SORows) /\ Replaced(d.sos, e.sos, n, row) /\ n \in DOMAIN d.sos
    BY <1>1, <1>2 DEF Replaced
  <2>2. so = d.sos[n]
    OBVIOUS
  <2> HIDE DEF d, e, so, row
  <2>3. ShiftsDemand(d, e, n, row, p)
    BY <1>5, <2>1, DemandChanges
  <2>4. Demand(e, p) = Demand(d, p) + (ToGo(row, p) - ToGo(d.sos[n], p))
    BY <2>3 DEF ShiftsDemand
  <2>5. QED
    BY <2>2, <2>4 DEF d, e
<1> HIDE DEF so, row
<1>10. Incoming(db', p) = Incoming(db, p)
  <2>1. db'.pos = db.pos
    BY <1>1 DEF Same, TableNames
  <2>2. QED
    BY <2>1, SameOrders
<1>11. Incoming(db, p) \in Int /\ Demand(db, p) \in Int /\ db.stock[p].onHand \in Int
  BY BalanceIsNet
<1>12. QED
  BY <1>4, <1>7, <1>8, <1>9, <1>10, <1>11 DEF Net

\* The shelves and what they are accounted for with are left alone.
ShelvesLeft(d, e) ==
    /\ e.movements = d.movements /\ e.receipts = d.receipts
    /\ \A p \in Products : e.stock[p].onHand = d.stock[p].onHand

LEMMA SameShelves ==
    ASSUME NEW d, NEW e, Same(d, e, {"movements", "receipts", "stock"})
    PROVE  ShelvesLeft(d, e)
BY DEF Same, ShelvesLeft

LEMMA OnlyReserved ==
    ASSUME DbTypes(db), Same(db, db', {"movements", "receipts"}), NEW p \in Products, NEW r,
           db'.stock = [db.stock EXCEPT ![p] = [db.stock[p] EXCEPT !.reserved = r]]
    PROVE  ShelvesLeft(db, db')
<1>1. db.stock \in [Products -> StockRows]
  BY DEF DbTypes
<1>2. ASSUME NEW o \in Products
      PROVE  db'.stock[o].onHand = db.stock[o].onHand
  <2>1. CASE o = p
    BY <1>1, <2>1 DEF StockRows
  <2>2. CASE o # p
    BY <1>1, <2>2
  <2>3. QED
    BY <2>1, <2>2
<1>3. QED
  BY <1>2 DEF ShelvesLeft, Same

\* Every step but these leaves the shelves and their ledger as they are.
LEMMA LedgerStep ==
    ASSUME Types, [Next]_vars
    PROVE  \/ ShelvesLeft(db, db')
           \/ RunSeed /\ Same(db, db', {"movements", "receipts"})
           \/ \E n \in DOMAIN db.pos : \E q \in Some(db.pos[n].qty - db.pos[n].got) : Receive(n, q)
           \/ \E n \in DOMAIN db.sos : \E q \in Some(db.sos[n].reserved) : Fulfill(n, q)
<1> DEFINE Left == ShelvesLeft(db, db')
<1>1. DbTypes(db) /\ now \in Nat /\ Fixtures(db)
  BY DEF Types
<1>2. CreatePO => Left
  <2>1. CreatePO => Same(db, db', {"movements", "receipts", "stock"})
    BY <1>1, CreateEffect DEF Same, TableNames
  <2>2. QED
    BY <2>1, SameShelves
<1>3. ASSUME NEW n \in DOMAIN db.pos, NEW status, NEW approved, MovePO(n, status, approved)
      PROVE  Left
  <2>1. Same(db, db', {"movements", "receipts", "stock"})
    BY <1>1, <1>3 DEF MovePO, Commits, DbTypes, TableNames, Same
  <2>2. QED
    BY <2>1, SameShelves
<1>4. ASSUME NEW n \in DOMAIN db.pos, Ship(n)
      PROVE  Left
  <2>1. Same(db, db', {"movements", "receipts", "stock"})
    BY <1>1, <1>4, ShipEffect DEF Same, TableNames
  <2>2. QED
    BY <2>1, SameShelves
<1>5. ASSUME NEW n \in DOMAIN db.sos, Confirm(n)
      PROVE  Left
  <2>1. Same(db, db', {"movements", "receipts", "stock"})
    BY <1>1, <1>5, ConfirmEffect DEF Same, TableNames
  <2>2. QED
    BY <2>1, SameShelves
<1>6. ASSUME NEW n \in DOMAIN db.sos, Allocate(n) \/ CancelSO(n)
      PROVE  Left
  <2> DEFINE p == db.sos[n].product
  <2>1. p \in Products
    BY <1>1 DEF DbTypes, IsTable, SORows, SORecords
  <2>2. /\ Same(db, db', {"movements", "receipts"})
        /\ \E r : db'.stock = [db.stock EXCEPT ![p] = [db.stock[p] EXCEPT !.reserved = r]]
    <3>1. CASE Allocate(n)
      BY <1>1, <3>1, AllocateEffect DEF Same, TableNames
    <3>2. CASE CancelSO(n)
      BY <1>1, <3>2, CancelEffect DEF Same, TableNames
    <3>3. QED
      BY <1>6, <3>1, <3>2
  <2> HIDE DEF p
  <2>3. QED
    BY <1>1, <2>1, <2>2, OnlyReserved
<1>7. ASSUME NEW n \in DOMAIN db.sos, Dispatch(n)
      PROVE  Left
  <2>1. Same(db, db', {"movements", "receipts", "stock"})
    BY <1>1, <1>7, DispatchEffect DEF Same, TableNames
  <2>2. QED
    BY <2>1, SameShelves
<1>8. ASSUME NEW s \in DOMAIN db.shipments, NEW v, Rewrites(s, v)
      PROVE  Left
  <2>1. Same(db, db', {"movements", "receipts", "stock"})
    BY <1>8 DEF Rewrites, Same, TableNames
  <2>2. QED
    BY <2>1, SameShelves
<1>9. RunSeed => Same(db, db', {"movements", "receipts"})
  BY <1>1, ReseedEffect DEF Same, TableNames
<1>10. Rests => Left
  BY DEF Rests, ShelvesLeft
<1>11. QED
  BY <1>1, <1>2, <1>3, <1>4, <1>5, <1>6, <1>7, <1>8, <1>9, <1>10, StepCases

\* Receiving what was to come and fulfilling what was asked for are already in
\* the projection: ForecastSurvivesWork.
THEOREM ForecastSurvives == Spec => ForecastSurvivesWork
<1> DEFINE Survives == DOMAIN db'.movements # DOMAIN db.movements =>
                           \A p \in Products : Balance(p)' = Balance(p)
<1>1. Types /\ [Next]_vars => Survives
  <2> SUFFICES ASSUME Types, [Next]_vars, DOMAIN db'.movements # DOMAIN db.movements,
                      NEW p \in Products
               PROVE  Balance(p)' = Balance(p)
    OBVIOUS
  <2>1. DbTypes(db) /\ now \in Nat /\ DbTypes(db')
    BY TypesStep DEF Types
  <2>2. Balance(p) = Net(db, p)
    BY <2>1, BalanceIsNet DEF Balance
  <2>3. Balance(p)' = Net(db', p)
    <3> DEFINE d == db'
    <3>1. DbTypes(d)
      BY <2>1
    <3>2. Balance(p)' = InventoryRow(d, p).projected + d.stock[p].reserved
      BY DEF Balance
    <3> HIDE DEF d
    <3>3. InventoryRow(d, p).projected + d.stock[p].reserved = Net(d, p)
      BY <3>1, BalanceIsNet
    <3>4. QED
      BY <3>2, <3>3 DEF d
  <2>4. Net(db', p) = Net(db, p)
    <3>1. ASSUME NEW n \in DOMAIN db.pos, NEW q \in Some(db.pos[n].qty - db.pos[n].got), Receive(n, q)
          PROVE  Net(db', p) = Net(db, p)
      BY <2>1, <3>1, ReceiveKeepsNet
    <3>2. ASSUME NEW n \in DOMAIN db.sos, NEW q \in Some(db.sos[n].reserved), Fulfill(n, q)
          PROVE  Net(db', p) = Net(db, p)
      BY <2>1, <3>2, FulfillKeepsNet
    <3>3. QED
      BY <2>1, <3>1, <3>2, LedgerStep DEF ShelvesLeft, Same
  <2>5. QED
    BY <2>2, <2>3, <2>4
<1>2. Init => Types
  BY TypesInit
<1>3. Types /\ [Next]_vars => Types'
  BY TypesStep
<1>4. QED
  BY <1>1, <1>2, <1>3, PTL DEF Spec, ForecastSurvivesWork

-----------------------------------------------------------------------------
(* The ledger and the shelves.                                             *)

\* The receipts of an order, and its deliveries, are counted up from one: the
\* next number is nobody's.
ReceiptsOf(D, n) == {x \in D : x[1] = n}
DeliveriesOf(D, n) == {x \in D : x[1] = "SO" /\ x[2] = n}
ReceiptsCounted(D) == \A r \in D : r[2] <= Cardinality(ReceiptsOf(D, r[1]))
DeliveriesCounted(D) ==
    \A m \in D : m[1] = "SO" => m[3] <= Cardinality(DeliveriesOf(D, m[2]))

\* Every receipt entered in the ledger is one.
ReceiptsEntered(D, R) == \A m \in D : m[1] = "PO" => <<m[2], m[3]>> \in R

LEMMA NextReceipt ==
    ASSUME NEW D, IsFiniteSet(D), D \subseteq Nat \X Nat, ReceiptsCounted(D),
           NEW n \in Nat, NEW k, k = Cardinality(ReceiptsOf(D, n)) + 1
    PROVE  <<n, k>> \notin D /\ ReceiptsCounted(D \cup {<<n, k>>})
<1> DEFINE x == <<n, k>>
           E == D \cup {x}
<1>1. \A m : IsFiniteSet(ReceiptsOf(D, m)) /\ Cardinality(ReceiptsOf(D, m)) \in Nat
  BY FS_Subset, FS_CardinalityType DEF ReceiptsOf
<1>2. x \notin D
  BY <1>1 DEF ReceiptsCounted
<1>3. x[1] = n /\ x[2] = k
  OBVIOUS
<1> HIDE DEF x
<1>4. ReceiptsOf(E, n) = ReceiptsOf(D, n) \cup {x} /\ x \notin ReceiptsOf(D, n)
  BY <1>2, <1>3 DEF ReceiptsOf
<1>5. \A m : m # n => ReceiptsOf(E, m) = ReceiptsOf(D, m)
  BY <1>3 DEF ReceiptsOf
<1>6. Cardinality(ReceiptsOf(E, n)) = Cardinality(ReceiptsOf(D, n)) + 1
  BY <1>1, <1>4, FS_AddElement
<1>7. ASSUME NEW r \in E
      PROVE  r[2] <= Cardinality(ReceiptsOf(E, r[1]))
  <2>1. CASE r = x
    BY <1>1, <1>3, <1>6, <2>1
  <2>2. CASE r \in D /\ r[1] # n
    BY <1>5, <2>2 DEF ReceiptsCounted
  <2>3. CASE r \in D /\ r[1] = n
    <3>1. r[2] \in Nat /\ r[2] <= Cardinality(ReceiptsOf(D, n))
      BY <2>3 DEF ReceiptsCounted
    <3>2. QED
      BY <1>1, <1>6, <2>3, <3>1
  <2>4. QED
    BY <2>1, <2>2, <2>3
<1>8. QED
  BY <1>2, <1>7 DEF x, ReceiptsCounted

LEMMA NextDelivery ==
    ASSUME NEW D, IsFiniteSet(D), D \subseteq MovementKeys, DeliveriesCounted(D),
           NEW n \in Nat, NEW k, k = Cardinality(DeliveriesOf(D, n)) + 1
    PROVE  <<"SO", n, k>> \notin D /\ DeliveriesCounted(D \cup {<<"SO", n, k>>})
<1> DEFINE x == <<"SO", n, k>>
           E == D \cup {x}
<1>1. \A m : IsFiniteSet(DeliveriesOf(D, m)) /\ Cardinality(DeliveriesOf(D, m)) \in Nat
  BY FS_Subset, FS_CardinalityType DEF DeliveriesOf
<1>2. x \notin D
  BY <1>1 DEF DeliveriesCounted
<1>3. x[1] = "SO" /\ x[2] = n /\ x[3] = k
  OBVIOUS
<1> HIDE DEF x
<1>4. DeliveriesOf(E, n) = DeliveriesOf(D, n) \cup {x} /\ x \notin DeliveriesOf(D, n)
  BY <1>2, <1>3 DEF DeliveriesOf
<1>5. \A m : m # n => DeliveriesOf(E, m) = DeliveriesOf(D, m)
  BY <1>3 DEF DeliveriesOf
<1>6. Cardinality(DeliveriesOf(E, n)) = Cardinality(DeliveriesOf(D, n)) + 1
  BY <1>1, <1>4, FS_AddElement
<1>7. ASSUME NEW r \in E, r[1] = "SO"
      PROVE  r[3] <= Cardinality(DeliveriesOf(E, r[2]))
  <2>1. CASE r = x
    BY <1>1, <1>3, <1>6, <2>1
  <2>2. CASE r \in D /\ r[2] # n
    BY <1>5, <1>7, <2>2 DEF DeliveriesCounted
  <2>3. CASE r \in D /\ r[2] = n
    <3>1. r[3] \in Nat /\ r[3] <= Cardinality(DeliveriesOf(D, n))
      BY <1>7, <2>3 DEF DeliveriesCounted, MovementKeys
    <3>2. QED
      BY <1>1, <1>6, <2>3, <3>1
  <2>4. QED
    BY <1>7, <2>1, <2>2, <2>3
<1>8. QED
  BY <1>2, <1>7 DEF x, DeliveriesCounted

LEMMA OtherEntry ==
    ASSUME NEW D, DeliveriesCounted(D), NEW x, x[1] # "SO"
    PROVE  DeliveriesCounted(D \cup {x})
<1>1. \A n : DeliveriesOf(D \cup {x}, n) = DeliveriesOf(D, n)
  BY DEF DeliveriesOf
<1>2. QED
  BY <1>1 DEF DeliveriesCounted

\* The entries of the ledger were made since the seed ran.
EnteredBetween(f, from, to) == \A m \in DOMAIN f : from <= f[m].at /\ f[m].at <= to

Accounts(d, time) ==
    /\ ReceiptsCounted(DOMAIN d.receipts)
    /\ DeliveriesCounted(DOMAIN d.movements)
    /\ ReceiptsEntered(DOMAIN d.movements, DOMAIN d.receipts)
    /\ EnteredBetween(d.movements, SeedTime, time)
Backed(d) == \A p \in Products : d.stock[p].onHand = LedgerOf(d.movements, p)
BackedInv == ~ overwritten => Backed(db)

\* An entry and the units it speaks of, on the shelf of its product.
LEMMA BackedOneMore ==
    ASSUME NEW d, DbTypes(d), Backed(d), NEW e, NEW k, NEW row \in MovementRows,
           MoreByOne(d.movements, e.movements, k, row),
           \A p \in Products : e.stock[p].onHand = d.stock[p].onHand + UnitsIn(row, p)
    PROVE  Backed(e)
<1>1. IsTable(d.movements, {"PO", "SO", "RISK"} \X Nat \X Nat, MovementRows)
  BY DEF DbTypes
<1>2. ASSUME NEW p \in Products
      PROVE  LedgerOf(e.movements, p) = LedgerOf(d.movements, p) + UnitsIn(row, p)
  BY <1>1, LedgerOfOneMore
<1>3. QED
  BY <1>2 DEF Backed

LEMMA EnteredOneMore ==
    ASSUME NEW f, NEW g, NEW k, NEW r, MoreByOne(f, g, k, r),
           EnteredBetween(f, SeedTime, now), SeedTime <= r.at, r.at <= now
    PROVE  EnteredBetween(g, SeedTime, now)
BY DEF MoreByOne, EnteredBetween

LEMMA ReceiveAccounts ==
    ASSUME Types, Accounts(db, now), NEW n \in DOMAIN db.pos,
           NEW q \in Some(db.pos[n].qty - db.pos[n].got), Receive(n, q)
    PROVE  Accounts(db', now) /\ (Backed(db) => Backed(db'))
<1> DEFINE po == db.pos[n]
           k == ReceiptNumber(n)
           key == <<"PO", n, k>>
           row == [type |-> "RECEIPT", product |-> po.product, delta |-> q, at |-> now]
           M == DOMAIN db.movements
           R == DOMAIN db.receipts
<1>1. DbTypes(db) /\ now \in Nat /\ SeedTime <= now /\ SeedTime \in Nat
  BY TimesAssumption DEF Types
<1>2. /\ db'.receipts = (<<n, k>> :> now) @@ db.receipts
      /\ db'.stock = Moved(po.product, q)
      /\ db'.movements = (key :> row) @@ db.movements
  BY <1>1, ReceiveEffect DEF Entered
<1>3. /\ n \in Nat /\ po.product \in Products /\ q \in Nat
      /\ db.stock \in [Products -> StockRows]
      /\ R \subseteq Nat \X Nat /\ IsFiniteSet(R)
  <2>1. po \in PORows /\ n \in Nat
    BY <1>1 DEF DbTypes, IsTable
  <2>2. po.qty - po.got \in Nat
    BY <2>1 DEF PORows, PORecords
  <2>3. q \in Nat
    BY <2>2, SomeUnits
  <2>4. QED
    BY <1>1, <2>1, <2>3 DEF DbTypes, IsTable, PORows, PORecords
<1>4. k = Cardinality(ReceiptsOf(R, n)) + 1
  BY DEF ReceiptNumber, ReceiptsOf, Count
<1>5. <<n, k>> \notin R /\ ReceiptsCounted(R \cup {<<n, k>>})
  <2> HIDE DEF k, R
  <2>1. QED
    BY <1>3, <1>4, NextReceipt DEF Accounts, R
<1>6. key \notin M
  <2>1. key[1] = "PO" /\ <<key[2], key[3]>> = <<n, k>>
    OBVIOUS
  <2> HIDE DEF key, k
  <2>2. QED
    BY <1>5, <2>1 DEF Accounts, ReceiptsEntered
<1>7. /\ DOMAIN db'.receipts = R \cup {<<n, k>>}
      /\ DOMAIN db'.movements = M \cup {key}
  BY <1>2 DEF @@, :>
<1>8. MoreByOne(db.movements, db'.movements, key, row)
  <2> HIDE DEF key, row
  <2>1. QED
    BY <1>2, <1>6, OneMoreRow
<1>9. DeliveriesCounted(M \cup {key})
  <2>1. key[1] # "SO"
    OBVIOUS
  <2> HIDE DEF key, M
  <2>2. QED
    BY <2>1, OtherEntry DEF Accounts, M
<1>10. ReceiptsEntered(M \cup {key}, R \cup {<<n, k>>})
  <2>1. <<key[2], key[3]>> = <<n, k>>
    OBVIOUS
  <2> HIDE DEF key, k
  <2>2. QED
    BY <2>1 DEF Accounts, ReceiptsEntered
<1>11. EnteredBetween(db'.movements, SeedTime, now)
  <2>1. row.at = now
    OBVIOUS
  <2> HIDE DEF row, key
  <2>2. QED
    BY <1>1, <1>8, <2>1, EnteredOneMore DEF Accounts
<1>12. ASSUME Backed(db)
       PROVE  Backed(db')
  <2>1. row \in MovementRows
    <3>1. now \in Int /\ q \in Int
      BY <1>1, <1>3
    <3>2. QED
      BY <1>3, <3>1 DEF MovementRows
  <2>2. ASSUME NEW p \in Products
        PROVE  db'.stock[p].onHand = db.stock[p].onHand + UnitsIn(row, p)
    <3>1. q \in Int
      BY <1>3
    <3>2. Moved(po.product, q)[p].onHand
              = db.stock[p].onHand + (IF po.product = p THEN q ELSE 0)
      <4> HIDE DEF po
      <4>1. QED
        BY <1>3, <3>1, MovedOnHand
    <3>3. QED
      BY <1>2, <3>2 DEF UnitsIn
  <2> DEFINE d == db
             e == db'
  <2>3. /\ DbTypes(d) /\ Backed(d) /\ MoreByOne(d.movements, e.movements, key, row)
        /\ \A p \in Products : e.stock[p].onHand = d.stock[p].onHand + UnitsIn(row, p)
    BY <1>1, <1>8, <1>12, <2>2
  <2> HIDE DEF d, e, key, row
  <2>4. Backed(e)
    BY <2>1, <2>3, BackedOneMore
  <2>5. QED
    BY <2>4 DEF e
<1>13. QED
  BY <1>5, <1>7, <1>9, <1>10, <1>11, <1>12 DEF Accounts

LEMMA FulfillAccounts ==
    ASSUME Types, Accounts(db, now), NEW n \in DOMAIN db.sos,
           NEW q \in Some(db.sos[n].reserved), Fulfill(n, q)
    PROVE  Accounts(db', now) /\ (Backed(db) => Backed(db'))
<1> DEFINE so == db.sos[n]
           k == DeliveryNumber(n)
           key == <<"SO", n, k>>
           row == [type |-> "FULFILLMENT", product |-> so.product, delta |-> -q, at |-> now]
           M == DOMAIN db.movements
<1>1. DbTypes(db) /\ now \in Nat /\ SeedTime <= now /\ SeedTime \in Nat
  BY TimesAssumption DEF Types
<1>2. /\ db'.receipts = db.receipts
      /\ db'.stock = [Moved(so.product, -q) EXCEPT ![so.product].reserved = @ - q]
      /\ db'.movements = (key :> row) @@ db.movements
  BY <1>1, FulfillEffect DEF Entered, Same, TableNames
<1>3. /\ n \in Nat /\ so.product \in Products /\ q \in Nat
      /\ db.stock \in [Products -> StockRows]
      /\ M \subseteq MovementKeys /\ IsFiniteSet(M)
  <2>1. so \in SORows /\ n \in Nat
    BY <1>1 DEF DbTypes, IsTable
  <2>2. so.reserved \in Nat
    BY <2>1 DEF SORows, SORecords
  <2>3. q \in Nat
    BY <2>2, SomeUnits
  <2>4. QED
    BY <1>1, <2>1, <2>3 DEF DbTypes, IsTable, SORows, SORecords, MovementKeys
<1>4. k = Cardinality(DeliveriesOf(M, n)) + 1
  BY DEF DeliveryNumber, DeliveriesOf, Count
<1>5. key \notin M /\ DeliveriesCounted(M \cup {key})
  <2> HIDE DEF k, M
  <2>1. QED
    BY <1>3, <1>4, NextDelivery DEF Accounts, M
<1>6. DOMAIN db'.movements = M \cup {key}
  BY <1>2 DEF @@, :>
<1>7. MoreByOne(db.movements, db'.movements, key, row)
  <2> HIDE DEF key, row
  <2>1. QED
    BY <1>2, <1>5, OneMoreRow
<1>8. ReceiptsEntered(M \cup {key}, DOMAIN db.receipts)
  BY DEF Accounts, ReceiptsEntered
<1>9. EnteredBetween(db'.movements, SeedTime, now)
  <2>1. row.at = now
    OBVIOUS
  <2> HIDE DEF row, key
  <2>2. QED
    BY <1>1, <1>7, <2>1, EnteredOneMore DEF Accounts
<1>10. ASSUME Backed(db)
       PROVE  Backed(db')
  <2>1. row \in MovementRows
    <3>1. now \in Int /\ -q \in Int
      BY <1>1, <1>3
    <3>2. QED
      BY <1>3, <3>1 DEF MovementRows
  <2>2. ASSUME NEW p \in Products
        PROVE  db'.stock[p].onHand = db.stock[p].onHand + UnitsIn(row, p)
    <3> DEFINE r == so.product
               st == Moved(r, -q)
    <3>1. q \in Int /\ -q \in Int /\ r \in Products
      BY <1>3
    <3>2. UnitsIn(row, p) = IF r = p THEN -q ELSE 0
      BY DEF UnitsIn
    <3>3. db'.stock = [st EXCEPT ![r].reserved = @ - q]
      BY <1>2
    <3> HIDE DEF r, row
    <3>4. /\ st \in [Products -> StockRows]
          /\ st[p].onHand = db.stock[p].onHand + (IF r = p THEN -q ELSE 0)
      BY <1>3, <3>1, MovedOnHand
    <3> HIDE DEF st
    <3>5. [st EXCEPT ![r].reserved = @ - q][p].onHand = st[p].onHand
      BY <3>1, <3>4, ReservedAside
    <3>6. QED
      BY <3>2, <3>3, <3>4, <3>5
  <2> DEFINE d == db
             e == db'
  <2>3. /\ DbTypes(d) /\ Backed(d) /\ MoreByOne(d.movements, e.movements, key, row)
        /\ \A p \in Products : e.stock[p].onHand = d.stock[p].onHand + UnitsIn(row, p)
    BY <1>1, <1>7, <1>10, <2>2
  <2> HIDE DEF d, e, key, row
  <2>4. Backed(e)
    BY <2>1, <2>3, BackedOneMore
  <2>5. QED
    BY <2>4 DEF e
<1>11. QED
  BY <1>2, <1>5, <1>6, <1>8, <1>9, <1>10 DEF Accounts

\* The seed's own entries are of its own time.
AllAt(f, t) == \A m \in DOMAIN f : f[m].at = t

LEMMA OneAt ==
    ASSUME NEW t, NEW k, NEW type, NEW p, NEW units
    PROVE  AllAt(k :> Entry(type, p, units, t), t)
BY DEF AllAt, :>, Entry

LEMMA BothAt ==
    ASSUME NEW t, NEW f, NEW g, AllAt(f, t), AllAt(g, t)
    PROVE  AllAt(f @@ g, t)
BY DEF AllAt, @@

LEMMA SeededAt ==
    ASSUME NEW t
    PROVE  AllAt(SeedMovements(t), t)
<1>1. AllAt(ReceiptEntries(t), t)
  <2> DEFINE a == <<"PO", 100, 1>> :> Entry("RECEIPT", "ELEC-001", 200, t)
             b == <<"PO", 102, 1>> :> Entry("RECEIPT", "ELEC-001", 150, t)
             c == <<"PO", 103, 1>> :> Entry("RECEIPT", "ELEC-001", 100, t)
  <2>1. AllAt(a, t) /\ AllAt(b, t) /\ AllAt(c, t)
    BY OneAt, ZenonT(60)
  <2>2. ReceiptEntries(t) = a @@ b @@ c
    BY DEF ReceiptEntries
  <2> HIDE DEF a, b, c
  <2>3. QED
    BY <2>1, <2>2, BothAt, Zenon
<1>2. AllAt(FulfillmentEntries(t), t)
  <2> DEFINE a == <<"SO", 100, 1>> :> Entry("FULFILLMENT", "ELEC-001", -100, t)
             b == <<"SO", 101, 1>> :> Entry("FULFILLMENT", "ELEC-001", -80, t)
             c == <<"SO", 102, 1>> :> Entry("FULFILLMENT", "ELEC-001", -100, t)
  <2>1. AllAt(a, t) /\ AllAt(b, t) /\ AllAt(c, t)
    BY OneAt, Zenon
  <2>2. FulfillmentEntries(t) = a @@ b @@ c
    BY DEF FulfillmentEntries
  <2> HIDE DEF a, b, c
  <2>3. QED
    BY <2>1, <2>2, BothAt, Zenon
<1>3. QED
  <2> DEFINE a == ReceiptEntries(t)
             b == FulfillmentEntries(t)
             c == <<"RISK", 1, 1>> :> Entry("RECEIPT", "ELEC-002", 300, t)
             d == <<"RISK", 2, 1>> :> Entry("RECEIPT", "ELEC-003", 1000, t)
  <2>1. AllAt(c, t)
    BY OneAt, ZenonT(60)
  <2>2. AllAt(d, t)
    BY OneAt
  <2>3. SeedMovements(t) = a @@ b @@ c @@ d
    BY DEF SeedMovements
  <2>4. AllAt(a, t) /\ AllAt(b, t)
    BY <1>1, <1>2
  <2> HIDE DEF a, b, c, d
  <2>5. QED
    BY <2>1, <2>2, <2>3, <2>4, BothAt, Zenon

LEMMA NothingBefore ==
    ASSUME NEW f, DOMAIN f = {}, NEW g, g = [k \in DOMAIN g |-> g[k]]
    PROVE  f @@ g = g
BY DEF @@

LEMMA LedgerInit ==
    ASSUME Init
    PROVE  Accounts(db, now) /\ Backed(db) /\ now <= SeedTime + 90 * Day
<1>1. now = SeedTime /\ SeedTime \in Nat
  BY TimesAssumption DEF Init
<1>2. /\ db.receipts = EmptyDb.receipts @@ SeedReceipts(SeedTime)
      /\ db.movements = EmptyDb.movements @@ SeedMovements(SeedTime)
  BY <1>1, SeededEffect DEF Init
<1>3. DOMAIN EmptyDb.receipts = {} /\ DOMAIN EmptyDb.movements = {}
  BY DEF EmptyDb
<1>4. DOMAIN db.receipts = SeedKeys.receipts
  <2>1. DOMAIN SeedReceipts(SeedTime) = SeedKeys.receipts
    BY <1>1, SeededReceipts
  <2>2. QED
    BY <1>2, <1>3, <2>1 DEF @@
<1>5. Tells(SeedMovements(SeedTime), SeedKeys.movements, 170, 300, 1000)
  BY <1>1, SeededMovements
<1>6. db.movements = SeedMovements(SeedTime)
  <2> DEFINE g == SeedMovements(SeedTime)
             f == EmptyDb.movements
  <2>1. g = [k \in DOMAIN g |-> g[k]]
    BY <1>5 DEF Tells, HasKeys, IsTable
  <2>2. db.movements = f @@ g /\ DOMAIN f = {}
    BY <1>2, <1>3
  <2> HIDE DEF f, g
  <2>3. QED
    BY <2>1, <2>2, NothingBefore DEF g
<1>7. DOMAIN db.movements = SeedKeys.movements
  BY <1>5, <1>6 DEF Tells, HasKeys
<1>8. IsFiniteSet(SeedKeys.receipts) /\ IsFiniteSet(SeedKeys.movements)
  <2>1. IsTable(SeedReceipts(SeedTime), Nat \X Nat, Int)
            /\ DOMAIN SeedReceipts(SeedTime) = SeedKeys.receipts
    BY <1>1, SeededReceipts
  <2>2. QED
    BY <1>5, <2>1 DEF Tells, HasKeys, IsTable
<1>9. ReceiptsCounted(DOMAIN db.receipts)
  <2> DEFINE D == SeedKeys.receipts
  <2> SUFFICES ASSUME NEW r \in D
               PROVE  r[2] <= Cardinality(ReceiptsOf(D, r[1]))
    BY <1>4 DEF ReceiptsCounted
  <2>1. r[2] = 1
    BY DEF SeedKeys
  <2>2. IsFiniteSet(ReceiptsOf(D, r[1])) /\ r \in ReceiptsOf(D, r[1])
    BY <1>8, FS_Subset DEF ReceiptsOf
  <2> HIDE DEF D
  <2>3. Cardinality(ReceiptsOf(D, r[1])) \in Nat /\ Cardinality(ReceiptsOf(D, r[1])) # 0
    BY <2>2, FS_CardinalityType, FS_EmptySet
  <2>4. QED
    BY <2>1, <2>3
<1>10. DeliveriesCounted(DOMAIN db.movements)
  <2> DEFINE D == SeedKeys.movements
  <2> SUFFICES ASSUME NEW r \in D, r[1] = "SO"
               PROVE  r[3] <= Cardinality(DeliveriesOf(D, r[2]))
    BY <1>7 DEF DeliveriesCounted
  <2>1. r[3] = 1
    BY DEF SeedKeys
  <2>2. IsFiniteSet(DeliveriesOf(D, r[2])) /\ r \in DeliveriesOf(D, r[2])
    BY <1>8, FS_Subset DEF DeliveriesOf
  <2> HIDE DEF D
  <2>3. Cardinality(DeliveriesOf(D, r[2])) \in Nat /\ Cardinality(DeliveriesOf(D, r[2])) # 0
    BY <2>2, FS_CardinalityType, FS_EmptySet
  <2>4. QED
    BY <2>1, <2>3
<1>11. ReceiptsEntered(DOMAIN db.movements, DOMAIN db.receipts)
  BY <1>4, <1>7 DEF ReceiptsEntered, SeedKeys
<1>12. EnteredBetween(db.movements, SeedTime, now)
  BY <1>1, <1>6, SeededAt DEF AllAt, EnteredBetween
<1>13. Backed(db)
  <2>1. /\ db.stock["ELEC-001"].onHand = 170
        /\ db.stock["ELEC-002"].onHand = 300
        /\ db.stock["ELEC-003"].onHand = 1000
    BY PristineInit DEF Pristine
  <2>2. QED
    BY <1>5, <1>6, <2>1 DEF Tells, Backed, Products
<1>14. QED
  BY <1>1, <1>9, <1>10, <1>11, <1>12, <1>13 DEF Accounts, Day

LEMMA AccountsLeft ==
    ASSUME Types, Accounts(db, now), [Next]_vars,
           Same(db, db', {"movements", "receipts"})
    PROVE  Accounts(db', now')
<1>1. /\ db'.movements = db.movements /\ db'.receipts = db.receipts
      /\ now \in Nat
  BY DEF Same, Types
<1>2. now' \in Nat /\ now <= now'
  <2>1. now' = now \/ Rests
    BY StepKinds DEF Touches, RunSeed
  <2>2. QED
    BY <1>1, <2>1 DEF Rests
<1>3. EnteredBetween(db.movements, SeedTime, now) => EnteredBetween(db.movements, SeedTime, now')
  <2>1. \A m \in DOMAIN db.movements : db.movements[m].at \in Int
    BY DEF Types, DbTypes, IsTable, MovementRows
  <2>2. QED
    BY <1>1, <1>2, <2>1 DEF EnteredBetween
<1>4. QED
  BY <1>1, <1>3 DEF Accounts

LEMMA LedgerKept ==
    ASSUME Types, PristineInv, Accounts(db, now), BackedInv, [Next]_vars
    PROVE  Accounts(db', now') /\ BackedInv'
<1>1. DbTypes(db) /\ now \in Nat
  BY DEF Types
<1>2. CASE ShelvesLeft(db, db')
  <2>1. Accounts(db', now')
    BY <1>2, AccountsLeft DEF ShelvesLeft, Same
  <2>2. Backed(db) => Backed(db')
    BY <1>2 DEF ShelvesLeft, Backed
  <2>3. overwritten => overwritten'
    <3>1. CASE Touches
      BY <3>1, Zenon DEF Touches
    <3>2. CASE RunSeed
      BY <3>2, Zenon DEF RunSeed
    <3>3. CASE Rests
      BY <3>3, Zenon DEF Rests
    <3>4. QED
      BY <3>1, <3>2, <3>3, StepKinds
  <2>4. QED
    BY <2>1, <2>2, <2>3 DEF BackedInv
<1>3. CASE RunSeed /\ Same(db, db', {"movements", "receipts"})
  <2>1. Accounts(db', now')
    BY <1>3, AccountsLeft
  <2>2. ~ overwritten' => ~ overwritten /\ ~ touched
    BY <1>3 DEF RunSeed
  <2>3. ~ touched => db' = db
    BY <1>3, PristineReseed DEF PristineInv
  <2>4. QED
    BY <2>1, <2>2, <2>3 DEF BackedInv
<1>4. ASSUME NEW n \in DOMAIN db.pos, NEW q \in Some(db.pos[n].qty - db.pos[n].got), Receive(n, q)
      PROVE  Accounts(db', now') /\ BackedInv'
  <2>1. now' = now /\ overwritten' = overwritten
    BY <1>4, WorkTouches DEF Touches
  <2>2. Accounts(db', now) /\ (Backed(db) => Backed(db'))
    BY <1>4, ReceiveAccounts
  <2>3. QED
    BY <2>1, <2>2 DEF BackedInv
<1>5. ASSUME NEW n \in DOMAIN db.sos, NEW q \in Some(db.sos[n].reserved), Fulfill(n, q)
      PROVE  Accounts(db', now') /\ BackedInv'
  <2>1. now' = now /\ overwritten' = overwritten
    BY <1>5, WorkTouches DEF Touches
  <2>2. Accounts(db', now) /\ (Backed(db) => Backed(db'))
    BY <1>5, FulfillAccounts
  <2>3. QED
    BY <2>1, <2>2 DEF BackedInv
<1>6. QED
  BY <1>2, <1>3, <1>4, <1>5, LedgerStep

\* A trend over the ledger f: the units received and delivered, bucket by
\* bucket, are those of all its entries.
UnitsOf(f, S) == SumFunctionOnSet([m \in S |-> f[m].delta], S)
OfType(f, S, type) == {m \in S : f[m].type = type}

LEMMA TypesSplit ==
    ASSUME NEW K, NEW f, IsTable(f, K, MovementRows), NEW S, S \subseteq DOMAIN f
    PROVE  /\ UnitsOf(f, OfType(f, S, "RECEIPT")) \in Int
           /\ UnitsOf(f, OfType(f, S, "FULFILLMENT")) \in Int
           /\ UnitsOf(f, S) = UnitsOf(f, OfType(f, S, "RECEIPT"))
                                + UnitsOf(f, OfType(f, S, "FULFILLMENT"))
<1> DEFINE T == OfType(f, S, "RECEIPT")
           U == OfType(f, S, "FULFILLMENT")
           F == [m \in S |-> f[m].delta]
           G == [m \in T |-> f[m].delta]
           H == [m \in U |-> f[m].delta]
<1>1. IsFiniteSet(S) /\ \A m \in S : F[m] \in Int
  BY FS_Subset DEF IsTable, MovementRows
<1>2. T \subseteq S /\ U = S \ T
  BY DEF OfType, IsTable, MovementRows
<1>3. IsFiniteSet(T) /\ IsFiniteSet(U)
  BY <1>1, <1>2, FS_Subset
<1>4. /\ \A m \in T : F[m] \in Int /\ G[m] = F[m]
      /\ \A m \in U : F[m] \in Int /\ H[m] = F[m]
  BY <1>1, <1>2
<1>5. /\ UnitsOf(f, T) = SumFunctionOnSet(G, T) /\ UnitsOf(f, U) = SumFunctionOnSet(H, U)
      /\ UnitsOf(f, S) = SumFunctionOnSet(F, S)
  BY DEF UnitsOf
<1> HIDE DEF F, G, H, T, U
<1>6. SumFunctionOnSet(G, T) = SumFunctionOnSet(F, T)
  BY <1>3, <1>4, SumEqual
<1>7. SumFunctionOnSet(H, U) = SumFunctionOnSet(F, U)
  BY <1>3, <1>4, SumEqual
<1>8. /\ SumFunctionOnSet(F, T) \in Int /\ SumFunctionOnSet(F, U) \in Int
      /\ SumFunctionOnSet(F, S) = SumFunctionOnSet(F, T) + SumFunctionOnSet(F, U)
  BY <1>1, <1>2, SumSplit
<1>9. QED
  BY <1>5, <1>6, <1>7, <1>8 DEF T, U

\* The units of the parts of a ledger are those of the ledger.
LEMMA PartsOfLedger ==
    ASSUME NEW K, NEW f, IsTable(f, K, MovementRows), NEW g
    PROVE  SumFunctionOnSet([b \in PartsOf(DOMAIN f, g) |-> UnitsOf(f, PartOf(DOMAIN f, g, b))],
                            PartsOf(DOMAIN f, g))
               = UnitsOf(f, DOMAIN f)
<1> DEFINE S == DOMAIN f
           F == [m \in S |-> f[m].delta]
           B == PartsOf(S, g)
           P == [b \in B |-> SumFunctionOnSet(F, PartOf(S, g, b))]
           Q == [b \in B |-> UnitsOf(f, PartOf(S, g, b))]
<1>1. IsFiniteSet(S) /\ \A m \in S : F[m] \in Int
  BY DEF IsTable, MovementRows
<1>2. ASSUME NEW b \in B
      PROVE  UnitsOf(f, PartOf(S, g, b)) = SumFunctionOnSet(F, PartOf(S, g, b))
  <2> DEFINE T == PartOf(S, g, b)
             G == [m \in T |-> f[m].delta]
  <2>1. T \subseteq S /\ IsFiniteSet(T)
    BY <1>1, FS_Subset DEF PartOf
  <2>2. \A m \in T : F[m] \in Int /\ G[m] = F[m]
    BY <1>1, <2>1
  <2>3. UnitsOf(f, T) = SumFunctionOnSet(G, T)
    BY DEF UnitsOf
  <2> HIDE DEF F, G, T
  <2>4. SumFunctionOnSet(G, T) = SumFunctionOnSet(F, T)
    BY <2>1, <2>2, SumEqual
  <2>5. QED
    BY <2>3, <2>4 DEF T
<1>3. P = Q
  BY <1>2
<1>4. UnitsOf(f, S) = SumFunctionOnSet(F, S)
  BY DEF UnitsOf
<1> HIDE DEF F
<1>5. SumFunctionOnSet(P, B) = SumFunctionOnSet(F, S)
  BY <1>1, SumPartition
<1>6. QED
  BY <1>3, <1>4, <1>5

\* What the ledger says of the products together is what it says.
LEMMA ProductsTogether ==
    ASSUME NEW K, NEW f, IsTable(f, K, MovementRows)
    PROVE  SumFunctionOnSet([p \in Products |-> LedgerOf(f, p)], Products)
               = UnitsOf(f, DOMAIN f)
<1> DEFINE S == DOMAIN f
           g == [m \in S |-> f[m].product]
           B == PartsOf(S, g)
           L == [p \in Products |-> LedgerOf(f, p)]
           Q == [b \in B |-> UnitsOf(f, PartOf(S, g, b))]
<1>1. B \subseteq Products
  BY DEF IsTable, MovementRows, PartsOf
<1>2. IsFiniteSet(Products)
  <2>1. Products = {"ELEC-001"} \cup {"ELEC-002"} \cup {"ELEC-003"}
    BY DEF Products
  <2>2. QED
    BY <2>1, FS_Singleton, FS_Union
<1>3. \A p \in Products : L[p] \in Int
  BY LedgerType
<1>4. ASSUME NEW p \in Products \ B
      PROVE  L[p] = 0
  <2>1. EntriesOf(f, p) = {}
    BY DEF EntriesOf, PartsOf
  <2>2. QED
    BY <2>1, SumEmpty DEF LedgerOf
<1>5. ASSUME NEW b \in B
      PROVE  Q[b] = L[b]
  <2>1. PartOf(S, g, b) = EntriesOf(f, b)
    BY DEF PartOf, EntriesOf
  <2>2. b \in Products
    BY <1>1
  <2>3. QED
    BY <2>1, <2>2 DEF UnitsOf, LedgerOf
<1>6. SumFunctionOnSet(Q, B) = UnitsOf(f, S)
  BY PartsOfLedger
<1> HIDE DEF Q, L, B, g
<1>7. SumFunctionOnSet(L, Products) = SumFunctionOnSet(L, B)
  BY <1>1, <1>2, <1>3, <1>4, SumWhere
<1>8. SumFunctionOnSet(Q, B) = SumFunctionOnSet(L, B)
  <2>1. IsFiniteSet(B)
    BY <1>1, <1>2, FS_Subset
  <2>2. \A b \in B : L[b] \in Int /\ Q[b] = L[b]
    BY <1>1, <1>3, <1>5
  <2>3. QED
    BY <2>1, <2>2, SumEqual
<1>9. QED
  BY <1>6, <1>7, <1>8 DEF L

LEMMA TrendUnits ==
    ASSUME NEW K, IsTable(db.movements, K, MovementRows), NEW f,
           \A m \in DOMAIN db.movements : InRange(f, db.movements[m].at)
    PROVE  SumOf(MovementTrend(db, f), LAMBDA m : m.inbound - m.outbound)
               = UnitsOf(db.movements, DOMAIN db.movements)
<1> DEFINE mv == db.movements
           S == DOMAIN mv
           g == [m \in S |-> BucketOf(mv[m].at, TrendBucket(f))]
           B == PartsOf(S, g)
           Units(b, type) == UnitsOf(mv, OfType(mv, PartOf(S, g, b), type))
           point == [b \in B |-> [inbound |-> Units(b, "RECEIPT"),
                                  outbound |-> -Units(b, "FULFILLMENT")]]
           trend == MovementTrend(db, f)
           Sums == [b \in B |-> trend[b].inbound - trend[b].outbound]
           Whole == [b \in B |-> UnitsOf(mv, PartOf(S, g, b))]
<1>1. {m \in DOMAIN db.movements : InRange(f, db.movements[m].at)} = S
  OBVIOUS
<1>2. B = {BucketOf(mv[m].at, TrendBucket(f)) : m \in S}
  BY DEF PartsOf
<1>3. \A b : PartOf(S, g, b) = {m \in S : BucketOf(mv[m].at, TrendBucket(f)) = b}
  BY DEF PartOf
<1>4. trend = point
  BY <1>1, <1>2, <1>3 DEF MovementTrend, Trend, Total, UnitsOf, OfType
<1>5. DOMAIN trend = B
  BY <1>4
<1>6. SumOf(trend, LAMBDA m : m.inbound - m.outbound) = SumFunctionOnSet(Sums, B)
  BY <1>5 DEF SumOf, Total
<1>7. ASSUME NEW b \in B
      PROVE  Sums[b] = Whole[b]
  <2> DEFINE P == PartOf(S, g, b)
             i == UnitsOf(mv, OfType(mv, P, "RECEIPT"))
             o == UnitsOf(mv, OfType(mv, P, "FULFILLMENT"))
  <2>1. trend[b].inbound = i /\ trend[b].outbound = -o
    BY <1>4
  <2>2. P \subseteq S
    BY DEF PartOf
  <2>3. i \in Int /\ o \in Int /\ UnitsOf(mv, P) = i + o
    <3> HIDE DEF P, mv
    <3>1. QED
      BY <2>2, TypesSplit DEF mv
  <2> HIDE DEF i, o, trend, P
  <2>4. trend[b].inbound - trend[b].outbound = UnitsOf(mv, P)
    BY <2>1, <2>3
  <2>5. QED
    BY <2>4 DEF P
<1>8. Sums = Whole
  BY <1>7
<1>9. SumFunctionOnSet(Whole, B) = UnitsOf(mv, S)
  <2> HIDE DEF g
  <2>1. QED
    BY PartsOfLedger
<1>10. QED
  BY <1>6, <1>8, <1>9

LEMMA QuarterCovers ==
    ASSUME Types, Accounts(db, now), now <= SeedTime + 90 * Day
    PROVE  \A m \in DOMAIN db.movements :
               InRange(FilterBy(Preset("90d", now), All, All, All), db.movements[m].at)
<1> DEFINE f == FilterBy(Preset("90d", now), All, All, All)
<1>1. now \in Int /\ SeedTime \in Nat
  BY TimesAssumption DEF Types
<1>2. f.from = StartOfDay(now - 90 * Day) /\ f.to = now
  BY DEF FilterBy, Preset, @@
<1>3. StartOfDay(now - 90 * Day) <= now - 90 * Day
  <2> DEFINE t == now - 90 * Day
  <2>1. t \in Int
    BY <1>1 DEF Day
  <2> HIDE DEF t
  <2>2. StartOfDay(t) <= t
    BY <2>1 DEF StartOfDay, Day
  <2>3. QED
    BY <2>2 DEF t
<1>4. f.from <= SeedTime
  <2>1. StartOfDay(now - 90 * Day) \in Int
    BY <1>1 DEF StartOfDay, Day
  <2>2. QED
    BY <1>1, <1>2, <1>3, <2>1 DEF Day
<1>5. f.from \in Int
  BY <1>1, <1>2 DEF StartOfDay, Day
<1> HIDE DEF f
<1>6. ASSUME NEW m \in DOMAIN db.movements
      PROVE  InRange(f, db.movements[m].at)
  <2> DEFINE t == db.movements[m].at
  <2>1. t \in Int
    BY DEF Types, DbTypes, IsTable, MovementRows
  <2>2. SeedTime <= t /\ t <= now
    BY DEF Accounts, EnteredBetween
  <2> HIDE DEF t
  <2>3. InRange(f, t)
    BY <1>1, <1>2, <1>4, <1>5, <2>1, <2>2 DEF InRange, Never
  <2>4. QED
    BY <2>3 DEF t
<1>7. QED
  BY <1>6 DEF f

\* The shelves hold what the ledger says, product by product, and the movement
\* trend of the last quarter adds up to them, as long as the seed was not run
\* over a database in use and the quarter covers all that was entered:
\* LedgerBacksShelves.
THEOREM LedgerBacked == MaxTime <= SeedTime + 90 * Day => (Spec => []LedgerBacksShelves)
<1> SUFFICES ASSUME MaxTime <= SeedTime + 90 * Day
             PROVE  Spec => []LedgerBacksShelves
  OBVIOUS
<1> DEFINE Inv == /\ Types /\ PristineInv /\ Accounts(db, now) /\ BackedInv
                  /\ now <= SeedTime + 90 * Day
<1>1. Init => Inv
  BY TypesInit, PristineInit, LedgerInit DEF PristineInv, BackedInv
<1>2. Inv /\ [Next]_vars => Inv'
  <2> SUFFICES ASSUME Inv, [Next]_vars
               PROVE  Inv'
    OBVIOUS
  <2>1. Types' /\ PristineInv'
    BY TypesStep, PristineStep
  <2>2. Accounts(db, now)' /\ BackedInv'
    BY LedgerKept
  <2>3. (now <= SeedTime + 90 * Day)'
    <3>1. now' = now \/ now' <= MaxTime
      BY StepKinds DEF Touches, RunSeed, Rests
    <3>2. now' \in Nat /\ MaxTime \in Nat /\ SeedTime \in Nat
      BY <2>1, TimesAssumption DEF Types
    <3>3. QED
      BY <3>1, <3>2 DEF Day
  <2>4. QED
    BY <2>1, <2>2, <2>3
<1>3. Inv => LedgerBacksShelves
  <2> SUFFICES ASSUME Inv, ~ overwritten
               PROVE  LedgerBacksShelves
    BY DEF LedgerBacksShelves
  <2> DEFINE f == FilterBy(Preset("90d", now), All, All, All)
             mv == db.movements
             K == {"PO", "SO", "RISK"} \X Nat \X Nat
             H == [p \in Products |-> db.stock[p].onHand]
             L == [p \in Products |-> LedgerOf(mv, p)]
  <2>1. Backed(db) /\ IsTable(mv, K, MovementRows)
    BY DEF BackedInv, Types, DbTypes
  <2>2. \A p \in Products :
            db.stock[p].onHand = Total({m \in DOMAIN db.movements : db.movements[m].product = p},
                                       LAMBDA m : db.movements[m].delta)
    BY <2>1 DEF Backed, LedgerOf, EntriesOf, Total
  <2>3. \A m \in DOMAIN db.movements : InRange(f, db.movements[m].at)
    BY QuarterCovers
  <2> HIDE DEF f, K
  <2>4. SumOf(MovementTrend(db, f), LAMBDA m : m.inbound - m.outbound) = UnitsOf(mv, DOMAIN mv)
    BY <2>1, <2>3, TrendUnits
  <2>5. SumFunctionOnSet(L, Products) = UnitsOf(mv, DOMAIN mv)
    BY <2>1, ProductsTogether
  <2>6. H = L
    BY <2>1 DEF Backed
  <2>7. Total(Products, LAMBDA p : db.stock[p].onHand) = SumFunctionOnSet(H, Products)
    BY DEF Total
  <2>8. QED
    BY <2>2, <2>4, <2>5, <2>6, <2>7 DEF LedgerBacksShelves, f
<1>4. QED
  BY <1>1, <1>2, <1>3, PTL DEF Spec

-----------------------------------------------------------------------------
(* The figures that are counted twice.                                     *)

\* What one table gives a filter is finite, and typed.
LEMMA Rows ==
    ASSUME DbTypes(db), NEW f
    PROVE  /\ IsFiniteSet(DOMAIN db.pos) /\ IsFiniteSet(DOMAIN db.sos)
           /\ IsFiniteSet(DOMAIN db.shipments) /\ IsFiniteSet(DOMAIN db.exceptions)
           /\ IsFiniteSet(PosIn(db, f)) /\ PosIn(db, f) \subseteq DOMAIN db.pos
           /\ \A n \in DOMAIN db.pos : db.pos[n] \in PORows
           /\ \A n \in DOMAIN db.sos : db.sos[n] \in SORows
           /\ \A s \in DOMAIN db.shipments : db.shipments[s] \in ShipmentRows
           /\ \A x \in DOMAIN db.exceptions : db.exceptions[x] \in ExceptionRows
<1>1. /\ IsTable(db.pos, Nat, PORows) /\ IsTable(db.sos, Nat, SORows)
      /\ IsTable(db.shipments, Nat, ShipmentRows)
      /\ IsTable(db.exceptions, Nat \X Kinds, ExceptionRows)
  BY DEF DbTypes
<1>2. PosIn(db, f) \subseteq DOMAIN db.pos
  BY DEF PosIn
<1>3. IsFiniteSet(DOMAIN db.pos)
  BY <1>1 DEF IsTable
<1>4. IsFiniteSet(PosIn(db, f))
  BY <1>2, <1>3, FS_Subset
<1>5. QED
  BY <1>1, <1>2, <1>3, <1>4 DEF IsTable

LEMMA ValueType ==
    ASSUME DbTypes(db), NEW n \in DOMAIN db.pos
    PROVE  ValueOf(db, n) \in Int
<1>1. db.pos[n] \in PORows
  BY Rows
<1>2. db.pos[n].qty \in Nat /\ db.pos[n].cost \in Nat
  BY <1>1 DEF PORows, PORecords
<1>3. QED
  BY <1>2 DEF ValueOf

\* What the purchase orders of a filter are worth.
Spent(f) == SumFunctionOnSet([n \in PosIn(db, f) |-> ValueOf(db, n)], PosIn(db, f))

LEMMA ValueTrendSum ==
    ASSUME DbTypes(db), NEW f
    PROVE  SumOf(ValueTrend(db, f), LAMBDA v : v) = Spent(f)
<1> DEFINE S == PosIn(db, f)
           F == [n \in S |-> ValueOf(db, n)]
           g == [n \in S |-> BucketOf(db.pos[n].ordered, TrendBucket(f))]
           B == PartsOf(S, g)
           trend == ValueTrend(db, f)
           P == [b \in B |-> SumFunctionOnSet([n \in PartOf(S, g, b) |-> ValueOf(db, n)],
                                              PartOf(S, g, b))]
           Points == [b \in DOMAIN trend |-> trend[b]]
<1>1. B = {BucketOf(db.pos[n].ordered, TrendBucket(f)) : n \in S}
  BY DEF PartsOf
<1>2. \A b : PartOf(S, g, b) = {n \in S : BucketOf(db.pos[n].ordered, TrendBucket(f)) = b}
  BY DEF PartOf
<1>3. trend = P
  BY <1>1, <1>2 DEF ValueTrend, Trend, Total
<1>4. SumOf(trend, LAMBDA v : v) = SumFunctionOnSet(Points, DOMAIN trend)
  BY DEF SumOf, Total
<1>5. DOMAIN trend = B /\ Points = P
  BY <1>3
<1>6. IsFiniteSet(S) /\ \A n \in S : F[n] \in Int
  BY Rows, ValueType
<1>7. IsFiniteSet(B) /\ \A n \in S : g[n] \in B
  <2> HIDE DEF g, S
  <2>1. QED
    BY <1>6, PartsFinite
<1>8. ASSUME NEW b \in B
      PROVE  P[b] = SumFunctionOnSet([n \in PartOf(S, g, b) |-> F[n]], PartOf(S, g, b))
  <2>1. \A n \in PartOf(S, g, b) : F[n] = ValueOf(db, n)
    BY DEF PartOf
  <2>2. [n \in PartOf(S, g, b) |-> F[n]] = [n \in PartOf(S, g, b) |-> ValueOf(db, n)]
    <3> HIDE DEF F, S, g
    <3>1. QED
      BY <2>1
  <2>3. QED
    BY <2>2
<1> HIDE DEF P, g, B
<1>9. SumFunctionOnSet(P, B) = SumFunctionOnSet(F, S)
  <2> HIDE DEF F, S
  <2>1. QED
    BY <1>6, <1>7, <1>8, PartsTotal
<1>10. QED
  BY <1>4, <1>5, <1>9 DEF Spent

\* So are the suppliers it asks for: every purchase order is of one of them.
LEMMA SuppliersAsked ==
    ASSUME DbTypes(db), NEW f
    PROVE  LET rows == SupplierRows(db, f)
           IN  /\ IsFiniteSet(DOMAIN rows)
               /\ \A n \in PosIn(db, f) : db.pos[n].supplier \in DOMAIN rows
               /\ \A s \in DOMAIN rows : rows[s] = SupplierRow(db, f, s)
<1> DEFINE B == {s \in SupplierCodes : Asked(f.supplier, s)}
           rows == SupplierRows(db, f)
<1>1. DOMAIN rows = B /\ \A s \in B : rows[s] = SupplierRow(db, f, s)
  BY DEF SupplierRows
<1>2. IsFiniteSet(B)
  <2>1. SupplierCodes = {"SUP-001"} \cup {"SUP-003"}
    BY DEF SupplierCodes
  <2>2. IsFiniteSet(SupplierCodes)
    BY <2>1, FS_Singleton, FS_Union
  <2>3. QED
    BY <2>2, FS_Subset
<1>3. ASSUME NEW n \in PosIn(db, f)
      PROVE  db.pos[n].supplier \in B
  <2>1. n \in DOMAIN db.pos /\ Asked(f.supplier, db.pos[n].supplier)
    BY DEF PosIn
  <2>2. db.pos[n] \in PORows
    BY <2>1, Rows
  <2>3. db.pos[n].supplier \in SupplierCodes
    BY <2>2 DEF PORows, PORecords
  <2>4. QED
    BY <2>1, <2>3
<1>4. QED
  BY <1>1, <1>2, <1>3

LEMMA SpendSum ==
    ASSUME DbTypes(db), NEW f
    PROVE  SumOf(SupplierRows(db, f), LAMBDA r : r.spend) = Spent(f)
<1> DEFINE S == PosIn(db, f)
           F == [n \in S |-> ValueOf(db, n)]
           g == [n \in S |-> db.pos[n].supplier]
           rows == SupplierRows(db, f)
           B == DOMAIN rows
           P == [s \in B |-> rows[s].spend]
<1>1. SumOf(rows, LAMBDA r : r.spend) = SumFunctionOnSet(P, B)
  BY DEF SumOf, Total
<1>2. IsFiniteSet(S) /\ \A n \in S : F[n] \in Int
  BY Rows, ValueType
<1>3. IsFiniteSet(B) /\ \A n \in S : g[n] \in B
  BY SuppliersAsked
<1>4. ASSUME NEW s \in B
      PROVE  P[s] = SumFunctionOnSet([n \in PartOf(S, g, s) |-> F[n]], PartOf(S, g, s))
  <2> DEFINE T == {n \in PosIn(db, f) : db.pos[n].supplier = s}
  <2>1. rows[s] = SupplierRow(db, f, s)
    BY SuppliersAsked
  <2>2. rows[s].spend = SumFunctionOnSet([n \in T |-> ValueOf(db, n)], T)
    BY <2>1 DEF SupplierRow, Total
  <2>3. T = PartOf(S, g, s)
    BY DEF PartOf
  <2>4. [n \in T |-> F[n]] = [n \in T |-> ValueOf(db, n)]
    OBVIOUS
  <2>5. P[s] = rows[s].spend
    OBVIOUS
  <2> HIDE DEF T, P, F, S, g, rows
  <2>6. QED
    BY <2>2, <2>3, <2>4, <2>5
<1> HIDE DEF P, g, B
<1>5. SumFunctionOnSet(P, B) = SumFunctionOnSet(F, S)
  <2> HIDE DEF F, S
  <2>1. QED
    BY <1>2, <1>3, <1>4, PartsTotal
<1>6. QED
  BY <1>1, <1>5 DEF Spent

\* The orders of S in some statuses, counted supplier by supplier.
OpenPos(f) == {n \in PosIn(db, f) : db.pos[n].status \in OPEN_PO_STATUSES}

LEMMA OpenSum ==
    ASSUME DbTypes(db), NEW f
    PROVE  SumOf(SupplierRows(db, f), LAMBDA r : r.open) = Cardinality(OpenPos(f))
<1> DEFINE S == OpenPos(f)
           g == [n \in S |-> db.pos[n].supplier]
           rows == SupplierRows(db, f)
           B == DOMAIN rows
           P == [s \in B |-> rows[s].open]
<1>1. SumOf(rows, LAMBDA r : r.open) = SumFunctionOnSet(P, B)
  BY DEF SumOf, Total
<1>2. S \subseteq PosIn(db, f)
  BY DEF OpenPos
<1>3. IsFiniteSet(S)
  BY <1>2, Rows, FS_Subset
<1>4. IsFiniteSet(B) /\ \A n \in S : g[n] \in B
  BY <1>2, SuppliersAsked
<1>5. ASSUME NEW s \in B
      PROVE  P[s] = Cardinality(PartOf(S, g, s))
  <2> DEFINE T == {n \in {n \in PosIn(db, f) : db.pos[n].supplier = s} :
                      db.pos[n].status \in OPEN_PO_STATUSES}
  <2>1. rows[s] = SupplierRow(db, f, s)
    BY SuppliersAsked
  <2>2. rows[s].open = Cardinality(T)
    <3>1. SupplierRow(db, f, s).open = Cardinality(T)
      BY Zenon DEF SupplierRow, Count
    <3> HIDE DEF T, rows
    <3>2. QED
      BY <2>1, <3>1
  <2>3. T = PartOf(S, g, s)
    BY DEF PartOf, OpenPos
  <2>4. P[s] = rows[s].open
    OBVIOUS
  <2>5. QED
    BY <2>2, <2>3, <2>4
<1> HIDE DEF P, g, B, S
<1>6. SumFunctionOnSet(P, B) = Cardinality(S)
  BY <1>3, <1>4, <1>5, PartsCountUp
<1>7. QED
  BY <1>1, <1>6 DEF S

\* The four lists the Exception Center puts together, by what they are about.
LogisticsKeys(f) == {x \in OpenExceptions(db) : x[1] \in warehouseScoped(db, f)}
OverdueKeys ==
    {n \in DOMAIN db.pos : /\ db.pos[n].status \in OPEN_PO_STATUSES
                           /\ PastDue(db.pos[n].expected, now)}
LateKeys(f) ==
    {n \in SosOf(db, f) : /\ db.sos[n].status \in OPEN_SO_STATUSES
                          /\ PastDue(db.sos[n].requested, now)}
RiskKeys == {p \in DOMAIN InventoryRiskRows(db) : InventoryRiskRows(db)[p].risk # "HEALTHY"}

LogisticsItem(x) ==
    Item("LOGISTICS", <<"SHP", x[1], x[2]>>, db.exceptions[x].severity, db.exceptions[x].at)
OverdueItem(n) == Item("PROCUREMENT", <<"PO", n>>, "WARNING", db.pos[n].expected)
LateItem(n) == Item("FULFILLMENT", <<"SO", n>>, "WARNING", db.sos[n].requested)
RiskItem(p) ==
    Item("INVENTORY", <<"SKU", p>>,
         IF /\ InventoryRiskRows(db)[p].risk = "STOCKOUT" /\ InventoryRiskRows(db)[p].demand > 0
         THEN "CRITICAL" ELSE "WARNING", now)

LogisticsItems(f) == {LogisticsItem(x) : x \in LogisticsKeys(f)}
OverdueItems == {OverdueItem(n) : n \in OverdueKeys}
LateItems(f) == {LateItem(n) : n \in LateKeys(f)}
RiskItems == {RiskItem(p) : p \in RiskKeys}

LEMMA ItemsAre ==
    ASSUME NEW f
    PROVE  Exceptions(db, f, now) = LogisticsItems(f) \cup OverdueItems \cup LateItems(f) \cup RiskItems
BY DEF Exceptions, LogisticsItems, OverdueItems, LateItems, RiskItems, LogisticsItem, OverdueItem,
       LateItem, RiskItem, LogisticsKeys, OverdueKeys, LateKeys, RiskKeys

LEMMA ItemFields ==
    /\ \A x : /\ LogisticsItem(x).domain = "LOGISTICS"
              /\ LogisticsItem(x).of = <<"SHP", x[1], x[2]>>
              /\ LogisticsItem(x).severity = db.exceptions[x].severity
    /\ \A n : /\ OverdueItem(n).domain = "PROCUREMENT" /\ OverdueItem(n).of = <<"PO", n>>
              /\ OverdueItem(n).severity = "WARNING"
    /\ \A n : /\ LateItem(n).domain = "FULFILLMENT" /\ LateItem(n).of = <<"SO", n>>
              /\ LateItem(n).severity = "WARNING"
    /\ \A p : /\ RiskItem(p).domain = "INVENTORY" /\ RiskItem(p).of = <<"SKU", p>>
              /\ RiskItem(p).severity \in {"WARNING", "CRITICAL"}
BY DEF LogisticsItem, OverdueItem, LateItem, RiskItem, Item

LEMMA ItemsOfDomain ==
    ASSUME NEW f
    PROVE  LET items == Exceptions(db, f, now)
           IN  /\ {i \in items : i.domain = "LOGISTICS"} = LogisticsItems(f)
               /\ {i \in items : i.domain = "PROCUREMENT"} = OverdueItems
               /\ {i \in items : i.domain = "INVENTORY"} = RiskItems
<1>1. \A i \in LogisticsItems(f) : i.domain = "LOGISTICS"
  BY ItemFields DEF LogisticsItems
<1>2. \A i \in OverdueItems : i.domain = "PROCUREMENT"
  BY ItemFields DEF OverdueItems
<1>3. \A i \in LateItems(f) : i.domain = "FULFILLMENT"
  BY ItemFields DEF LateItems
<1>4. \A i \in RiskItems : i.domain = "INVENTORY"
  BY ItemFields DEF RiskItems
<1>5. QED
  BY <1>1, <1>2, <1>3, <1>4, ItemsAre

\* No list has an item twice.
LEMMA LogisticsListed ==
    ASSUME DbTypes(db), NEW f
    PROVE  /\ IsFiniteSet(LogisticsItems(f))
           /\ \A i \in LogisticsItems(f) : i.severity \in {"WARNING", "CRITICAL"}
<1> DEFINE S == LogisticsKeys(f)
           h == [x \in S |-> LogisticsItem(x)]
<1>1. S \subseteq DOMAIN db.exceptions /\ DOMAIN db.exceptions \subseteq Nat \X Kinds
  BY DEF LogisticsKeys, OpenExceptions, DbTypes, IsTable
<1>2. IsFiniteSet(S)
  BY <1>1, Rows, FS_Subset
<1>3. ASSUME NEW x \in S, NEW y \in S, h[x] = h[y]
      PROVE  x = y
  <2>1. h[x].of = <<"SHP", x[1], x[2]>> /\ h[y].of = <<"SHP", y[1], y[2]>>
    BY ItemFields
  <2>2. x[1] = y[1] /\ x[2] = y[2]
    <3> HIDE DEF h
    <3>1. QED
      BY <1>3, <2>1
  <2>3. x \in Nat \X Kinds /\ y \in Nat \X Kinds
    BY <1>1
  <2>4. QED
    BY <2>2, <2>3
<1>4. \A i : i \in LogisticsItems(f) <=> \E x \in S : i = h[x]
  BY DEF LogisticsItems
<1>5. ASSUME NEW i \in LogisticsItems(f)
      PROVE  i.severity \in {"WARNING", "CRITICAL"}
  <2>1. PICK x \in S : i = LogisticsItem(x)
    BY DEF LogisticsItems
  <2>2. db.exceptions[x] \in ExceptionRows
    BY <1>1, Rows
  <2>3. i.severity = db.exceptions[x].severity
    BY <2>1, ItemFields
  <2>4. QED
    BY <2>2, <2>3 DEF ExceptionRows
<1>6. DOMAIN h = S /\ h = [x \in S |-> h[x]]
  OBVIOUS
<1> HIDE DEF h, S
<1>7. IsFiniteSet(LogisticsItems(f))
  BY <1>2, <1>3, <1>4, <1>6, CountImage
<1>8. QED
  BY <1>5, <1>7

LEMMA OverdueListed ==
    ASSUME DbTypes(db), NEW T, T \subseteq OverdueKeys
    PROVE  LET items == {OverdueItem(n) : n \in T}
           IN  /\ IsFiniteSet(items) /\ Cardinality(items) = Cardinality(T)
               /\ \A i \in items : i.severity = "WARNING"
<1> DEFINE h == [n \in T |-> OverdueItem(n)]
           items == {OverdueItem(n) : n \in T}
<1>1. IsFiniteSet(T)
  <2>1. T \subseteq DOMAIN db.pos
    BY DEF OverdueKeys
  <2>2. QED
    BY <2>1, Rows, FS_Subset
<1>2. ASSUME NEW m \in T, NEW n \in T, h[m] = h[n]
      PROVE  m = n
  <2>1. h[m].of = <<"PO", m>> /\ h[n].of = <<"PO", n>>
    BY ItemFields
  <2>2. QED
    <3> HIDE DEF h
    <3>1. QED
      BY <1>2, <2>1
<1>3. \A i : i \in items <=> \E n \in T : i = h[n]
  OBVIOUS
<1>4. \A i \in items : i.severity = "WARNING"
  BY ItemFields
<1>5. DOMAIN h = T /\ h = [n \in T |-> h[n]]
  OBVIOUS
<1> HIDE DEF h, items
<1>6. IsFiniteSet(items) /\ Cardinality(items) = Cardinality(T)
  BY <1>1, <1>2, <1>3, <1>5, CountImage
<1>7. QED
  BY <1>4, <1>6 DEF items

LEMMA LateListed ==
    ASSUME DbTypes(db), NEW f
    PROVE  IsFiniteSet(LateItems(f)) /\ \A i \in LateItems(f) : i.severity = "WARNING"
<1> DEFINE S == LateKeys(f)
           h == [n \in S |-> LateItem(n)]
<1>1. IsFiniteSet(S)
  <2>1. S \subseteq DOMAIN db.sos
    BY DEF LateKeys, SosOf
  <2>2. QED
    BY <2>1, Rows, FS_Subset
<1>2. ASSUME NEW m \in S, NEW n \in S, h[m] = h[n]
      PROVE  m = n
  <2>1. h[m].of = <<"SO", m>> /\ h[n].of = <<"SO", n>>
    BY ItemFields
  <2>2. QED
    <3> HIDE DEF h
    <3>1. QED
      BY <1>2, <2>1
<1>3. \A i : i \in LateItems(f) <=> \E n \in S : i = h[n]
  BY DEF LateItems
<1>4. \A i \in LateItems(f) : i.severity = "WARNING"
  BY ItemFields DEF LateItems
<1>5. DOMAIN h = S /\ h = [n \in S |-> h[n]]
  OBVIOUS
<1> HIDE DEF h, S
<1>6. IsFiniteSet(LateItems(f))
  BY <1>1, <1>2, <1>3, <1>5, CountImage
<1>7. QED
  BY <1>4, <1>6

LEMMA RiskListed ==
    ASSUME DbTypes(db)
    PROVE  /\ IsFiniteSet(RiskItems) /\ Cardinality(RiskItems) = Cardinality(RiskKeys)
           /\ \A i \in RiskItems : i.severity \in {"WARNING", "CRITICAL"}
<1> DEFINE S == RiskKeys
           h == [p \in S |-> RiskItem(p)]
<1>1. IsFiniteSet(S)
  <2>1. S \subseteq Products
    BY DEF RiskKeys, InventoryRiskRows, DbTypes
  <2>2. Products = {"ELEC-001"} \cup {"ELEC-002"} \cup {"ELEC-003"}
    BY DEF Products
  <2>3. IsFiniteSet(Products)
    BY <2>2, FS_Singleton, FS_Union
  <2>4. QED
    BY <2>1, <2>3, FS_Subset
<1>2. ASSUME NEW p \in S, NEW q \in S, h[p] = h[q]
      PROVE  p = q
  <2>1. h[p].of = <<"SKU", p>> /\ h[q].of = <<"SKU", q>>
    BY ItemFields
  <2>2. QED
    <3> HIDE DEF h
    <3>1. QED
      BY <1>2, <2>1
<1>3. \A i : i \in RiskItems <=> \E p \in S : i = h[p]
  BY DEF RiskItems
<1>4. \A i \in RiskItems : i.severity \in {"WARNING", "CRITICAL"}
  BY ItemFields DEF RiskItems
<1>5. DOMAIN h = S /\ h = [p \in S |-> h[p]]
  OBVIOUS
<1> HIDE DEF h, S
<1>6. IsFiniteSet(RiskItems) /\ Cardinality(RiskItems) = Cardinality(S)
  BY <1>1, <1>2, <1>3, <1>5, CountImage
<1>7. QED
  BY <1>4, <1>6 DEF S

LEMMA ItemsListed ==
    ASSUME DbTypes(db), NEW f
    PROVE  LET items == Exceptions(db, f, now)
           IN  /\ IsFiniteSet(items)
               /\ \A i \in items : i.severity \in {"WARNING", "CRITICAL"}
<1>1. IsFiniteSet(OverdueItems) /\ \A i \in OverdueItems : i.severity = "WARNING"
  BY OverdueListed DEF OverdueItems
<1>2. IsFiniteSet(LogisticsItems(f) \cup OverdueItems)
  BY <1>1, LogisticsListed, FS_Union
<1>3. IsFiniteSet(LogisticsItems(f) \cup OverdueItems \cup LateItems(f))
  BY <1>2, LateListed, FS_Union
<1>4. IsFiniteSet(LogisticsItems(f) \cup OverdueItems \cup LateItems(f) \cup RiskItems)
  BY <1>3, RiskListed, FS_Union
<1>5. QED
  BY <1>1, <1>4, LogisticsListed, LateListed, RiskListed, ItemsAre

-----------------------------------------------------------------------------
(* The tiles of the Control Tower, for any filter.                         *)

LEMMA TowerParts ==
    ASSUME NEW f
    PROVE  LET tower == ControlTowerSummary(db, f, now)
               items == Exceptions(db, f, now)
           IN  /\ tower.procurement = ProcurementSummary(db, f, now)
               /\ tower.inventory = InventorySummary(db)
               /\ tower.fulfillment = FulfillmentSummary(db, f)
               /\ tower.logistics = LogisticsSummary(db, f)
               /\ tower.critical = Count(Severe(items, "CRITICAL"))
               /\ tower.warning = Count(Severe(items, "WARNING"))
               /\ tower.top = FirstPages(items, 5)
BY DEF ControlTowerSummary

LEMMA OverdueInFilter ==
    ASSUME NEW f
    PROVE  OverduePos(db, f, now) = {n \in OverdueKeys : n \in PosIn(db, f)}
BY DEF OverduePos, OverdueKeys, PosIn

LEMMA ProcurementTile ==
    ASSUME DbTypes(db), NEW f
    PROVE  ProcurementAgrees(f, ControlTowerSummary(db, f, now), Exceptions(db, f, now))
<1> DEFINE tower == ControlTowerSummary(db, f, now)
           items == Exceptions(db, f, now)
           rows == SupplierRows(db, f)
           S == OverduePos(db, f, now)
           T == {i \in items : i.domain = "PROCUREMENT" /\ i.of[2] \in PosIn(db, f)}
<1>1. SumOf(ValueTrend(db, f), LAMBDA v : v) = SumOf(rows, LAMBDA r : r.spend)
  BY ValueTrendSum, SpendSum
<1>2. /\ tower.procurement.open = Cardinality(OpenPos(f))
      /\ tower.procurement.overdue = Cardinality(S)
  <2>1. /\ ProcurementSummary(db, f, now).open = Cardinality(OpenPos(f))
        /\ ProcurementSummary(db, f, now).overdue = Cardinality(S)
    BY DEF ProcurementSummary, OpenPos, Count
  <2>2. tower.procurement = ProcurementSummary(db, f, now)
    BY TowerParts
  <2> HIDE DEF tower, S
  <2>3. QED
    BY <2>1, <2>2
<1>3. SumOf(rows, LAMBDA r : r.open) = tower.procurement.open
  BY <1>2, OpenSum
<1>4. T = {OverdueItem(n) : n \in S}
  <2>1. T = {i \in OverdueItems : i.of[2] \in PosIn(db, f)}
    <3> HIDE DEF items
    <3>1. {i \in items : i.domain = "PROCUREMENT"} = OverdueItems
      BY ItemsOfDomain DEF items
    <3>2. QED
      BY <3>1
  <2>2. S = {n \in OverdueKeys : n \in PosIn(db, f)}
    BY OverdueInFilter
  <2>3. ASSUME NEW n
        PROVE  OverdueItem(n).of[2] = n
    <3>1. OverdueItem(n).of = <<"PO", n>>
      BY ItemFields
    <3>2. QED
      BY <3>1
  <2> HIDE DEF S, T
  <2>4. QED
    BY <2>1, <2>2, <2>3 DEF OverdueItems
<1>5. S \subseteq OverdueKeys
  BY OverdueInFilter
<1> HIDE DEF S, T, rows, items, tower
<1>6. Cardinality(T) = Cardinality(S)
  BY <1>4, <1>5, OverdueListed
<1>7. QED
  BY <1>1, <1>2, <1>3, <1>6, Zenon DEF ProcurementAgrees, Count, T, rows, items, tower

LEMMA FulfillmentTile ==
    ASSUME DbTypes(db), NEW f
    PROVE  FulfillmentAgrees(f, ControlTowerSummary(db, f, now))
<1> DEFINE D == Dated(db, DeliveriesIn(db, f))
           W == Successful(db, D)
           g == [s \in D |-> BucketOf(db.shipments[s].delivered, TrendBucket(f))]
           B == PartsOf(D, g)
           trend == OtifTrend(db, f)
           otif == ControlTowerSummary(db, f, now).fulfillment.otif
           points == [b \in B |-> Otif(db, PartOf(D, g, b))]
           E == [b \in B |-> trend[b].eligible]
           U == [b \in B |-> trend[b].successful]
<1>1. otif = Otif(db, D)
  <2>1. FulfillmentSummary(db, f).otif = Otif(db, D)
    BY DEF FulfillmentSummary
  <2> HIDE DEF D
  <2>2. QED
    BY <2>1, TowerParts
<1>2. \A S : /\ Otif(db, S).eligible = Cardinality(S)
             /\ Otif(db, S).successful = Cardinality(Successful(db, S))
  BY DEF Otif, Count
<1>3. B = {BucketOf(db.shipments[s].delivered, TrendBucket(f)) : s \in D}
  BY DEF PartsOf
<1>4. \A b : PartOf(D, g, b) = {s \in D : BucketOf(db.shipments[s].delivered, TrendBucket(f)) = b}
  BY DEF PartOf
<1>5. trend = points
  BY <1>3, <1>4 DEF OtifTrend, Trend
<1>6. DOMAIN trend = B
  BY <1>5
<1>7. /\ SumOf(trend, LAMBDA p : p.eligible) = SumFunctionOnSet(E, B)
      /\ SumOf(trend, LAMBDA p : p.successful) = SumFunctionOnSet(U, B)
  BY <1>6 DEF SumOf, Total
<1>8. IsFiniteSet(D) /\ W \subseteq D /\ IsFiniteSet(W)
  <2>1. D \subseteq DOMAIN db.shipments /\ W \subseteq D
    BY DEF Dated, DeliveriesIn, Successful
  <2>2. QED
    BY <2>1, Rows, FS_Subset
<1>9. \A b \in B : E[b] = Cardinality(PartOf(D, g, b))
  BY <1>2, <1>5
<1>10. ASSUME NEW b \in B
       PROVE  U[b] = Cardinality(PartOf(W, g, b))
  <2>1. Successful(db, PartOf(D, g, b)) = PartOf(W, g, b)
    BY DEF Successful, PartOf
  <2>2. U[b] = Cardinality(Successful(db, PartOf(D, g, b)))
    BY <1>2, <1>5
  <2>3. QED
    BY <2>1, <2>2
<1> HIDE DEF D, W, g, B, E, U, trend, otif
<1>11. IsFiniteSet(B) /\ \A s \in D : g[s] \in B
  BY <1>8, PartsFinite DEF B
<1>12. SumFunctionOnSet(E, B) = Cardinality(D)
  BY <1>8, <1>9, <1>11, PartsCountUp
<1>13. SumFunctionOnSet(U, B) = Cardinality(W)
  BY <1>8, <1>10, <1>11, PartsCountUp
<1>14. otif.eligible = Cardinality(D) /\ otif.successful = Cardinality(W)
  BY <1>1, <1>2 DEF W
<1>15. QED
  BY <1>7, <1>12, <1>13, <1>14, Zenon DEF FulfillmentAgrees, trend, otif

\* What is open on a shipment is a shipment under way: the exceptions are those
\* of the shipments that need attention.
UnderWay(d, f) ==
    {s \in warehouseScoped(d, f) : d.shipments[s].status \in ACTIVE_STATUSES}
Late(d, f) == {s \in UnderWay(d, f) : <<s, "ETA_EXCEEDED">> \in OpenExceptions(d)}
Attended(d, f) == {s \in UnderWay(d, f) : \E x \in OpenExceptions(d) : x[1] = s}
Heading(d, f, direction) == {s \in UnderWay(d, f) : d.shipments[s].direction = direction}

LEMMA LogisticsParts ==
    ASSUME NEW d, NEW f
    PROVE  /\ LogisticsSummary(d, f).active = Cardinality(UnderWay(d, f))
           /\ LogisticsSummary(d, f).inbound = Cardinality(Heading(d, f, "INBOUND"))
           /\ LogisticsSummary(d, f).outbound = Cardinality(Heading(d, f, "OUTBOUND"))
           /\ LogisticsSummary(d, f).delayed = Cardinality(Late(d, f))
           /\ LogisticsSummary(d, f).attention = Cardinality(Attended(d, f))
BY DEF LogisticsSummary, UnderWay, Heading, Late, Attended, Count

LEMMA LogisticsTile ==
    ASSUME DbTypes(db), ExceptionsAreReal(db, now), NEW f
    PROVE  LogisticsAgrees(ControlTowerSummary(db, f, now), Exceptions(db, f, now))
<1> DEFINE tower == ControlTowerSummary(db, f, now)
           items == Exceptions(db, f, now)
           A == UnderWay(db, f)
           I == Heading(db, f, "INBOUND")
           O == Heading(db, f, "OUTBOUND")
           N == Attended(db, f)
           L == Late(db, f)
           T == {i.of[2] : i \in {i \in items : i.domain = "LOGISTICS"}}
<1>1. /\ tower.logistics.active = Cardinality(A)
      /\ tower.logistics.inbound = Cardinality(I) /\ tower.logistics.outbound = Cardinality(O)
      /\ tower.logistics.delayed = Cardinality(L) /\ tower.logistics.attention = Cardinality(N)
  <2>1. tower.logistics = LogisticsSummary(db, f)
    BY TowerParts
  <2> HIDE DEF tower
  <2>2. QED
    BY <2>1, LogisticsParts
<1>2. IsFiniteSet(A)
  <2>1. A \subseteq DOMAIN db.shipments
    BY DEF UnderWay, warehouseScoped
  <2>2. QED
    BY <2>1, Rows, FS_Subset
<1>3. A \ I = O /\ I \subseteq A
  <2>1. \A s \in A : db.shipments[s].direction \in {"INBOUND", "OUTBOUND"}
    <3>1. \A s \in A : s \in DOMAIN db.shipments
      BY DEF UnderWay, warehouseScoped
    <3>2. \A s \in A : db.shipments[s] \in ShipmentRows
      BY <3>1, Rows
    <3>3. QED
      BY <3>2 DEF ShipmentRows
  <2>2. QED
    BY <2>1 DEF Heading
<1>4. Cardinality(L) <= Cardinality(N)
  <2>1. L \subseteq N /\ N \subseteq A
    BY DEF Late, Attended
  <2>2. IsFiniteSet(N)
    BY <1>2, <2>1, FS_Subset
  <2>3. QED
    BY <2>1, <2>2, FS_Subset
<1>5. T = N
  <2>1. T = {x[1] : x \in LogisticsKeys(f)}
    <3>1. ASSUME NEW x
          PROVE  LogisticsItem(x).of[2] = x[1]
      <4>1. LogisticsItem(x).of = <<"SHP", x[1], x[2]>>
        BY ItemFields
      <4>2. QED
        BY <4>1
    <3>2. {i \in items : i.domain = "LOGISTICS"} = LogisticsItems(f)
      BY ItemsOfDomain
    <3> HIDE DEF items
    <3>3. T = {i.of[2] : i \in LogisticsItems(f)}
      BY <3>2
    <3>4. T = {LogisticsItem(x).of[2] : x \in LogisticsKeys(f)}
      <4> HIDE DEF T
      <4>1. QED
        BY <3>3, Zenon DEF LogisticsItems
    <3> HIDE DEF T
    <3>5. QED
      BY <3>1, <3>4
  <2>2. ASSUME NEW x \in OpenExceptions(db)
        PROVE  x[1] \in warehouseScoped(db, f) => x[1] \in A
    <3>1. x \in DOMAIN db.exceptions /\ db.exceptions[x].open
      BY DEF OpenExceptions
    <3>2. db.shipments[x[1]].status \in ACTIVE_STATUSES
      BY <3>1 DEF ExceptionsAreReal, IsReal
    <3>3. QED
      BY <3>2 DEF UnderWay
  <2>3. A \subseteq warehouseScoped(db, f)
    BY DEF UnderWay
  <2>4. QED
    BY <2>1, <2>2, <2>3 DEF LogisticsKeys, Attended
<1> HIDE DEF tower, items, A, I, O, N, L, T
<1>6. Cardinality(A) = Cardinality(I) + Cardinality(O)
  BY <1>2, <1>3, CountSplit
<1>7. QED
  BY <1>1, <1>4, <1>5, <1>6 DEF LogisticsAgrees, Count, items, T, tower

LEMMA InventoryTile ==
    ASSUME DbTypes(db), NEW f
    PROVE  InventoryAgrees(ControlTowerSummary(db, f, now), Exceptions(db, f, now))
<1> DEFINE tower == ControlTowerSummary(db, f, now)
           items == Exceptions(db, f, now)
<1>1. tower.inventory.atRisk = Cardinality(RiskKeys)
  <2>1. InventorySummary(db).atRisk = Cardinality(RiskKeys)
    BY DEF InventorySummary, RiskKeys, Count
  <2>2. tower.inventory = InventorySummary(db)
    BY TowerParts
  <2> HIDE DEF tower
  <2>3. QED
    BY <2>1, <2>2
<1>2. {i \in items : i.domain = "INVENTORY"} = RiskItems
  BY ItemsOfDomain
<1>3. Cardinality(RiskItems) = Cardinality(RiskKeys)
  BY RiskListed
<1> HIDE DEF tower, items
<1>4. QED
  BY <1>1, <1>2, <1>3 DEF InventoryAgrees, Count, tower, items

LEMMA LesserOf ==
    ASSUME NEW a \in Nat, NEW b \in Nat
    PROVE  Min({a, b}) = IF a <= b THEN a ELSE b
BY DEF Min

\* The most severe items come first: a page has as many as there are, or
\* nothing else.
LEMMA WorstFirst ==
    ASSUME NEW items, IsFiniteSet(items), NEW page \in FirstPages(items, 5)
    PROVE  Count(Severe(page, "CRITICAL")) = Min({5, Count(Severe(items, "CRITICAL"))})
<1> DEFINE C == Severe(items, "CRITICAL")
           D == Severe(page, "CRITICAL")
           m == Min({5, Cardinality(items)})
<1>1. /\ page \subseteq items /\ Cardinality(page) = m
      /\ \A i \in page, j \in items \ page : ~ Worse(j, i)
  BY DEF FirstPages, kSubset, Count
<1>2. /\ IsFiniteSet(page) /\ Cardinality(page) \in Nat /\ Cardinality(items) \in Nat
      /\ Cardinality(page) <= Cardinality(items)
      /\ (page # items => Cardinality(page) # Cardinality(items))
  BY <1>1, FS_Subset, FS_CardinalityType
<1>3. m = IF 5 <= Cardinality(items) THEN 5 ELSE Cardinality(items)
  BY <1>2, LesserOf
<1>4. C \subseteq items /\ D \subseteq C /\ D \subseteq page
  BY <1>1 DEF Severe
<1>5. /\ IsFiniteSet(C) /\ Cardinality(C) \in Nat
      /\ IsFiniteSet(D) /\ Cardinality(D) \in Nat /\ Cardinality(D) <= Cardinality(C)
      /\ (D # C => Cardinality(D) # Cardinality(C))
  BY <1>4, FS_Subset, FS_CardinalityType
<1> HIDE DEF m
<1>6. CASE C \subseteq page
  <2>1. D = C
    BY <1>1, <1>6 DEF Severe
  <2>2. Cardinality(C) <= Cardinality(page)
    BY <1>2, <1>6, FS_Subset
  <2>3. Cardinality(C) <= 5
    BY <1>1, <1>2, <1>3, <1>5, <2>2
  <2> HIDE DEF C, D
  <2>4. Min({5, Cardinality(C)}) = Cardinality(C)
    BY <1>5, <2>3, LesserOf
  <2>5. QED
    BY <2>1, <2>4 DEF Count, C, D
<1>7. CASE ~ (C \subseteq page)
  <2>1. PICK c \in C : c \notin page
    BY <1>7
  <2>2. c \in items \ page /\ c.severity = "CRITICAL"
    BY <2>1 DEF Severe
  <2>3. ASSUME NEW i \in page
        PROVE  i.severity = "CRITICAL"
    <3>1. ~ Worse(c, i)
      BY <1>1, <2>2
    <3>2. ~ (severityRank(c.severity) > severityRank(i.severity))
      BY <3>1 DEF Worse
    <3>3. severityRank(c.severity) = 2
      BY <2>2 DEF severityRank
    <3>4. i.severity # "CRITICAL" => severityRank(i.severity) \in {0, 1}
      BY DEF severityRank
    <3>5. QED
      BY <3>2, <3>3, <3>4
  <2>4. D = page
    BY <2>3 DEF Severe
  <2>5. page # items
    BY <2>2
  <2>6. Cardinality(page) = 5
    BY <1>1, <1>2, <1>3, <2>5
  <2> HIDE DEF C, D
  <2>7. Cardinality(D) = 5 /\ 5 <= Cardinality(C)
    BY <1>5, <2>4, <2>6
  <2>8. Min({5, Cardinality(C)}) = 5
    BY <1>5, <2>7, LesserOf
  <2>9. QED
    BY <2>7, <2>8 DEF Count, C, D
<1>8. QED
  BY <1>6, <1>7

LEMMA TopTile ==
    ASSUME DbTypes(db), NEW f
    PROVE  TopAgrees(ControlTowerSummary(db, f, now), Exceptions(db, f, now))
<1> DEFINE tower == ControlTowerSummary(db, f, now)
           items == Exceptions(db, f, now)
           C == Severe(items, "CRITICAL")
           W == Severe(items, "WARNING")
<1>1. /\ tower.critical = Cardinality(C) /\ tower.warning = Cardinality(W)
      /\ tower.top = FirstPages(items, 5)
  BY TowerParts DEF Count
<1>2. IsFiniteSet(items) /\ \A i \in items : i.severity \in {"WARNING", "CRITICAL"}
  BY ItemsListed
<1> HIDE DEF items, tower
<1>3. C \subseteq items /\ W = items \ C
  BY <1>2 DEF Severe
<1> HIDE DEF C, W
<1>4. Cardinality(C) + Cardinality(W) = Cardinality(items)
  BY <1>2, <1>3, CountSplit
<1>5. \A page \in tower.top : Count(Severe(page, "CRITICAL")) = Min({5, tower.critical})
  BY <1>1, <1>2, WorstFirst DEF Count, C
<1>6. QED
  BY <1>1, <1>4, <1>5 DEF TopAgrees, Count, tower, items

-----------------------------------------------------------------------------
(* When the documents were dated.                                          *)

\* An order is not older than the oldest fixture and not of the future, and
\* one that is received is received whole.
OrderedBetween(t, time) == SeedTime <= t + 40 * Day /\ t <= time
Whole(r) == r.status = "RECEIVED" => r.got = r.qty
Dealt(d, time) ==
    /\ \A n \in DOMAIN d.pos : OrderedBetween(d.pos[n].ordered, time) /\ Whole(d.pos[n])
    /\ \A n \in DOMAIN d.sos : OrderedBetween(d.sos[n].ordered, time)

\* What makes a row of the seed's good.
GoodPOs(f, time) == \A n \in DOMAIN f : OrderedBetween(f[n].ordered, time) /\ Whole(f[n])
GoodSOs(f, time) == \A n \in DOMAIN f : OrderedBetween(f[n].ordered, time)

LEMMA GoodJoin ==
    ASSUME NEW time, NEW f, NEW g
    PROVE  /\ GoodPOs(f, time) /\ GoodPOs(g, time) => GoodPOs(f @@ g, time)
           /\ GoodSOs(f, time) /\ GoodSOs(g, time) => GoodSOs(f @@ g, time)
BY DEF GoodPOs, GoodSOs, @@

LEMMA GoodPO ==
    ASSUME NEW time, NEW n, NEW supplier, NEW status, NEW ordered, NEW expected, NEW approved,
           NEW product, NEW qty, NEW got, NEW cost,
           OrderedBetween(ordered, time), status = "RECEIVED" => got = qty
    PROVE  GoodPOs(n :> PO(supplier, status, ordered, expected, approved, product, qty, got, cost),
                   time)
BY DEF GoodPOs, Whole, PO, :>

LEMMA GoodSO ==
    ASSUME NEW time, NEW n, NEW customer, NEW status, NEW ordered, NEW requested, NEW product,
           NEW qty, NEW fulfilled, OrderedBetween(ordered, time)
    PROVE  GoodSOs(n :> SO(customer, status, ordered, requested, product, qty, fulfilled), time)
BY DEF GoodSOs, SO, :>

LEMMA SeedDates ==
    SeedTime \in Nat => \A d \in 0 .. 31 : OrderedBetween(SeedTime - d * Day, SeedTime)
BY DEF OrderedBetween, Day

LEMMA SeededDealt ==
    ASSUME SeedTime \in Nat
    PROVE  GoodPOs(SeedPOs(SeedTime), SeedTime) /\ GoodSOs(SeedSOs(SeedTime), SeedTime)
<1> DEFINE t == SeedTime
           ago(d) == t - d * Day
<1>1. /\ OrderedBetween(t, t) /\ OrderedBetween(ago(3), t) /\ OrderedBetween(ago(4), t)
      /\ OrderedBetween(ago(8), t) /\ OrderedBetween(ago(12), t) /\ OrderedBetween(ago(15), t)
      /\ OrderedBetween(ago(26), t) /\ OrderedBetween(ago(31), t)
  BY SeedDates DEF OrderedBetween, Day
<1>2. GoodPOs(DemoPO(t), t) /\ GoodPOs(VisibilityPO(t), t) /\ GoodPOs(RiskPO(t), t)
  BY <1>1, GoodPO DEF DemoPO, VisibilityPO, RiskPO
<1>3. GoodPOs(FixturePOs(t), t)
  BY <1>1, GoodPO, GoodJoin DEF FixturePOs
<1>4. GoodPOs(SeedPOs(t), t)
  BY <1>2, <1>3, GoodJoin DEF SeedPOs
<1>5. GoodSOs(DemoSO(t), t) /\ GoodSOs(OtifSOs(t), t)
  BY <1>1, GoodSO, GoodJoin DEF DemoSO, OtifSOs
<1>6. \A n, p, qty : GoodSOs(n :> RiskSO(t, p, qty), t)
  BY <1>1, GoodSO DEF RiskSO
<1>7. GoodSOs(SeedSOs(t), t)
  BY <1>5, <1>6, GoodJoin DEF SeedSOs
<1>8. QED
  BY <1>4, <1>7

LEMMA DealtInit == Init => Dealt(db, now)
<1> SUFFICES ASSUME Init
             PROVE  Dealt(db, now)
  OBVIOUS
<1>1. now = SeedTime /\ SeedTime \in Nat /\ db = Seeded(EmptyDb, now)
  BY TimesAssumption DEF Init
<1>2. db.pos = EmptyDb.pos @@ SeedPOs(now) /\ db.sos = EmptyDb.sos @@ SeedSOs(now)
  BY <1>1, SeededEffect
<1>3. DOMAIN EmptyDb.pos = {} /\ DOMAIN EmptyDb.sos = {}
  BY DEF EmptyDb
<1>4. GoodPOs(EmptyDb.pos, now) /\ GoodSOs(EmptyDb.sos, now)
  BY <1>3 DEF GoodPOs, GoodSOs
<1>5. GoodPOs(db.pos, now) /\ GoodSOs(db.sos, now)
  BY <1>1, <1>2, <1>4, SeededDealt, GoodJoin
<1>6. QED
  BY <1>5 DEF Dealt, GoodPOs, GoodSOs

\* A row is replaced by one that is as old, or is added now.
LEMMA DealtReplaced ==
    ASSUME NEW f, NEW g, NEW n \in DOMAIN f, NEW row, Replaced(f, g, n, row),
           row.ordered = f[n].ordered
    PROVE  /\ GoodPOs(f, now) /\ Whole(row) => GoodPOs(g, now)
           /\ GoodSOs(f, now) => GoodSOs(g, now)
BY DEF Replaced, GoodPOs, GoodSOs

LEMMA GoodLater ==
    ASSUME now \in Nat, NEW time \in Nat, now <= time, DbTypes(db), Dealt(db, now)
    PROVE  Dealt(db, time)
<1>1. \A n \in DOMAIN db.pos : db.pos[n].ordered \in Int
  BY Rows DEF PORows, PORecords
<1>2. \A n \in DOMAIN db.sos : db.sos[n].ordered \in Int
  BY Rows DEF SORows, SORecords
<1>3. \A t \in Int : OrderedBetween(t, now) => OrderedBetween(t, time)
  BY DEF OrderedBetween
<1>4. QED
  BY <1>1, <1>2, <1>3 DEF Dealt

LEMMA DealtMoved ==
    ASSUME Types, Dealt(db, now), NEW n \in DOMAIN db.pos, NEW status \in Moves, NEW approved,
           MovePO(n, status, approved)
    PROVE  Dealt(db', now)
<1> DEFINE po == db.pos[n]
           row == MovedTo(po, status, approved)
<1>1. DbTypes(db) /\ GoodPOs(db.pos, now) /\ GoodSOs(db.sos, now)
  BY DEF Types, Dealt, GoodPOs, GoodSOs
<1>2. po \in PORecords
  BY <1>1, Rows DEF PORows
<1>3. Same(db, db', TableNames \ {"pos"}) /\ Replaced(db.pos, db'.pos, n, row)
  BY <1>1, MoveEffect DEF Replaced
<1>4. row.ordered = po.ordered /\ row.status = status
  BY <1>2 DEF PORecords, MovedTo
<1>5. Whole(row)
  BY <1>4 DEF Whole, Moves
<1> HIDE DEF row
<1>6. GoodPOs(db'.pos, now) /\ db'.sos = db.sos
  BY <1>1, <1>3, <1>4, <1>5, DealtReplaced DEF Same, TableNames
<1>7. QED
  BY <1>1, <1>6 DEF Dealt, GoodPOs, GoodSOs

LEMMA DealtPurchasing ==
    ASSUME Types, Dealt(db, now), NEW n \in DOMAIN db.pos,
           \/ \E status \in Moves : \E approved \in Int : MovePO(n, status, approved)
           \/ Ship(n)
           \/ \E q \in Some(db.pos[n].qty - db.pos[n].got) : Receive(n, q)
    PROVE  Dealt(db', now)
<1> DEFINE po == db.pos[n]
<1>1. DbTypes(db) /\ GoodPOs(db.pos, now) /\ GoodSOs(db.sos, now)
  BY DEF Types, Dealt, GoodPOs, GoodSOs
<1>2. po \in PORows /\ po.qty \in Nat /\ po.got \in Nat /\ po.got <= po.qty
  BY <1>1, Rows DEF PORows, PORecords
<1>3. ASSUME NEW row, Replaced(db.pos, db'.pos, n, row), db'.sos = db.sos,
             row.ordered = po.ordered, Whole(row)
      PROVE  Dealt(db', now)
  <2>1. GoodPOs(db'.pos, now) /\ GoodSOs(db'.sos, now)
    BY <1>1, <1>3, DealtReplaced
  <2>2. QED
    BY <2>1 DEF Dealt, GoodPOs, GoodSOs
<1>4. ASSUME NEW status \in Moves, NEW approved \in Int, MovePO(n, status, approved)
      PROVE  Dealt(db', now)
  BY <1>4, DealtMoved
<1>5. CASE Ship(n)
  <2> DEFINE row == [po EXCEPT !.status = "SHIPPED"]
  <2>1. Replaced(db.pos, db'.pos, n, row) /\ db'.sos = db.sos
    BY <1>1, <1>5, ShipEffect DEF Same, TableNames, Replaced
  <2>2. row.ordered = po.ordered /\ row.status = "SHIPPED"
    BY <1>2 DEF PORows, PORecords
  <2>3. Whole(row)
    BY <2>2 DEF Whole
  <2> HIDE DEF row
  <2>4. QED
    BY <1>3, <2>1, <2>2, <2>3
<1>6. ASSUME NEW q \in Some(po.qty - po.got), Receive(n, q)
      PROVE  Dealt(db', now)
  <2> DEFINE to == IF po.got + q >= po.qty THEN "RECEIVED" ELSE "PARTIALLY_RECEIVED"
             row == [po EXCEPT !.got = @ + q, !.status = to]
  <2>1. Replaced(db.pos, db'.pos, n, row) /\ db'.sos = db.sos
    BY <1>1, <1>6, ReceiveEffect DEF Same, TableNames, Replaced
  <2>2. /\ row.ordered = po.ordered /\ row.status = to
        /\ row.got = po.got + q /\ row.qty = po.qty
    BY <1>2 DEF PORows, PORecords
  <2>3. q \in Nat /\ q <= po.qty - po.got
    BY <1>2, SomeUnits
  <2>4. to = "RECEIVED" => po.got + q = po.qty
    BY <1>2, <2>3
  <2> HIDE DEF row, to
  <2>5. Whole(row)
    BY <2>2, <2>4 DEF Whole
  <2>6. QED
    BY <1>3, <2>1, <2>2, <2>5
<1>7. QED
  BY <1>4, <1>5, <1>6

LEMMA DealtSelling ==
    ASSUME Types, Dealt(db, now), NEW n \in DOMAIN db.sos, NEW q,
           Confirm(n) \/ Allocate(n) \/ CancelSO(n) \/ Fulfill(n, q)
    PROVE  Dealt(db', now)
<1> DEFINE so == db.sos[n]
<1>1. DbTypes(db) /\ GoodPOs(db.pos, now) /\ GoodSOs(db.sos, now)
  BY DEF Types, Dealt, GoodPOs, GoodSOs
<1>2. so \in SORecords
  BY <1>1, Rows DEF SORows
<1>3. ASSUME NEW row, Replaced(db.sos, db'.sos, n, row), db'.pos = db.pos,
             row.ordered = so.ordered
      PROVE  Dealt(db', now)
  <2>1. GoodSOs(db'.sos, now) /\ GoodPOs(db'.pos, now)
    BY <1>1, <1>3, DealtReplaced
  <2>2. QED
    BY <2>1 DEF Dealt, GoodPOs, GoodSOs
<1>4. CASE Confirm(n)
  <2> DEFINE row == [so EXCEPT !.status = "CONFIRMED"]
  <2>1. Replaced(db.sos, db'.sos, n, row) /\ db'.pos = db.pos
    BY <1>1, <1>4, ConfirmEffect DEF Same, TableNames, Replaced
  <2>2. row.ordered = so.ordered
    BY <1>2 DEF SORecords
  <2> HIDE DEF row
  <2>3. QED
    BY <1>3, <2>1, <2>2
<1>5. CASE Allocate(n)
  <2> DEFINE row == [so EXCEPT !.status = "ALLOCATED", !.reserved = so.qty]
  <2>1. Replaced(db.sos, db'.sos, n, row) /\ db'.pos = db.pos
    BY <1>1, <1>5, AllocateEffect DEF Same, TableNames, Replaced
  <2>2. row.ordered = so.ordered
    BY <1>2 DEF SORecords
  <2> HIDE DEF row
  <2>3. QED
    BY <1>3, <2>1, <2>2
<1>6. CASE CancelSO(n)
  <2> DEFINE row == [so EXCEPT !.status = "CANCELLED", !.reserved = 0]
  <2>1. Replaced(db.sos, db'.sos, n, row) /\ db'.pos = db.pos
    BY <1>1, <1>6, CancelEffect DEF Same, TableNames, Replaced
  <2>2. row.ordered = so.ordered
    BY <1>2 DEF SORecords
  <2> HIDE DEF row
  <2>3. QED
    BY <1>3, <2>1, <2>2
<1>7. CASE Fulfill(n, q)
  <2> DEFINE done == so.fulfilled + q
             to == IF done >= so.qty THEN "FULFILLED" ELSE "PARTIALLY_FULFILLED"
             row == [so EXCEPT !.fulfilled = done, !.reserved = @ - q, !.status = to]
  <2>1. Replaced(db.sos, db'.sos, n, row) /\ db'.pos = db.pos
    BY <1>1, <1>7, FulfillEffect DEF Same, TableNames, Replaced
  <2>2. row.ordered = so.ordered
    BY <1>2 DEF SORecords
  <2> HIDE DEF row, to
  <2>3. QED
    BY <1>3, <2>1, <2>2
<1>8. QED
  BY <1>4, <1>5, <1>6, <1>7

LEMMA DealtStep ==
    ASSUME Types, Dealt(db, now), [Next]_vars
    PROVE  Dealt(db', now')
<1>1. DbTypes(db) /\ Fixtures(db) /\ now \in Nat /\ SeedTime \in Nat /\ SeedTime <= now
  BY TimesAssumption DEF Types
<1>2. ASSUME Same(db, db', {"pos", "sos"}), now' = now
      PROVE  Dealt(db', now')
  BY <1>2 DEF Same, Dealt
<1>3. CASE CreatePO
  <2> DEFINE n == NextNumber("PO")
             row == PO("SUP-003", "DRAFT", now, now + Day, Never, "ELEC-002", 600, 0, 45)
  <2>1. db'.pos = (n :> row) @@ db.pos /\ db'.sos = db.sos
    BY <1>1, <1>3, CreateEffect DEF Same, TableNames
  <2>2. OrderedBetween(now, now)
    BY <1>1 DEF OrderedBetween, Day
  <2>3. GoodPOs(n :> row, now)
    BY <2>2, GoodPO
  <2> HIDE DEF n, row
  <2>4. GoodPOs(db.pos, now)
    BY DEF Dealt, GoodPOs
  <2>5. GoodPOs(db'.pos, now)
    BY <2>1, <2>3, <2>4, GoodJoin
  <2>6. now' = now
    BY <1>3, WorkTouches DEF Touches
  <2>7. QED
    BY <2>1, <2>5, <2>6 DEF Dealt, GoodPOs
<1>4. ASSUME NEW n \in DOMAIN db.pos,
             \/ \E status \in Moves : \E approved \in Int : MovePO(n, status, approved)
             \/ Ship(n)
             \/ \E q \in Some(db.pos[n].qty - db.pos[n].got) : Receive(n, q)
      PROVE  Dealt(db', now')
  <2>1. now' = now
    BY <1>4, WorkTouches DEF Touches
  <2>2. QED
    BY <1>4, <2>1, DealtPurchasing
<1>5. ASSUME NEW n \in DOMAIN db.sos, NEW q,
             Confirm(n) \/ Allocate(n) \/ CancelSO(n) \/ Fulfill(n, q)
      PROVE  Dealt(db', now')
  <2>1. now' = now
    BY <1>5, WorkTouches DEF Touches
  <2>2. QED
    BY <1>5, <2>1, DealtSelling
<1>6. ASSUME NEW n \in DOMAIN db.sos, Dispatch(n)
      PROVE  Dealt(db', now')
  <2>1. now' = now
    BY <1>6, WorkTouches DEF Touches
  <2>2. Same(db, db', {"pos", "sos"})
    BY <1>1, <1>6, DispatchEffect DEF Same, TableNames
  <2>3. QED
    BY <1>2, <2>1, <2>2
<1>7. ASSUME NEW s \in DOMAIN db.shipments, NEW v, Rewrites(s, v), Touches
      PROVE  Dealt(db', now')
  <2>1. Same(db, db', {"pos", "sos"}) /\ now' = now
    BY <1>7 DEF Rewrites, Same, TableNames, Touches
  <2>2. QED
    BY <1>2, <2>1
<1>8. CASE RunSeed
  <2>1. Same(db, db', {"pos", "sos"})
    BY <1>1, <1>8, ReseedEffect DEF Same, TableNames
  <2>2. now' = now
    BY <1>8 DEF RunSeed
  <2>3. QED
    BY <1>2, <2>1, <2>2
<1>9. CASE Rests
  <2>1. db' = db /\ now' \in Nat /\ now <= now'
    BY <1>9 DEF Rests
  <2>2. QED
    BY <1>1, <2>1, GoodLater
<1>10. QED
  BY <1>1, <1>3, <1>4, <1>5, <1>6, <1>7, <1>8, <1>9, StepCases

-----------------------------------------------------------------------------
(* The list of the shipments, which evaluates every one of them.           *)

\* What is due is open, and what was open on other shipments stays so.
LEMMA ReviewedOpens ==
    ASSUME NEW x, IsTable(x, Nat \X Kinds, ExceptionRows), NEW s \in Nat, NEW v, NEW time
    PROVE  LET r == Reviewed(x, s, v, time)
           IN  /\ \A y \in Due(s, v, time) : y \in DOMAIN r /\ r[y].open
               /\ \A y \in DOMAIN x : y[1] # s /\ x[y].open => y \in DOMAIN r /\ r[y].open
<1> DEFINE a == [y \in Due(s, v, time) |-> DueRow(x, y, v, time)]
           b == Kept(x, s)
           r == Reviewed(x, s, v, time)
<1>1. r = a @@ b
  BY DEF Reviewed
<1>2. ASSUME NEW y \in Due(s, v, time)
      PROVE  y \in DOMAIN r /\ r[y].open
  <2>1. y \in DOMAIN r /\ r[y] = DueRow(x, y, v, time)
    BY <1>1 DEF @@
  <2>2. DueRow(x, y, v, time).open
    <3>1. CASE y \in DOMAIN x /\ x[y].open
      <4>1. x[y] \in ExceptionRows
        BY <3>1 DEF IsTable
      <4>2. DueRow(x, y, v, time) = [x[y] EXCEPT !.severity = Wanted(v, time)[y[2]]]
        BY <3>1 DEF DueRow
      <4>3. DueRow(x, y, v, time).open = x[y].open
        <5> DEFINE row == x[y]
        <5> HIDE DEF row
        <5>1. [row EXCEPT !.severity = Wanted(v, time)[y[2]]].open = row.open
          <6>1. row \in ExceptionRows
            BY <4>1 DEF row
          <6>2. QED
            BY <6>1 DEF ExceptionRows
        <5>2. QED
          BY <4>2, <5>1 DEF row
      <4>4. QED
        BY <3>1, <4>3
    <3>2. CASE ~ (y \in DOMAIN x /\ x[y].open)
      BY <3>2 DEF DueRow
    <3>3. QED
      BY <3>1, <3>2
  <2> HIDE DEF r
  <2>3. QED
    BY <2>1, <2>2
<1>3. ASSUME NEW y \in DOMAIN x, y[1] # s, x[y].open
      PROVE  y \in DOMAIN r /\ r[y].open
  <2>1. y \notin Due(s, v, time)
    BY <1>3, DueKeys
  <2>2. DOMAIN b = DOMAIN x /\ b[y] = [x[y] EXCEPT !.open = @ /\ y[1] # s]
    BY DEF Kept
  <2>3. b[y].open
    <3>1. x[y] \in ExceptionRows
      BY DEF IsTable
    <3>2. QED
      BY <1>3, <2>2, <3>1 DEF ExceptionRows
  <2>4. y \in DOMAIN r /\ r[y] = b[y]
    <3> HIDE DEF b
    <3>1. QED
      BY <1>1, <2>1, <2>2 DEF @@
  <2> HIDE DEF r, b
  <2>5. QED
    BY <2>3, <2>4
<1> HIDE DEF r
<1>4. QED
  BY <1>2, <1>3 DEF r

\* What the list has done so far: nothing but to exceptions, which are of
\* shipments that are under way, and no delay is taken for resolved.
Listing(d) ==
    /\ d = [t \in TableNames |-> d[t]]
    /\ Same(db, d, TableNames \ {"exceptions"})
    /\ IsTable(d.exceptions, Nat \X Kinds, ExceptionRows)
    /\ ExceptionsAreReal(d, now)
    /\ \A x \in OpenExceptions(db) : x[2] = "ETA_EXCEEDED" => x \in OpenExceptions(d)

LEMMA ListingStarts ==
    ASSUME DbTypes(db), ExceptionsAreReal(db, now)
    PROVE  Listing(db)
BY DEF Listing, DbTypes, Same

LEMMA DelayIsDue ==
    ASSUME NEW s, NEW v, v.status \in ACTIVE_STATUSES, v.eta \in Int, PastDue(v.eta, now), now \in Int
    PROVE  <<s, "ETA_EXCEEDED">> \in Due(s, v, now)
<1>1. v.eta # Never /\ now > v.eta
  BY DEF PastDue
<1>2. Wanted(v, now)["ETA_EXCEEDED"] # "NONE"
  BY <1>1 DEF Wanted, Kinds
<1>3. QED
  BY <1>2 DEF Due, Kinds

LEMMA ListingStep ==
    ASSUME DbTypes(db), ExceptionsAreReal(db, now), now \in Nat, NEW d, Listing(d),
           NEW s \in DOMAIN db.shipments
    PROVE  Listing(Evaluated(d, s))
<1> DEFINE x == d.exceptions
           v == d.shipments[s]
           e == Evaluated(d, s)
           r == Reviewed(x, s, v, now)
           due == Due(s, v, now)
<1>1. /\ d = [t \in TableNames |-> d[t]] /\ Same(db, d, TableNames \ {"exceptions"})
      /\ IsTable(x, Nat \X Kinds, ExceptionRows) /\ ExceptionsAreReal(d, now)
      /\ \A y \in OpenExceptions(db) : y[2] = "ETA_EXCEEDED" => y \in OpenExceptions(d)
  BY DEF Listing
<1>2. d.shipments = db.shipments /\ s \in Nat /\ db.shipments[s] \in ShipmentRows /\ now \in Int
  <2>1. d.shipments = db.shipments
    BY <1>1 DEF Same, TableNames
  <2>2. IsTable(db.shipments, Nat, ShipmentRows)
    BY DEF DbTypes
  <2>3. QED
    BY <2>1, <2>2 DEF IsTable
<1>3. /\ e = [t \in TableNames |-> e[t]] /\ Same(d, e, TableNames \ {"exceptions"})
      /\ e.exceptions = r
  BY <1>1, EvaluatedEffect
<1> HIDE DEF x, v, e
<1>4. /\ IsTable(r, Nat \X Kinds, ExceptionRows) /\ DOMAIN r = due \cup DOMAIN x
      /\ OpensOnly(r, x, s, due)
  BY <1>1, <1>2, ReviewedRows, ZenonT(30)
<1>5. /\ \A y \in due : y \in DOMAIN r /\ r[y].open
      /\ \A y \in DOMAIN x : y[1] # s /\ x[y].open => y \in DOMAIN r /\ r[y].open
  BY <1>1, <1>2, ReviewedOpens, ZenonT(30)
<1>6. \A y \in due : y[1] = s /\ y \in Nat \X Kinds /\ Wanted(v, now)[y[2]] # "NONE"
  BY <1>2, DueKeys
<1> HIDE DEF r, due
<1>7. Same(db, e, TableNames \ {"exceptions"})
  BY <1>1, <1>3 DEF Same
<1>8. e.shipments = db.shipments
  BY <1>7 DEF Same, TableNames
<1>9. ExceptionsAreReal(e, now)
  <2>1. ASSUME NEW y \in DOMAIN r
        PROVE  y[1] \in DOMAIN db.shipments
    BY <1>1, <1>2, <1>4, <1>6 DEF ExceptionsAreReal, x
  <2>2. ASSUME NEW y \in DOMAIN r, r[y].open
        PROVE  /\ db.shipments[y[1]].status \in ACTIVE_STATUSES
               /\ y[2] = "ETA_EXCEEDED" => PastDue(db.shipments[y[1]].eta, now)
    <3>1. CASE y \in due
      <4>1. y[1] = s /\ y[2] \in Kinds /\ Wanted(v, now)[y[2]] # "NONE"
        BY <1>6, <3>1
      <4>2. v.status \in ACTIVE_STATUSES /\ (y[2] = "ETA_EXCEEDED" => v.eta # Never /\ now > v.eta)
        BY <4>1, WantedType
      <4>3. v = db.shipments[s]
        BY <1>2 DEF v
      <4>4. QED
        BY <1>2, <4>1, <4>2, <4>3 DEF PastDue, ShipmentRows
    <3>2. CASE y \in DOMAIN x /\ x[y].open /\ y[1] # s
      BY <1>1, <1>2, <3>2 DEF ExceptionsAreReal, IsReal, x
    <3>3. QED
      BY <1>4, <2>2, <3>1, <3>2 DEF OpensOnly
  <2>3. QED
    BY <1>3, <1>8, <2>1, <2>2 DEF ExceptionsAreReal, IsReal
<1>10. ASSUME NEW y \in OpenExceptions(db), y[2] = "ETA_EXCEEDED"
       PROVE  y \in OpenExceptions(e)
  <2>1. y \in DOMAIN x /\ x[y].open
    BY <1>1, <1>10 DEF OpenExceptions, x
  <2>2. y \in DOMAIN r /\ r[y].open
    <3>1. CASE y[1] # s
      BY <1>5, <2>1, <3>1
    <3>2. CASE y[1] = s
      <4>1. /\ db.shipments[s].status \in ACTIVE_STATUSES
            /\ PastDue(db.shipments[s].eta, now)
        BY <1>10, <3>2 DEF OpenExceptions, ExceptionsAreReal, IsReal
      <4>2. db.shipments[s].eta \in Int /\ v = db.shipments[s]
        BY <1>2 DEF ShipmentRows, v
      <4>3. <<s, "ETA_EXCEEDED">> \in due
        BY <1>2, <4>1, <4>2, DelayIsDue DEF due
      <4>4. y = <<s, "ETA_EXCEEDED">>
        <5>1. y \in Nat \X Kinds
          BY <1>1, <2>1 DEF IsTable
        <5>2. QED
          BY <1>10, <3>2, <5>1
      <4>5. QED
        BY <1>5, <4>3, <4>4
    <3>3. QED
      BY <3>1, <3>2
  <2>3. QED
    BY <1>3, <2>2 DEF OpenExceptions
<1>11. IsTable(e.exceptions, Nat \X Kinds, ExceptionRows)
  BY <1>3, <1>4
<1>12. QED
  BY <1>3, <1>7, <1>9, <1>10, <1>11 DEF Listing, e

\* One step of the recursion that evaluates the shipments of a set, and the
\* functions on the subsets of S that satisfy it.
ListStep(d, g, s) == IF s = {} THEN d
                     ELSE LET x == CHOOSE x \in s : TRUE IN Evaluated(g[s \ {x}], x)
Lists(d, S, g) == g = [s \in SUBSET S |-> ListStep(d, g, s)]

\* The recursion has a solution.
LEMMA Listable ==
    ASSUME NEW d, NEW S, IsFiniteSet(S)
    PROVE  \E g : Lists(d, S, g)
<1> DEFINE UpTo(g, n) == /\ g = [s \in SUBSET S |-> g[s]]
                         /\ \A s \in SUBSET S : Cardinality(s) <= n => g[s] = ListStep(d, g, s)
           T == {n \in Nat : ~ \E g : UpTo(g, n)}
<1>1. \A s \in SUBSET S : IsFiniteSet(s) /\ Cardinality(s) \in Nat
                          /\ Cardinality(s) <= Cardinality(S)
  BY FS_Subset, FS_CardinalityType
<1>2. ASSUME T # {}
      PROVE  FALSE
  <2>1. PICK m \in T : \A n \in T : m <= n
    <3> HIDE DEF T
    <3>1. T \in SUBSET Nat
      BY DEF T
    <3>2. QED
      BY <1>2, <3>1, LeastNumber
  <2>2. m # 0
    <3> DEFINE g == [s \in SUBSET S |-> d]
    <3>1. UpTo(g, 0)
      <4>1. ASSUME NEW s \in SUBSET S, Cardinality(s) <= 0
            PROVE  s = {}
        BY <1>1, <4>1, FS_EmptySet
      <4>2. QED
        BY <4>1 DEF ListStep
    <3>2. QED
      BY <3>1
  <2>3. m - 1 \in Nat /\ m - 1 \notin T
    <3>1. m \in Nat
      BY <2>1
    <3> HIDE DEF T
    <3>2. QED
      BY <2>1, <2>2, <3>1
  <2>4. PICK g : UpTo(g, m - 1)
    BY <2>3
  <2> DEFINE h == [s \in SUBSET S |-> IF Cardinality(s) <= m - 1 THEN g[s] ELSE ListStep(d, g, s)]
  <2>5. ASSUME NEW s \in SUBSET S, Cardinality(s) <= m
        PROVE  h[s] = ListStep(d, h, s)
    <3>1. h[s] = ListStep(d, g, s)
      BY <2>4
    <3>2. CASE s = {}
      BY <3>1, <3>2 DEF ListStep
    <3>3. CASE s # {}
      <4> DEFINE x == CHOOSE x \in s : TRUE
      <4>1. s \ {x} \in SUBSET S /\ Cardinality(s \ {x}) <= m - 1
        <5>1. Cardinality(s \ {x}) = Cardinality(s) - 1 /\ Cardinality(s) \in Nat
          BY <1>1, <3>3, RemoveChosen
        <5> HIDE DEF x
        <5>2. QED
          BY <2>1, <2>5, <5>1
      <4>2. h[s \ {x}] = g[s \ {x}]
        BY <4>1
      <4> HIDE DEF h
      <4>3. QED
        BY <3>1, <3>3, <4>2 DEF ListStep
    <3>4. QED
      BY <3>2, <3>3
  <2>6. UpTo(h, m)
    <3>1. h = [s \in SUBSET S |-> h[s]]
      OBVIOUS
    <3> HIDE DEF h
    <3>2. QED
      BY <2>5, <3>1
  <2> HIDE DEF UpTo, h
  <2>7. QED
    BY <2>1, <2>6 DEF T
<1>3. Cardinality(S) \in Nat \ T
  BY <1>2, FS_CardinalityType
<1>4. PICK g : UpTo(g, Cardinality(S))
  BY <1>3
<1>5. g = [s \in SUBSET S |-> ListStep(d, g, s)]
  BY <1>1, <1>4
<1>6. QED
  BY <1>5 DEF Lists

LEMMA ListSolves ==
    ASSUME NEW d, IsFiniteSet(DOMAIN d.shipments)
    PROVE  \E g : Lists(d, DOMAIN d.shipments, g) /\ Listed(d) = g[DOMAIN d.shipments]
<1> DEFINE S == DOMAIN d.shipments
           it == CHOOSE g : g = [s \in SUBSET S |->
                    IF s = {} THEN d
                    ELSE LET x == CHOOSE x \in s : TRUE IN Evaluated(g[s \ {x}], x)]
<1>1. Listed(d) = it[S]
  BY DEF Listed, FoldSet, MapThenFoldSet
<1>2. Lists(d, S, it)
  <2> DEFINE Is(g) == g = [s \in SUBSET S |->
                    IF s = {} THEN d
                    ELSE LET x == CHOOSE x \in s : TRUE IN Evaluated(g[s \ {x}], x)]
  <2>1. \A g : Lists(d, S, g) <=> Is(g)
    BY Zenon DEF Lists, ListStep
  <2>2. \E g : Is(g)
    <3> HIDE DEF Is, it
    <3>1. QED
      BY <2>1, Listable
  <2>3. it = CHOOSE g : Is(g)
    OBVIOUS
  <2>4. Is(CHOOSE g : Is(g))
    <3> HIDE DEF Is
    <3>1. QED
      BY <2>2
  <2>5. QED
    BY <2>1, <2>3, <2>4
<1> HIDE DEF it
<1>3. QED
  BY <1>1, <1>2

LEMMA ListedIs ==
    ASSUME DbTypes(db), ExceptionsAreReal(db, now), now \in Nat
    PROVE  Listing(Listed(db))
<1> DEFINE S == DOMAIN db.shipments
<1>1. IsFiniteSet(S)
  BY Rows
<1>2. PICK g : Lists(db, S, g) /\ Listed(db) = g[S]
  BY <1>1, ListSolves
<1> DEFINE Bad == {U \in SUBSET S : ~ Listing(g[U])}
<1>3. ASSUME Bad # {}
      PROVE  FALSE
  <2>1. PICK m \in Bad : \A n \in Bad : n \subseteq m => n = m
    <3>1. \A U \in Bad : U \subseteq S
      OBVIOUS
    <3> HIDE DEF Bad
    <3>2. QED
      BY <1>1, <1>3, <3>1, MinimalSubset
  <2>2. m \subseteq S /\ ~ Listing(g[m])
    OBVIOUS
  <2>3. g[m] = ListStep(db, g, m)
    <3>1. m \in SUBSET S
      BY <2>2
    <3>2. QED
      BY <1>2, <3>1, Zenon DEF Lists
  <2>4. m # {}
    BY <2>2, <2>3, ListingStarts DEF ListStep
  <2> DEFINE x == CHOOSE x \in m : TRUE
  <2>5. x \in m
    BY <2>4
  <2>6. g[m] = Evaluated(g[m \ {x}], x)
    BY <2>3, <2>4, Zenon DEF ListStep
  <2> HIDE DEF x
  <2>7. m \ {x} \in SUBSET S /\ m \ {x} \notin Bad
    BY <2>1, <2>5
  <2>8. Listing(g[m \ {x}]) /\ x \in DOMAIN db.shipments
    BY <2>2, <2>5, <2>7
  <2>9. Listing(Evaluated(g[m \ {x}], x))
    BY <2>8, ListingStep
  <2>10. QED
    BY <2>2, <2>6, <2>9
<1>4. Listing(g[S])
  BY <1>3
<1>5. QED
  BY <1>2, <1>4

-----------------------------------------------------------------------------
(* The pages a tile leads to, for the filter that lets everything in.      *)

LEMMA EverythingIs ==
    /\ Everything.from = StartOfDay(SeedTime - 190 * Day)
    /\ Everything.to = EndOfDay(now)
    /\ Everything.supplier = All /\ Everything.customer = All /\ Everything.warehouse = All
<1> DEFINE range == Custom(SeedTime - 190 * Day, now)
           who == [supplier |-> All, customer |-> All, warehouse |-> All]
<1>1. /\ range = [from |-> StartOfDay(SeedTime - 190 * Day), to |-> EndOfDay(now)]
      /\ Everything = range @@ who
  BY DEF Everything, FilterBy, Custom
<1>2. DOMAIN range = {"from", "to"} /\ DOMAIN who = {"supplier", "customer", "warehouse"}
  BY <1>1
<1>3. /\ range.from = StartOfDay(SeedTime - 190 * Day) /\ range.to = EndOfDay(now)
      /\ who.supplier = All /\ who.customer = All /\ who.warehouse = All
  BY <1>1
<1> HIDE DEF range, who
<1>4. QED
  BY <1>1, <1>2, <1>3 DEF @@

LEMMA EverythingIn ==
    ASSUME DbTypes(db), Dealt(db, now), now \in Nat
    PROVE  /\ PosIn(db, Everything) = DOMAIN db.pos
           /\ SosIn(db, Everything) = DOMAIN db.sos
           /\ \A d : warehouseScoped(d, Everything) = DOMAIN d.shipments
<1>1. SeedTime \in Nat /\ 40 * Day <= SeedTime
  BY TimesAssumption
<1>2. ASSUME NEW t \in Int, OrderedBetween(t, now)
      PROVE  InRange(Everything, t)
  <2>1. SeedTime <= t + 40 * Day /\ t <= now
    BY <1>2 DEF OrderedBetween
  <2>2. t # Never
    BY <1>1, <2>1 DEF Never, Day
  <2>3. StartOfDay(SeedTime - 190 * Day) <= t
    BY <1>1, <2>1 DEF StartOfDay, Day
  <2>4. t <= EndOfDay(now)
    BY <2>1 DEF EndOfDay, StartOfDay, Day
  <2>5. QED
    BY <2>2, <2>3, <2>4, EverythingIs DEF InRange
<1>3. \A x : Asked(Everything.supplier, x) /\ Asked(Everything.customer, x)
  BY EverythingIs DEF Asked
<1>4. \A n \in DOMAIN db.pos : InRange(Everything, db.pos[n].ordered)
  <2>1. \A n \in DOMAIN db.pos : db.pos[n].ordered \in Int
    BY Rows DEF PORows, PORecords
  <2>2. QED
    BY <1>2, <2>1 DEF Dealt
<1>5. \A n \in DOMAIN db.sos : InRange(Everything, db.sos[n].ordered)
  <2>1. \A n \in DOMAIN db.sos : db.sos[n].ordered \in Int
    BY Rows DEF SORows, SORecords
  <2>2. QED
    BY <1>2, <2>1 DEF Dealt
<1>6. \A d : warehouseScoped(d, Everything) = DOMAIN d.shipments
  BY EverythingIs DEF warehouseScoped
<1>7. QED
  BY <1>3, <1>4, <1>5, <1>6 DEF PosIn, SosIn, SosOf

\* The orders that are open, on the dashboard and on the tower.
LEMMA OpenTiles ==
    ASSUME DbTypes(db), Dealt(db, now), now \in Nat
    PROVE  LET tower == ControlTowerSummary(db, Everything, now)
           IN  /\ Dashboard(db).openPOs = tower.procurement.open
               /\ Dashboard(db).openSOs = tower.fulfillment.open
               /\ tower.fulfillment.open = Cardinality(SOs(db, OPEN_SO_STATUSES))
               /\ Dashboard(db).awaiting = Count(SalesOrdersPage(db, "CONFIRMED", All))
               /\ tower.procurement.overdue = Count(PurchaseOrdersPage(db, All, All, TRUE, now))
<1> DEFINE f == Everything
           tower == ControlTowerSummary(db, f, now)
<1>1. /\ Dashboard(db).openPOs = Cardinality(POs(db, OPEN_PO_STATUSES))
      /\ Dashboard(db).openSOs = Cardinality(SOs(db, OPEN_SO_STATUSES))
      /\ Dashboard(db).awaiting = Cardinality(SOs(db, {"CONFIRMED"}))
  BY DEF Dashboard, Count, OPEN_PO_STATUSES, OPEN_SO_STATUSES
<1>2. /\ tower.procurement = ProcurementSummary(db, f, now)
      /\ tower.fulfillment = FulfillmentSummary(db, f)
  BY TowerParts
<1>3. /\ ProcurementSummary(db, f, now).open = Cardinality(OpenPos(f))
      /\ ProcurementSummary(db, f, now).overdue = Cardinality(OverduePos(db, f, now))
  BY DEF ProcurementSummary, OpenPos, Count
<1>4. FulfillmentSummary(db, f).open
          = Cardinality({n \in SosIn(db, f) : db.sos[n].status \in OPEN_SO_STATUSES})
  BY DEF FulfillmentSummary, Count
<1> HIDE DEF tower, f
<1>5. PosIn(db, f) = DOMAIN db.pos /\ SosIn(db, f) = DOMAIN db.sos
  BY EverythingIn DEF f
<1>6. OpenPos(f) = POs(db, OPEN_PO_STATUSES)
  BY <1>5 DEF OpenPos, POs
<1>7. {n \in SosIn(db, f) : db.sos[n].status \in OPEN_SO_STATUSES} = SOs(db, OPEN_SO_STATUSES)
  BY <1>5 DEF SOs
<1>8. SalesOrdersPage(db, "CONFIRMED", All) = SOs(db, {"CONFIRMED"})
  <2>1. ASSUME NEW n \in DOMAIN db.sos
        PROVE  Asked("CONFIRMED", db.sos[n].status) <=> db.sos[n].status = "CONFIRMED"
    BY DEF Asked, All
  <2>2. \A x : Asked(All, x)
    BY DEF Asked
  <2>3. QED
    BY <2>1, <2>2 DEF SalesOrdersPage, SOs
<1>9. PurchaseOrdersPage(db, All, All, TRUE, now) = OverduePos(db, f, now)
  <2>1. \A x : Asked(All, x)
    BY DEF Asked
  <2>2. QED
    BY <1>5, <2>1 DEF PurchaseOrdersPage, OverduePos
<1>10. QED
  BY <1>1, <1>2, <1>3, <1>4, <1>6, <1>7, <1>8, <1>9 DEF Count, tower, f

\* What is counted on the shelves, and what a confirmed order has of it.
LEMMA ShelfTiles ==
    LET tower == ControlTowerSummary(db, Everything, now)
    IN  /\ Dashboard(db).value = tower.inventory.value
        /\ Dashboard(db).value = InventoryPage(db)
<1> DEFINE tower == ControlTowerSummary(db, Everything, now)
           worth(p) == db.stock[p].onHand * costPrice[p]
           V == SumFunctionOnSet([p \in DOMAIN db.stock |-> worth(p)], DOMAIN db.stock)
<1>1. Dashboard(db).value = V /\ InventoryPage(db) = V
  BY DEF Dashboard, InventoryPage, Total
<1>2. InventorySummary(db).value = V
  BY DEF InventorySummary, InventoryRiskRows, Total
<1>3. tower.inventory = InventorySummary(db)
  BY TowerParts
<1> HIDE DEF V, tower
<1>4. QED
  BY <1>1, <1>2, <1>3 DEF tower

LEMMA ShortOrders ==
    ASSUME DbTypes(db)
    PROVE  \A n \in SalesOrdersPage(db, "CONFIRMED", All) :
               Insufficient(db, n) <=> db.sos[n].qty > InventoryRow(db, db.sos[n].product).available
<1> SUFFICES ASSUME NEW n \in SalesOrdersPage(db, "CONFIRMED", All)
             PROVE  Insufficient(db, n)
                        <=> db.sos[n].qty > InventoryRow(db, db.sos[n].product).available
  OBVIOUS
<1> DEFINE so == db.sos[n]
           left == AvailableQuantity(db, so.product)
<1>1. n \in DOMAIN db.sos /\ so.status = "CONFIRMED"
  BY DEF SalesOrdersPage, Asked, All
<1>2. so.qty \in Nat /\ so.product \in Products
  <2>1. so \in SORows
    BY <1>1, Rows
  <2>2. QED
    BY <2>1 DEF SORows, SORecords
<1>3. left \in Int
  <2>1. db.stock[so.product] \in StockRows
    BY <1>2 DEF DbTypes
  <2>2. QED
    BY <2>1 DEF AvailableQuantity, StockRows
<1>4. InventoryRow(db, so.product).available = left
  BY DEF InventoryRow, AvailableQuantity
<1>5. Insufficient(db, n) <=> left < so.qty
  BY <1>1 DEF Insufficient
<1> HIDE DEF so, left
<1>6. QED
  BY <1>2, <1>3, <1>4, <1>5 DEF so

\* The shipments under way, before and after the list has evaluated them.
LEMMA ShipmentTiles ==
    ASSUME DbTypes(db), ExceptionsAreReal(db, now), now \in Nat
    PROVE  LET f == Everything
               tower == ControlTowerSummary(db, f, now)
               list == Listed(db)
               seen == ShipmentsPage(list)
           IN  /\ Dashboard(db).inbound = tower.logistics.inbound
               /\ Dashboard(db).outbound = tower.logistics.outbound
               /\ seen.active = tower.logistics.active
               /\ tower.logistics.delayed <= seen.delayed
               /\ seen.delayed = LogisticsSummary(list, f).delayed
               /\ seen.attention = LogisticsSummary(list, f).attention
<1> DEFINE f == Everything
           tower == ControlTowerSummary(db, f, now)
           list == Listed(db)
           seen == ShipmentsPage(list)
<1>1. \A d : UnderWay(d, f) = {s \in DOMAIN d.shipments : d.shipments[s].status \in ACTIVE_STATUSES}
  BY EverythingIs DEF UnderWay, warehouseScoped
<1>2. Listing(list)
  BY ListedIs
<1>3. list.shipments = db.shipments /\ ExceptionsAreReal(list, now)
  <2> HIDE DEF list
  <2>1. QED
    BY <1>2 DEF Listing, Same, TableNames
<1>4. tower.logistics = LogisticsSummary(db, f)
  BY TowerParts
<1>5. /\ seen.active = Cardinality({s \in DOMAIN list.shipments :
                                       list.shipments[s].status \in ACTIVE_STATUSES})
      /\ seen.delayed = Cardinality(Delayed(list))
      /\ seen.attention = Cardinality(NeedsAttention(list))
  <2> HIDE DEF list
  <2>1. QED
    BY DEF ShipmentsPage, Count
<1>6. \A way : {s \in DOMAIN db.shipments : /\ db.shipments[s].status \in ACTIVE_STATUSES
                                            /\ db.shipments[s].direction = way}
                   = Heading(db, f, way)
  <2> HIDE DEF f
  <2>1. QED
    BY <1>1 DEF Heading
<1>7. /\ Dashboard(db).inbound = Cardinality(Heading(db, f, "INBOUND"))
      /\ Dashboard(db).outbound = Cardinality(Heading(db, f, "OUTBOUND"))
  <2> HIDE DEF f
  <2>1. QED
    BY <1>6 DEF Dashboard, Count
<1> HIDE DEF f, tower, list, seen
<1>8. \A x \in OpenExceptions(list) : x[1] \in UnderWay(list, f)
  BY <1>1, <1>3 DEF OpenExceptions, ExceptionsAreReal, IsReal
<1>9. Delayed(list) = Late(list, f)
  <2>1. ASSUME NEW s, <<s, "ETA_EXCEEDED">> \in OpenExceptions(list)
        PROVE  s \in UnderWay(list, f)
    BY <1>8, <2>1
  <2>2. UnderWay(list, f) \subseteq DOMAIN list.shipments
    BY <1>1
  <2>3. QED
    BY <2>1, <2>2 DEF Delayed, Late
<1>10. NeedsAttention(list) = Attended(list, f)
  <2>1. UnderWay(list, f) \subseteq DOMAIN list.shipments
    BY <1>1
  <2>2. QED
    BY <1>8, <2>1 DEF NeedsAttention, Attended
<1>11. UnderWay(list, f) = UnderWay(db, f)
  BY <1>1, <1>3
<1>12. Cardinality(Late(db, f)) <= Cardinality(Late(list, f))
  <2>1. Late(db, f) \subseteq Late(list, f)
    <3>1. ASSUME NEW s, <<s, "ETA_EXCEEDED">> \in OpenExceptions(db)
          PROVE  <<s, "ETA_EXCEEDED">> \in OpenExceptions(list)
      BY <1>2, <3>1 DEF Listing
    <3>2. QED
      BY <1>11, <3>1 DEF Late
  <2>2. IsFiniteSet(Late(list, f))
    <3>1. Late(list, f) \subseteq DOMAIN db.shipments
      BY <1>1, <1>11 DEF Late
    <3>2. IsFiniteSet(DOMAIN db.shipments)
      BY Rows
    <3>3. QED
      BY <3>1, <3>2, FS_Subset
  <2>3. QED
    BY <2>1, <2>2, FS_Subset
<1>13. /\ Dashboard(db).inbound = tower.logistics.inbound
       /\ Dashboard(db).outbound = tower.logistics.outbound
  BY <1>4, <1>7, LogisticsParts
<1>14. seen.active = tower.logistics.active
  <2>1. seen.active = Cardinality(UnderWay(list, f))
    BY <1>1, <1>5
  <2>2. QED
    BY <1>4, <1>11, <2>1, LogisticsParts
<1>15. tower.logistics.delayed <= seen.delayed
  BY <1>4, <1>5, <1>9, <1>12, LogisticsParts
<1>16. /\ seen.delayed = LogisticsSummary(list, f).delayed
       /\ seen.attention = LogisticsSummary(list, f).attention
  BY <1>5, <1>9, <1>10, LogisticsParts
<1>17. QED
  BY <1>13, <1>14, <1>15, <1>16, Zenon DEF f, tower, list, seen

\* The open orders, added up customer by customer.
LEMMA CustomerTiles ==
    ASSUME DbTypes(db)
    PROVE  SumOf([c \in Customers |-> CustomerPage(db, c)], LAMBDA r : r.open)
               = Cardinality(SOs(db, OPEN_SO_STATUSES))
<1> DEFINE S == SOs(db, OPEN_SO_STATUSES)
           g == [n \in S |-> db.sos[n].customer]
           pages == [c \in Customers |-> CustomerPage(db, c)]
           P == [c \in Customers |-> pages[c].open]
<1>1. SumOf(pages, LAMBDA r : r.open) = SumFunctionOnSet(P, Customers)
  BY DEF SumOf, Total
<1>2. S \subseteq DOMAIN db.sos
  BY DEF SOs
<1>3. IsFiniteSet(S)
  BY <1>2, Rows, FS_Subset
<1>4. /\ \A n \in DOMAIN db.sos : db.sos[n].customer \in Customers
      /\ \A n \in DOMAIN db.sos : db.sos[n].status \in OPEN_SO_STATUSES \cup {"FULFILLED", "CANCELLED"}
  BY Rows DEF SORows, SORecords
<1>5. IsFiniteSet(Customers)
  <2>1. Customers = {"CUS-1"} \cup {"CUS-90"}
    BY DEF Customers
  <2>2. QED
    BY <2>1, FS_Singleton, FS_Union
<1>6. \A n \in S : g[n] \in Customers
  BY <1>2, <1>4
<1>7. ASSUME NEW c \in Customers
      PROVE  P[c] = Cardinality(PartOf(S, g, c))
  <2> DEFINE T == {n \in {n \in DOMAIN db.sos : db.sos[n].customer = c} :
                      db.sos[n].status \notin {"FULFILLED", "CANCELLED"}}
  <2>1. CustomerPage(db, c).open = Cardinality(T)
    BY DEF CustomerPage, Count
  <2>2. T = PartOf(S, g, c)
    <3>1. \A n \in DOMAIN db.sos : db.sos[n].status \notin {"FULFILLED", "CANCELLED"}
                                       <=> db.sos[n].status \in OPEN_SO_STATUSES
      BY <1>4 DEF OPEN_SO_STATUSES
    <3>2. QED
      BY <3>1 DEF PartOf, SOs
  <2>3. P[c] = CustomerPage(db, c).open
    OBVIOUS
  <2>4. QED
    BY <2>1, <2>2, <2>3
<1> HIDE DEF P, g, S, pages
<1>8. SumFunctionOnSet(P, Customers) = Cardinality(S)
  BY <1>3, <1>5, <1>6, <1>7, PartsCountUp
<1>9. QED
  BY <1>1, <1>8 DEF S, pages

\* What the suppliers still owe is what is open on the purchase orders: an
\* order that is received owes nothing.
LEMMA SupplierTiles ==
    ASSUME DbTypes(db), Dealt(db, now)
    PROVE  SumOf([s \in SupplierCodes |-> SupplierPage(db, s)], LAMBDA r : r.outstanding)
               = Total(POs(db, OPEN_PO_STATUSES),
                       LAMBDA n : PurchaseOrderPage(db, n).ordered - PurchaseOrderPage(db, n).received)
<1> DEFINE S == {n \in DOMAIN db.pos : db.pos[n].status # "CANCELLED"}
           owed(n) == (db.pos[n].qty - db.pos[n].got) * db.pos[n].cost
           rest(n) == PurchaseOrderPage(db, n).ordered - PurchaseOrderPage(db, n).received
           F == [n \in S |-> owed(n)]
           g == [n \in S |-> db.pos[n].supplier]
           T == POs(db, OPEN_PO_STATUSES)
           G == [n \in T |-> rest(n)]
           pages == [s \in SupplierCodes |-> SupplierPage(db, s)]
           P == [s \in SupplierCodes |-> pages[s].outstanding]
<1>1. /\ SumOf(pages, LAMBDA r : r.outstanding) = SumFunctionOnSet(P, SupplierCodes)
      /\ Total(T, LAMBDA n : rest(n)) = SumFunctionOnSet(G, T)
  BY DEF SumOf, Total
<1>2. S \subseteq DOMAIN db.pos /\ T \subseteq S
  BY DEF POs, OPEN_PO_STATUSES
<1>3. IsFiniteSet(S) /\ IsFiniteSet(T)
  BY <1>2, Rows, FS_Subset
<1>4. ASSUME NEW n \in DOMAIN db.pos
      PROVE  /\ db.pos[n].qty \in Nat /\ db.pos[n].got \in Nat /\ db.pos[n].cost \in Nat
             /\ db.pos[n].supplier \in SupplierCodes
             /\ db.pos[n].status \in OPEN_PO_STATUSES \cup {"RECEIVED", "CANCELLED"}
             /\ Whole(db.pos[n])
  <2>1. db.pos[n] \in PORows
    BY Rows
  <2>2. QED
    BY <2>1 DEF PORows, PORecords, Dealt
<1>5. IsFiniteSet(SupplierCodes)
  <2>1. SupplierCodes = {"SUP-001"} \cup {"SUP-003"}
    BY DEF SupplierCodes
  <2>2. QED
    BY <2>1, FS_Singleton, FS_Union
<1>6. /\ \A n \in S : g[n] \in SupplierCodes
      /\ \A n \in S : F[n] \in Int
      /\ \A n \in S \ T : F[n] = 0
  <2>1. ASSUME NEW n \in S
        PROVE  g[n] \in SupplierCodes /\ F[n] = owed(n) /\ F[n] \in Int
    BY <1>2, <1>4
  <2>2. ASSUME NEW n \in S \ T
        PROVE  F[n] = 0
    <3>1. db.pos[n].status = "RECEIVED"
      BY <1>4 DEF POs
    <3>2. db.pos[n].got = db.pos[n].qty /\ db.pos[n].qty \in Nat /\ db.pos[n].cost \in Nat
      BY <1>2, <1>4, <3>1 DEF Whole
    <3>3. owed(n) = 0
      BY <3>2
    <3>4. QED
      BY <2>1, <3>3
  <2>3. QED
    BY <2>1, <2>2
<1>7. ASSUME NEW s \in SupplierCodes
      PROVE  P[s] = SumFunctionOnSet(F, PartOf(S, g, s))
  <2> DEFINE pos == {n \in {n \in DOMAIN db.pos : db.pos[n].supplier = s} :
                        db.pos[n].status # "CANCELLED"}
             H == [n \in pos |-> owed(n)]
  <2>1. SupplierPage(db, s).outstanding = SumFunctionOnSet(H, pos)
    BY DEF SupplierPage, Total
  <2>2. pos = PartOf(S, g, s) /\ pos \subseteq S
    BY DEF PartOf
  <2>3. \A n \in pos : H[n] = F[n]
    OBVIOUS
  <2>4. P[s] = SupplierPage(db, s).outstanding
    OBVIOUS
  <2> HIDE DEF P, F, g, S, pos, H
  <2>5. SumFunctionOnSet(H, pos) = SumFunctionOnSet(F, pos)
    <3>1. IsFiniteSet(pos) /\ \A n \in pos : F[n] \in Int /\ H[n] = F[n]
      BY <1>3, <1>6, <2>2, <2>3, FS_Subset
    <3>2. QED
      BY <3>1, SumEqual
  <2>6. QED
    BY <2>1, <2>2, <2>4, <2>5
<1>8. \A n \in T : F[n] \in Int /\ G[n] = F[n]
  <2>1. ASSUME NEW n \in T
        PROVE  rest(n) = owed(n)
    <3>1. rest(n) = db.pos[n].qty * db.pos[n].cost - db.pos[n].got * db.pos[n].cost
      BY DEF PurchaseOrderPage, ValueOf
    <3>2. db.pos[n].qty \in Nat /\ db.pos[n].got \in Nat /\ db.pos[n].cost \in Nat
      BY <1>2, <1>4
    <3>3. QED
      BY <3>1, <3>2
  <2>2. \A n \in T : F[n] = owed(n) /\ G[n] = rest(n)
    BY <1>2
  <2> HIDE DEF F, G, S, T, owed, rest
  <2>3. QED
    BY <1>2, <1>6, <2>1, <2>2
<1> HIDE DEF P, g, S, pages, F, G, T, owed, rest
<1>9. SumFunctionOnSet(P, SupplierCodes) = SumFunctionOnSet(F, S)
  BY <1>3, <1>5, <1>6, <1>7, PartsAddUp
<1>10. SumFunctionOnSet(F, S) = SumFunctionOnSet(F, T)
  BY <1>2, <1>3, <1>6, SumWhere
<1>11. SumFunctionOnSet(G, T) = SumFunctionOnSet(F, T)
  BY <1>3, <1>8, SumEqual
<1>12. QED
  BY <1>1, <1>9, <1>10, <1>11 DEF T, pages, rest

LEMMA PagesTiles ==
    ASSUME Types, ExceptionsAreReal(db, now), Dealt(db, now)
    PROVE  PagesAgree(Everything, ControlTowerSummary(db, Everything, now))
<1> DEFINE f == Everything
           tower == ControlTowerSummary(db, f, now)
           list == Listed(db)
           seen == ShipmentsPage(list)
           suppliers == [s \in SupplierCodes |-> SupplierPage(db, s)]
           customers == [c \in Customers |-> CustomerPage(db, c)]
<1>1. DbTypes(db) /\ now \in Nat
  BY DEF Types
<1>2. /\ Dashboard(db).openPOs = tower.procurement.open
      /\ Dashboard(db).openSOs = tower.fulfillment.open
      /\ tower.fulfillment.open = Cardinality(SOs(db, OPEN_SO_STATUSES))
      /\ Dashboard(db).awaiting = Count(SalesOrdersPage(db, "CONFIRMED", All))
      /\ tower.procurement.overdue = Count(PurchaseOrdersPage(db, All, All, TRUE, now))
  BY <1>1, OpenTiles
<1>3. /\ Dashboard(db).value = tower.inventory.value
      /\ Dashboard(db).value = InventoryPage(db)
  BY ShelfTiles
<1>4. /\ Dashboard(db).inbound = tower.logistics.inbound
      /\ Dashboard(db).outbound = tower.logistics.outbound
      /\ seen.active = tower.logistics.active
      /\ tower.logistics.delayed <= seen.delayed
      /\ seen.delayed = LogisticsSummary(list, f).delayed
      /\ seen.attention = LogisticsSummary(list, f).attention
  BY <1>1, ShipmentTiles
<1>5. SumOf(suppliers, LAMBDA r : r.outstanding)
          = Total(POs(db, OPEN_PO_STATUSES),
                  LAMBDA n : PurchaseOrderPage(db, n).ordered - PurchaseOrderPage(db, n).received)
  BY <1>1, SupplierTiles
<1>6. SumOf(customers, LAMBDA r : r.open) = tower.fulfillment.open
  <2>1. SumOf(customers, LAMBDA r : r.open) = Cardinality(SOs(db, OPEN_SO_STATUSES))
    BY <1>1, CustomerTiles
  <2> HIDE DEF tower, customers
  <2>2. QED
    BY <1>2, <2>1
<1>7. \A n \in SalesOrdersPage(db, "CONFIRMED", All) :
          Insufficient(db, n) <=> db.sos[n].qty > InventoryRow(db, db.sos[n].product).available
  BY <1>1, ShortOrders
<1> HIDE DEF f, tower, list, seen, suppliers, customers
<1>8. QED
  BY <1>2, <1>3, <1>4, <1>5, <1>6, <1>7, Zenon
     DEF PagesAgree, f, tower, list, seen, suppliers, customers

\* What holds whenever the figures are read: the tables are typed, an open
\* exception is about a shipment under way, and a document was dated between
\* the oldest fixture and now.
Readable == Types /\ ExceptionsAreReal(db, now) /\ Dealt(db, now)

LEMMA ReadableReconciles == Readable => Reconciled
<1> SUFFICES ASSUME Readable
             PROVE  Reconciled
  OBVIOUS
<1>1. /\ Types /\ ExceptionsAreReal(db, now) /\ Dealt(db, now)
      /\ DbTypes(db)
  BY DEF Readable, Types
<1>2. ASSUME NEW f \in Filters
      PROVE  LET tower == ControlTowerSummary(db, f, now)
                 items == Exceptions(db, f, now)
             IN  /\ ProcurementAgrees(f, tower, items) /\ FulfillmentAgrees(f, tower)
                 /\ LogisticsAgrees(tower, items) /\ InventoryAgrees(tower, items)
                 /\ TopAgrees(tower, items)
  BY <1>1, ProcurementTile, FulfillmentTile, LogisticsTile, InventoryTile, TopTile
<1>3. ASSUME NEW f \in Filters, f = Everything
      PROVE  PagesAgree(f, ControlTowerSummary(db, f, now))
  BY <1>1, <1>3, PagesTiles
<1>4. QED
  BY <1>2, <1>3, Zenon DEF Reconciled

\* Figures that come from different queries, on different pages, always agree
\* (analytics/, and the pages of the web application that count for
\* themselves): the value trend adds up to the spend of the suppliers and the
\* OTIF trend to the OTIF summary, whatever the size of the buckets; a tile of
\* the Control Tower counts what the Exception Center lists; the five worst
\* have as many critical items as there are; and the dashboard, the lists and
\* the pages of suppliers and customers come to the same counts and amounts.
THEOREM FiguresAgree == Spec => []Reconciled
<1>1. Init => Readable
  BY TypesInit, RealInit, DealtInit DEF Readable
<1>2. Readable /\ [Next]_vars => Readable'
  <2> SUFFICES ASSUME Readable, [Next]_vars
               PROVE  Readable'
    OBVIOUS
  <2>1. Types' /\ ExceptionsAreReal(db', now') /\ Dealt(db', now')
    BY TypesStep, RealStep, DealtStep DEF Readable
  <2>2. QED
    BY <2>1 DEF Readable
<1>3. QED
  BY <1>1, <1>2, ReadableReconciles, PTL DEF Spec
=============================================================================
