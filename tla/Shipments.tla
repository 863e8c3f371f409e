----------------------------- MODULE Shipments -----------------------------
(***************************************************************************)
(* ShipmentsService: a shipment moves through its lifecycle, carries an    *)
(* estimated arrival and the time of its last tracking event, and every    *)
(* request and every page load re-evaluates its delay exceptions: late     *)
(* (ETA_EXCEEDED) and silent (TRACKING_STALE).                             *)
(*                                                                         *)
(* Each request is one transaction.  It reads the shipment without a lock, *)
(* a change writes its row and keeps it, and evaluateExceptions reads it   *)
(* once more, decides for both kinds, and then resolves, updates or        *)
(* inserts exception rows one statement at a time.  Nothing makes the open *)
(* exception of a kind unique: two transactions may both find none.        *)
(*                                                                         *)
(* The rules of evaluateExceptions, and the unit of time, are in Delays.   *)
(***************************************************************************)
EXTENDS Integers, Sequences, FiniteSets, ReadCommitted, Lifecycles, Delays

CONSTANTS
    Ships,          \* shipment ids, in the order of their creation: 1 .. n
    Txs,            \* database transactions that may be open at one time
    Etas,           \* estimated arrivals a client may enter
    Stamps,         \* timestamps of tracking events entered by hand
    MaxTime,        \* bound: the clock stops there
    Plans           \* bound: what clients may ask for, per shipment

ASSUME ShipsAssumption == IsFiniteSet(Ships) /\ Ships = 1 .. Cardinality(Ships)
ASSUME TimesAssumption ==
    /\ MaxTime \in Nat
    /\ Etas \subseteq Nat /\ Stamps \subseteq Nat
ASSUME NoTxAssumption == NoTx \notin Txs

VARIABLES
    now,        \* the clock
    ship,       \* Shipment: ship -> row
    exc,        \* ShipmentException: <<ship, kind, slot>> -> row of a level
    tx,         \* what each transaction has read and still has to do
    plan,       \* the plan of this behaviour: never changes
    calm        \* history: ships on which no two transactions overlapped

vars == <<now, ship, exc, tx, plan, calm>>


Times == Nat \cup {Never}
Statuses == {"NONE", "CREATED", "BOOKED", "IN_TRANSIT", "ARRIVED", "DELIVERED", "CANCELLED"}
\* A request is a status to move to, a tracking event of now or with a date
\* of its own, or an estimate.
Requests == Statuses \cup {"EVENT", "DATED", "ETA"}
ASSUME PlansAssumption == Plans \subseteq [Ships -> SUBSET Requests]

Shipment == [status : Statuses, eta : Times, last : Times, departed : Times,
             arrived : Times, delivered : Times]

\* "NONE" is a row that was never inserted, or that has been resolved.
Levels == {"NONE", "WARNING", "CRITICAL"}
\* A transaction inserts into a slot that nobody uses: there is always one.
Slots == 1 .. Cardinality(Txs)

NoShipment == [status |-> "NONE", eta |-> Never, last |-> Never,
               departed |-> Never, arrived |-> Never, delivered |-> Never]
Idle == [at |-> "idle", to |-> "NONE", stamp |-> Never, kept |-> Never,
         work |-> <<>>, next |-> 1, kind |-> "ETA_EXCEEDED", want |-> [k \in Kinds |-> "NONE"],
         found |-> 0, alone |-> TRUE]

Existing == {s \in Ships : ship[s].com.status # "NONE"}
Scope(t) == {tx[t].work[i] : i \in DOMAIN tx[t].work}
Current(t) == tx[t].work[tx[t].next]
At(t, at) == tx[t].at = at

-----------------------------------------------------------------------------
\* The transaction r has read v, and decided for both kinds.
Decided(r, v) == [r EXCEPT !.at = "exception", !.want = Wanted(v, now)]

-----------------------------------------------------------------------------
(* Requests: what is read when a transaction begins.                       *)

\* t begins with r; it is not alone if it overlaps with others, nor are they.
Begins(t, r) ==
    LET scope == {r.work[i] : i \in DOMAIN r.work}
        met == {u \in Txs : Scope(u) \cap scope # {}}
    IN  /\ tx' = [u \in Txs |->
                    IF u = t THEN [r EXCEPT !.alone = met = {}]
                    ELSE IF u \in met THEN [tx[u] EXCEPT !.alone = FALSE] ELSE tx[u]]
        /\ calm' = [s \in Ships |-> calm[s] /\ ~ \E u \in met : s \in Scope(u) \cap scope]
        /\ UNCHANGED <<now, ship, exc, plan>>

\* create, in one step: nobody else knows the shipment before it commits.
Create(s) ==
    /\ s \notin Existing
    /\ \A r \in Ships : r < s => r \in Existing
    /\ ship' = [ship EXCEPT ![s] = Row([NoShipment EXCEPT !.status = "CREATED", !.last = now])]
    /\ UNCHANGED <<now, exc, tx, plan, calm>>

\* Mutant: the lifecycle is not asked whether the shipment may move.
TransitionAnyway(t, s, to) ==
    /\ At(t, "idle")
    /\ ship[s].com.status # "NONE"
    /\ Begins(t, [Idle EXCEPT !.at = "write", !.to = to, !.stamp = now,
                    !.kept = IF to = "IN_TRANSIT" THEN ship[s].com.departed
                                                  ELSE ship[s].com.arrived, !.work = <<s>>])

\* book, dispatch, arrive, deliver, cancel: the status is read and checked.
Transition(t, s, to) ==
    /\ At(t, "idle")
    /\ <<ship[s].com.status, to>> \in ShipmentTransitions
    /\ Begins(t, [Idle EXCEPT !.at = "write", !.to = to, !.stamp = now,
                    !.kept = IF to = "IN_TRANSIT" THEN ship[s].com.departed
                                                  ELSE ship[s].com.arrived, !.work = <<s>>])

\* createManualEvent: the client may date the event, else it is now.
TrackingEvent(t, s, stamp) ==
    /\ At(t, "idle")
    /\ s \in Existing
    /\ Begins(t, [Idle EXCEPT !.at = "write", !.to = "EVENT", !.stamp = stamp, !.work = <<s>>])

\* updateEta; `kept' is the new estimate.
UpdateEta(t, s, eta) ==
    /\ At(t, "idle")
    /\ s \in Existing
    /\ Begins(t, [Idle EXCEPT !.at = "write", !.to = "ETA", !.stamp = now,
                    !.kept = eta, !.work = <<s>>])

\* Mutant: the list has no orderBy.
AnyOrder(S) == {w \in [1 .. Cardinality(S) -> S] : \A i, j \in DOMAIN w : i # j => w[i] # w[j]}

\* The orders in which list may work through S: newest first.
NewestFirst(S) == {w \in AnyOrder(S) : \A i, j \in DOMAIN w : i < j => w[i] > w[j]}

\* list (the shipments a filter lets through), get and exceptions (one).
Load(t, S) ==
    /\ At(t, "idle")
    /\ S # {} /\ S \subseteq Existing
    /\ \E w \in NewestFirst(S) : Begins(t, Decided([Idle EXCEPT !.work = w], ship[w[1]].com))

-----------------------------------------------------------------------------
(* The write of a change; what it leaves is then evaluated.                *)

Or(time, default) == IF time = Never THEN default ELSE time

\* Mutant: departing keeps the departure that was read, set or not.
ChangedUndated(v, t) ==
    LET to == tx[t].to
        dated == [v EXCEPT !.last = tx[t].stamp]
        arrived == Or(tx[t].kept, tx[t].stamp)
    IN  CASE to = "EVENT" -> dated
          [] to = "ETA" -> [dated EXCEPT !.eta = tx[t].kept]
          [] to = "IN_TRANSIT" -> [dated EXCEPT !.status = to, !.departed = tx[t].kept]
          [] to = "ARRIVED" -> [dated EXCEPT !.status = to, !.arrived = arrived]
          [] to = "DELIVERED" -> [dated EXCEPT !.status = to, !.arrived = arrived,
                                               !.delivered = tx[t].stamp]
          [] OTHER -> [dated EXCEPT !.status = to]

\* What the request makes of the row it finds when it writes, its
\* appendShipmentEvent included: `?? now' looks at the row as it was read.
Changed(v, t) ==
    LET to == tx[t].to
        dated == [v EXCEPT !.last = tx[t].stamp]
        arrived == Or(tx[t].kept, tx[t].stamp)
    IN  CASE to = "EVENT" -> dated
          [] to = "ETA" -> [dated EXCEPT !.eta = tx[t].kept]
          [] to = "IN_TRANSIT" -> [dated EXCEPT !.status = to, !.departed = Or(tx[t].kept, tx[t].stamp)]
          [] to = "ARRIVED" -> [dated EXCEPT !.status = to, !.arrived = arrived]
          [] to = "DELIVERED" -> [dated EXCEPT !.status = to, !.arrived = arrived,
                                               !.delivered = tx[t].stamp]
          [] OTHER -> [dated EXCEPT !.status = to]

Write(t) ==
    LET s == tx[t].work[1]
    IN  /\ At(t, "write")
        /\ Free(ship[s], t)
        /\ ship' = [ship EXCEPT ![s] = Put(@, t, Changed(Sees(@, t), t))]
        /\ tx' = [tx EXCEPT ![t] = Decided([@ EXCEPT !.to = "NONE", !.stamp = Never, !.kept = Never],
                                           ship'[s].cur)]
        /\ UNCHANGED <<now, exc, plan, calm>>

\* list reads the next of its shipments.
EvaluateNext(t) ==
    /\ At(t, "evaluate")
    /\ tx' = [tx EXCEPT ![t] = Decided(@, ship[Current(t)].com)]
    /\ UNCHANGED <<now, ship, exc, plan, calm>>

-----------------------------------------------------------------------------
(* openException and resolveOpenException, for the kind at hand.           *)

\* The exceptions of the kind that are open as far as t can see.
Open(t) == {x \in {Current(t)} \X {tx[t].kind} \X Slots : Sees(exc[x], t) # "NONE"}

WantedNow(t) == tx[t].want[tx[t].kind]

\* Mutant: the loop runs one past the last shipment.
EvaluatedPastEnd(t) ==
    IF tx[t].kind = "ETA_EXCEEDED"
    THEN [tx[t] EXCEPT !.at = "exception", !.kind = "TRACKING_STALE", !.found = 0]
    ELSE [tx[t] EXCEPT !.at = IF tx[t].next = Len(tx[t].work) THEN "commit" ELSE "evaluate",
                       !.next = @ + 1,
                       !.kind = "ETA_EXCEEDED", !.want = Idle.want, !.found = 0]

\* The transaction once it is done with the kind: late comes before silent.
Evaluated(t) ==
    IF tx[t].kind = "ETA_EXCEEDED"
    THEN [tx[t] EXCEPT !.at = "exception", !.kind = "TRACKING_STALE", !.found = 0]
    ELSE [tx[t] EXCEPT !.at = IF tx[t].next = Len(tx[t].work) THEN "commit" ELSE "evaluate",
                       !.next = IF @ = Len(tx[t].work) THEN @ ELSE @ + 1,
                       !.kind = "ETA_EXCEEDED", !.want = Idle.want, !.found = 0]

\* Mutant: only one open exception is resolved.
ResolveOne(t) ==
    /\ At(t, "exception")
    /\ WantedNow(t) = "NONE"
    /\ \A x \in Open(t) : Free(exc[x], t)
    /\ exc' = [x \in DOMAIN exc |->
                IF x \in Open(t) /\ x[3] = 1 THEN Put(exc[x], t, "NONE") ELSE exc[x]]
    /\ tx' = [tx EXCEPT ![t] = Evaluated(t)]
    /\ UNCHANGED <<now, ship, plan, calm>>

\* updateMany: all that are open, once nobody else holds them.
Resolve(t) ==
    /\ At(t, "exception")
    /\ WantedNow(t) = "NONE"
    /\ \A x \in Open(t) : Free(exc[x], t)
    /\ exc' = [x \in DOMAIN exc |-> IF x \in Open(t) THEN Put(exc[x], t, "NONE") ELSE exc[x]]
    /\ tx' = [tx EXCEPT ![t] = Evaluated(t)]
    /\ UNCHANGED <<now, ship, plan, calm>>

\* The slots in which the exception at hand may get its row: never empty, for
\* a transaction inserts one row, and only if it sees none open.
Unused(t) == {x \in {Current(t)} \X {tx[t].kind} \X Slots : exc[x] = Row("NONE")}

\* findFirst finds nothing, and create inserts; no one else sees the row yet.
Insert(t) ==
    LET mine == CHOOSE x \in Unused(t) : TRUE
    IN  /\ At(t, "exception")
        /\ WantedNow(t) # "NONE" /\ Open(t) = {} /\ Unused(t) # {}
        /\ exc' = [exc EXCEPT ![mine] = Put(@, t, WantedNow(t))]
        /\ tx' = [tx EXCEPT ![t] = Evaluated(t)]
        /\ UNCHANGED <<now, ship, plan, calm>>

\* findFirst finds one of the open exceptions.
Find(t) ==
    /\ At(t, "exception")
    /\ WantedNow(t) # "NONE"
    /\ \E x \in Open(t) : tx' = [tx EXCEPT ![t].at = "mend", ![t].found = x[3]]
    /\ UNCHANGED <<now, ship, exc, plan, calm>>

\* The update of the one found, by its id: it stays resolved if it has been.
Mend(t) ==
    LET x == <<Current(t), tx[t].kind, tx[t].found>>
    IN  /\ At(t, "mend")
        /\ Free(exc[x], t)
        /\ exc' = [exc EXCEPT ![x] =
                    Put(@, t, IF Sees(@, t) = "NONE" THEN "NONE" ELSE WantedNow(t))]
        /\ tx' = [tx EXCEPT ![t] = Evaluated(t)]
        /\ UNCHANGED <<now, ship, plan, calm>>

Commit(t) ==
    /\ At(t, "commit")
    /\ ship' = CommitAll(ship, t)
    /\ exc' = CommitAll(exc, t)
    /\ tx' = [tx EXCEPT ![t] = Idle]
    /\ UNCHANGED <<now, plan, calm>>

-----------------------------------------------------------------------------
(* What goes wrong, and time.                                              *)

\* A statement or the 30 s limit fails, the client's connection is of no
\* account; a crash of the API is an Abort of each of its transactions.
Abort(t) ==
    /\ ~ At(t, "idle")
    /\ ship' = RollbackAll(ship, t)
    /\ exc' = RollbackAll(exc, t)
    /\ tx' = [tx EXCEPT ![t] = Idle]
    /\ UNCHANGED <<now, plan, calm>>

\* Time passing disturbs a transaction too: what it decided may be outdated.
Tick ==
    /\ now < MaxTime
    /\ now' = now + 1
    /\ tx' = [t \in Txs |-> IF At(t, "idle") THEN tx[t] ELSE [tx[t] EXCEPT !.alone = FALSE]]
    /\ UNCHANGED <<ship, exc, plan, calm>>

\* The transactions that hold a row the next statement of t needs.
Holders(t) ==
    CASE At(t, "write") -> {ship[Current(t)].by}
      [] At(t, "mend") -> {exc[<<Current(t), tx[t].kind, tx[t].found>>].by}
      [] At(t, "exception") /\ WantedNow(t) = "NONE" -> {exc[x].by : x \in Open(t)}
      [] OTHER -> {}

WaitsFor(t, u) == u \in Holders(t) \ {t}

Init ==
    /\ now = 0
    /\ ship = [s \in Ships |-> Row(NoShipment)]
    /\ exc = [x \in Ships \X Kinds \X Slots |-> Row("NONE")]
    /\ tx = [t \in Txs |-> Idle]
    /\ plan \in Plans
    /\ calm = [s \in Ships |-> TRUE]

Request(t) ==
    \/ \E s \in Ships :
        \/ \E to \in plan[s] : Transition(t, s, to)
        \/ "EVENT" \in plan[s] /\ TrackingEvent(t, s, now)
        \/ "DATED" \in plan[s] /\ \E stamp \in Stamps : TrackingEvent(t, s, stamp)
        \/ "ETA" \in plan[s] /\ \E eta \in Etas : UpdateEta(t, s, eta)
    \/ \E S \in SUBSET Existing : Load(t, S)

Proceed(t) ==
    \/ Write(t) \/ EvaluateNext(t)
    \/ Resolve(t) \/ Insert(t) \/ Find(t) \/ Mend(t) \/ Commit(t)

Next ==
    \/ Tick
    \/ \E s \in Ships : "CREATED" \in plan[s] /\ Create(s)
    \/ \E t \in Txs : Request(t) \/ Proceed(t) \/ Abort(t)

Spec == Init /\ [][Next]_vars

-----------------------------------------------------------------------------
TxRecords ==
    [at : {"idle", "write", "evaluate", "exception", "mend", "commit"}, to : Requests,
     stamp : Times, kept : Times, work : Seq(Ships), next : Nat \ {0}, kind : Kinds,
     want : [Kinds -> Levels], found : Slots \cup {0}, alone : BOOLEAN]

\* Every row and every transaction is of its type; what a transaction works
\* through exists, and while it works it has a shipment at hand.
TypeOK ==
    /\ now \in 0 .. MaxTime
    /\ ship \in [Ships -> RowOf(Shipment, Txs)]
    /\ exc \in [Ships \X Kinds \X Slots -> RowOf(Levels, Txs)]
    /\ tx \in [Txs -> TxRecords]
    /\ plan \in Plans /\ calm \in [Ships -> BOOLEAN]
    /\ \A t \in Txs :
        /\ Scope(t) \subseteq Existing
        /\ ~ At(t, "idle") => tx[t].next \in DOMAIN tx[t].work

\* However requests overlap, a status is backed by its timestamps: nothing is
\* underway without a departure, and nothing delivered without an arrival and
\* the deliveredAt that the OTIF figures are computed from.
StatusBacked ==
    \A s \in Ships : \A v \in {ship[s].com, ship[s].cur} :
        /\ v.status \in {"IN_TRANSIT", "ARRIVED", "DELIVERED"} => v.departed # Never
        /\ v.status \in {"ARRIVED", "DELIVERED"} => v.arrived # Never
        /\ v.status = "DELIVERED" => v.delivered # Never

\* Requests that take turns on a shipment leave it consistent: it departed
\* before it arrived before it was delivered, it has at most one open
\* exception of a kind, and none once it is delivered or cancelled.
TurnsLeaveOrder ==
    \A s \in Ships : calm[s] =>
        LET v == ship[s].com
            open(k) == {i \in Slots : exc[<<s, k, i>>].com # "NONE"}
        IN  /\ v.arrived # Never => v.departed # Never /\ v.departed <= v.arrived
            /\ v.delivered # Never => v.arrived <= v.delivered /\ v.delivered <= now
            /\ \A k \in Kinds : Cardinality(open(k)) <= 1
            /\ v.status \notin ACTIVE_STATUSES => \A k \in Kinds : open(k) = {}

\* Page loads and changes never wait for each other in a circle: list works
\* through the shipments in one order, and a change holds one shipment only.
LoadsNeverDeadlock ==
    \A S \in SUBSET Txs : ~ Deadlocked(S, WaitsFor)

\* Requests that take turns on a shipment move it along its lifecycle, and
\* set deliveredAt once (ADR 0010).
LegalTransitions ==
    [][\A s \in Ships : calm[s] =>
        LET v == ship[s].com
            w == ship'[s].com
        IN  /\ v.status # w.status =>
                   <<v.status, w.status>> \in ShipmentTransitions \cup {<<"NONE", "CREATED">>}
            /\ v.delivered # Never => w.delivered = v.delivered]_vars

\* What a request that was alone commits, whatever racing ones have left
\* behind.  It closes every open exception of a kind that is not wanted.  Of
\* a kind that is wanted it brings one open exception to the level wanted, or
\* opens one if none was, and leaves the others as they were: it adds no
\* duplicate, and it does not remove or correct those a race has opened.
EvaluationSettles ==
    [][\A t \in Txs : (tx[t].alone /\ Commit(t)) =>
        \A s \in Scope(t), k \in Kinds :
            LET was(i) == exc[<<s, k, i>>].com
                is(i) == exc'[<<s, k, i>>].com
                want == Wanted(ship'[s].com, now)[k]
            IN  IF want = "NONE" THEN \A i \in Slots : is(i) = "NONE"
                ELSE \E i \in Slots :
                        /\ is(i) = want
                        /\ was(i) # "NONE" \/ \A j \in Slots : was(j) = "NONE"
                        /\ \A j \in Slots \ {i} : is(j) = was(j)]_vars
=============================================================================
