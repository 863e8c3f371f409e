------------------------------- MODULE Delays -------------------------------
(***************************************************************************)
(* The rules by which a shipment is late (ETA_EXCEEDED) or silent          *)
(* (TRACKING_STALE).  Time is counted in units of which StaleAfter make    *)
(* the stale threshold and CriticalAfter the 24 hours after which a delay  *)
(* is critical.                                                            *)
(***************************************************************************)
EXTENDS Integers, Lifecycles

CONSTANTS
    StaleAfter,     \* SHIPMENT_STALE_HOURS
    CriticalAfter   \* the delay from which an ETA_EXCEEDED is CRITICAL

ASSUME DelaysAssumption == StaleAfter \in Nat /\ CriticalAfter \in Nat

Kinds == {"ETA_EXCEEDED", "TRACKING_STALE"}

\* Mutant: a shipment that is over is still late.
WantedForEver(v, time) ==
    [k \in Kinds |->
        CASE k = "ETA_EXCEEDED" /\ v.eta # Never /\ time > v.eta ->
                 IF time - v.eta >= CriticalAfter THEN "CRITICAL" ELSE "WARNING"
          [] k = "TRACKING_STALE" /\ time - v.last > StaleAfter -> "WARNING"
          [] OTHER -> "NONE"]

\* The exceptions a shipment should have open at a time: none if it is over.
Wanted(v, time) ==
    [k \in Kinds |->
        IF v.status \notin ACTIVE_STATUSES THEN "NONE"
        ELSE CASE k = "ETA_EXCEEDED" /\ v.eta # Never /\ time > v.eta ->
                      IF time - v.eta >= CriticalAfter THEN "CRITICAL" ELSE "WARNING"
               [] k = "TRACKING_STALE" /\ time - v.last > StaleAfter -> "WARNING"
               [] OTHER -> "NONE"]
=============================================================================
