---------------------------- MODULE DiagnosticRing ----------------------------
(* The bounded event deque of a driver (driver.py), as an operator.        *)
EXTENDS Naturals, Sequences

CONSTANT RingSize   \* DIAGNOSTIC_EVENT_HISTORY (32 in the code)

ASSUME RingAssumption == RingSize \in Nat \ {0}

\* Mutant: the ring keeps one event too many.
PushedLong(ring, event) == IF Len(ring) <= RingSize THEN Append(ring, event)
                           ELSE Append(Tail(ring), event)

\* deque(maxlen).append
Pushed(ring, event) == IF Len(ring) < RingSize THEN Append(ring, event)
                       ELSE Append(Tail(ring), event)
=============================================================================
