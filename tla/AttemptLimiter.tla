---------------------------- MODULE AttemptLimiter ----------------------------
(***************************************************************************)
(* What IncrementCache promises to the callers that spend a budget of      *)
(* attempts: counting an attempt, learning its slot and being let through  *)
(* or turned away is one indivisible step on one counter, and the counter  *)
(* starts again when it has lapsed or an attempt has succeeded.            *)
(***************************************************************************)
EXTENDS Integers

CONSTANTS Handlers, MaxAttempts, TtlSeconds

VARIABLES
    now,       \* the time
    counter,   \* attempts counted, and when the count lapses
    comparing  \* the handlers let through to the comparison

limiter == <<now, counter, comparing>>

NoCount == [value |-> 0, exp |-> 0]

Init ==
    /\ now = 0
    /\ counter = NoCount
    /\ comparing = {}

(* The slot of an attempt made at time t.  The count lasts through its     *)
(* last second.                                                            *)
Slot(t) == 1 + IF counter.exp >= t THEN counter.value ELSE 0

(* An attempt is judged by a clock reading that may be old by the time it  *)
(* is counted, never by an old count.                                      *)
Attempt(h) ==
    \E t \in 0..now :
        /\ counter' = [value |-> Slot(t), exp |-> t + TtlSeconds]
        /\ comparing' = comparing \cup (IF Slot(t) <= MaxAttempts THEN {h} ELSE {})
        /\ UNCHANGED now

Fail(h) ==
    /\ h \in comparing
    /\ comparing' = comparing \ {h}
    /\ UNCHANGED <<now, counter>>

Succeed(h) ==
    /\ h \in comparing
    /\ comparing' = comparing \ {h}
    /\ counter' = NoCount
    /\ UNCHANGED now

Tick ==
    /\ now' = now + 1
    /\ UNCHANGED <<counter, comparing>>

Next == Tick \/ \E h \in Handlers : Attempt(h) \/ Fail(h) \/ Succeed(h)

Spec == Init /\ [][Next]_limiter

=============================================================================
