---------------------------- MODULE PredictionDelivery ----------------------------
(***************************************************************************)
(* What the edge's store-and-forward promises the platform, without        *)
(* threads, connections or an MQTT client: predictions are made, some are  *)
(* saved, saved ones are released oldest first, they arrive in the order   *)
(* they were made, and a power cut can erase only what is neither saved    *)
(* nor arrived.  It promises nothing of what the platform then keeps,      *)
(* except that it keeps a prediction once and only after it arrived.       *)
(***************************************************************************)
EXTENDS Naturals, Sequences

VARIABLES
    made,     \* predictions are numbered 1..made
    saved,    \* those that survive a power cut
    reached,  \* those that arrived, by first arrival
    stored,   \* the platform's rows
    gone      \* those a power cut erased

vars == <<made, saved, reached, stored, gone>>

InSeq(s) == {s[i] : i \in DOMAIN s}

Init == made = 0 /\ saved = {} /\ reached = <<>> /\ stored = <<>> /\ gone = {}

Make ==
    /\ made' = made + 1
    /\ UNCHANGED <<saved, reached, stored, gone>>

\* Only the newest prediction is saved: everything saved before is older.
Save ==
    /\ made \notin saved \cup gone
    /\ saved' = saved \cup {made}
    /\ UNCHANGED <<made, reached, stored, gone>>

\* The oldest saved prediction leaves the table.
Release(m) ==
    /\ m \in saved /\ \A x \in saved : m <= x
    /\ saved' = saved \ {m}
    /\ UNCHANGED <<made, reached, stored, gone>>

\* A prediction arrives for the first time: newer than every other, no saved
\* one overtaken, and never one that is known to be erased.  The platform
\* keeps it or drops it.
Arrive(m) ==
    /\ m \in (1..made) \ gone
    /\ \A s \in InSeq(reached) : s < m
    /\ \A x \in saved : m <= x
    /\ reached' = Append(reached, m)
    /\ stored' \in {stored, Append(stored, m)}
    /\ UNCHANGED <<made, saved, gone>>

\* One that was dropped arrives again and is kept.
KeepLate(m) ==
    /\ m \in InSeq(reached) \ InSeq(stored)
    /\ stored' = Append(stored, m)
    /\ UNCHANGED <<made, saved, reached, gone>>

Lose(L) ==
    /\ L \subseteq (1..made) \ (saved \cup InSeq(reached) \cup gone)
    /\ gone' = gone \cup L
    /\ UNCHANGED <<made, saved, reached, stored>>

Next ==
    \/ Make
    \/ Save
    \/ \E m \in 1..made : Release(m) \/ Arrive(m) \/ KeepLate(m)
    \/ \E L \in SUBSET (1..made) : Lose(L)

Spec == Init /\ [][Next]_vars
=============================================================================
