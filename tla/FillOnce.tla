------------------------------ MODULE FillOnce ------------------------------
(* What a served plan promises for its histserv-backed slots: every partition *)
(* is added to a slot at most once, and the value handed back for a slot is   *)
(* the sum of every partition once - or no value at all.                      *)
EXTENDS Naturals

CONSTANTS
    Slots,          \* the plan's backed slots
    Partitions      \* the partitions of its tasks

VARIABLES
    added,          \* added[s]: the partitions slot s's sum holds
    outcome,        \* outcome[s]: "open", "taken" (value handed back) or "lost"
    taken           \* taken[s]: how often each partition is in s's value

vars == <<added, outcome, taken>>

Nothing == [p \in Partitions |-> 0]
Everything == [p \in Partitions |-> 1]

TypeOK ==
    /\ added \in [Slots -> SUBSET Partitions]
    /\ outcome \in [Slots -> {"open", "taken", "lost"}]
    /\ taken \in [Slots -> [Partitions -> Nat]]

Init ==
    /\ added = [s \in Slots |-> {}]
    /\ outcome = [s \in Slots |-> "open"]
    /\ taken = [s \in Slots |-> Nothing]

\* Partition p's fill reaches slot s, for the first and last time.
Add(s, p) ==
    /\ outcome[s] = "open"
    /\ p \notin added[s]
    /\ added' = [added EXCEPT ![s] = @ \cup {p}]
    /\ UNCHANGED <<outcome, taken>>

\* The sums of the slots in S are gone: no later step hands a value back.
Lose(S) ==
    /\ \A s \in S : outcome[s] = "open"
    /\ outcome' = [s \in Slots |-> IF s \in S THEN "lost" ELSE outcome[s]]
    /\ UNCHANGED <<added, taken>>

\* Slot s's value is handed back: only once every partition is in it.
Take(s) ==
    /\ outcome[s] = "open"
    /\ added[s] = Partitions
    /\ outcome' = [outcome EXCEPT ![s] = "taken"]
    /\ taken' = [taken EXCEPT ![s] = Everything]
    /\ UNCHANGED added

Next ==
    \/ \E s \in Slots, p \in Partitions : Add(s, p)
    \/ \E S \in SUBSET Slots : Lose(S)
    \/ \E s \in Slots : Take(s)

Spec == Init /\ [][Next]_vars
=============================================================================
