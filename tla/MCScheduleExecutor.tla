------------------------ MODULE MCScheduleExecutor ------------------------
(* Small instances of ScheduleExecutor for TLC. *)
EXTENDS ScheduleExecutor, TLC

CONSTANTS k1, k2, t1, t2

OneRow == [k \in Keys |-> 1]
SecondHasTwo == [k \in Keys |-> IF k = k2 THEN 2 ELSE 1]

\* Bound of the run with two tabs: what follows once two requests have crossed,
\* and a missed day, are left to the theorems and to the run with one tab.
Apart == crossed = {} /\ ~overdue

\* Bound of the run with one tab: at most one fault when a day is missed.
QuietDays == overdue => Cardinality(faults) <= 1

Symmetry == Permutations(Tabs) \cup Permutations(Keys)
=============================================================================
