--------------------------- MODULE FaultInjector ---------------------------
(***************************************************************************)
(* The faults drawn for one message (src/fault_injector.py over the seeded *)
(* draws of src/scheduler.py).  A probability is abstracted to whether its *)
(* roll may fail and may succeed, and a draw to the set of its values.     *)
(***************************************************************************)
EXTENDS Integers

CONSTANTS
    DropProbability, DelayProbability, DuplicateProbability, ReorderProbability,
    MaxDelay,           \* max_delay
    MaxDuplicates       \* max_duplicates

Probabilities == {"zero", "between", "one"}

ASSUME FaultInjectorAssumption ==
    /\ {DropProbability, DelayProbability, DuplicateProbability, ReorderProbability}
         \subseteq Probabilities
    /\ MaxDelay \in Nat /\ MaxDuplicates \in Nat

FaultResult == [dropped : BOOLEAN, delay : 0 .. MaxDelay,
                duplicates : 0 .. MaxDuplicates, reorder : BOOLEAN]

\* rng_roll: probability 0 never succeeds, 1 always does.
RngRoll(probability) ==
    {success \in BOOLEAN : /\ probability = "zero" => ~ success
                           /\ probability = "one" => success}

\* A roll, then rng_randint(1, max) if it succeeded; no roll if max is 0.
Draw(probability, max) ==
    {k \in 0 .. max : IF k = 0 THEN max = 0 \/ FALSE \in RngRoll(probability)
                      ELSE TRUE \in RngRoll(probability)}

\* apply: a dropped message draws nothing more.
FaultResults ==
    {result \in FaultResult :
        /\ result.dropped \in RngRoll(DropProbability)
        /\ IF result.dropped
           THEN result.delay = 0 /\ result.duplicates = 0 /\ ~ result.reorder
           ELSE /\ result.delay \in Draw(DelayProbability, MaxDelay)
                /\ result.duplicates \in Draw(DuplicateProbability, MaxDuplicates)
                /\ result.reorder \in RngRoll(ReorderProbability)}

\* total_copies.
TotalCopies(result) == IF result.dropped THEN 0 ELSE 1 + result.duplicates
=============================================================================
