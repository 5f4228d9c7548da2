------------------------------ MODULE MCEngine ------------------------------
(***************************************************************************)
(* Engine for TLC: a fan-in (a and b before c), a fan-out (a before b and  *)
(* c) or a pair (a before b).                                              *)
(***************************************************************************)
EXTENDS Engine, TLC

CONSTANTS a, b, c, w1, p0

FanIn == (a :> {}) @@ (b :> {}) @@ (c :> {a, b})
FanOut == (a :> {}) @@ (b :> {a}) @@ (c :> {a})
Pair == (a :> {}) @@ (b :> {a})

NoRetries == [t \in Tasks |-> 0]

RetryB == [t \in Tasks |-> IF t = b THEN 1 ELSE 0]

\* Rows come in the order of creation, or in the opposite order after updates
\* have moved them.
Orders == {<<a, b, c>>, <<c, b, a>>}

PairOrder == {<<a, b>>}

\* All workers in the API's process.
Inline == [w \in Workers |-> p0]

NoCalls == {}
CancelOnly == {[op |-> "cancel", task |-> None]}
SkipAndRetry == {[op |-> "skip", task |-> b], [op |-> "retry", task |-> a]}

MCSymmetry == Permutations(Workers)
=============================================================================
