------------------------------ MODULE DagProofs ------------------------------
(***************************************************************************)
(* DagService.validate is right about every list of tasks.  The inductive  *)
(* invariant is the usual one of Kahn's algorithm: a degree counts the     *)
(* dependencies not visited yet, the queue holds what is not visited and   *)
(* has none left, and nothing visited lies on a cycle.                     *)
(***************************************************************************)
EXTENDS Dag, FiniteSetTheorems, TLAPS

\* The engine could get stuck in U: each of its tasks waits for another one.
Stuck(U) == U # {} /\ \A n \in U : Needs(n) \cap U # {}

\* The request is one the schema lets through.
Request ==
    /\ raw \in UNION {[1..n -> TaskCreate] : n \in 1..MaxTasks}
    /\ verdict \in Verdicts \cup {"received", "walking"}

\* While and after the loop runs.
Walk ==
    /\ NoneBlank /\ NamesUnique /\ DependenciesExist
    /\ popped \subseteq TaskNames
    /\ visited = Cardinality(popped)
    /\ indegree \in [Names -> Nat]
    /\ \A n \in TaskNames : indegree[n] = Cardinality(Needs(n) \ popped)
    /\ queue = {n \in TaskNames \ popped : indegree[n] = 0}
    /\ \A n \in popped : Needs(n) \subseteq popped
    /\ \A U \in SUBSET TaskNames : Stuck(U) => U \cap popped = {}

\* The inductive invariant.
Inv ==
    /\ Request
    /\ verdict \notin {"walking", "accepted", "cycle"} =>
           popped = {} /\ queue = {} /\ visited = 0 /\ indegree \in [Names -> Nat]
    /\ verdict \in {"walking", "accepted", "cycle"} => Walk
    /\ verdict = "accepted" => queue = {} /\ visited = Cardinality(Indices)
    /\ verdict = "cycle" => queue = {} /\ visited # Cardinality(Indices)

-----------------------------------------------------------------------------

\* Names that stand in a request are names, and there are finitely many.
LEMMA RequestNames ==
    ASSUME Request
    PROVE  /\ IsFiniteSet(Indices)
           /\ IsFiniteSet(TaskNames)
           /\ \A n : IsFiniteSet(Needs(n))
           /\ NoneBlank => TaskNames \subseteq Names
<1>1. PICK n \in 1..MaxTasks : raw \in [1..n -> TaskCreate]
  BY DEF Request
<1>2. Indices = 1..n /\ IsFiniteSet(1..n)
  BY <1>1, FS_Interval DEF Indices
<1>3. \A i \in Indices : NameOf(i) \in Names \cup {Blank} /\ Dependencies(i) \subseteq Names
  BY <1>1, <1>2, DagAssumption DEF NameOf, Dependencies, TaskCreate
<1>4. IsFiniteSet(TaskNames)
  <2>1. TaskNames \subseteq Names \cup {Blank}
    BY <1>3 DEF TaskNames
  <2>2. IsFiniteSet(Names \cup {Blank})
    BY DagAssumption, FS_AddElement
  <2> QED BY <2>1, <2>2, FS_Subset
<1>5. \A m : Needs(m) \subseteq Names
  BY <1>3 DEF Needs
<1>6. \A m : IsFiniteSet(Needs(m))
  BY <1>5, DagAssumption, FS_Subset
<1>7. NoneBlank => TaskNames \subseteq Names
  BY <1>3 DEF NoneBlank, TaskNames
<1> QED BY <1>2, <1>4, <1>6, <1>7

\* Counting the names, as validate does, finds every repetition.
LEMMA CountingFindsRepetitions ==
    ASSUME Request, NamesUnique
    PROVE  \A i, k \in Indices : NameOf(i) = NameOf(k) => i = k
<1> DEFINE f == [i \in Indices |-> NameOf(i)]
<1>1. f \in Surjection(Indices, TaskNames)
  BY DEF Surjection, TaskNames
<1>2. f \in Injection(Indices, TaskNames)
  BY <1>1, RequestNames, FS_SurjSameCardinalityImpliesInj DEF NamesUnique
<1> QED BY <1>2 DEF Injection, IsInjective

\* A set of tasks is closed under waiting exactly when the engine could get
\* stuck in it.
LEMMA StuckSets ==
    AlwaysOneReady <=> ~ \E U \in SUBSET TaskNames : Stuck(U)
BY DEF AlwaysOneReady, Stuck

\* A request that has just come in has not been walked (DagService.validate's
\* locals are fresh).
LEMMA InitInv == Init => Inv
BY DEF Init, Inv, Request

-----------------------------------------------------------------------------

\* The loop is entered with every degree counting all dependencies.
LEMMA BeginInv == ASSUME Inv, Begin PROVE Inv'
<1>1. Request /\ popped = {} /\ visited = 0
  BY DEF Inv, Begin
<1>2. Request' /\ verdict' = "walking"
  BY <1>1 DEF Begin, Request
<1>3. /\ TaskNames' = TaskNames /\ Indices' = Indices
      /\ \A n : Needs(n)' = Needs(n)
      /\ NoneBlank' /\ NamesUnique' /\ DependenciesExist'
  BY DEF Begin, TaskNames, Indices, NameOf, Dependencies, Needs, NoneBlank, NamesUnique,
         DependenciesExist
<1>4. TaskNames \subseteq Names
  BY <1>1, RequestNames DEF Begin
<1>5. indegree' \in [Names -> Nat]
  BY <1>1, RequestNames, FS_CardinalityType DEF Begin
<1>6. \A n \in TaskNames : indegree'[n] = Cardinality(Needs(n) \ {})
  <2>1. \A n \in TaskNames : indegree'[n] = Cardinality(Needs(n))
    BY <1>4 DEF Begin
  <2>2. \A n : Needs(n) \ {} = Needs(n)
    OBVIOUS
  <2> QED BY <2>1, <2>2
<1>7. queue' = {n \in TaskNames \ {} : indegree'[n] = 0}
  BY DEF Begin
<1>8. popped' = {} /\ visited' = Cardinality({})
  BY <1>1, FS_EmptySet DEF Begin
<1>9. Walk'
  BY <1>3, <1>5, <1>6, <1>7, <1>8 DEF Walk
<1> QED BY <1>2, <1>9 DEF Inv

\* A visit keeps the count of what is left, and a name whose dependencies are
\* all visited is in no stuck set.
LEMMA VisitInv == ASSUME Inv, NEW n \in Names, Visit(n) PROVE Inv'
<1>1. Request /\ Walk /\ verdict = "walking"
  BY DEF Inv, Visit
<1>2. Request' /\ verdict' = "walking" /\ verdict = "walking"
  BY <1>1 DEF Visit, Request
<1>3. /\ TaskNames' = TaskNames /\ Indices' = Indices
      /\ \A m : Needs(m)' = Needs(m)
      /\ NoneBlank' /\ NamesUnique' /\ DependenciesExist'
      /\ popped' = popped \cup {n}
  <2>1. raw' = raw /\ popped' = popped \cup {n}
    BY DEF Visit
  <2>2. NoneBlank /\ NamesUnique /\ DependenciesExist
    BY <1>1 DEF Walk
  <2> QED BY <2>1, <2>2 DEF TaskNames, Indices, NameOf, Dependencies, Needs, NoneBlank,
                            NamesUnique, DependenciesExist
<1>4. TaskNames \subseteq Names
  BY <1>1, RequestNames DEF Walk
<1>5. n \in TaskNames /\ n \notin popped /\ indegree[n] = 0
  BY <1>1 DEF Visit, Walk
<1>6. popped' \subseteq TaskNames
  BY <1>1, <1>3, <1>5 DEF Walk
<1>7. visited' = Cardinality(popped')
  <2>1. IsFiniteSet(popped)
    BY <1>1, RequestNames, FS_Subset DEF Walk
  <2>2. Cardinality(popped \cup {n}) = Cardinality(popped) + 1
    BY <1>5, <2>1, FS_AddElement
  <2>3. visited' = visited + 1 /\ visited = Cardinality(popped)
    BY <1>1 DEF Visit, Walk
  <2> QED BY <1>3, <2>2, <2>3
<1>8. \A m \in TaskNames : indegree'[m] = Cardinality(Needs(m) \ popped')
  <2> SUFFICES ASSUME NEW m \in TaskNames PROVE indegree'[m] = Cardinality(Needs(m) \ popped')
    OBVIOUS
  <2> DEFINE left == Needs(m) \ popped
  <2>1. IsFiniteSet(left)
    BY <1>1, RequestNames, FS_Subset
  <2>2. Needs(m) \ popped' = left \ {n}
    BY <1>3
  <2>3. n \in left <=> m \in Neighbors(n)
    BY <1>5 DEF Neighbors
  <2>4. Cardinality(left \ {n}) = IF n \in left THEN Cardinality(left) - 1 ELSE Cardinality(left)
    BY <2>1, FS_RemoveElement
  <2>5. indegree[m] = Cardinality(left)
    BY <1>1 DEF Walk
  <2>6. indegree'[m] = IF m \in Neighbors(n) THEN indegree[m] - 1 ELSE indegree[m]
    BY <1>4 DEF Visit
  <2> HIDE DEF left
  <2> QED BY <2>2, <2>3, <2>4, <2>5, <2>6
<1>9. indegree' \in [Names -> Nat]
  <2>1. \A m \in TaskNames : indegree'[m] \in Nat
    BY <1>1, <1>8, RequestNames, FS_Subset, FS_CardinalityType
  <2>2. \A m \in Names \ TaskNames : indegree'[m] \in Nat
    BY <1>1 DEF Visit, Walk, Neighbors
  <2>3. indegree' = [m \in Names |-> indegree'[m]]
    BY DEF Visit
  <2> QED BY <2>1, <2>2, <2>3
<1>10. Needs(n) \subseteq popped
  <2>1. IsFiniteSet(Needs(n) \ popped)
    BY <1>1, RequestNames, FS_Subset
  <2>2. Cardinality(Needs(n) \ popped) = 0
    BY <1>1, <1>5 DEF Walk
  <2> QED BY <2>1, <2>2, FS_EmptySet
<1>11. queue' = {m \in TaskNames \ popped' : indegree'[m] = 0}
  <2>1. \A m \in TaskNames \ Neighbors(n) : indegree'[m] = indegree[m]
    BY <1>4 DEF Visit
  <2>2. \A m \in Neighbors(n) : m \notin popped
    BY <1>1, <1>5 DEF Walk, Neighbors
  <2>3. n \notin Neighbors(n)
    BY <1>5, <1>10 DEF Neighbors
  <2>4. Neighbors(n) \subseteq TaskNames
    BY DEF Neighbors
  <2>5. queue' = (queue \ {n}) \cup {m \in Neighbors(n) : indegree'[m] = 0}
    BY DEF Visit
  <2>6. queue = {m \in TaskNames \ popped : indegree[m] = 0}
    BY <1>1 DEF Walk
  <2>7. \A m \in Neighbors(n) : m \in queue => FALSE
    <3> SUFFICES ASSUME NEW m \in Neighbors(n), indegree[m] = 0 PROVE FALSE
      BY <2>6
    <3>1. indegree'[m] = 0 - 1
      BY <1>4, <2>4 DEF Visit
    <3> QED BY <1>4, <1>9, <2>4, <3>1
  <2> QED BY <1>3, <2>1, <2>2, <2>3, <2>4, <2>5, <2>6, <2>7
<1>12. \A m \in popped' : Needs(m) \subseteq popped'
  BY <1>1, <1>3, <1>10 DEF Walk
<1>13. \A U \in SUBSET TaskNames : Stuck(U) => U \cap popped' = {}
  BY <1>1, <1>3, <1>10 DEF Walk, Stuck
<1>14. Walk'
  <2>1. \A U : Stuck(U)' = Stuck(U)
    BY <1>3 DEF Stuck
  <2> QED BY <1>3, <1>6, <1>7, <1>8, <1>9, <1>11, <1>12, <1>13, <2>1 DEF Walk
<1> QED BY <1>2, <1>14 DEF Inv

\* The other steps leave the walk alone.
LEMMA OtherInv ==
    ASSUME Inv, \/ RejectBlank \/ RejectDuplicate \/ RejectUnknown \/ Finish \/ UNCHANGED vars
    PROVE  Inv'
<1>1. CASE RejectBlank \/ RejectDuplicate \/ RejectUnknown
  BY <1>1 DEF Inv, Request, RejectBlank, RejectDuplicate, RejectUnknown, Refuse, Verdicts
<1>2. CASE Finish \/ UNCHANGED vars
  <2>1. /\ raw' = raw /\ queue' = queue /\ popped' = popped
        /\ visited' = visited /\ indegree' = indegree
    BY <1>2 DEF Finish, vars
  <2>2. Walk => Walk'
    <3>1. /\ TaskNames' = TaskNames /\ NoneBlank' = NoneBlank /\ NamesUnique' = NamesUnique
          /\ DependenciesExist' = DependenciesExist /\ \A n : Needs(n)' = Needs(n)
      BY <2>1 DEF TaskNames, Indices, NameOf, Dependencies, Needs, NoneBlank, NamesUnique,
                  DependenciesExist
    <3>2. \A U : Stuck(U)' = Stuck(U)
      BY <3>1 DEF Stuck
    <3> QED BY <2>1, <3>1, <3>2 DEF Walk
  <2>3. Indices' = Indices
    BY <2>1 DEF Indices
  <2>4. CASE Finish
    BY <2>1, <2>2, <2>3, <2>4 DEF Inv, Request, Finish, Verdicts
  <2>5. CASE UNCHANGED vars
    BY <2>1, <2>2, <2>3, <2>5 DEF Inv, Request, vars
  <2> QED BY <1>2, <2>4, <2>5
<1> QED BY <1>1, <1>2

\* The invariant of Kahn's algorithm holds throughout DagService.validate.
THEOREM Invariance == Spec => []Inv
<1>1. Inv /\ [Next]_vars => Inv'
  BY BeginInv, VisitInv, OtherInv DEF Next
<1> QED BY InitInv, <1>1, PTL DEF Spec

\* Type correctness of validate's locals.
THEOREM TypeCorrect == Spec => []TypeOK
<1>1. Inv => TypeOK
  <2> SUFFICES ASSUME Inv PROVE TypeOK
    OBVIOUS
  <2>1. CASE verdict \in {"walking", "accepted", "cycle"}
    <3>1. Request /\ Walk
      BY <2>1 DEF Inv
    <3>2. visited \in Nat
      BY <3>1, RequestNames, FS_Subset, FS_CardinalityType DEF Walk
    <3> QED BY <3>1, <3>2 DEF Walk, TypeOK, Request
  <2>2. CASE verdict \notin {"walking", "accepted", "cycle"}
    BY <2>2 DEF Inv, Request, TypeOK
  <2> QED BY <2>1, <2>2
<1> QED BY Invariance, <1>1, PTL

\* DagService.validate accepts a list exactly when its names are unique, its
\* dependencies exist and some task can always be started: for lists of any
\* length, whatever the order in which the queue is served.
THEOREM ValidateCorrect == Spec => []VerdictCorrect
<1>1. Inv => VerdictCorrect
  <2> SUFFICES ASSUME Inv PROVE VerdictCorrect
    OBVIOUS
  <2>1. ASSUME verdict = "accepted"
        PROVE  /\ \A i, k \in Indices : NameOf(i) = NameOf(k) => i = k
               /\ \A n \in TaskNames : Needs(n) \subseteq TaskNames
               /\ AlwaysOneReady
    <3>1. Request /\ Walk /\ visited = Cardinality(Indices)
      BY <2>1 DEF Inv
    <3>2. popped = TaskNames
      BY <3>1, RequestNames, FS_Subset DEF Walk, NamesUnique
    <3>3. \A n \in TaskNames : Needs(n) \subseteq TaskNames
      BY <3>1, <3>2 DEF Walk
    <3>4. \A U \in SUBSET TaskNames : ~Stuck(U)
      BY <3>1, <3>2 DEF Walk, Stuck
    <3> QED BY <3>1, <3>3, <3>4, StuckSets, CountingFindsRepetitions DEF Walk
  <2>2. ASSUME verdict = "cycle" PROVE ~AlwaysOneReady
    <3>1. Request /\ Walk /\ queue = {} /\ visited # Cardinality(Indices)
      BY <2>2 DEF Inv
    <3> DEFINE U == TaskNames \ popped
    <3>2. U # {}
      BY <3>1 DEF Walk, NamesUnique
    <3>3. ASSUME NEW n \in U PROVE Needs(n) \cap U # {}
      <4>1. Cardinality(Needs(n) \ popped) # 0
        BY <3>1 DEF Walk
      <4>2. Needs(n) \ popped # {}
        BY <4>1, FS_EmptySet
      <4>3. Needs(n) \subseteq TaskNames
        BY <3>1 DEF Walk, DependenciesExist, Needs
      <4> QED BY <4>2, <4>3
    <3> QED BY <3>2, <3>3, StuckSets DEF Stuck
  <2> QED BY <2>1, <2>2 DEF VerdictCorrect
<1> QED BY Invariance, <1>1, PTL
=============================================================================
