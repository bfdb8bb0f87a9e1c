------------------------ MODULE SessionSummary_proofs ------------------------
(***************************************************************************)
(* Theorems about what the summary of a session says: the totals over the   *)
(* records (SessionTotals) for any endpoints, any length of the queue and   *)
(* any number of alerts, lost or overtaken; the statistics of a series      *)
(* (SampleStatistics) for samples in any number and of any size.            *)
(***************************************************************************)
EXTENDS SessionTotals, SampleStatistics, SequenceTheorems, FiniteSetTheorems, TLAPS

-----------------------------------------------------------------------------
(* Sums. The function that folds a sum exists and is the only one, by       *)
(* induction over the subsets of a finite set; so a sum can be taken apart. *)

\* Induction over the subsets of a finite set.
LEMMA SubsetInduction ==
  ASSUME NEW S, IsFiniteSet(S), NEW D,
         \A T \in SUBSET S : (\A U \in SUBSET T : U # T => U \in D) => T \in D
  PROVE  S \in D
  <1> DEFINE Bad == {T \in SUBSET S : T \notin D}
  <1>1. IsWellFoundedOn(StrictSubsetOrdering(S), SUBSET S)
    <2>1. FiniteSubsetsOf(S) = SUBSET S
      BY FS_FiniteSubsetsOfFinite
    <2>2. IsWellFoundedOn(StrictSubsetOrdering(S), FiniteSubsetsOf(S))
      BY FS_StrictSubsetOrderingWellFounded, Zenon
    <2> QED BY <2>1, <2>2, Zenon
  <1>2. ASSUME Bad # {}
        PROVE  FALSE
    <2>0. Bad \subseteq SUBSET S
      OBVIOUS
    <2>1. PICK T \in Bad : \A U \in Bad : ~(<<U, T>> \in StrictSubsetOrdering(S))
      <3> HIDE DEF Bad
      <3>1. PICK R, W : R = StrictSubsetOrdering(S) /\ W = SUBSET S
        OBVIOUS
      <3>2. IsWellFoundedOn(R, W) /\ Bad \subseteq W
        BY <1>1, <2>0, <3>1, Zenon
      <3>3. \E T \in Bad : \A U \in Bad : ~(<<U, T>> \in R)
        BY <1>2, <3>2, WFMin
      <3> QED BY <3>1, <3>3, Zenon
    <2>2. \A U \in SUBSET T : U # T => U \in D
      BY <2>1 DEF StrictSubsetOrdering
    <2> QED BY <2>1, <2>2
  <1> QED BY <1>2

\* The function a sum is folded with.
Picked(s) == CHOOSE x \in s : TRUE
Folding(g, f, S) ==
    g = [s \in SUBSET S |->
            IF s = {} THEN 0 ELSE f[Picked(s)] + g[s \ {Picked(s)}]]

LEMMA SumIs ==
  ASSUME NEW f, NEW S
  PROVE  SumFunctionOnSet(f, S) = (CHOOSE g : Folding(g, f, S))[S]
  BY Zenon DEF SumFunctionOnSet, FoldFunctionOnSet, MapThenFoldSet, Folding, Picked

LEMMA FoldingUnique ==
  ASSUME NEW f, NEW S, NEW T, IsFiniteSet(T), T \subseteq S,
         NEW g, Folding(g, f, S), NEW h, Folding(h, f, T)
  PROVE  g[T] = h[T]
  <1> DEFINE D == {U \in SUBSET T : g[U] = h[U]}
  <1>1. ASSUME NEW U \in SUBSET T, \A V \in SUBSET U : V # U => V \in D
        PROVE  U \in D
    <2>1. CASE U = {}
      BY <2>1 DEF Folding
    <2>2. CASE U # {}
      <3>1. PICK x : x = Picked(U)
        OBVIOUS
      <3>2. x \in U
        BY <2>2, <3>1 DEF Picked
      <3>3. g[U \ {x}] = h[U \ {x}]
        BY <1>1, <3>2
      <3>4. g[U] = f[x] + g[U \ {x}] /\ h[U] = f[x] + h[U \ {x}]
        BY <2>2, <3>1 DEF Folding
      <3> QED BY <3>3, <3>4
    <2> QED BY <2>1, <2>2
  <1>2. T \in D
    <2>1. \A U \in SUBSET T : (\A V \in SUBSET U : V # U => V \in D) => U \in D
      BY <1>1
    <2> HIDE DEF D
    <2> QED BY <2>1, SubsetInduction, Zenon
  <1> QED BY <1>2

LEMMA FoldingExists ==
  ASSUME NEW f, NEW S, IsFiniteSet(S)
  PROVE  \E g : Folding(g, f, S)
  <1> DEFINE D == {T \in SUBSET S : \E g : Folding(g, f, T)}
             h(T) == CHOOSE g : Folding(g, f, T)
  <1>1. ASSUME NEW T \in SUBSET S, \A U \in SUBSET T : U # T => U \in D
        PROVE  T \in D
    <2> DEFINE g == [s \in SUBSET T |->
                       IF s = {} THEN 0
                       ELSE f[Picked(s)] + h(s \ {Picked(s)})[s \ {Picked(s)}]]
    <2>1. ASSUME NEW s \in SUBSET T, s # {}
          PROVE  g[s \ {Picked(s)}] = h(s \ {Picked(s)})[s \ {Picked(s)}]
      <3>1. PICK u : u = s \ {Picked(s)}
        OBVIOUS
      <3>2. u \in SUBSET T /\ u # T /\ IsFiniteSet(u)
        <4>1. Picked(s) \in s
          BY <2>1 DEF Picked
        <4>2. u \in SUBSET S
          BY <3>1
        <4> QED BY <3>1, <4>1, <4>2, FS_Subset
      <3>3. Folding(h(u), f, u)
        <4>1. \E k : Folding(k, f, u)
          BY <1>1, <3>2
        <4> QED BY <4>1, Zenon
      <3>4. CASE u = {}
        <4>1. h(u)[u] = 0
          BY <3>3, <3>4, Zenon DEF Folding
        <4> QED BY <3>1, <3>2, <3>4, <4>1
      <3>5. CASE u # {}
        <4>1. PICK x : x = Picked(u)
          OBVIOUS
        <4>2. x \in u
          BY <3>5, <4>1 DEF Picked
        <4>3. g[u] = f[x] + h(u \ {x})[u \ {x}]
          BY <3>2, <3>5, <4>1
        <4>4. h(u)[u] = f[x] + h(u)[u \ {x}]
          BY <3>3, <3>5, <4>1 DEF Folding
        <4>5. h(u)[u \ {x}] = h(u \ {x})[u \ {x}]
          <5>1. PICK v : v = u \ {x}
            OBVIOUS
          <5>2. v \in SUBSET T /\ v # T /\ IsFiniteSet(v) /\ v \subseteq u
            BY <3>2, <4>2, <5>1, FS_Subset
          <5>3. Folding(h(v), f, v)
            <6>1. \E k : Folding(k, f, v)
              BY <1>1, <5>2
            <6> QED BY <6>1, Zenon
          <5>4. h(u)[v] = h(v)[v]
            <6>1. PICK a, b : a = h(u) /\ b = h(v)
              OBVIOUS
            <6>2. Folding(a, f, u) /\ Folding(b, f, v)
              BY <3>3, <5>3, <6>1, Zenon
            <6>3. a[v] = b[v]
              BY <5>2, <6>2, FoldingUnique
            <6> QED BY <6>1, <6>3, Zenon
          <5> QED BY <5>1, <5>4, Zenon
        <4> QED BY <3>1, <4>3, <4>4, <4>5
      <3> QED BY <3>4, <3>5
    <2>2. Folding(g, f, T)
      <3> HIDE DEF h
      <3> QED BY <2>1 DEF Folding
    <2> HIDE DEF g
    <2> QED BY <2>2
  <1>2. S \in D
    <2>1. \A T \in SUBSET S : (\A U \in SUBSET T : U # T => U \in D) => T \in D
      BY <1>1
    <2> HIDE DEF D
    <2> QED BY <2>1, SubsetInduction, Zenon
  <1> QED BY <1>2

\* A sum, element by element.
LEMMA SumFolds ==
  ASSUME NEW f, NEW S, IsFiniteSet(S)
  PROVE  /\ S = {} => SumFunctionOnSet(f, S) = 0
         /\ S # {} => /\ Picked(S) \in S /\ IsFiniteSet(S \ {Picked(S)})
                      /\ SumFunctionOnSet(f, S) =
                            f[Picked(S)] + SumFunctionOnSet(f, S \ {Picked(S)})
  <1>1. PICK g : g = (CHOOSE k : Folding(k, f, S))
    OBVIOUS
  <1>2. Folding(g, f, S)
    BY <1>1, FoldingExists, Zenon
  <1>3. SumFunctionOnSet(f, S) = g[S]
    BY <1>1, SumIs, Zenon
  <1>4. CASE S = {}
    BY <1>2, <1>3, <1>4 DEF Folding
  <1>5. CASE S # {}
    <2>1. PICK x : x = Picked(S)
      OBVIOUS
    <2>2. x \in S
      BY <1>5, <2>1 DEF Picked
    <2>3. PICK T : T = S \ {x}
      OBVIOUS
    <2>4. IsFiniteSet(T) /\ T \subseteq S
      BY <2>3, FS_Subset
    <2>5. PICK h : h = (CHOOSE k : Folding(k, f, T))
      OBVIOUS
    <2>6. Folding(h, f, T)
      BY <2>4, <2>5, FoldingExists, Zenon
    <2>7. SumFunctionOnSet(f, T) = h[T]
      BY <2>5, SumIs, Zenon
    <2>8. g[T] = h[T]
      BY <1>2, <2>4, <2>6, FoldingUnique
    <2>9. g[S] = f[x] + g[T]
      BY <1>2, <1>5, <2>1, <2>3 DEF Folding
    <2> QED BY <1>3, <1>5, <2>1, <2>2, <2>3, <2>4, <2>7, <2>8, <2>9
  <1> QED BY <1>4, <1>5

LEMMA SumType ==
  ASSUME NEW f, NEW S, IsFiniteSet(S), \A x \in S : f[x] \in Int
  PROVE  SumFunctionOnSet(f, S) \in Int
  <1> DEFINE D == {T \in SUBSET S : SumFunctionOnSet(f, T) \in Int}
  <1>1. ASSUME NEW T \in SUBSET S, \A U \in SUBSET T : U # T => U \in D
        PROVE  T \in D
    <2>1. IsFiniteSet(T)
      BY FS_Subset
    <2>2. CASE T = {}
      <3>1. SumFunctionOnSet(f, T) = 0
        BY <2>1, <2>2, SumFolds
      <3> QED BY <3>1
    <2>3. CASE T # {}
      <3>1. PICK x : x = Picked(T)
        OBVIOUS
      <3>2. x \in T /\ SumFunctionOnSet(f, T) = f[x] + SumFunctionOnSet(f, T \ {x})
        BY <2>1, <2>3, <3>1, SumFolds
      <3>3. SumFunctionOnSet(f, T \ {x}) \in Int
        BY <1>1, <3>2
      <3> QED BY <3>2, <3>3
    <2> QED BY <2>2, <2>3
  <1>2. S \in D
    <2>1. \A T \in SUBSET S : (\A U \in SUBSET T : U # T => U \in D) => T \in D
      BY <1>1
    <2> HIDE DEF D
    <2> QED BY <2>1, SubsetInduction, Zenon
  <1> QED BY <1>2

\* It does not matter which element comes first.
LEMMA SumRemoves ==
  ASSUME NEW f, NEW S, IsFiniteSet(S), \A x \in S : f[x] \in Int
  PROVE  \A x \in S : SumFunctionOnSet(f, S) = f[x] + SumFunctionOnSet(f, S \ {x})
  <1> DEFINE D == {T \in SUBSET S :
                     \A x \in T : SumFunctionOnSet(f, T) =
                                     f[x] + SumFunctionOnSet(f, T \ {x})}
  <1>1. ASSUME NEW T \in SUBSET S, \A U \in SUBSET T : U # T => U \in D
        PROVE  T \in D
    <2>1. ASSUME NEW x \in T
          PROVE  SumFunctionOnSet(f, T) = f[x] + SumFunctionOnSet(f, T \ {x})
      <3>1. IsFiniteSet(T)
        BY FS_Subset
      <3>2. PICK y : y = Picked(T)
        OBVIOUS
      <3>3. y \in T /\ SumFunctionOnSet(f, T) = f[y] + SumFunctionOnSet(f, T \ {y})
        BY <3>1, <3>2, SumFolds
      <3>4. CASE x = y
        BY <3>3, <3>4
      <3>5. CASE x # y
        <4>1. PICK U, V, W : U = T \ {y} /\ V = T \ {x} /\ W = U \ {x}
          OBVIOUS
        <4>2. /\ x \in U /\ U \in SUBSET T /\ U # T
              /\ y \in V /\ V \in SUBSET T /\ V # T /\ W = V \ {y}
          BY <3>3, <3>5, <4>1
        <4>3. /\ SumFunctionOnSet(f, U) = f[x] + SumFunctionOnSet(f, W)
              /\ SumFunctionOnSet(f, V) = f[y] + SumFunctionOnSet(f, W)
          BY <1>1, <4>1, <4>2
        <4>4. IsFiniteSet(W) /\ \A z \in W : f[z] \in Int
          BY <4>1, FS_Subset
        <4>5. SumFunctionOnSet(f, W) \in Int
          BY <4>4, SumType
        <4>6. f[x] \in Int /\ f[y] \in Int
          BY <3>3
        <4> QED BY <3>3, <4>1, <4>3, <4>5, <4>6
      <3> QED BY <3>4, <3>5
    <2> QED BY <2>1
  <1>2. S \in D
    <2>1. \A T \in SUBSET S : (\A U \in SUBSET T : U # T => U \in D) => T \in D
      BY <1>1
    <2> HIDE DEF D
    <2> QED BY <2>1, SubsetInduction, Zenon
  <1> QED BY <1>2

\* A sum that is at most another one, of more elements.
\* The same, for f and S that are known to have a sum.
Summable(f, S) == IsFiniteSet(S) /\ \A x \in S : f[x] \in Int

LEMMA SumTakesOut ==
  ASSUME NEW f, NEW S, Summable(f, S)
  PROVE  \A x \in S : SumFunctionOnSet(f, S) = f[x] + SumFunctionOnSet(f, S \ {x})
  <1>1. IsFiniteSet(S) /\ \A x \in S : f[x] \in Int
    BY DEF Summable
  <1> QED BY <1>1, SumRemoves

LEMMA SumAtMost ==
  ASSUME NEW f, NEW g, NEW S, NEW T, IsFiniteSet(T), S \subseteq T,
         \A x \in S : f[x] \in Int /\ f[x] <= g[x],
         \A x \in T : g[x] \in Int,
         \A x \in T \ S : 0 <= g[x]
  PROVE  SumFunctionOnSet(f, S) <= SumFunctionOnSet(g, T)
  <1> DEFINE D == {U \in SUBSET T :
                     SumFunctionOnSet(f, S \cap U) <= SumFunctionOnSet(g, U)}
  <1>1. ASSUME NEW U \in SUBSET T, \A V \in SUBSET U : V # U => V \in D
        PROVE  U \in D
    <2>1. IsFiniteSet(U) /\ IsFiniteSet(S \cap U)
      BY FS_Subset
    <2>2. CASE U = {}
      <3>1. S \cap U = {}
        BY <2>2
      <3>2. SumFunctionOnSet(f, S \cap U) = 0 /\ SumFunctionOnSet(g, U) = 0
        BY <2>1, <2>2, <3>1, SumFolds
      <3> QED BY <3>2
    <2>3. CASE U # {}
      <3>1. PICK x : x \in U
        BY <2>3
      <3>2. PICK V : V = U \ {x}
        OBVIOUS
      <3>3. V \in SUBSET U /\ V # U /\ V \in SUBSET T
        BY <3>1, <3>2
      <3>4. PICK a, b, A, B : /\ A = SumFunctionOnSet(f, S \cap U)
                              /\ B = SumFunctionOnSet(g, U)
                              /\ a = SumFunctionOnSet(f, S \cap V)
                              /\ b = SumFunctionOnSet(g, V)
        OBVIOUS
      <3>5. a <= b
        BY <1>1, <3>3, <3>4
      <3>6. B = g[x] + b
        BY <2>1, <3>1, <3>2, <3>4, SumRemoves
      <3>7. a \in Int /\ b \in Int
        <4>1. IsFiniteSet(V) /\ IsFiniteSet(S \cap V)
          BY <2>1, <3>2, FS_Subset
        <4> QED BY <3>3, <3>4, <4>1, SumType
      <3>8. CASE x \in S
        <4>1. x \in S \cap U /\ S \cap V = (S \cap U) \ {x}
          BY <3>1, <3>2, <3>8
        <4>2. A = f[x] + a
          BY <2>1, <3>4, <4>1, SumRemoves
        <4>3. f[x] \in Int /\ g[x] \in Int /\ f[x] <= g[x]
          BY <3>1, <3>8
        <4>4. A <= B
          BY <3>5, <3>6, <3>7, <4>2, <4>3
        <4> QED BY <3>4, <4>4
      <3>9. CASE x \notin S
        <4>1. S \cap V = S \cap U
          BY <3>2, <3>9
        <4>2. g[x] \in Int /\ 0 <= g[x]
          BY <3>1, <3>9
        <4>3. A = a
          BY <3>4, <4>1, Zenon
        <4>4. A <= B
          BY <3>5, <3>6, <3>7, <4>2, <4>3
        <4> QED BY <3>4, <4>4
      <3> QED BY <3>8, <3>9
    <2> QED BY <2>2, <2>3
  <1>2. T \in D
    <2>1. \A U \in SUBSET T : (\A V \in SUBSET U : V # U => V \in D) => U \in D
      BY <1>1
    <2> HIDE DEF D
    <2> QED BY <2>1, SubsetInduction, Zenon
  <1>3. S \cap T = S
    OBVIOUS
  <1> QED BY <1>2, <1>3

\* Two sums of which only one has the other elements, and these are 0.
LEMMA SumSame ==
  ASSUME NEW f, NEW g, NEW S, NEW T, IsFiniteSet(T), S \subseteq T,
         \A x \in S : f[x] \in Int /\ f[x] = g[x],
         \A x \in T \ S : g[x] = 0
  PROVE  SumFunctionOnSet(f, S) = SumFunctionOnSet(g, T)
  <1> DEFINE D == {U \in SUBSET T :
                     SumFunctionOnSet(f, S \cap U) = SumFunctionOnSet(g, U)}
  <1>0. \A x \in T : g[x] \in Int
    OBVIOUS
  <1>1. ASSUME NEW U \in SUBSET T, \A V \in SUBSET U : V # U => V \in D
        PROVE  U \in D
    <2>1. IsFiniteSet(U) /\ IsFiniteSet(S \cap U)
      BY FS_Subset
    <2>2. CASE U = {}
      <3>1. S \cap U = {}
        BY <2>2
      <3>2. SumFunctionOnSet(f, S \cap U) = 0 /\ SumFunctionOnSet(g, U) = 0
        BY <2>1, <2>2, <3>1, SumFolds
      <3> QED BY <3>2
    <2>3. CASE U # {}
      <3>1. PICK x : x \in U
        BY <2>3
      <3>2. PICK V : V = U \ {x}
        OBVIOUS
      <3>3. V \in SUBSET U /\ V # U /\ V \in SUBSET T
        BY <3>1, <3>2
      <3>4. PICK a, b, A, B : /\ A = SumFunctionOnSet(f, S \cap U)
                              /\ B = SumFunctionOnSet(g, U)
                              /\ a = SumFunctionOnSet(f, S \cap V)
                              /\ b = SumFunctionOnSet(g, V)
        OBVIOUS
      <3>5. a = b
        BY <1>1, <3>3, <3>4
      <3>6. B = g[x] + b
        BY <1>0, <2>1, <3>1, <3>2, <3>4, SumRemoves
      <3>7. b \in Int
        <4>1. IsFiniteSet(V)
          BY <2>1, <3>2, FS_Subset
        <4> QED BY <1>0, <3>3, <3>4, <4>1, SumType
      <3>8. CASE x \in S
        <4>1. x \in S \cap U /\ S \cap V = (S \cap U) \ {x}
          BY <3>1, <3>2, <3>8
        <4>2. A = f[x] + a
          BY <2>1, <3>4, <4>1, SumRemoves
        <4>3. f[x] = g[x]
          BY <3>8
        <4> QED BY <3>4, <3>5, <3>6, <4>2, <4>3
      <3>9. CASE x \notin S
        <4>1. S \cap V = S \cap U
          BY <3>2, <3>9
        <4>2. g[x] = 0
          BY <3>1, <3>9
        <4>3. A = a
          BY <3>4, <4>1, Zenon
        <4>4. B = b
          BY <3>6, <3>7, <4>2
        <4> QED BY <3>4, <3>5, <4>3, <4>4
      <3> QED BY <3>8, <3>9
    <2> QED BY <2>2, <2>3
  <1>2. T \in D
    <2>1. \A U \in SUBSET T : (\A V \in SUBSET U : V # U => V \in D) => U \in D
      BY <1>1
    <2> HIDE DEF D
    <2> QED BY <2>1, SubsetInduction, Zenon
  <1>3. S \cap T = S
    OBVIOUS
  <1> QED BY <1>2, <1>3

-----------------------------------------------------------------------------
(* Alerts that are handled one after the other, in the same way.             *)

LEMMA MaxIsLargest ==
  ASSUME NEW S, IsFiniteSet(S), S \subseteq Nat, S # {}
  PROVE  Max(S) \in S /\ \A y \in S : y <= Max(S)
  <1> DEFINE D == {T \in SUBSET S : T # {} => \E x \in T : \A y \in T : x >= y}
  <1>1. ASSUME NEW T \in SUBSET S, \A U \in SUBSET T : U # T => U \in D
        PROVE  T \in D
    <2>1. ASSUME NEW x \in T
          PROVE  \E z \in T : \A y \in T : z >= y
      <3>1. CASE T \ {x} = {}
        BY <3>1
      <3>2. CASE T \ {x} # {}
        <4>0. T \ {x} \in D
          BY <1>1
        <4>1. PICK z \in T \ {x} : \A y \in T \ {x} : z >= y
          BY <3>2, <4>0
        <4>2. CASE z >= x
          BY <4>1, <4>2
        <4>3. CASE ~(z >= x)
          <5>1. x \in Nat /\ \A y \in T : y \in Nat
            OBVIOUS
          <5>2. \A y \in T : x >= y
            BY <4>1, <4>3, <5>1
          <5> QED BY <5>2
        <4> QED BY <4>2, <4>3
      <3> QED BY <3>1, <3>2
    <2> QED BY <2>1
  <1>2. S \in D
    <2>1. \A T \in SUBSET S : (\A U \in SUBSET T : U # T => U \in D) => T \in D
      BY <1>1
    <2> HIDE DEF D
    <2> QED BY <2>1, SubsetInduction, Zenon
  <1>3. \E x \in S : \A y \in S : x >= y
    BY <1>2
  <1>4. Max(S) \in S /\ \A y \in S : Max(S) >= y
    BY <1>3, Zenon DEF Max
  <1> QED BY <1>4

\* g is the function that handles those alerts of q whose places are in a subset of S.
Handling(g, b, q, S) ==
    g = [s \in SUBSET S |->
            IF s = {} THEN b ELSE Handled(g[s \ {Max(s)}], q[Max(s)])]

\* The table once the alerts of a queue are handled.
AfterAlerts(b, q) == FoldLeft(Handled, b, q)

LEMMA DrainIs ==
  ASSUME NEW b, NEW q
  PROVE  AfterAlerts(b, q) = (CHOOSE g : Handling(g, b, q, DOMAIN q))[DOMAIN q]
  BY Zenon DEF AfterAlerts, FoldLeft, MapThenFoldSet, Handling

\* T is within S, and at its places are the same alerts.
Agree(q, r, S, T) ==
    IsFiniteSet(T) /\ T \subseteq Nat /\ T \subseteq S /\ \A n \in T : q[n] = r[n]

LEMMA HandlingUnique ==
  ASSUME NEW b, NEW q, NEW r, NEW S, NEW T, Agree(q, r, S, T),
         NEW g, Handling(g, b, q, S), NEW h, Handling(h, b, r, T)
  PROVE  g[T] = h[T]
  <1> USE DEF Agree
  <1> DEFINE D == {U \in SUBSET T : g[U] = h[U]}
  <1>1. ASSUME NEW U \in SUBSET T, \A V \in SUBSET U : V # U => V \in D
        PROVE  U \in D
    <2>1. CASE U = {}
      BY <2>1 DEF Handling
    <2>2. CASE U # {}
      <3>1. PICK x : x = Max(U)
        OBVIOUS
      <3>2. x \in U
        <4>1. IsFiniteSet(U) /\ U \subseteq Nat
          BY FS_Subset
        <4> QED BY <2>2, <3>1, <4>1, MaxIsLargest
      <3>3. g[U \ {x}] = h[U \ {x}]
        BY <1>1, <3>2
      <3>4. g[U] = Handled(g[U \ {x}], q[x]) /\ h[U] = Handled(h[U \ {x}], r[x])
        BY <2>2, <3>1 DEF Handling
      <3>5. q[x] = r[x]
        BY <3>2
      <3> QED BY <3>3, <3>4, <3>5
    <2> QED BY <2>1, <2>2
  <1>2. T \in D
    <2>1. \A U \in SUBSET T : (\A V \in SUBSET U : V # U => V \in D) => U \in D
      BY <1>1
    <2> HIDE DEF D
    <2> QED BY <2>1, SubsetInduction, Zenon
  <1> QED BY <1>2

LEMMA HandlingExists ==
  ASSUME NEW b, NEW q, NEW S, IsFiniteSet(S), S \subseteq Nat
  PROVE  \E g : Handling(g, b, q, S)
  <1> DEFINE D == {T \in SUBSET S : \E g : Handling(g, b, q, T)}
             h(T) == CHOOSE g : Handling(g, b, q, T)
  <1>1. ASSUME NEW T \in SUBSET S, \A U \in SUBSET T : U # T => U \in D
        PROVE  T \in D
    <2> DEFINE g == [s \in SUBSET T |->
                       IF s = {} THEN b
                       ELSE Handled(h(s \ {Max(s)})[s \ {Max(s)}], q[Max(s)])]
    <2>0. \A s \in SUBSET T : s # {} => Max(s) \in s
      <3>1. \A s \in SUBSET T : IsFiniteSet(s) /\ s \subseteq Nat
        BY FS_Subset
      <3> QED BY <3>1, MaxIsLargest
    <2>1. ASSUME NEW s \in SUBSET T, s # {}
          PROVE  g[s \ {Max(s)}] = h(s \ {Max(s)})[s \ {Max(s)}]
      <3>1. PICK u : u = s \ {Max(s)}
        OBVIOUS
      <3>2. u \in SUBSET T /\ u # T /\ IsFiniteSet(u) /\ u \subseteq Nat
        <4>1. Max(s) \in s
          BY <2>0, <2>1
        <4>2. u \in SUBSET S
          BY <3>1
        <4> QED BY <3>1, <4>1, <4>2, FS_Subset
      <3>3. Handling(h(u), b, q, u)
        <4>1. \E k : Handling(k, b, q, u)
          BY <1>1, <3>2
        <4> QED BY <4>1, Zenon
      <3>4. CASE u = {}
        <4>1. h(u)[u] = b
          BY <3>3, <3>4, Zenon DEF Handling
        <4> QED BY <3>1, <3>2, <3>4, <4>1
      <3>5. CASE u # {}
        <4>1. PICK x : x = Max(u)
          OBVIOUS
        <4>2. x \in u
          BY <2>0, <3>2, <3>5, <4>1
        <4>3. g[u] = Handled(h(u \ {x})[u \ {x}], q[x])
          BY <3>2, <3>5, <4>1
        <4>4. h(u)[u] = Handled(h(u)[u \ {x}], q[x])
          BY <3>3, <3>5, <4>1 DEF Handling
        <4>5. h(u)[u \ {x}] = h(u \ {x})[u \ {x}]
          <5>1. PICK v : v = u \ {x}
            OBVIOUS
          <5>2. v \in SUBSET T /\ v # T /\ IsFiniteSet(v) /\ v \subseteq u /\ v \subseteq Nat
            BY <3>2, <4>2, <5>1, FS_Subset
          <5>3. Handling(h(v), b, q, v)
            <6>1. \E k : Handling(k, b, q, v)
              BY <1>1, <5>2
            <6> QED BY <6>1, Zenon
          <5>4. h(u)[v] = h(v)[v]
            <6>1. PICK a, c : a = h(u) /\ c = h(v)
              OBVIOUS
            <6>2. Handling(a, b, q, u) /\ Handling(c, b, q, v)
              BY <3>3, <5>3, <6>1, Zenon
            <6>3. a[v] = c[v]
              <7>1. Agree(q, q, u, v)
                BY <5>2 DEF Agree
              <7> QED BY <6>2, <7>1, HandlingUnique
            <6> QED BY <6>1, <6>3, Zenon
          <5> QED BY <5>1, <5>4, Zenon
        <4> QED BY <3>1, <4>3, <4>4, <4>5
      <3> QED BY <3>4, <3>5
    <2>2. Handling(g, b, q, T)
      <3> HIDE DEF h
      <3> QED BY <2>1 DEF Handling
    <2> HIDE DEF g
    <2> QED BY <2>2
  <1>2. S \in D
    <2>1. \A T \in SUBSET S : (\A U \in SUBSET T : U # T => U \in D) => T \in D
      BY <1>1
    <2> HIDE DEF D
    <2> QED BY <2>1, SubsetInduction, Zenon
  <1> QED BY <1>2

LEMMA DrainsNothing ==
  ASSUME NEW b
  PROVE  AfterAlerts(b, <<>>) = b
  <1>1. PICK g, q : q = <<>> /\ g = (CHOOSE k : Handling(k, b, q, DOMAIN q))
    OBVIOUS
  <1>2. DOMAIN q = {} /\ IsFiniteSet(DOMAIN q)
    BY <1>1, FS_EmptySet
  <1>3. Handling(g, b, q, DOMAIN q)
    <2>1. \E k : Handling(k, b, q, DOMAIN q)
      BY <1>2, HandlingExists
    <2> QED BY <1>1, <2>1, Zenon
  <1>4. g[DOMAIN q] = b
    BY <1>2, <1>3 DEF Handling
  <1> QED BY <1>1, <1>4, DrainIs, Zenon

LEMMA DrainsOneMore ==
  ASSUME NEW S, NEW b, NEW q \in Seq(S), NEW a \in S
  PROVE  AfterAlerts(b, Append(q, a)) = Handled(AfterAlerts(b, q), a)
  <1>1. PICK r, n : r = Append(q, a) /\ n = Len(q)
    OBVIOUS
  <1>2. /\ n \in Nat /\ DOMAIN q = 1..n /\ DOMAIN r = 1..(n + 1) /\ r[n + 1] = a
        /\ \A m \in 1..n : r[m] = q[m]
    BY <1>1, AppendProperties, LenProperties
  <1>3. /\ IsFiniteSet(1..n) /\ IsFiniteSet(1..(n + 1))
        /\ 1..n \subseteq Nat /\ 1..(n + 1) \subseteq Nat /\ 1..n \subseteq 1..(n + 1)
    BY <1>2, FS_Interval
  <1>4. PICK g, h : /\ g = (CHOOSE k : Handling(k, b, r, DOMAIN r))
                    /\ h = (CHOOSE k : Handling(k, b, q, DOMAIN q))
    OBVIOUS
  <1>5. Handling(g, b, r, 1..(n + 1)) /\ Handling(h, b, q, 1..n)
    <2>1. /\ \E k : Handling(k, b, r, 1..(n + 1))
          /\ \E k : Handling(k, b, q, 1..n)
      BY <1>3, HandlingExists
    <2> QED BY <1>2, <1>4, <2>1, Zenon
  <1>6. Max(1..(n + 1)) = n + 1
    <2>1. n + 1 \in 1..(n + 1)
      BY <1>2
    <2>2. Max(1..(n + 1)) \in 1..(n + 1) /\ n + 1 <= Max(1..(n + 1))
      BY <1>3, <2>1, MaxIsLargest
    <2> QED BY <1>2, <2>2
  <1>7. g[1..(n + 1)] = Handled(g[1..n], a)
    <2>1. 1..(n + 1) # {} /\ (1..(n + 1)) \ {n + 1} = 1..n
      <3>1. n \in Nat
        BY <1>2
      <3>2. n + 1 \in 1..(n + 1)
        BY <3>1
      <3>3. \A m : m \in (1..(n + 1)) \ {n + 1} <=> m \in 1..n
        BY <3>1
      <3> QED BY <3>2, <3>3, Zenon
    <2>2. g[1..(n + 1)] = Handled(g[(1..(n + 1)) \ {Max(1..(n + 1))}], r[Max(1..(n + 1))])
      BY <1>5, <2>1, Zenon DEF Handling
    <2> QED BY <1>2, <1>6, <2>1, <2>2, Zenon
  <1>8. g[1..n] = h[1..n]
    <2>1. Agree(r, q, 1..(n + 1), 1..n)
      BY <1>2, <1>3 DEF Agree
    <2> QED BY <1>5, <2>1, HandlingUnique
  <1>9. /\ AfterAlerts(b, r) = g[1..(n + 1)]
        /\ AfterAlerts(b, q) = h[1..n]
    BY <1>2, <1>4, DrainIs, Zenon
  <1> QED BY <1>1, <1>7, <1>8, <1>9, Zenon

\* Induction up to a number.
LEMMA UpTo ==
  ASSUME NEW n \in Nat, NEW D, 0 \in D, \A m \in 0..(n - 1) : m \in D => m + 1 \in D
  PROVE  n \in D
  <1> DEFINE A == {m \in 0..n : \A k \in 0..m : k \in D}
  <1>1. IsFiniteSet(A) /\ A \subseteq Nat
    <2>1. IsFiniteSet(0..n)
      BY FS_Interval
    <2> QED BY <2>1, FS_Subset
  <1>2. 0 \in A
    OBVIOUS
  <1>3. PICK x : x = Max(A)
    OBVIOUS
  <1>4. x \in A /\ \A y \in A : y <= x
    <2> HIDE DEF A
    <2> QED BY <1>1, <1>2, <1>3, MaxIsLargest
  <1>5. CASE x = n
    BY <1>4, <1>5
  <1>6. CASE x # n
    <2>1. x \in 0..(n - 1) /\ x \in D
      BY <1>4, <1>6
    <2>2. x + 1 \in D
      BY <2>1
    <2>3. \A k \in 0..(x + 1) : k \in D
      <3>1. \A k \in 0..(x + 1) : k \in 0..x \/ k = x + 1
        BY <2>1
      <3> QED BY <1>4, <2>2, <3>1
    <2>4. x + 1 \in A
      BY <2>1, <2>3
    <2> QED BY <1>4, <2>1, <2>4
  <1> QED BY <1>5, <1>6

-----------------------------------------------------------------------------
-----------------------------------------------------------------------------
(* The table of records, and what alerts do to it.                           *)

Peer == [bytes : Nat, requests : Nat]
Connection == [bytes : Nat, requests : Nat, seen : Nat]

Tables ==
    {t \in [peers : [Endpoints -> Seq(Peer)], active : [Endpoints -> Nat]] :
        \A e \in Endpoints : t.active[e] <= Len(t.peers[e])}

LEMMA TableParts ==
  ASSUME NEW t \in Tables
  PROVE  /\ t.peers \in [Endpoints -> Seq(Peer)] /\ t.active \in [Endpoints -> Nat]
         /\ t = [peers |-> t.peers, active |-> t.active]
         /\ \A e \in Endpoints : /\ t.peers[e] \in Seq(Peer) /\ Len(t.peers[e]) \in Nat
                                /\ t.active[e] \in 0..Len(t.peers[e])
  <1>1. /\ t.peers \in [Endpoints -> Seq(Peer)] /\ t.active \in [Endpoints -> Nat]
        /\ t = [peers |-> t.peers, active |-> t.active]
        /\ \A e \in Endpoints : t.active[e] <= Len(t.peers[e])
    BY DEF Tables
  <1>2. ASSUME NEW e \in Endpoints
        PROVE  /\ t.peers[e] \in Seq(Peer) /\ Len(t.peers[e]) \in Nat
               /\ t.active[e] \in 0..Len(t.peers[e])
    <2>1. t.peers[e] \in Seq(Peer) /\ t.active[e] \in Nat
      BY <1>1
    <2>2. Len(t.peers[e]) \in Nat
      BY <2>1, LenProperties
    <2> QED BY <1>1, <2>1, <2>2
  <1> QED BY <1>1, <1>2

\* The record that an alert about e is for, how many there are with it, and what a
\* record holds, which is nothing where there is none yet.
KeyOf(t, e) == IF t.active[e] # 0 THEN t.active[e] ELSE Len(t.peers[e]) + 1
SizeOf(t, e) == IF t.active[e] # 0 THEN Len(t.peers[e]) ELSE Len(t.peers[e]) + 1
BytesIn(t, e, k) == IF k \in 1..Len(t.peers[e]) THEN t.peers[e][k].bytes ELSE 0
RequestsIn(t, e, k) == IF k \in 1..Len(t.peers[e]) THEN t.peers[e][k].requests ELSE 0

\* What an alert about e leaves: its record, with a request more, or no longer named.
HandledIn(t, h, type, e) ==
    /\ h \in Tables
    /\ \A o \in Endpoints : o # e => h.peers[o] = t.peers[o] /\ h.active[o] = t.active[o]
    /\ Len(h.peers[e]) = SizeOf(t, e)
    /\ h.active[e] = IF type = "disconnect" THEN 0 ELSE KeyOf(t, e)
    /\ \A k \in 1..SizeOf(t, e) :
           /\ h.peers[e][k].bytes = BytesIn(t, e, k)
           /\ h.peers[e][k].requests =
                 RequestsIn(t, e, k) + (IF type = "request" /\ k = KeyOf(t, e) THEN 1 ELSE 0)

\* A table whose entries for e are s and m, and which is t elsewhere.
Instead(t, h, e, s, m) ==
    /\ h \in Tables /\ h.peers[e] = s /\ h.active[e] = m
    /\ \A o \in Endpoints : o # e => h.peers[o] = t.peers[o] /\ h.active[o] = t.active[o]

LEMMA InsteadIs ==
  ASSUME NEW t \in Tables, NEW e \in Endpoints, NEW s \in Seq(Peer), NEW m \in 0..Len(s),
         NEW h, h = [peers  |-> [t.peers EXCEPT ![e] = s],
                     active |-> [t.active EXCEPT ![e] = m]]
  PROVE  Instead(t, h, e, s, m)
  <1>1. m \in Nat /\ m <= Len(s)
    <2>1. Len(s) \in Nat
      BY LenProperties
    <2> QED BY <2>1
  <1>2. /\ h.peers \in [Endpoints -> Seq(Peer)] /\ h.active \in [Endpoints -> Nat]
        /\ h.peers[e] = s /\ h.active[e] = m
        /\ \A o \in Endpoints : o # e => h.peers[o] = t.peers[o] /\ h.active[o] = t.active[o]
        /\ h = [peers |-> h.peers, active |-> h.active]
    BY <1>1, TableParts
  <1>3. ASSUME NEW o \in Endpoints
        PROVE  h.active[o] <= Len(h.peers[o])
    <2>1. CASE o = e
      BY <1>1, <1>2, <2>1
    <2>2. CASE o # e
      <3>1. t.active[o] <= Len(t.peers[o])
        BY DEF Tables
      <3> QED BY <1>2, <2>2, <3>1
    <2> QED BY <2>1, <2>2
  <1>4. h \in Tables
    BY <1>2, <1>3 DEF Tables
  <1> QED BY <1>2, <1>4 DEF Instead

\* The record an endpoint has, or a new one: in table f, which ensure_peer_for_endpoint makes of t, the records of e are s.
Finds(t, e, f, s) ==
    /\ Instead(t, f, e, s, KeyOf(t, e))
    /\ s \in Seq(Peer) /\ Len(s) = SizeOf(t, e)
    /\ KeyOf(t, e) \in 1..SizeOf(t, e) /\ SizeOf(t, e) \in Nat
    /\ \A k \in 1..SizeOf(t, e) :
           s[k].bytes = BytesIn(t, e, k) /\ s[k].requests = RequestsIn(t, e, k)

LEMMA EnsureFinds ==
  ASSUME NEW t \in Tables, NEW e \in Endpoints
  PROVE  \E s : Finds(t, e, ensure_peer_for_endpoint(t, e), s)
  <1>1. PICK p, n, m : p = t.peers[e] /\ n = Len(p) /\ m = t.active[e]
    OBVIOUS
  <1>2. p \in Seq(Peer) /\ n \in Nat /\ m \in 0..n
    BY <1>1, TableParts
  <1>3. CASE m # 0
    <2>1. /\ KeyOf(t, e) = m /\ SizeOf(t, e) = n
          /\ \A k \in 1..n : BytesIn(t, e, k) = p[k].bytes /\ RequestsIn(t, e, k) = p[k].requests
      BY <1>1, <1>3 DEF KeyOf, SizeOf, BytesIn, RequestsIn
    <2>2. ensure_peer_for_endpoint(t, e) = t
      BY <1>1, <1>3 DEF ensure_peer_for_endpoint
    <2>3. Instead(t, t, e, p, m)
      BY <1>1 DEF Instead
    <2>4. m \in 1..n
      BY <1>2, <1>3
    <2>5. Finds(t, e, t, p)
      BY <1>1, <1>2, <2>1, <2>3, <2>4 DEF Finds
    <2> QED BY <2>2, <2>5, Zenon
  <1>4. CASE m = 0
    <2>1. PICK s : s = Append(p, NewPeer)
      OBVIOUS
    <2>2. /\ s \in Seq(Peer) /\ Len(s) = n + 1 /\ s[n + 1] = NewPeer
          /\ \A k \in 1..n : s[k] = p[k]
      <3>1. NewPeer \in Peer
        BY DEF NewPeer, Peer
      <3> QED BY <1>1, <1>2, <2>1, <3>1, AppendProperties
    <2>3. PICK f : f = [peers |-> [t.peers EXCEPT ![e] = s], active |-> [t.active EXCEPT ![e] = n + 1]]
      OBVIOUS
    <2>4. ensure_peer_for_endpoint(t, e) = f
      BY <1>1, <1>4, <2>1, <2>3, Zenon DEF ensure_peer_for_endpoint
    <2>5. n + 1 \in 0..Len(s) /\ n + 1 \in 1..(n + 1) /\ n + 1 \in Nat
      BY <1>2, <2>2
    <2>6. Instead(t, f, e, s, n + 1)
      BY <2>2, <2>3, <2>5, InsteadIs
    <2>7. KeyOf(t, e) = n + 1 /\ SizeOf(t, e) = n + 1
      BY <1>1, <1>4 DEF KeyOf, SizeOf
    <2>8. ASSUME NEW k \in 1..(n + 1)
          PROVE  s[k].bytes = BytesIn(t, e, k) /\ s[k].requests = RequestsIn(t, e, k)
      <3>1. CASE k \in 1..n
        BY <1>1, <2>2, <3>1 DEF BytesIn, RequestsIn
      <3>2. CASE k = n + 1
        <4>1. k \notin 1..n
          BY <1>2, <3>2
        <4> QED BY <1>1, <2>2, <3>2, <4>1 DEF BytesIn, RequestsIn, NewPeer
      <3> QED BY <1>2, <3>1, <3>2
    <2> QED BY <2>2, <2>4, <2>5, <2>6, <2>7, <2>8, Zenon DEF Finds
  <1> QED BY <1>3, <1>4

LEMMA AlertHandled ==
  ASSUME NEW t \in Tables, NEW a \in Alerts
  PROVE  HandledIn(t, Handled(t, a), a.type, a.endpoint)
  <1>1. PICK e, f, g : /\ e = a.endpoint /\ f = ensure_peer_for_endpoint(t, e)
                      /\ g = Handled(t, a)
    OBVIOUS
  <1> SUFFICES HandledIn(t, g, a.type, e)
    BY <1>1, Zenon
  <1>2. /\ e \in Endpoints
        /\ a.type \in {"connect", "disconnect", "error", "request"}
    BY <1>1 DEF Alerts
  <1>0. PICK p : Finds(t, e, f, p)
    BY <1>1, <1>2, EnsureFinds
  <1>3. /\ Instead(t, f, e, p, KeyOf(t, e))
        /\ p \in Seq(Peer) /\ Len(p) = SizeOf(t, e)
        /\ KeyOf(t, e) \in 1..SizeOf(t, e) /\ SizeOf(t, e) \in Nat
        /\ \A k \in 1..SizeOf(t, e) :
               p[k].bytes = BytesIn(t, e, k) /\ p[k].requests = RequestsIn(t, e, k)
    BY <1>0, Zenon DEF Finds
  <1>4. PICK k, n : k = KeyOf(t, e) /\ n = SizeOf(t, e)
    OBVIOUS
  <1>5. /\ f \in Tables /\ f.peers[e] = p /\ f.active[e] = k /\ k \in 1..n /\ n \in Nat
        /\ \A o \in Endpoints : o # e => f.peers[o] = t.peers[o] /\ f.active[o] = t.active[o]
    BY <1>3, <1>4 DEF Instead
  <1>6. ASSUME NEW m \in 1..n
        PROVE  p[m] \in Peer /\ p[m].requests \in Nat /\ p[m].bytes \in Nat
    <2>1. p[m] \in Peer
      BY <1>3, <1>4, ElementOfSeq
    <2> QED BY <2>1 DEF Peer
  <1>7. f.peers \in [Endpoints -> Seq(Peer)] /\ f.active \in [Endpoints -> Nat]
        /\ f = [peers |-> f.peers, active |-> f.active]
    BY <1>5, TableParts
  <1>8. CASE a.type = "request"
    <2>1. PICK r : r = [p[k] EXCEPT !.requests = @ + 1]
      OBVIOUS
    <2>2. r \in Peer /\ r.bytes = p[k].bytes /\ r.requests = p[k].requests + 1
      BY <1>5, <1>6, <2>1 DEF Peer
    <2>3. PICK q : q = [p EXCEPT ![k] = r]
      OBVIOUS
    <2>4. /\ q \in Seq(Peer) /\ Len(q) = n
          /\ \A m \in 1..n : q[m] = IF m = k THEN r ELSE p[m]
      BY <1>3, <1>4, <1>5, <2>2, <2>3, ExceptSeq
    <2>5. PICK h : h = [peers |-> [f.peers EXCEPT ![e] = q], active |-> [f.active EXCEPT ![e] = k]]
      OBVIOUS
    <2>6. Handled(t, a) = h
      <3>1. Handled(t, a) = [f EXCEPT !.peers[e][f.active[e]].requests = @ + 1]
        BY <1>1, <1>8 DEF Handled
      <3>2. [f.active EXCEPT ![e] = k] = f.active
        BY <1>2, <1>5, <1>7
      <3>3. q = [f.peers[e] EXCEPT ![f.active[e]].requests = @ + 1]
        BY <1>5, <2>1, <2>3
      <3>4. [f EXCEPT !.peers[e][f.active[e]].requests = @ + 1]
              = [peers |-> [f.peers EXCEPT ![e] = q], active |-> f.active]
        <4>1. PICK ps, as : ps = f.peers /\ as = f.active /\ f = [peers |-> ps, active |-> as]
          BY <1>7
        <4> QED BY <3>3, <4>1
      <3> QED BY <2>5, <3>1, <3>2, <3>3, <3>4
    <2>7. k \in 0..Len(q)
      BY <1>5, <2>4
    <2>8. Instead(f, h, e, q, k)
      BY <1>2, <1>5, <2>4, <2>5, <2>7, InsteadIs
    <2>9. ASSUME NEW m \in 1..n
          PROVE  /\ q[m].bytes = BytesIn(t, e, m)
                 /\ q[m].requests = RequestsIn(t, e, m) + (IF m = k THEN 1 ELSE 0)
      <3>1. p[m].bytes = BytesIn(t, e, m) /\ p[m].requests = RequestsIn(t, e, m)
            /\ p[m].requests \in Nat
        BY <1>3, <1>4, <1>6
      <3>2. CASE m = k
        BY <2>2, <2>4, <3>1, <3>2
      <3>3. CASE m # k
        BY <2>4, <3>1, <3>3
      <3> QED BY <3>2, <3>3
    <2>10. HandledIn(t, h, "request", e)
      BY <1>4, <1>5, <2>4, <2>8, <2>9 DEF HandledIn, Instead
    <2>11. g = h
      BY <1>1, <2>6
    <2> QED BY <1>8, <2>10, <2>11, Zenon
  <1>9. \A m \in 1..n : p[m].requests = RequestsIn(t, e, m) + 0
    BY <1>3, <1>4, <1>6
  <1>10. CASE a.type = "disconnect"
    <2>1. PICK h : h = [peers |-> [f.peers EXCEPT ![e] = p], active |-> [f.active EXCEPT ![e] = 0]]
      OBVIOUS
    <2>2. Handled(t, a) = h
      <3>1. Handled(t, a) = [f EXCEPT !.active[e] = 0]
        BY <1>1, <1>10 DEF Handled
      <3>2. [f.peers EXCEPT ![e] = p] = f.peers
        BY <1>2, <1>5, <1>7
      <3>3. [f EXCEPT !.active[e] = 0] = [peers |-> f.peers, active |-> [f.active EXCEPT ![e] = 0]]
        <4>1. PICK ps, as : ps = f.peers /\ as = f.active /\ f = [peers |-> ps, active |-> as]
          BY <1>7
        <4> QED BY <4>1
      <3> QED BY <2>1, <3>1, <3>2, <3>3
    <2>3. Instead(f, h, e, p, 0)
      <3>1. 0 \in 0..Len(p)
        BY <1>3
      <3> QED BY <1>2, <1>3, <1>5, <2>1, <3>1, InsteadIs
    <2>4. HandledIn(t, h, "disconnect", e)
      BY <1>3, <1>4, <1>5, <1>9, <2>3 DEF HandledIn, Instead
    <2>5. g = h
      BY <1>1, <2>2
    <2> QED BY <1>10, <2>4, <2>5, Zenon
  <1>11. CASE a.type \in {"connect", "error"}
    <2>1. g = f
      BY <1>1, <1>11 DEF Handled
    <2>2. HandledIn(t, f, a.type, e)
      BY <1>3, <1>4, <1>5, <1>9, <1>11 DEF HandledIn, Instead
    <2> QED BY <2>1, <2>2
  <1> QED BY <1>2, <1>8, <1>10, <1>11

\* The bytes of the records of an endpoint, under any key.
BytesAt(t, e) == [k \in Nat |-> BytesIn(t, e, k)]

\* h has the bytes of t, in the same records and perhaps in more of them, which have none.
Keeps(t, h) ==
    \A e \in Endpoints : /\ BytesAt(h, e) = BytesAt(t, e)
                         /\ Len(t.peers[e]) <= Len(h.peers[e])

LEMMA BytesInType ==
  ASSUME NEW t \in Tables, NEW e \in Endpoints, NEW k
  PROVE  BytesIn(t, e, k) \in Nat /\ RequestsIn(t, e, k) \in Nat
  <1>1. t.peers[e] \in Seq(Peer)
    BY TableParts
  <1>2. CASE k \in 1..Len(t.peers[e])
    <2>1. t.peers[e][k] \in Peer
      BY <1>1, <1>2, ElementOfSeq
    <2> QED BY <1>2, <2>1 DEF Peer, BytesIn, RequestsIn
  <1> QED BY <1>2 DEF BytesIn, RequestsIn

\* The key is that of a record; the record it makes, if any, comes after the others.
LEMMA KeyIs ==
  ASSUME NEW t \in Tables, NEW e \in Endpoints
  PROVE  /\ KeyOf(t, e) \in 1..SizeOf(t, e) /\ SizeOf(t, e) \in Nat
         /\ Len(t.peers[e]) \in Nat /\ Len(t.peers[e]) <= SizeOf(t, e)
         /\ t.active[e] \in Nat
  <1>1. PICK n, m : n = Len(t.peers[e]) /\ m = t.active[e]
    OBVIOUS
  <1>2. n \in Nat /\ m \in 0..n
    BY <1>1, TableParts
  <1>3. /\ KeyOf(t, e) = IF m # 0 THEN m ELSE n + 1
        /\ SizeOf(t, e) = IF m # 0 THEN n ELSE n + 1
    BY <1>1 DEF KeyOf, SizeOf
  <1> QED BY <1>1, <1>2, <1>3

LEMMA HandledHas ==
  ASSUME NEW t \in Tables, NEW e \in Endpoints, NEW h, NEW type, HandledIn(t, h, type, e),
         NEW k \in Nat
  PROVE  /\ BytesIn(h, e, k) = BytesIn(t, e, k)
         /\ RequestsIn(h, e, k) =
               RequestsIn(t, e, k) + (IF type = "request" /\ k = KeyOf(t, e) THEN 1 ELSE 0)
  <1>1. PICK n, m, asked : /\ n = SizeOf(t, e) /\ m = Len(t.peers[e])
                           /\ asked = IF type = "request" /\ k = KeyOf(t, e) THEN 1 ELSE 0
    OBVIOUS
  <1>2. /\ Len(h.peers[e]) = n /\ m <= n /\ n \in Nat /\ m \in Nat /\ KeyOf(t, e) \in 1..n
        /\ k \in 1..n => /\ h.peers[e][k].bytes = BytesIn(t, e, k)
                         /\ h.peers[e][k].requests = RequestsIn(t, e, k) + asked
    BY <1>1, KeyIs DEF HandledIn
  <1>3. CASE k \in 1..n
    <2>1. BytesIn(h, e, k) = h.peers[e][k].bytes /\ RequestsIn(h, e, k) = h.peers[e][k].requests
      BY <1>2, <1>3, Zenon DEF BytesIn, RequestsIn
    <2> QED BY <1>1, <1>2, <1>3, <2>1
  <1>4. CASE k \notin 1..n
    <2>1. k \notin 1..m /\ asked = 0
      BY <1>1, <1>2, <1>4
    <2>2. /\ BytesIn(h, e, k) = 0 /\ BytesIn(t, e, k) = 0
          /\ RequestsIn(h, e, k) = 0 /\ RequestsIn(t, e, k) = 0
      BY <1>1, <1>2, <1>4, <2>1, Zenon DEF BytesIn, RequestsIn
    <2>3. RequestsIn(h, e, k) = RequestsIn(t, e, k) + asked
      BY <2>1, <2>2
    <2> QED BY <1>1, <2>2, <2>3
  <1> QED BY <1>3, <1>4

LEMMA HandledKeeps ==
  ASSUME NEW t \in Tables, NEW e \in Endpoints, NEW h, NEW type, HandledIn(t, h, type, e)
  PROVE  Keeps(t, h)
  <1>1. ASSUME NEW o \in Endpoints
        PROVE  /\ BytesAt(h, o) = BytesAt(t, o)
               /\ Len(t.peers[o]) <= Len(h.peers[o])
    <2>1. CASE o # e
      <3>1. h.peers[o] = t.peers[o] /\ Len(t.peers[o]) \in Nat
        BY <2>1, TableParts DEF HandledIn
      <3> QED BY <3>1 DEF BytesAt, BytesIn
    <2>2. CASE o = e
      <3>1. \A k \in Nat : BytesIn(h, e, k) = BytesIn(t, e, k)
        BY HandledHas
      <3>2. BytesAt(h, e) = BytesAt(t, e)
        BY <3>1, Zenon DEF BytesAt
      <3>3. Len(h.peers[e]) = SizeOf(t, e) /\ Len(t.peers[e]) <= SizeOf(t, e)
        BY KeyIs DEF HandledIn
      <3> QED BY <2>2, <3>2, <3>3
    <2> QED BY <2>1, <2>2
  <1> QED BY <1>1 DEF Keeps

LEMMA KeepsOn ==
  ASSUME NEW t \in Tables, NEW h \in Tables, NEW k \in Tables, Keeps(t, h), Keeps(h, k)
  PROVE  Keeps(t, k)
  <1>1. ASSUME NEW e \in Endpoints
        PROVE  /\ BytesAt(k, e) = BytesAt(t, e)
               /\ Len(t.peers[e]) <= Len(k.peers[e])
    <2>1. Len(t.peers[e]) \in Nat /\ Len(h.peers[e]) \in Nat /\ Len(k.peers[e]) \in Nat
      BY TableParts
    <2> QED BY <2>1 DEF Keeps
  <1> QED BY <1>1 DEF Keeps

LEMMA AfterKeeps ==
  ASSUME NEW t \in Tables, NEW q \in Seq(Alerts)
  PROVE  AfterAlerts(t, q) \in Tables /\ Keeps(t, AfterAlerts(t, q))
  <1> DEFINE r(m) == SubSeq(q, 1, m)
             D == {m \in 0..Len(q) : /\ AfterAlerts(t, r(m)) \in Tables
                                     /\ Keeps(t, AfterAlerts(t, r(m)))}
  <1>1. Len(q) \in Nat /\ \A m \in 1..Len(q) : q[m] \in Alerts
    BY LenProperties, ElementOfSeq
  <1>2. \A m \in 0..Len(q) : /\ r(m) \in Seq(Alerts) /\ Len(r(m)) = m
                            /\ \A k \in 1..m : r(m)[k] = q[k]
    <2>1. ASSUME NEW m \in 0..Len(q)
          PROVE  /\ r(m) \in Seq(Alerts) /\ Len(r(m)) = m
                 /\ \A k \in 1..m : r(m)[k] = q[k]
      <3>1. \A k \in 1..m : q[k] \in Alerts
        BY <1>1
      <3>2. /\ SubSeq(q, 1, m) \in Seq(Alerts)
            /\ Len(SubSeq(q, 1, m)) = IF 1 <= m THEN m - 1 + 1 ELSE 0
            /\ \A k \in 1..(m - 1 + 1) : SubSeq(q, 1, m)[k] = q[1 + k - 1]
        <4>1. 1 \in Int /\ m \in Int
          BY <1>1
        <4> QED BY <3>1, <4>1, SubSeqProperties
      <3>3. m \in Nat /\ m - 1 + 1 = m /\ \A k \in 1..m : 1 + k - 1 = k
        BY <1>1
      <3> QED BY <3>2, <3>3
    <2> QED BY <2>1
  <1>3. 0 \in D
    <2>1. 0 \in 0..Len(q) /\ r(0) = <<>>
      <3>1. 0 \in 0..Len(q)
        BY <1>1
      <3>2. r(0) \in Seq(Alerts) /\ Len(r(0)) = 0
        BY <1>2, <3>1
      <3> QED BY <3>1, <3>2, EmptySeq
    <2>2. Keeps(t, t)
      BY TableParts DEF Keeps
    <2> QED BY <2>1, <2>2, DrainsNothing
  <1>4. ASSUME NEW m \in 0..(Len(q) - 1), m \in D
        PROVE  m + 1 \in D
    <2>1. m \in 0..Len(q) /\ m + 1 \in 0..Len(q) /\ m + 1 \in 1..Len(q) /\ m \in Nat
      BY <1>1
    <2>2. PICK s, a, u : s = r(m) /\ a = q[m + 1] /\ u = r(m + 1)
      OBVIOUS
    <2>3. s \in Seq(Alerts) /\ Len(s) = m /\ u \in Seq(Alerts) /\ Len(u) = m + 1 /\ a \in Alerts
      BY <1>1, <1>2, <2>1, <2>2
    <2>4. u = Append(s, a)
      <3>1. /\ Append(s, a) \in Seq(Alerts) /\ Len(Append(s, a)) = m + 1
            /\ \A k \in 1..m : Append(s, a)[k] = s[k]
            /\ Append(s, a)[m + 1] = a
        BY <2>3, AppendProperties
      <3>2. \A k \in 1..m : s[k] = q[k]
        BY <1>2, <2>1, <2>2
      <3>3. \A k \in 1..(m + 1) : u[k] = q[k]
        BY <1>2, <2>1, <2>2
      <3>4. \A k \in 1..(m + 1) : u[k] = Append(s, a)[k]
        <4>1. \A k \in 1..(m + 1) : k \in 1..m \/ k = m + 1
          BY <2>1
        <4> QED BY <2>2, <3>1, <3>2, <3>3, <4>1
      <3>5. PICK v : v = Append(s, a)
        OBVIOUS
      <3> QED BY <2>3, <3>1, <3>4, <3>5, SeqEqual
    <2>5. PICK w, x : w = AfterAlerts(t, s) /\ x = AfterAlerts(t, u)
      OBVIOUS
    <2>6. w \in Tables /\ Keeps(t, w)
      BY <1>4, <2>2, <2>5
    <2>7. x = Handled(w, a)
      BY <2>3, <2>4, <2>5, DrainsOneMore
    <2>8. HandledIn(w, x, a.type, a.endpoint) /\ a.endpoint \in Endpoints
      BY <2>3, <2>6, <2>7, AlertHandled DEF Alerts
    <2>9. x \in Tables
      BY <2>8 DEF HandledIn
    <2>10. Keeps(w, x)
      BY <2>6, <2>8, HandledKeeps
    <2>11. Keeps(t, x)
      BY <2>6, <2>9, <2>10, KeepsOn
    <2> QED BY <2>1, <2>2, <2>5, <2>9, <2>11
  <1>5. Len(q) \in D
    <2> HIDE DEF D
    <2>1. \A m \in 0..(Len(q) - 1) : m \in D => m + 1 \in D
      BY <1>4
    <2> QED BY <1>1, <1>3, <2>1, UpTo
  <1>6. r(Len(q)) = q
    <2>1. Len(q) \in 0..Len(q)
      BY <1>1
    <2>2. PICK s : s = r(Len(q))
      OBVIOUS
    <2>3. s \in Seq(Alerts) /\ Len(s) = Len(q) /\ \A k \in 1..Len(q) : s[k] = q[k]
      BY <1>2, <2>1, <2>2
    <2>4. s = q
      BY <2>3, SeqEqual
    <2> QED BY <2>2, <2>4
  <1> QED BY <1>5, <1>6

-----------------------------------------------------------------------------
(* The connections, and the types.                                          *)

\* What has been seen of a connection and asked over it, and nothing of none.
SeenIn(s, k) == IF k \in 1..Len(s) THEN s[k].seen ELSE 0
AskedIn(s, k) == IF k \in 1..Len(s) THEN s[k].requests ELSE 0
SeenAt(s) == [k \in Nat |-> SeenIn(s, k)]

Attempts == [Endpoints -> Seq(Connection)]

\* d has of e so many attempts more than c, and over its last one so many requests more.
Moved(c, d, e, more, asked) ==
    /\ d \in Attempts /\ \A o \in Endpoints : o # e => d[o] = c[o]
    /\ Len(d[e]) = Len(c[e]) + more
    /\ \A k \in Nat :
           /\ SeenIn(d[e], k) = SeenIn(c[e], k)
           /\ AskedIn(d[e], k) =
                 AskedIn(c[e], k) + (IF k = Len(c[e]) THEN asked ELSE 0)

LEMMA AttemptsAre ==
  ASSUME NEW c \in Attempts, NEW e \in Endpoints
  PROVE  /\ c[e] \in Seq(Connection) /\ Len(c[e]) \in Nat
         /\ \A k \in 1..Len(c[e]) : c[e][k] \in Connection
         /\ \A k : SeenIn(c[e], k) \in Nat /\ AskedIn(c[e], k) \in Nat
  <1>1. c[e] \in Seq(Connection)
    BY DEF Attempts
  <1>2. Len(c[e]) \in Nat /\ \A k \in 1..Len(c[e]) : c[e][k] \in Connection
    BY <1>1, LenProperties, ElementOfSeq
  <1>3. \A k : SeenIn(c[e], k) \in Nat /\ AskedIn(c[e], k) \in Nat
    BY <1>2 DEF SeenIn, AskedIn, Connection
  <1> QED BY <1>1, <1>2, <1>3

\* The attempts of e are replaced by s.
LEMMA MovedTo ==
  ASSUME NEW c \in Attempts, NEW e \in Endpoints, NEW s \in Seq(Connection),
         NEW d, d = [c EXCEPT ![e] = s],
         NEW more, Len(s) = Len(c[e]) + more, NEW asked,
         \A k \in Nat :
             /\ SeenIn(s, k) = SeenIn(c[e], k)
             /\ AskedIn(s, k) = AskedIn(c[e], k) + (IF k = Len(c[e]) THEN asked ELSE 0)
  PROVE  Moved(c, d, e, more, asked)
  <1>1. d \in Attempts /\ d[e] = s /\ \A o \in Endpoints : o # e => d[o] = c[o]
    BY DEF Attempts
  <1> QED BY <1>1 DEF Moved

LEMMA AttemptMoves ==
  ASSUME NEW c \in Attempts, NEW e \in Endpoints,
         NEW d, d = [c EXCEPT ![e] = Append(@, NewConnection)]
  PROVE  Moved(c, d, e, 1, 0)
  <1>1. PICK p, n, s : p = c[e] /\ n = Len(p) /\ s = Append(p, NewConnection)
    OBVIOUS
  <1>2. p \in Seq(Connection) /\ n \in Nat
    BY <1>1, AttemptsAre
  <1>3. /\ s \in Seq(Connection) /\ Len(s) = n + 1 /\ s[n + 1] = NewConnection
        /\ \A k \in 1..n : s[k] = p[k]
    <2>1. NewConnection \in Connection
      BY DEF NewConnection, Connection
    <2> QED BY <1>1, <1>2, <2>1, AppendProperties
  <1>4. ASSUME NEW k \in Nat
        PROVE  SeenIn(s, k) = SeenIn(p, k) /\ AskedIn(s, k) = AskedIn(p, k)
    <2>1. CASE k \in 1..n
      <3>1. k \in 1..(n + 1) /\ s[k] = p[k]
        BY <1>2, <1>3, <2>1
      <3> QED BY <1>1, <1>3, <2>1, <3>1, Zenon DEF SeenIn, AskedIn
    <2>2. CASE k = n + 1
      <3>1. k \in 1..(n + 1) /\ k \notin 1..n
        BY <1>2, <2>2
      <3>2. s[k].seen = 0 /\ s[k].requests = 0
        BY <1>3, <2>2 DEF NewConnection
      <3> QED BY <1>1, <1>3, <3>1, <3>2, Zenon DEF SeenIn, AskedIn
    <2>3. CASE k \notin 1..(n + 1)
      <3>1. k \notin 1..n
        BY <1>2, <2>3
      <3> QED BY <1>1, <1>3, <2>3, <3>1, Zenon DEF SeenIn, AskedIn
    <2> QED BY <1>2, <2>1, <2>2, <2>3
  <1>5. ASSUME NEW k \in Nat
        PROVE  AskedIn(s, k) = AskedIn(p, k) + 0
    <2>1. AskedIn(p, k) \in Nat
      BY <1>1, AttemptsAre
    <2> QED BY <1>4, <2>1
  <1> QED BY <1>1, <1>3, <1>4, <1>5, MovedTo

\* d has r for the last attempt of e in c, which has been seen as much.
LastIs(c, d, e, r, asked) ==
    LET n == Len(c[e]) IN
    /\ c \in Attempts /\ e \in Endpoints /\ 1 <= n /\ asked \in Nat
    /\ r \in Connection /\ r.seen = c[e][n].seen /\ r.requests = c[e][n].requests + asked
    /\ d = [c EXCEPT ![e] = [c[e] EXCEPT ![n] = r]]

LEMMA LastMoves ==
  ASSUME NEW c, NEW d, NEW e, NEW r, NEW asked, LastIs(c, d, e, r, asked)
  PROVE  Moved(c, d, e, 0, asked)
  <1>0. PICK n : n = Len(c[e])
    OBVIOUS
  <1>1. PICK p, s : p = c[e] /\ n = Len(p) /\ s = [p EXCEPT ![n] = r]
    BY <1>0
  <1>2. /\ c \in Attempts /\ e \in Endpoints /\ r \in Connection /\ asked \in Nat
        /\ r.seen = p[n].seen /\ r.requests = p[n].requests + asked
        /\ d = [c EXCEPT ![e] = s] /\ 1 <= n
    BY <1>0, <1>1 DEF LastIs
  <1>7. p \in Seq(Connection) /\ n \in Nat /\ n \in 1..n
    BY <1>1, <1>2, AttemptsAre
  <1>3. /\ s \in Seq(Connection) /\ Len(s) = n
        /\ \A k \in 1..n : s[k] = IF k = n THEN r ELSE p[k]
    BY <1>1, <1>2, <1>7, ExceptSeq
  <1>4. ASSUME NEW k \in Nat
        PROVE  /\ SeenIn(s, k) = SeenIn(p, k)
               /\ AskedIn(s, k) = AskedIn(p, k) + (IF k = n THEN asked ELSE 0)
    <2>0. SeenIn(p, k) \in Nat /\ AskedIn(p, k) \in Nat
      BY <1>1, <1>2, AttemptsAre
    <2>1. CASE k = n
      <3>1. SeenIn(s, k) = r.seen /\ AskedIn(s, k) = r.requests
        BY <1>2, <1>3, <1>7, <2>1 DEF SeenIn, AskedIn
      <3>2. SeenIn(p, k) = p[n].seen /\ AskedIn(p, k) = p[n].requests
        BY <1>1, <1>2, <1>7, <2>1 DEF SeenIn, AskedIn
      <3> QED BY <1>2, <2>1, <3>1, <3>2
    <2>2. CASE k # n
      <3>1. SeenIn(s, k) = SeenIn(p, k) /\ AskedIn(s, k) = AskedIn(p, k)
        BY <1>1, <1>3, <2>2 DEF SeenIn, AskedIn
      <3> QED BY <2>0, <2>2, <3>1
    <2> QED BY <2>1, <2>2
  <1>5. Len(s) = n + 0
    BY <1>3, <1>7
  <1> QED BY <1>1, <1>2, <1>3, <1>4, <1>5, MovedTo

LEMMA TransferMoves ==
  ASSUME NEW c \in Attempts, NEW e \in Endpoints, 1 <= Len(c[e]),
         NEW d, d = [c EXCEPT ![e][Len(c[e])].bytes = @ + 1]
  PROVE  Moved(c, d, e, 0, 0)
  <1>1. PICK n, l, r : n = Len(c[e]) /\ l = c[e][n] /\ r = [l EXCEPT !.bytes = @ + 1]
    OBVIOUS
  <1>2. l \in Connection
    <2>1. n \in Nat /\ \A k \in 1..n : c[e][k] \in Connection
      BY <1>1, AttemptsAre
    <2>2. n \in 1..n
      BY <1>1, <2>1
    <2> QED BY <1>1, <2>1, <2>2
  <1>3. r \in Connection /\ r.seen = l.seen /\ r.requests = l.requests + 0
    BY <1>1, <1>2 DEF Connection
  <1>4. d = [c EXCEPT ![e] = [c[e] EXCEPT ![n] = r]]
    BY <1>1
  <1>5. LastIs(c, d, e, r, 0)
    BY <1>1, <1>3, <1>4 DEF LastIs
  <1> QED BY <1>5, LastMoves

LEMMA RequestMoves ==
  ASSUME NEW c \in Attempts, NEW e \in Endpoints, 1 <= Len(c[e]),
         NEW d, d = [c EXCEPT ![e][Len(c[e])].requests = @ + 1]
  PROVE  Moved(c, d, e, 0, 1)
  <1>1. PICK n, l, r : n = Len(c[e]) /\ l = c[e][n] /\ r = [l EXCEPT !.requests = @ + 1]
    OBVIOUS
  <1>2. l \in Connection
    <2>1. n \in Nat /\ \A k \in 1..n : c[e][k] \in Connection
      BY <1>1, AttemptsAre
    <2>2. n \in 1..n
      BY <1>1, <2>1
    <2> QED BY <1>1, <2>1, <2>2
  <1>3. r \in Connection /\ r.seen = l.seen /\ r.requests = l.requests + 1
    BY <1>1, <1>2 DEF Connection
  <1>4. d = [c EXCEPT ![e] = [c[e] EXCEPT ![n] = r]]
    BY <1>1
  <1>5. LastIs(c, d, e, r, 1)
    BY <1>1, <1>3, <1>4 DEF LastIs
  <1> QED BY <1>5, LastMoves

-----------------------------------------------------------------------------
(* The types, and what each action does to the attempts and to the table.    *)

TableOf(p, a) == [peers |-> p, active |-> a]

\* The table there will be once the alerts that wait are handled.
Later(p, a, q) == AfterAlerts(TableOf(p, a), q)

Types ==
    /\ connections \in Attempts
    /\ up \in SUBSET Endpoints /\ \A e \in up : 1 <= Len(connections[e])
    /\ queue \in Seq(Alerts) /\ Len(queue) <= QueueSize /\ lost \in BOOLEAN
    /\ TableOf(peers, active) \in Tables
    /\ at \in {"drain", "snapshot", "done"}
    /\ overtaken \in BOOLEAN /\ blurred \in BOOLEAN

LEMMA TypesImplyTypeOK == Types => TypeOK
  <1> SUFFICES ASSUME Types
               PROVE  TypeOK
    OBVIOUS
  <1>1. PICK t : t = TableOf(peers, active)
    OBVIOUS
  <1>2. t.peers = peers /\ t.active = active
    BY <1>1 DEF TableOf
  <1>3. /\ peers \in [Endpoints -> Seq(Peer)] /\ active \in [Endpoints -> Nat]
        /\ \A e \in Endpoints : active[e] <= Len(peers[e])
    BY <1>1, <1>2 DEF Types, Tables
  <1> QED BY <1>3, Zenon DEF Types, TypeOK, Attempts, Connection, Peer

LEMMA LaterKeeps ==
  ASSUME NEW p, NEW a, TableOf(p, a) \in Tables, NEW q \in Seq(Alerts)
  PROVE  /\ Later(p, a, q) \in Tables /\ Keeps(TableOf(p, a), Later(p, a, q))
         /\ Later(p, a, <<>>) = TableOf(p, a)
  BY AfterKeeps, DrainsNothing, Zenon DEF Later

\* An alert about e, or none if it is lost, turns the table w that there would be
\* into x.
Told(w, x, type, e) == x = w \/ HandledIn(w, x, type, e)

LEMMA PostTells ==
  ASSUME Types, NEW type \in {"connect", "disconnect", "error", "request"},
         NEW e \in Endpoints, Post(type, e), UNCHANGED stats
  PROVE  /\ queue' \in Seq(Alerts) /\ Len(queue') <= QueueSize /\ lost' \in BOOLEAN
         /\ lost => lost'
         /\ Told(Later(peers, active, queue), Later(peers', active', queue'), type, e)
         /\ ~lost' => HandledIn(Later(peers, active, queue),
                                Later(peers', active', queue'), type, e)
  <1>1. PICK a, t, w : /\ a = [type |-> type, endpoint |-> e] /\ t = TableOf(peers, active)
                       /\ w = Later(peers, active, queue)
    OBVIOUS
  <1>2. a \in Alerts /\ a.type = type /\ a.endpoint = e
    BY <1>1 DEF Alerts
  <1>3. t \in Tables /\ queue \in Seq(Alerts) /\ lost \in BOOLEAN /\ Len(queue) <= QueueSize
    BY <1>1 DEF Types
  <1>4. w \in Tables /\ w = AfterAlerts(t, queue)
    BY <1>1, <1>3, LaterKeeps DEF Later
  <1>5. peers' = peers /\ active' = active
    BY DEF stats
  <1>6. CASE ~lost /\ Len(queue) < QueueSize
    <2>1. PICK r : r = Append(queue, a)
      OBVIOUS
    <2>2. queue' = r /\ lost' = lost
      BY <1>1, <1>6, <2>1 DEF Post
    <2>3. r \in Seq(Alerts) /\ Len(r) = Len(queue) + 1 /\ Len(queue) \in Nat
      BY <1>2, <1>3, <2>1, AppendProperties, LenProperties
    <2>4. Len(r) <= QueueSize
      BY <1>6, <2>3, TotalsAssumption
    <2>5. PICK x : x = Later(peers', active', queue')
      OBVIOUS
    <2>6. x = AfterAlerts(t, r)
      BY <1>1, <1>5, <2>2, <2>5, Zenon DEF Later
    <2>7. x = Handled(w, a)
      BY <1>2, <1>3, <1>4, <2>1, <2>6, DrainsOneMore
    <2>8. HandledIn(w, x, type, e)
      BY <1>2, <1>4, <2>7, AlertHandled
    <2> QED BY <1>1, <1>3, <2>2, <2>3, <2>4, <2>5, <2>8, Zenon DEF Told
  <1>7. CASE ~(~lost /\ Len(queue) < QueueSize)
    <2>1. queue' = queue /\ lost' = TRUE
      BY <1>7 DEF Post
    <2>2. Later(peers', active', queue') = Later(peers, active, queue)
      BY <1>5, <2>1, Zenon
    <2> QED BY <1>3, <2>1, <2>2, Zenon DEF Told
  <1> QED BY <1>6, <1>7

-----------------------------------------------------------------------------
(* What the table will say of the attempts.                                  *)

BytesOf(w, e, S) == SumFunctionOnSet(BytesAt(w, e), S)
SeenOf(s, S) == SumFunctionOnSet(SeenAt(s), S)
Keys(w, e) == 1..Len(w.peers[e])

\* The records of an endpoint have no more bytes than have been seen of its attempts;
\* and while it is connected, those that are not active have no more than have been
\* seen of the attempts before the last one.
WithinAt(c, u, w, e) ==
    /\ BytesOf(w, e, Keys(w, e)) <= SeenOf(c[e], 1..Len(c[e]))
    /\ e \in u => BytesOf(w, e, Keys(w, e) \ {w.active[e]}) <= SeenOf(c[e], 1..(Len(c[e]) - 1))

\* There are no more records than attempts, and while the endpoint is connected not
\* even with the one that the next alert or snapshot may need.
FewerAt(c, u, w, e) ==
    /\ Len(w.peers[e]) <= Len(c[e])
    /\ e \in u => SizeOf(w, e) <= Len(c[e])
Within(c, u, w) == \A e \in Endpoints : WithinAt(c, u, w, e) /\ FewerAt(c, u, w, e)

\* The records of an endpoint are its attempts, and the last one is active if it is
\* connected.
MatchesAt(c, u, w, e) ==
    /\ w.active[e] = IF e \in u THEN Len(c[e]) ELSE 0
    /\ Len(w.peers[e]) = Len(c[e])
    /\ \A k \in Nat : /\ BytesIn(w, e, k) = SeenIn(c[e], k)
                      /\ RequestsIn(w, e, k) = AskedIn(c[e], k)
Matches(c, u, w) == \A e \in Endpoints : MatchesAt(c, u, w, e)

LEMMA BytesSum ==
  ASSUME NEW w \in Tables, NEW e \in Endpoints, NEW n \in Nat, NEW S \in SUBSET (1..n)
  PROVE  /\ IsFiniteSet(S) /\ BytesOf(w, e, S) \in Int
         /\ BytesOf(w, e, S) <= BytesOf(w, e, 1..n)
         /\ \A k \in S : BytesOf(w, e, S) = BytesIn(w, e, k) + BytesOf(w, e, S \ {k})
  <1>1. PICK f : f = BytesAt(w, e)
    OBVIOUS
  <1>2. IsFiniteSet(1..n) /\ IsFiniteSet(S)
    <2>1. IsFiniteSet(1..n)
      BY FS_Interval
    <2> QED BY <2>1, FS_Subset
  <1>3. ASSUME NEW k \in 1..n
        PROVE  f[k] = BytesIn(w, e, k) /\ f[k] \in Int /\ f[k] <= f[k] /\ 0 <= f[k]
    <2>1. k \in Nat
      OBVIOUS
    <2>2. f[k] = BytesIn(w, e, k)
      BY <1>1, <2>1 DEF BytesAt
    <2>3. BytesIn(w, e, k) \in Nat
      BY BytesInType
    <2> QED BY <2>2, <2>3
  <1>4. \A k \in S : k \in 1..n
    OBVIOUS
  <1>5. SumFunctionOnSet(f, S) \in Int
    BY <1>2, <1>3, <1>4, SumType
  <1>6. \A k \in S : SumFunctionOnSet(f, S) = f[k] + SumFunctionOnSet(f, S \ {k})
    <2>1. Summable(f, S)
      BY <1>2, <1>3, <1>4 DEF Summable
    <2> QED BY <2>1, SumTakesOut
  <1>7. SumFunctionOnSet(f, S) <= SumFunctionOnSet(f, 1..n)
    <2>1. /\ \A k \in S : f[k] \in Int /\ f[k] <= f[k]
          /\ \A k \in 1..n : f[k] \in Int
          /\ \A k \in (1..n) \ S : 0 <= f[k]
      BY <1>3, <1>4
    <2>2. PICK T : T = 1..n
      OBVIOUS
    <2>3. IsFiniteSet(T) /\ S \subseteq T
      BY <1>2, <2>2
    <2>4. SumFunctionOnSet(f, S) <= SumFunctionOnSet(f, T)
      BY <2>1, <2>2, <2>3, SumAtMost
    <2> QED BY <2>2, <2>4
  <1> QED BY <1>1, <1>2, <1>3, <1>4, <1>5, <1>6, <1>7 DEF BytesOf

Full(w, e, n, S) == w \in Tables /\ e \in Endpoints /\ n \in Nat /\ S = 1..n

LEMMA BytesTakeOut ==
  ASSUME NEW w, NEW e, NEW n, NEW S, Full(w, e, n, S)
  PROVE  \A k \in S : BytesOf(w, e, S) = BytesIn(w, e, k) + BytesOf(w, e, S \ {k})
  <1>1. w \in Tables /\ e \in Endpoints /\ n \in Nat /\ S \in SUBSET (1..n)
    BY DEF Full
  <1> QED BY <1>1, BytesSum

LEMMA SeenSum ==
  ASSUME NEW c \in Attempts, NEW e \in Endpoints, NEW n \in Nat
  PROVE  /\ SeenOf(c[e], 1..n) \in Int
         /\ n # 0 => SeenOf(c[e], 1..n) = SeenIn(c[e], n) + SeenOf(c[e], 1..(n - 1))
  <1>1. PICK f : f = SeenAt(c[e])
    OBVIOUS
  <1>2. IsFiniteSet(1..n)
    BY FS_Interval
  <1>3. ASSUME NEW k \in 1..n
        PROVE  f[k] = SeenIn(c[e], k) /\ f[k] \in Int
    <2>1. k \in Nat
      OBVIOUS
    <2>2. f[k] = SeenIn(c[e], k)
      BY <1>1, <2>1 DEF SeenAt
    <2>3. SeenIn(c[e], k) \in Nat
      BY AttemptsAre
    <2> QED BY <2>2, <2>3
  <1>5. SumFunctionOnSet(f, 1..n) \in Int
    BY <1>2, <1>3, SumType
  <1>6. \A k \in 1..n : SumFunctionOnSet(f, 1..n) = f[k] + SumFunctionOnSet(f, (1..n) \ {k})
    BY <1>2, <1>3, SumRemoves
  <1>7. ASSUME n # 0
        PROVE  SumFunctionOnSet(f, 1..n) = f[n] + SumFunctionOnSet(f, 1..(n - 1))
    <2>1. n \in 1..n /\ (1..n) \ {n} = 1..(n - 1)
      <3>1. n \in 1..n /\ \A k : k \in (1..n) \ {n} <=> k \in 1..(n - 1)
        BY <1>7
      <3> QED BY <3>1, Zenon
    <2> QED BY <1>6, <2>1, Zenon
  <1>8. n # 0 => f[n] = SeenIn(c[e], n)
    <2>1. n # 0 => n \in 1..n
      OBVIOUS
    <2> QED BY <1>3, <2>1
  <1> QED BY <1>1, <1>5, <1>7, <1>8, Zenon DEF SeenOf

\* Records without bytes add nothing.
LEMMA BytesStay ==
  ASSUME NEW w \in Tables, NEW x \in Tables, NEW e \in Endpoints,
         BytesAt(x, e) = BytesAt(w, e), NEW n \in Nat, Len(w.peers[e]) <= n
  PROVE  BytesOf(x, e, 1..n) = BytesOf(w, e, Keys(w, e))
  <1>1. PICK f, m : f = BytesAt(w, e) /\ m = Len(w.peers[e])
    OBVIOUS
  <1>2. m \in Nat /\ m <= n
    BY <1>1, TableParts
  <1>3. \A k \in Nat : f[k] = BytesIn(w, e, k) /\ BytesIn(w, e, k) \in Nat
    BY <1>1, BytesInType DEF BytesAt
  <1>4. /\ IsFiniteSet(1..n) /\ (1..m) \subseteq (1..n)
        /\ \A k \in 1..m : f[k] \in Int /\ f[k] = f[k]
    <2>1. IsFiniteSet(1..n)
      BY FS_Interval
    <2>2. (1..m) \subseteq (1..n) /\ \A k \in 1..m : k \in Nat
      BY <1>2
    <2>3. ASSUME NEW k \in 1..m
          PROVE  f[k] \in Int
      <3>1. k \in Nat
        BY <2>2
      <3>2. f[k] \in Nat
        BY <1>3, <3>1, Zenon
      <3> QED BY <3>2
    <2> QED BY <2>1, <2>2, <2>3
  <1>5. ASSUME NEW k \in (1..n) \ (1..m)
        PROVE  f[k] = 0
    <2>1. k \in Nat /\ k \notin 1..m
      BY <1>2
    <2> QED BY <1>1, <1>3, <2>1 DEF BytesIn
  <1>6. SumFunctionOnSet(f, 1..m) = SumFunctionOnSet(f, 1..n)
    <2>1. PICK S, T : S = 1..m /\ T = 1..n
      OBVIOUS
    <2>2. /\ IsFiniteSet(T) /\ S \subseteq T /\ \A k \in S : f[k] \in Int /\ f[k] = f[k]
          /\ \A k \in T \ S : f[k] = 0
      BY <1>4, <1>5, <2>1
    <2>3. SumFunctionOnSet(f, S) = SumFunctionOnSet(f, T)
      BY <2>2, SumSame
    <2> QED BY <2>1, <2>3
  <1> QED BY <1>1, <1>6, Zenon DEF BytesOf, Keys

LEMMA SeenStays ==
  ASSUME NEW c, NEW d, NEW e, NEW more, NEW asked, Moved(c, d, e, more, asked)
  PROVE  SeenAt(d[e]) = SeenAt(c[e])
  BY Zenon DEF Moved, SeenAt

\* The records beside the one an alert is for are those that are not active.
LEMMA OthersAre ==
  ASSUME NEW w \in Tables, NEW e \in Endpoints
  PROVE  (1..SizeOf(w, e)) \ {KeyOf(w, e)} = Keys(w, e) \ {w.active[e]}
  <1>1. PICK n, m : n = Len(w.peers[e]) /\ m = w.active[e]
    OBVIOUS
  <1>2. n \in Nat /\ m \in 0..n
    BY <1>1, TableParts
  <1>3. CASE m # 0
    BY <1>1, <1>3 DEF KeyOf, SizeOf, Keys
  <1>4. CASE m = 0
    <2>1. KeyOf(w, e) = n + 1 /\ SizeOf(w, e) = n + 1 /\ Keys(w, e) = 1..n
      BY <1>1, <1>4 DEF KeyOf, SizeOf, Keys
    <2>2. \A k : k \in (1..(n + 1)) \ {n + 1} <=> k \in (1..n) \ {0}
      BY <1>2
    <2>3. (1..(n + 1)) \ {n + 1} = (1..n) \ {0}
      BY <2>2, Zenon
    <2> QED BY <1>1, <1>4, <2>1, <2>3, Zenon
  <1> QED BY <1>3, <1>4

\* An alert about e, or none, goes with what happens to the attempts of e: a new one,
\* which the alert may end at once if it failed, or an end, or something that is no end.
Befalls(c, d, u, v, e, type) ==
    /\ c \in Attempts /\ e \in Endpoints
    /\ \A o \in Endpoints : o # e => (o \in v <=> o \in u)
    /\ \E more, asked :
           /\ Moved(c, d, e, more, asked)
           /\ \/ more = 1 /\ (e \in v => type # "disconnect")
              \/ more = 0 /\ e \in u /\ e \notin v
              \/ more = 0 /\ e \in u /\ type # "disconnect"

\* An alert makes at most one record, which a new attempt or the last one accounts for.
LEMMA FewerTold ==
  ASSUME NEW c, NEW d, NEW u, NEW v, NEW e, NEW type, Befalls(c, d, u, v, e, type),
         NEW w \in Tables, NEW x \in Tables, Told(w, x, type, e), FewerAt(c, u, w, e)
  PROVE  FewerAt(d, v, x, e)
  <1>1. PICK more, asked : /\ Moved(c, d, e, more, asked)
                           /\ \/ more = 1 /\ (e \in v => type # "disconnect")
                              \/ more = 0 /\ e \in u /\ e \notin v
                              \/ more = 0 /\ e \in u /\ type # "disconnect"
    BY DEF Befalls
  <1>2. c \in Attempts /\ e \in Endpoints
    BY DEF Befalls
  <1>3. PICK n, m, p, q, key, size : /\ n = Len(c[e]) /\ m = Len(d[e])
                                     /\ p = Len(w.peers[e]) /\ q = Len(x.peers[e])
                                     /\ key = KeyOf(w, e) /\ size = SizeOf(w, e)
    OBVIOUS
  <1>4. n \in Nat /\ m = n + more
    BY <1>1, <1>2, <1>3, AttemptsAre DEF Moved
  <1>5. /\ p \in Nat /\ size \in Nat /\ p <= size /\ size <= p + 1 /\ key # 0
        /\ p <= n /\ (e \in u => size <= n)
    <2>1. p \in Nat /\ size \in Nat /\ p <= size /\ key \in 1..size
      BY <1>2, <1>3, KeyIs
    <2>2. size = p \/ size = p + 1
      BY <1>3 DEF SizeOf
    <2> QED BY <1>3, <2>1, <2>2 DEF FewerAt
  <1>6. CASE x = w
    <2>1. p <= m /\ (e \in v => size <= m)
      BY <1>1, <1>4, <1>5
    <2> QED BY <1>3, <1>6, <2>1 DEF FewerAt
  <1>7. CASE HandledIn(w, x, type, e)
    <2>1. q = size /\ x.active[e] = IF type = "disconnect" THEN 0 ELSE key
      BY <1>3, <1>7 DEF HandledIn
    <2>2. size <= m
      BY <1>1, <1>4, <1>5
    <2>3. ASSUME e \in v
          PROVE  SizeOf(x, e) <= m
      <3>1. type # "disconnect"
        BY <1>1, <2>3
      <3>2. SizeOf(x, e) = q
        BY <1>3, <1>5, <2>1, <3>1 DEF SizeOf
      <3> QED BY <2>1, <2>2, <3>2
    <2> QED BY <1>3, <2>1, <2>2, <2>3 DEF FewerAt
  <1> QED BY <1>6, <1>7 DEF Told

LEMMA WithinTold ==
  ASSUME NEW c, NEW d, NEW u, NEW v, NEW e, NEW type, Befalls(c, d, u, v, e, type),
         NEW w \in Tables, NEW x \in Tables, Told(w, x, type, e), Within(c, u, w)
  PROVE  Within(d, v, x)
  <1>1. PICK more, asked : /\ Moved(c, d, e, more, asked)
                           /\ \/ more = 1 /\ (e \in v => type # "disconnect")
                              \/ more = 0 /\ e \in u /\ e \notin v
                              \/ more = 0 /\ e \in u /\ type # "disconnect"
    BY DEF Befalls
  <1>2. /\ c \in Attempts /\ e \in Endpoints /\ more \in {0, 1} /\ d \in Attempts
        /\ \A o \in Endpoints : o # e => (o \in v <=> o \in u) /\ d[o] = c[o]
    BY <1>1 DEF Befalls, Moved
  <1>3. ASSUME NEW o \in Endpoints, o # e
        PROVE  WithinAt(d, v, x, o) /\ FewerAt(d, v, x, o)
    <2>1. x.peers[o] = w.peers[o] /\ x.active[o] = w.active[o]
      BY <1>3 DEF Told, HandledIn
    <2>2. BytesAt(x, o) = BytesAt(w, o) /\ Keys(x, o) = Keys(w, o)
      BY <2>1, Zenon DEF BytesAt, BytesIn, Keys
    <2>3. WithinAt(c, u, w, o) /\ FewerAt(c, u, w, o)
      BY DEF Within
    <2>4. d[o] = c[o] /\ (o \in v <=> o \in u)
      BY <1>2, <1>3
    <2>5. WithinAt(d, v, x, o)
      BY <2>1, <2>2, <2>3, <2>4 DEF WithinAt, BytesOf
    <2>6. FewerAt(d, v, x, o)
      BY <2>1, <2>3, <2>4 DEF FewerAt, SizeOf
    <2> QED BY <2>5, <2>6
  <1>4. WithinAt(d, v, x, e)
    <2>1. WithinAt(c, u, w, e)
      BY <1>2 DEF Within
    <2>2. BytesAt(x, e) = BytesAt(w, e) /\ Len(w.peers[e]) <= Len(x.peers[e])
      <3>1. CASE x = w
        <4>1. Len(w.peers[e]) \in Nat
          BY <1>2, TableParts
        <4> QED BY <3>1, <4>1
      <3>2. CASE HandledIn(w, x, type, e)
        BY <1>2, <3>2, HandledKeeps DEF Keeps
      <3> QED BY <3>1, <3>2 DEF Told
    <2>3. PICK n, m : n = Len(c[e]) /\ m = Len(d[e])
      OBVIOUS
    <2>4. n \in Nat /\ m = n + more /\ SeenAt(d[e]) = SeenAt(c[e])
      <3>1. n \in Nat
        BY <1>2, <2>3, AttemptsAre
      <3>2. m = n + more
        BY <1>1, <2>3 DEF Moved
      <3>3. SeenAt(d[e]) = SeenAt(c[e])
        BY <1>1, SeenStays, Zenon
      <3> QED BY <3>1, <3>2, <3>3
    <2>5. PICK a, b : a = BytesOf(w, e, Keys(w, e)) /\ b = SeenOf(c[e], 1..n)
      OBVIOUS
    <2>6. a \in Int /\ b \in Int /\ a <= b
      <3>1. a <= b
        BY <2>1, <2>3, <2>5 DEF WithinAt
      <3>2. Len(w.peers[e]) \in Nat /\ Keys(w, e) \in SUBSET (1..Len(w.peers[e]))
        BY <1>2, TableParts DEF Keys
      <3>3. a \in Int /\ b \in Int
        BY <1>2, <2>4, <2>5, <3>2, BytesSum, SeenSum
      <3> QED BY <3>1, <3>3
    <2>7. BytesOf(x, e, Keys(x, e)) = a
      <3>1. Len(x.peers[e]) \in Nat
        BY <1>2, TableParts
      <3>2. BytesOf(x, e, 1..Len(x.peers[e])) = BytesOf(w, e, Keys(w, e))
        BY <1>2, <2>2, <3>1, BytesStay
      <3> QED BY <2>5, <3>2, Zenon DEF Keys
    <2>8. \A S : SeenOf(d[e], S) = SeenOf(c[e], S)
      BY <2>4, Zenon DEF SeenOf
    <2>9. SeenOf(d[e], 1..m) = b
      <3>1. CASE more = 0
        BY <2>4, <2>5, <2>8, <3>1
      <3>2. CASE more = 1
        <4>1. m \in Nat /\ m # 0 /\ m - 1 = n /\ m \notin 1..n
          BY <2>4, <3>2
        <4>2. SeenOf(d[e], 1..m) = SeenIn(d[e], m) + SeenOf(d[e], 1..(m - 1))
          BY <1>2, <4>1, SeenSum
        <4>3. SeenIn(d[e], m) = 0
          <5>1. SeenIn(d[e], m) = SeenIn(c[e], m)
            BY <1>1, <4>1 DEF Moved
          <5> QED BY <2>3, <4>1, <5>1 DEF SeenIn
        <4>4. SeenOf(d[e], 1..(m - 1)) = b
          BY <2>5, <2>8, <4>1
        <4> QED BY <2>6, <4>2, <4>3, <4>4
      <3> QED BY <1>2, <3>1, <3>2
    <2>10. ASSUME e \in v
           PROVE  BytesOf(x, e, Keys(x, e) \ {x.active[e]}) <= SeenOf(d[e], 1..(m - 1))
      <3>1. CASE more = 1
        <4>1. SeenOf(d[e], 1..(m - 1)) = b
          <5>1. m - 1 = n
            BY <2>4, <3>1
          <5> QED BY <2>5, <2>8, <5>1
        <4>2. Len(x.peers[e]) \in Nat
          BY <1>2, TableParts
        <4>3. PICK S : S = Keys(x, e) \ {x.active[e]}
          OBVIOUS
        <4>4. S \in SUBSET (1..Len(x.peers[e]))
          BY <4>3 DEF Keys
        <4>5. BytesOf(x, e, S) \in Int /\ BytesOf(x, e, S) <= BytesOf(x, e, Keys(x, e))
          BY <1>2, <4>2, <4>4, BytesSum DEF Keys
        <4> QED BY <2>6, <2>7, <4>1, <4>3, <4>5
      <3>2. CASE more = 0
        <4>1. e \in u /\ type # "disconnect"
          BY <1>1, <2>10, <3>2
        <4>2. BytesOf(w, e, Keys(w, e) \ {w.active[e]}) <= SeenOf(c[e], 1..(n - 1))
          BY <2>1, <2>3, <4>1 DEF WithinAt
        <4>3. BytesOf(x, e, Keys(x, e) \ {x.active[e]})
                = BytesOf(w, e, Keys(w, e) \ {w.active[e]})
          <5>1. CASE x = w
            BY <5>1
          <5>2. CASE HandledIn(w, x, type, e)
            <6>1. x.active[e] = KeyOf(w, e) /\ Len(x.peers[e]) = SizeOf(w, e)
              BY <4>1, <5>2 DEF HandledIn
            <6>2. (1..SizeOf(w, e)) \ {KeyOf(w, e)} = Keys(w, e) \ {w.active[e]}
              BY <1>2, OthersAre
            <6>3. Keys(x, e) \ {x.active[e]} = Keys(w, e) \ {w.active[e]}
              BY <6>1, <6>2, Zenon DEF Keys
            <6> QED BY <2>2, <6>3, Zenon DEF BytesOf
          <5> QED BY <5>1, <5>2 DEF Told
        <4>4. m - 1 = n - 1
          BY <2>4, <3>2
        <4> QED BY <2>8, <4>2, <4>3, <4>4
      <3> QED BY <1>2, <3>1, <3>2
    <2> QED BY <2>3, <2>6, <2>7, <2>9, <2>10 DEF WithinAt
  <1>5. FewerAt(d, v, x, e)
    <2>1. FewerAt(c, u, w, e)
      BY <1>2 DEF Within
    <2> QED BY <2>1, FewerTold
  <1> QED BY <1>3, <1>4, <1>5 DEF Within

\* An alert about e that follows from what happens to the attempts of e.
Orderly(c, d, u, v, e, type) ==
    /\ c \in Attempts /\ e \in Endpoints /\ (e \in u => 1 <= Len(c[e]))
    /\ \A o \in Endpoints : o # e => (o \in v <=> o \in u)
    /\ \/ Moved(c, d, e, 1, 0) /\ e \notin u /\ e \in v /\ type = "connect"
       \/ Moved(c, d, e, 0, 0) /\ e \in u /\ e \notin v /\ type = "disconnect"
       \/ Moved(c, d, e, 1, 0) /\ e \notin u /\ e \notin v /\ type = "disconnect"
       \/ Moved(c, d, e, 0, 1) /\ e \in u /\ e \in v /\ type = "request"

LEMMA OrderlyBefalls ==
  ASSUME NEW c, NEW d, NEW u, NEW v, NEW e, NEW type, Orderly(c, d, u, v, e, type)
  PROVE  Befalls(c, d, u, v, e, type)
  BY DEF Orderly, Befalls

LEMMA MatchesTold ==
  ASSUME NEW c, NEW d, NEW u, NEW v, NEW e, NEW type, Orderly(c, d, u, v, e, type),
         NEW w \in Tables, NEW x \in Tables, HandledIn(w, x, type, e), Matches(c, u, w)
  PROVE  Matches(d, v, x)
  <1>1. PICK more, asked :
            /\ Moved(c, d, e, more, asked)
            /\ \/ more = 1 /\ asked = 0 /\ e \notin u /\ e \in v /\ type = "connect"
               \/ more = 0 /\ asked = 0 /\ e \in u /\ e \notin v /\ type = "disconnect"
               \/ more = 1 /\ asked = 0 /\ e \notin u /\ e \notin v /\ type = "disconnect"
               \/ more = 0 /\ asked = 1 /\ e \in u /\ e \in v /\ type = "request"
    BY Zenon DEF Orderly
  <1>2. /\ c \in Attempts /\ e \in Endpoints /\ d \in Attempts /\ (e \in u => 1 <= Len(c[e]))
        /\ \A o \in Endpoints : o # e => (o \in v <=> o \in u) /\ d[o] = c[o]
    BY <1>1 DEF Orderly, Moved
  <1>3. ASSUME NEW o \in Endpoints, o # e
        PROVE  MatchesAt(d, v, x, o)
    <2>1. /\ x.peers[o] = w.peers[o] /\ x.active[o] = w.active[o]
          /\ d[o] = c[o] /\ (o \in v <=> o \in u) /\ MatchesAt(c, u, w, o)
      BY <1>2, <1>3 DEF HandledIn, Matches
    <2> QED BY <2>1 DEF MatchesAt, BytesIn, RequestsIn
  <1>4. MatchesAt(d, v, x, e)
    <2>1. PICK n, key, size : n = Len(c[e]) /\ key = KeyOf(w, e) /\ size = SizeOf(w, e)
      OBVIOUS
    <2>2. /\ w.active[e] = (IF e \in u THEN n ELSE 0) /\ Len(w.peers[e]) = n
          /\ \A k \in Nat : /\ BytesIn(w, e, k) = SeenIn(c[e], k)
                            /\ RequestsIn(w, e, k) = AskedIn(c[e], k)
      BY <1>2, <2>1 DEF Matches, MatchesAt
    <2>3. n \in Nat /\ (e \in u => n # 0)
      <3>1. n \in Nat
        BY <1>2, <2>1, AttemptsAre
      <3> QED BY <1>2, <2>1, <3>1
    <2>4. /\ key = (IF e \in u THEN n ELSE n + 1) /\ size = (IF e \in u THEN n ELSE n + 1)
      BY <2>1, <2>2, <2>3 DEF KeyOf, SizeOf
    <2>5. Len(d[e]) = n + more /\ Len(d[e]) = size
      BY <1>1, <2>1, <2>3, <2>4 DEF Moved
    <2>6. Len(x.peers[e]) = Len(d[e])
      BY <2>1, <2>5 DEF HandledIn
    <2>7. x.active[e] = IF e \in v THEN Len(d[e]) ELSE 0
      BY <1>1, <2>1, <2>4, <2>5 DEF HandledIn
    <2>8. ASSUME NEW k \in Nat
          PROVE  /\ BytesIn(x, e, k) = SeenIn(d[e], k)
                 /\ RequestsIn(x, e, k) = AskedIn(d[e], k)
      <3>1. /\ BytesIn(x, e, k) = BytesIn(w, e, k)
            /\ RequestsIn(x, e, k) =
                  RequestsIn(w, e, k) + (IF type = "request" /\ k = key THEN 1 ELSE 0)
        BY <1>2, <2>1, HandledHas
      <3>2. /\ SeenIn(d[e], k) = SeenIn(c[e], k)
            /\ AskedIn(d[e], k) = AskedIn(c[e], k) + (IF k = n THEN asked ELSE 0)
        BY <1>1, <2>1 DEF Moved
      <3>3. AskedIn(c[e], k) \in Nat
        BY <1>2, AttemptsAre
      <3>4. (IF type = "request" /\ k = key THEN 1 ELSE 0) = (IF k = n THEN asked ELSE 0)
        BY <1>1, <2>4
      <3> QED BY <2>2, <3>1, <3>2, <3>3, <3>4
    <2> QED BY <2>6, <2>7, <2>8 DEF MatchesAt
  <1> QED BY <1>3, <1>4 DEF Matches

LEMMA MatchesMoved ==
  ASSUME NEW c \in Attempts, NEW d, NEW e \in Endpoints, Moved(c, d, e, 0, 0), NEW u, NEW w,
         Matches(c, u, w)
  PROVE  Matches(d, u, w)
  <1>1. ASSUME NEW o \in Endpoints
        PROVE  MatchesAt(d, u, w, o)
    <2>1. /\ MatchesAt(c, u, w, o) /\ Len(c[o]) \in Nat
          /\ \A k : AskedIn(c[o], k) \in Nat
      BY AttemptsAre DEF Matches
    <2>2. CASE o # e
      <3>1. d[o] = c[o]
        BY <2>2 DEF Moved
      <3> QED BY <2>1, <3>1 DEF MatchesAt
    <2>3. CASE o = e
      <3>1. Len(d[o]) = Len(c[o])
        BY <2>1, <2>3 DEF Moved
      <3>2. \A k \in Nat : SeenIn(d[o], k) = SeenIn(c[o], k) /\ AskedIn(d[o], k) = AskedIn(c[o], k)
        BY <2>1, <2>3 DEF Moved
      <3> QED BY <2>1, <3>1, <3>2 DEF MatchesAt
    <2> QED BY <2>2, <2>3
  <1> QED BY <1>1 DEF Matches

-----------------------------------------------------------------------------
(* A snapshot.                                                              *)

\* The record that is found for e in w gets the bytes of the last attempt, which have
\* then been seen.
Taken(c, d, w, x, e) ==
    /\ Len(d[e]) = Len(c[e]) /\ Len(x.peers[e]) = SizeOf(w, e) /\ x.active[e] = KeyOf(w, e)
    /\ \E b \in Nat : \A k \in Nat :
           /\ BytesIn(x, e, k) = IF k = KeyOf(w, e) THEN b ELSE BytesIn(w, e, k)
           /\ RequestsIn(x, e, k) = RequestsIn(w, e, k)
           /\ SeenIn(d[e], k) = IF k = Len(c[e]) THEN b ELSE SeenIn(c[e], k)
           /\ AskedIn(d[e], k) = AskedIn(c[e], k)

PutsAt(S, s, i, y, r) ==
    s \in Seq(S) /\ i \in 1..Len(s) /\ y \in S /\ r = [s EXCEPT ![i] = y]

LEMMA PutsAtOne ==
  ASSUME NEW S, NEW s, NEW i, NEW y, NEW r, PutsAt(S, s, i, y, r)
  PROVE  /\ r \in Seq(S) /\ Len(r) = Len(s)
         /\ \A k \in 1..Len(s) : r[k] = IF k = i THEN y ELSE s[k]
  BY ExceptSeq DEF PutsAt

\* The attempts of an endpoint after what the n-th has moved has been seen.
WithSeen(s, n) == [s EXCEPT ![n].seen = s[n].bytes]

LEMMA ConnectionSeen ==
  ASSUME NEW s \in Seq(Connection), NEW n, n = Len(s), 1 <= n,
         NEW r, r = WithSeen(s, n)
  PROVE  /\ r \in Seq(Connection) /\ Len(r) = n /\ s[n].bytes \in Nat
         /\ \A k \in Nat : /\ SeenIn(r, k) = IF k = n THEN s[n].bytes ELSE SeenIn(s, k)
                           /\ AskedIn(r, k) = AskedIn(s, k)
  <1>1. PICK l, m : l = s[n] /\ m = [l EXCEPT !.seen = l.bytes]
    OBVIOUS
  <1>2. n \in Nat /\ n \in 1..n
    BY LenProperties
  <1>3. l \in Connection
    BY <1>1, <1>2, ElementOfSeq
  <1>4. m \in Connection /\ m.seen = l.bytes /\ m.requests = l.requests /\ l.bytes \in Nat
    BY <1>1, <1>3 DEF Connection
  <1>5. r = [s EXCEPT ![n] = m]
    BY <1>1 DEF WithSeen
  <1>6. /\ r \in Seq(Connection) /\ Len(r) = n
        /\ \A k \in 1..n : r[k] = IF k = n THEN m ELSE s[k]
    <2>1. n \in 1..Len(s)
      BY <1>2
    <2>2. PutsAt(Connection, s, n, m, r)
      BY <1>4, <1>5, <2>1 DEF PutsAt
    <2>3. /\ r \in Seq(Connection) /\ Len(r) = Len(s)
          /\ \A k \in 1..Len(s) : r[k] = IF k = n THEN m ELSE s[k]
      BY <2>2, PutsAtOne
    <2> QED BY <2>3
  <1>7. ASSUME NEW k \in Nat
        PROVE  /\ SeenIn(r, k) = IF k = n THEN s[n].bytes ELSE SeenIn(s, k)
               /\ AskedIn(r, k) = AskedIn(s, k)
    <2>1. CASE k = n
      BY <1>1, <1>2, <1>4, <1>6, <2>1 DEF SeenIn, AskedIn
    <2>2. CASE k # n
      BY <1>6, <2>2 DEF SeenIn, AskedIn
    <2> QED BY <2>1, <2>2
  <1> QED BY <1>1, <1>4, <1>6, <1>7

\* The records of an endpoint after a sample of connection l has gone into one of them.
WithSample(s, key, l) == [s EXCEPT ![key] = Sampled(@, l)]

\* r is what WithSample makes of the records s, when there is a record to sample.
SampledAt(s, key, l, r) ==
    s \in Seq(Peer) /\ key \in 1..Len(s) /\ l \in Connection /\ r = WithSample(s, key, l)

LEMMA RecordSampled ==
  ASSUME NEW s, NEW key, NEW l, NEW r, SampledAt(s, key, l, r)
  PROVE  /\ r \in Seq(Peer) /\ Len(r) = Len(s)
         /\ \A k \in 1..Len(s) : /\ r[k].bytes = IF k = key THEN l.bytes ELSE s[k].bytes
                                 /\ r[k].requests = s[k].requests
  <1>0. s \in Seq(Peer) /\ key \in 1..Len(s) /\ l \in Connection /\ r = WithSample(s, key, l)
    BY DEF SampledAt
  <1>1. PICK p : p = [s[key] EXCEPT !.bytes = l.bytes]
    OBVIOUS
  <1>2. s[key] \in Peer
    BY <1>0, ElementOfSeq
  <1>3. p \in Peer /\ p.bytes = l.bytes /\ p.requests = s[key].requests
    BY <1>0, <1>1, <1>2 DEF Peer, Connection
  <1>4. r = [s EXCEPT ![key] = p]
    BY <1>0, <1>1 DEF WithSample, Sampled
  <1>5. /\ r \in Seq(Peer) /\ Len(r) = Len(s)
        /\ \A k \in 1..Len(s) : r[k] = IF k = key THEN p ELSE s[k]
    <2>1. PutsAt(Peer, s, key, p, r)
      BY <1>0, <1>3, <1>4 DEF PutsAt
    <2> QED BY <2>1, PutsAtOne
  <1> QED BY <1>3, <1>5

LEMMA SnapshotOf ==
  ASSUME Types, Snapshot, NEW t, t = TableOf(peers, active), NEW e \in up
  PROVE  LET x == TableOf(peers', active') IN
         /\ connections'[e] \in Seq(Connection) /\ peers'[e] \in Seq(Peer)
         /\ active'[e] \in 1..Len(peers'[e])
         /\ Taken(connections, connections', t, x, e)
  <1>1. PICK f, key, size : /\ f = ensure_peer_for_endpoint(t, e)
                            /\ key = KeyOf(t, e) /\ size = SizeOf(t, e)
    OBVIOUS
  <1>2. /\ t \in Tables /\ e \in Endpoints /\ connections \in Attempts
        /\ 1 <= Len(connections[e])
    BY DEF Types
  <1>0. PICK s : Finds(t, e, f, s)
    BY <1>1, <1>2, EnsureFinds
  <1>3. /\ Instead(t, f, e, s, key) /\ s \in Seq(Peer) /\ Len(s) = size
        /\ key \in 1..size /\ size \in Nat
        /\ \A k \in 1..size :
              s[k].bytes = BytesIn(t, e, k) /\ s[k].requests = RequestsIn(t, e, k)
    BY <1>0, <1>1 DEF Finds
  <1>4. PICK c, n, l, x : /\ c = connections[e] /\ n = Len(c) /\ l = c[n]
                          /\ x = TableOf(peers', active')
    OBVIOUS
  <1>5. c \in Seq(Connection) /\ n \in Nat /\ 1 <= n /\ n \in 1..n /\ l \in Connection
    <2>1. c \in Seq(Connection) /\ n \in Nat /\ \A k \in 1..n : c[k] \in Connection
      BY <1>2, <1>4, AttemptsAre
    <2>2. 1 <= n /\ n \in 1..n
      BY <1>2, <1>4, <2>1
    <2> QED BY <1>4, <2>1, <2>2
  <1>6. f.peers[e] = s /\ f.active[e] = key
    BY <1>3 DEF Instead
  <1>7. PICK r, d : r = WithSample(s, key, l) /\ d = WithSeen(c, n)
    OBVIOUS
  <1>8. peers'[e] = r /\ active'[e] = key /\ connections'[e] = d
    <2>1. t = [peers |-> peers, active |-> active]
      BY DEF TableOf
    <2>2. /\ peers'[e] = [f.peers[e] EXCEPT ![f.active[e]] = Sampled(@, connections[e][Current(e)])]
          /\ active'[e] = f.active[e]
          /\ connections'[e] = [connections[e] EXCEPT ![Current(e)].seen =
                                   connections[e][Current(e)].bytes]
      BY <1>1, <1>2, <2>1, Zenon DEF Snapshot
    <2>3. Current(e) = n
      BY <1>4 DEF Current
    <2> QED BY <1>4, <1>6, <1>7, <2>2, <2>3 DEF WithSample, WithSeen
  <1>9. /\ r \in Seq(Peer) /\ Len(r) = size
        /\ \A k \in 1..size : /\ r[k].bytes = IF k = key THEN l.bytes ELSE s[k].bytes
                              /\ r[k].requests = s[k].requests
    <2>1. SampledAt(s, key, l, r) /\ Len(s) = size
      BY <1>3, <1>5, <1>7 DEF SampledAt
    <2>2. /\ r \in Seq(Peer) /\ Len(r) = Len(s)
          /\ \A k \in 1..Len(s) : /\ r[k].bytes = IF k = key THEN l.bytes ELSE s[k].bytes
                                  /\ r[k].requests = s[k].requests
      BY <2>1, RecordSampled
    <2> QED BY <2>1, <2>2
  <1>10. /\ d \in Seq(Connection) /\ Len(d) = n /\ l.bytes \in Nat
         /\ \A k \in Nat : /\ SeenIn(d, k) = IF k = n THEN l.bytes ELSE SeenIn(c, k)
                           /\ AskedIn(d, k) = AskedIn(c, k)
    BY <1>4, <1>5, <1>7, ConnectionSeen
  <1>11. x.peers[e] = r /\ x.active[e] = key
    BY <1>4, <1>8 DEF TableOf
  <1>12. ASSUME NEW k \in Nat
         PROVE  /\ BytesIn(x, e, k) = IF k = key THEN l.bytes ELSE BytesIn(t, e, k)
                /\ RequestsIn(x, e, k) = RequestsIn(t, e, k)
    <2>1. CASE k \in 1..size
      <3>1. BytesIn(x, e, k) = r[k].bytes /\ RequestsIn(x, e, k) = r[k].requests
        BY <1>9, <1>11, <2>1 DEF BytesIn, RequestsIn
      <3> QED BY <1>3, <1>9, <2>1, <3>1
    <2>2. CASE k \notin 1..size
      <3>1. BytesIn(x, e, k) = 0 /\ RequestsIn(x, e, k) = 0
        BY <1>9, <1>11, <2>2 DEF BytesIn, RequestsIn
      <3>2. k \notin 1..Len(t.peers[e])
        BY <1>1, <1>2, <2>2, KeyIs
      <3>3. BytesIn(t, e, k) = 0 /\ RequestsIn(t, e, k) = 0 /\ k # key
        BY <1>3, <2>2, <3>2 DEF BytesIn, RequestsIn
      <3> QED BY <3>1, <3>3
    <2> QED BY <2>1, <2>2
  <1>13. Taken(connections, connections', t, x, e)
    <2>1. PICK v : v = connections'
      OBVIOUS
    <2>2. v[e] = d
      BY <1>8, <2>1
    <2>3. Taken(connections, v, t, x, e)
      <3>1. \A k \in Nat :
               /\ BytesIn(x, e, k) = IF k = KeyOf(t, e) THEN l.bytes ELSE BytesIn(t, e, k)
               /\ RequestsIn(x, e, k) = RequestsIn(t, e, k)
               /\ SeenIn(v[e], k) = IF k = Len(connections[e]) THEN l.bytes
                                    ELSE SeenIn(connections[e], k)
               /\ AskedIn(v[e], k) = AskedIn(connections[e], k)
        BY <1>1, <1>4, <1>10, <1>12, <2>2
      <3>2. /\ Len(v[e]) = Len(connections[e]) /\ Len(x.peers[e]) = SizeOf(t, e)
            /\ x.active[e] = KeyOf(t, e) /\ l.bytes \in Nat
        BY <1>1, <1>4, <1>9, <1>10, <1>11, <2>2
      <3> QED BY <3>1, <3>2, Zenon DEF Taken
    <2> QED BY <2>1, <2>3
  <1> QED BY <1>3, <1>4, <1>8, <1>9, <1>10, <1>13

LEMMA WithinTaken ==
  ASSUME NEW c \in Attempts, NEW d \in Attempts, NEW u, NEW e \in u, e \in Endpoints,
         NEW w \in Tables, NEW x \in Tables, 1 <= Len(c[e]),
         WithinAt(c, u, w, e), Taken(c, d, w, x, e)
  PROVE  WithinAt(d, u, x, e)
  <1>1. PICK b \in Nat : \A k \in Nat :
            /\ BytesIn(x, e, k) = IF k = KeyOf(w, e) THEN b ELSE BytesIn(w, e, k)
            /\ RequestsIn(x, e, k) = RequestsIn(w, e, k)
            /\ SeenIn(d[e], k) = IF k = Len(c[e]) THEN b ELSE SeenIn(c[e], k)
            /\ AskedIn(d[e], k) = AskedIn(c[e], k)
    BY Zenon DEF Taken
  <1>2. PICK n, key, size : n = Len(c[e]) /\ key = KeyOf(w, e) /\ size = SizeOf(w, e)
    OBVIOUS
  <1>3. /\ Len(d[e]) = n /\ Len(x.peers[e]) = size /\ x.active[e] = key
        /\ n \in Nat /\ n # 0 /\ size \in Nat /\ key \in 1..size
    <2>1. Len(d[e]) = n /\ Len(x.peers[e]) = size /\ x.active[e] = key
      BY <1>2 DEF Taken
    <2>2. n \in Nat /\ n # 0
      <3>1. n \in Nat
        BY <1>2, AttemptsAre
      <3> QED BY <1>2, <3>1
    <2>3. size \in Nat /\ key \in 1..size
      BY <1>2, KeyIs
    <2> QED BY <2>1, <2>2, <2>3
  <1>4. PICK S, T, old, new :
            /\ S = (1..size) \ {key} /\ T = 1..(n - 1)
            /\ old = BytesOf(w, e, S) /\ new = BytesOf(x, e, S)
    OBVIOUS
  <1>5. S = Keys(w, e) \ {w.active[e]} /\ Keys(x, e) = 1..size
    BY <1>2, <1>3, <1>4, OthersAre DEF Keys
  <1>6. old <= SeenOf(c[e], T)
    BY <1>2, <1>4, <1>5 DEF WithinAt
  <1>7. /\ S \in SUBSET (1..size) /\ 1..size \in SUBSET (1..size) /\ n - 1 \in Nat
    BY <1>3, <1>4
  <1>8. /\ IsFiniteSet(S) /\ old \in Int /\ new \in Int
        /\ BytesOf(x, e, 1..size) = BytesIn(x, e, key) + new
    <2>1. /\ IsFiniteSet(S) /\ old \in Int
      BY <1>3, <1>4, <1>7, BytesSum
    <2>2. /\ BytesOf(x, e, S) \in Int
      BY <1>3, <1>7, BytesSum
    <2>3. PICK U : U = 1..size
      OBVIOUS
    <2>4. BytesOf(x, e, U) = BytesIn(x, e, key) + BytesOf(x, e, U \ {key})
      <3>1. Full(x, e, size, U)
        BY <1>3, <2>3 DEF Full
      <3>2. key \in U
        BY <1>3, <2>3
      <3> QED BY <3>1, <3>2, BytesTakeOut
    <2> QED BY <1>4, <2>1, <2>2, <2>3, <2>4
  <1>9. new = old
    <2>1. PICK f, g : f = BytesAt(x, e) /\ g = BytesAt(w, e)
      OBVIOUS
    <2>2. ASSUME NEW k \in S
          PROVE  f[k] \in Int /\ f[k] = g[k]
      <3>1. k \in Nat /\ k # key
        BY <1>3, <1>4
      <3>2. f[k] = BytesIn(x, e, k) /\ g[k] = BytesIn(w, e, k)
        BY <2>1, <3>1 DEF BytesAt
      <3>3. BytesIn(x, e, k) = BytesIn(w, e, k) /\ BytesIn(w, e, k) \in Nat
        BY <1>1, <1>2, <3>1, BytesInType
      <3> QED BY <3>2, <3>3
    <2>3. S \subseteq S /\ \A k \in S \ S : g[k] = 0
      OBVIOUS
    <2>4. SumFunctionOnSet(f, S) = SumFunctionOnSet(g, S)
      BY <1>8, <2>2, <2>3, SumSame
    <2> QED BY <1>4, <2>1, <2>4, Zenon DEF BytesOf
  <1>10. SeenOf(d[e], T) = SeenOf(c[e], T)
    <2>1. PICK f, g : f = SeenAt(d[e]) /\ g = SeenAt(c[e])
      OBVIOUS
    <2>2. ASSUME NEW k \in T
          PROVE  f[k] \in Int /\ f[k] = g[k]
      <3>1. k \in Nat /\ k # n
        BY <1>3, <1>4
      <3>2. f[k] = SeenIn(d[e], k) /\ g[k] = SeenIn(c[e], k)
        BY <2>1, <3>1 DEF SeenAt
      <3>3. SeenIn(d[e], k) = SeenIn(c[e], k) /\ SeenIn(c[e], k) \in Nat
        BY <1>1, <1>2, <3>1, AttemptsAre
      <3> QED BY <3>2, <3>3
    <2>3. T \subseteq T /\ \A k \in T \ T : g[k] = 0
      OBVIOUS
    <2>4. IsFiniteSet(T)
      BY <1>4, <1>7, FS_Interval
    <2>5. SumFunctionOnSet(f, T) = SumFunctionOnSet(g, T)
      BY <2>2, <2>3, <2>4, SumSame
    <2> QED BY <2>1, <2>5, Zenon DEF SeenOf
  <1>11. /\ SeenOf(d[e], 1..n) = SeenIn(d[e], n) + SeenOf(d[e], T)
         /\ SeenOf(c[e], T) \in Int
    BY <1>3, <1>4, <1>7, SeenSum
  <1>12. BytesIn(x, e, key) = b /\ SeenIn(d[e], n) = b
    <2>1. key \in Nat
      BY <1>3
    <2> QED BY <1>1, <1>2, <1>3, <2>1
  <1>13. BytesOf(x, e, 1..size) <= SeenOf(d[e], 1..n)
    BY <1>6, <1>8, <1>9, <1>10, <1>11, <1>12
  <1>14. BytesOf(x, e, Keys(x, e) \ {x.active[e]}) <= SeenOf(d[e], 1..(Len(d[e]) - 1))
    <2>1. Keys(x, e) \ {x.active[e]} = S
      BY <1>3, <1>4, <1>5
    <2>2. new <= SeenOf(d[e], T)
      BY <1>6, <1>9, <1>10
    <2> QED BY <1>3, <1>4, <2>1, <2>2
  <1> QED BY <1>3, <1>5, <1>13, <1>14 DEF WithinAt

LEMMA FewerTaken ==
  ASSUME NEW c \in Attempts, NEW d \in Attempts, NEW u, NEW e \in u, e \in Endpoints,
         NEW w \in Tables, NEW x \in Tables, FewerAt(c, u, w, e), Taken(c, d, w, x, e)
  PROVE  FewerAt(d, u, x, e)
  <1>1. PICK key, size : key = KeyOf(w, e) /\ size = SizeOf(w, e)
    OBVIOUS
  <1>2. key \in 1..size /\ size \in Nat
    BY <1>1, KeyIs
  <1>3. Len(d[e]) = Len(c[e]) /\ Len(x.peers[e]) = size /\ x.active[e] = key
    BY <1>1 DEF Taken
  <1>4. SizeOf(x, e) = size
    BY <1>2, <1>3 DEF SizeOf
  <1> QED BY <1>1, <1>3, <1>4 DEF FewerAt

LEMMA MatchesTaken ==
  ASSUME NEW c \in Attempts, NEW d \in Attempts, NEW u, NEW e \in u, e \in Endpoints,
         NEW w \in Tables, NEW x \in Tables, 1 <= Len(c[e]),
         MatchesAt(c, u, w, e), Taken(c, d, w, x, e)
  PROVE  MatchesAt(d, u, x, e)
  <1>1. PICK n : n = Len(c[e])
    OBVIOUS
  <1>2. n \in Nat /\ n # 0 /\ w.active[e] = n /\ Len(w.peers[e]) = n
    BY <1>1, AttemptsAre DEF MatchesAt
  <1>3. KeyOf(w, e) = n /\ SizeOf(w, e) = n
    BY <1>2 DEF KeyOf, SizeOf
  <1>4. Len(d[e]) = n /\ Len(x.peers[e]) = n /\ x.active[e] = n
    BY <1>1, <1>3 DEF Taken
  <1>5. ASSUME NEW k \in Nat
        PROVE  BytesIn(x, e, k) = SeenIn(d[e], k) /\ RequestsIn(x, e, k) = AskedIn(d[e], k)
    BY <1>1, <1>3 DEF Taken, MatchesAt
  <1> QED BY <1>4, <1>5 DEF MatchesAt

-----------------------------------------------------------------------------
(* The invariant: what the table will say once the alerts that wait are      *)
(* handled, unless a snapshot has overtaken some of them.                    *)

Inv ==
    /\ Types
    /\ ~overtaken => Within(connections, up, Later(peers, active, queue))
    /\ AllTold => Matches(connections, up, Later(peers, active, queue))

LEMMA InitInv == Init => Inv
  <1> SUFFICES ASSUME Init
               PROVE  Inv
    OBVIOUS
  <1>1. PICK t : t = TableOf(peers, active)
    OBVIOUS
  <1>2. /\ t.peers = [e \in Endpoints |-> <<>>] /\ t.active = [e \in Endpoints |-> 0]
        /\ t = [peers |-> t.peers, active |-> t.active]
    BY <1>1 DEF Init, TableOf
  <1>3. \A S : <<>> \in Seq(S) /\ Len(<<>>) = 0
    BY EmptySeq
  <1>4. t \in Tables
    <2>1. /\ t.peers \in [Endpoints -> Seq(Peer)] /\ t.active \in [Endpoints -> Nat]
      BY <1>2, <1>3
    <2>2. ASSUME NEW e \in Endpoints
          PROVE  t.active[e] <= Len(t.peers[e])
      BY <1>2, <1>3
    <2> QED BY <1>2, <2>1, <2>2 DEF Tables
  <1>5. Types
    <2>1. /\ connections \in Attempts /\ queue \in Seq(Alerts) /\ Len(queue) = 0
      BY <1>3 DEF Init, Attempts
    <2>2. Len(queue) <= QueueSize
      BY <2>1, TotalsAssumption
    <2>3. TableOf(peers, active) \in Tables
      BY <1>1, <1>4
    <2>4. /\ up = {} /\ lost = FALSE /\ at = "drain" /\ overtaken = FALSE /\ blurred = FALSE
      BY DEF Init
    <2> QED BY <2>1, <2>2, <2>3, <2>4 DEF Types
  <1>6. Later(peers, active, queue) = t
    <2>1. queue = <<>>
      BY DEF Init
    <2> QED BY <1>1, <2>1, DrainsNothing, Zenon DEF Later
  <1>9. \A e \in Endpoints : connections[e] = <<>> /\ Len(connections[e]) = 0 /\ e \notin up
    BY <1>3 DEF Init
  <1>7. ASSUME NEW e \in Endpoints
        PROVE  /\ WithinAt(connections, up, t, e) /\ FewerAt(connections, up, t, e)
               /\ MatchesAt(connections, up, t, e)
    <2>1. /\ t.peers[e] = <<>> /\ Len(t.peers[e]) = 0 /\ t.active[e] = 0 /\ e \notin up
          /\ connections[e] = <<>> /\ Len(connections[e]) = 0
      BY <1>2, <1>3, <1>9
    <2>2. \A k \in Nat : /\ BytesIn(t, e, k) = SeenIn(connections[e], k)
                        /\ RequestsIn(t, e, k) = AskedIn(connections[e], k)
      BY <2>1 DEF BytesIn, SeenIn, RequestsIn, AskedIn
    <2>3. MatchesAt(connections, up, t, e)
      BY <2>1, <2>2 DEF MatchesAt
    <2>4. BytesAt(t, e) = SeenAt(connections[e])
      BY <2>2, Zenon DEF BytesAt, SeenAt
    <2>5. BytesOf(t, e, 1..0) = SeenOf(connections[e], 1..0)
      BY <2>4, Zenon DEF BytesOf, SeenOf
    <2>6. SeenOf(connections[e], 1..0) \in Int
      BY <1>5, SeenSum DEF Types
    <2>7. WithinAt(connections, up, t, e)
      BY <2>1, <2>5, <2>6 DEF WithinAt, Keys
    <2>8. FewerAt(connections, up, t, e)
      BY <2>1 DEF FewerAt
    <2> QED BY <2>3, <2>7, <2>8
  <1> QED BY <1>5, <1>6, <1>7, Zenon DEF Inv, Within, Matches

\* An alert is posted, and nothing but the attempts and the link of e change: in the
\* way the alert reports, or so that the records are blurred.
Reported(type, e) ==
    /\ type \in {"connect", "disconnect", "error", "request"} /\ e \in Endpoints
    /\ Post(type, e) /\ UNCHANGED <<stats, at, overtaken>>
    /\ connections' \in Attempts /\ up' \in SUBSET Endpoints
    /\ \A o \in up' : 1 <= Len(connections'[o])
    /\ blurred' \in BOOLEAN /\ (blurred => blurred')
    /\ Befalls(connections, connections', up, up', e, type)
    /\ ~blurred' => Orderly(connections, connections', up, up', e, type)

LEMMA AlertKeeps ==
  ASSUME Inv, NEW type, NEW e, Reported(type, e)
  PROVE  Inv'
  <1>0. /\ type \in {"connect", "disconnect", "error", "request"} /\ e \in Endpoints
        /\ Post(type, e) /\ UNCHANGED <<stats, at, overtaken>>
        /\ connections' \in Attempts /\ up' \in SUBSET Endpoints
        /\ \A o \in up' : 1 <= Len(connections'[o])
        /\ blurred' \in BOOLEAN /\ (blurred => blurred')
        /\ Befalls(connections, connections', up, up', e, type)
        /\ ~blurred' => Orderly(connections, connections', up, up', e, type)
    BY Zenon DEF Reported
  <1>1. PICK c, d, u, v, w, x :
            /\ c = connections /\ d = connections' /\ u = up /\ v = up'
            /\ w = Later(peers, active, queue) /\ x = Later(peers', active', queue')
    OBVIOUS
  <1>2. /\ Types /\ (~overtaken => Within(c, u, w)) /\ (AllTold => Matches(c, u, w))
    BY <1>1 DEF Inv
  <1>3. /\ queue' \in Seq(Alerts) /\ Len(queue') <= QueueSize /\ lost' \in BOOLEAN
        /\ lost => lost'
        /\ Told(w, x, type, e) /\ (~lost' => HandledIn(w, x, type, e))
    <2>1. Types /\ Post(type, e) /\ UNCHANGED stats
      BY <1>0, <1>2
    <2>2. type \in {"connect", "disconnect", "error", "request"} /\ e \in Endpoints
      BY <1>0
    <2>3. /\ queue' \in Seq(Alerts) /\ Len(queue') <= QueueSize /\ lost' \in BOOLEAN
          /\ lost => lost'
          /\ Told(Later(peers, active, queue), Later(peers', active', queue'), type, e)
          /\ ~lost' => HandledIn(Later(peers, active, queue),
                                 Later(peers', active', queue'), type, e)
      BY <2>1, <2>2, PostTells
    <2> QED BY <1>1, <2>3
  <1>4. peers' = peers /\ active' = active /\ at' = at /\ overtaken' = overtaken
    BY <1>0 DEF stats
  <1>5. Types'
    BY <1>0, <1>2, <1>3, <1>4 DEF Types, TableOf
  <1>6. w \in Tables /\ x \in Tables
    <2>1. TableOf(peers, active) \in Tables /\ queue \in Seq(Alerts)
      BY <1>2 DEF Types
    <2>2. TableOf(peers', active') \in Tables
      BY <1>4, <2>1
    <2> QED BY <1>1, <1>3, <2>1, <2>2, LaterKeeps
  <1>7. ASSUME ~overtaken'
        PROVE  Within(d, v, x)
    BY <1>0, <1>1, <1>2, <1>3, <1>4, <1>6, <1>7, WithinTold
  <1>8. ASSUME AllTold'
        PROVE  Matches(d, v, x)
    <2>1. ~lost' /\ ~blurred' /\ ~overtaken'
      BY <1>8 DEF AllTold
    <2>2. AllTold
      <3>1. lost => lost'
        BY <1>3
      <3>2. blurred => blurred'
        BY <1>0
      <3> QED BY <1>4, <2>1, <3>1, <3>2, Zenon DEF AllTold
    <2>3. /\ Matches(c, u, w) /\ Orderly(c, d, u, v, e, type) /\ HandledIn(w, x, type, e)
          /\ u \in SUBSET Endpoints
      BY <1>0, <1>1, <1>2, <1>3, <2>1, <2>2 DEF Types
    <2> QED BY <1>0, <1>1, <1>2, <1>6, <2>3, MatchesTold
  <1> QED BY <1>1, <1>5, <1>7, <1>8 DEF Inv

\* What happens to the attempts of e changes nothing else of them, so they stay typed.
LEMMA MovedFrom ==
  ASSUME Types, NEW e \in Endpoints, NEW d, NEW more \in Nat, NEW asked, NEW v,
         Moved(connections, d, e, more, asked), v \subseteq up \cup {e},
         e \in v => 1 <= Len(connections[e]) + more
  PROVE  /\ d \in Attempts /\ v \in SUBSET Endpoints /\ \A o \in v : 1 <= Len(d[o])
  <1>1. /\ connections \in Attempts /\ up \in SUBSET Endpoints
        /\ \A o \in up : 1 <= Len(connections[o])
    BY DEF Types
  <1>2. ASSUME NEW o \in v
        PROVE  1 <= Len(d[o])
    <2>1. CASE o = e
      BY <2>1 DEF Moved
    <2>2. CASE o # e
      <3>1. o \in up /\ d[o] = connections[o]
        BY <1>1, <2>2 DEF Moved
      <3> QED BY <1>1, <3>1
    <2> QED BY <2>1, <2>2
  <1> QED BY <1>1, <1>2 DEF Moved

LEMMA AlertActionKeeps ==
  ASSUME Inv, NEW e \in Endpoints,
         Open(e) \/ Close(e) \/ OpenFails(e) \/ Request(e)
  PROVE  Inv'
  <1>1. PICK c, d, u, v, n : /\ c = connections /\ d = connections' /\ u = up /\ v = up'
                             /\ n = Len(c[e])
    OBVIOUS
  <1>2. /\ Types /\ c \in Attempts /\ u \in SUBSET Endpoints /\ n \in Nat
        /\ (e \in u => 1 <= n) /\ blurred \in BOOLEAN
    <2>1. Types /\ c \in Attempts /\ u \in SUBSET Endpoints /\ (e \in u => 1 <= n)
          /\ blurred \in BOOLEAN
      BY <1>1 DEF Inv, Types
    <2> QED BY <1>1, <2>1, AttemptsAre
  <1>3. CASE Open(e)
    <2>1. /\ Post("connect", e) /\ UNCHANGED <<stats, at, overtaken>> /\ blurred' = blurred
          /\ v = u \cup {e} /\ e \notin u
          /\ d = [c EXCEPT ![e] = Append(@, NewConnection)]
      BY <1>1, <1>3, Zenon DEF Open, stats
    <2>2. Moved(c, d, e, 1, 0)
      BY <1>2, <2>1, AttemptMoves
    <2>3. Orderly(c, d, u, v, e, "connect")
      BY <1>2, <2>1, <2>2 DEF Orderly
    <2>4. d \in Attempts /\ v \in SUBSET Endpoints /\ \A o \in v : 1 <= Len(d[o])
      <3>1. v \subseteq up \cup {e} /\ 1 <= Len(connections[e]) + 1
        BY <1>1, <1>2, <2>1
      <3> QED BY <1>1, <1>2, <2>2, <3>1, MovedFrom
    <2>5. Befalls(c, d, u, v, e, "connect")
      BY <2>3, OrderlyBefalls
    <2>6. Reported("connect", e)
      BY <1>1, <1>2, <2>1, <2>3, <2>4, <2>5 DEF Reported
    <2> QED BY <2>6, AlertKeeps
  <1>4. CASE Close(e)
    <2>1. /\ UNCHANGED <<stats, at, overtaken>> /\ v = u \ {e} /\ e \in u /\ d = c
      BY <1>1, <1>4, Zenon DEF Close, stats
    <2>2. Moved(c, d, e, 0, 0)
      <3>1. \A k : AskedIn(c[e], k) \in Nat
        BY <1>2, AttemptsAre
      <3> QED BY <1>1, <1>2, <2>1, <3>1 DEF Moved
    <2>3. d \in Attempts /\ v \in SUBSET Endpoints /\ \A o \in v : 1 <= Len(d[o])
      <3>1. v \subseteq up \cup {e} /\ e \notin v
        BY <1>1, <2>1
      <3> QED BY <1>1, <1>2, <2>2, <3>1, MovedFrom
    <2>4. CASE Post("disconnect", e) /\ blurred' = blurred
      <3>1. Orderly(c, d, u, v, e, "disconnect")
        BY <1>1, <1>2, <2>1, <2>2 DEF Orderly
      <3>2. Befalls(c, d, u, v, e, "disconnect")
        BY <3>1, OrderlyBefalls
      <3>3. Reported("disconnect", e)
        BY <1>1, <1>2, <2>1, <2>3, <2>4, <3>1, <3>2 DEF Reported
      <3> QED BY <3>3, AlertKeeps
    <2>5. CASE Post("error", e) /\ blurred' = TRUE
      <3>1. Befalls(c, d, u, v, e, "error")
        BY <1>2, <2>1, <2>2 DEF Befalls
      <3>2. Reported("error", e)
        BY <1>1, <1>2, <2>1, <2>3, <2>5, <3>1 DEF Reported
      <3> QED BY <3>2, AlertKeeps
    <2> QED BY <1>4, <2>4, <2>5 DEF Close
  <1>5. CASE OpenFails(e)
    <2>1. /\ UNCHANGED <<stats, at, overtaken>> /\ v = u /\ e \notin u
          /\ d = [c EXCEPT ![e] = Append(@, NewConnection)]
      BY <1>1, <1>5, Zenon DEF OpenFails, stats
    <2>2. Moved(c, d, e, 1, 0)
      BY <1>2, <2>1, AttemptMoves
    <2>3. d \in Attempts /\ v \in SUBSET Endpoints /\ \A o \in v : 1 <= Len(d[o])
      <3>1. v \subseteq up \cup {e} /\ 1 <= Len(connections[e]) + 1
        BY <1>1, <1>2, <2>1
      <3> QED BY <1>1, <1>2, <2>2, <3>1, MovedFrom
    <2>4. CASE Post("disconnect", e) /\ blurred' = blurred
      <3>1. Orderly(c, d, u, v, e, "disconnect")
        BY <1>2, <2>1, <2>2 DEF Orderly
      <3>2. Befalls(c, d, u, v, e, "disconnect")
        BY <3>1, OrderlyBefalls
      <3>3. Reported("disconnect", e)
        BY <1>1, <1>2, <2>1, <2>3, <2>4, <3>1, <3>2 DEF Reported
      <3> QED BY <3>3, AlertKeeps
    <2>5. CASE Post("error", e) /\ blurred' = TRUE
      <3>1. Befalls(c, d, u, v, e, "error")
        BY <1>2, <2>1, <2>2 DEF Befalls
      <3>2. Reported("error", e)
        BY <1>1, <1>2, <2>1, <2>3, <2>5, <3>1 DEF Reported
      <3> QED BY <3>2, AlertKeeps
    <2> QED BY <1>5, <2>4, <2>5 DEF OpenFails
  <1>6. CASE Request(e)
    <2>1. /\ Post("request", e) /\ UNCHANGED <<stats, at, overtaken>> /\ blurred' = blurred
          /\ v = u /\ e \in u
          /\ d = [c EXCEPT ![e][Len(c[e])].requests = @ + 1]
      BY <1>1, <1>6, Zenon DEF Request, Current, stats
    <2>2. Moved(c, d, e, 0, 1)
      BY <1>1, <1>2, <2>1, RequestMoves
    <2>3. Orderly(c, d, u, v, e, "request")
      BY <1>1, <1>2, <2>1, <2>2 DEF Orderly
    <2>4. d \in Attempts /\ v \in SUBSET Endpoints /\ \A o \in v : 1 <= Len(d[o])
      <3>1. PICK more, asked : more = 0 /\ asked = 1
        OBVIOUS
      <3>2. v \subseteq up \cup {e} /\ 1 <= Len(connections[e]) + more /\ more \in Nat
        BY <1>1, <1>2, <2>1, <3>1
      <3>3. Types /\ Moved(connections, d, e, more, asked)
        BY <1>1, <1>2, <2>2, <3>1
      <3> QED BY <3>2, <3>3, MovedFrom
    <2>5. Befalls(c, d, u, v, e, "request")
      BY <2>3, OrderlyBefalls
    <2>6. Reported("request", e)
      BY <1>1, <1>2, <2>1, <2>3, <2>4, <2>5 DEF Reported
    <2> QED BY <2>6, AlertKeeps
  <1> QED BY <1>3, <1>4, <1>5, <1>6

LEMMA TransferKeeps ==
  ASSUME Inv, NEW e \in Endpoints, Transfer(e)
  PROVE  Inv'
  <1>1. PICK c, d, w : /\ c = connections /\ d = connections'
                       /\ w = Later(peers, active, queue)
    OBVIOUS
  <1>2. /\ Types /\ c \in Attempts /\ e \in up /\ 1 <= Len(c[e]) /\ w \in Tables
        /\ (~overtaken => Within(c, up, w)) /\ (AllTold => Matches(c, up, w))
    <2>1. Types /\ e \in up
      BY DEF Inv, Transfer
    <2>2. w \in Tables
      BY <1>1, <2>1, LaterKeeps DEF Types
    <2> QED BY <1>1, <2>1, <2>2 DEF Inv, Types
  <1>3. /\ d = [c EXCEPT ![e][Len(c[e])].bytes = @ + 1]
        /\ UNCHANGED <<up, queue, lost, peers, active, at, overtaken, blurred>>
    BY <1>1, Zenon DEF Transfer, Current, alerts, stats
  <1>4. Moved(c, d, e, 0, 0)
    BY <1>2, <1>3, TransferMoves
  <1>5. d \in Attempts /\ \A o \in up : 1 <= Len(d[o])
    <2>1. up \subseteq up \cup {e} /\ 1 <= Len(connections[e]) + 0
      <3>1. Len(c[e]) \in Nat
        BY <1>2, AttemptsAre
      <3> QED BY <1>1, <1>2, <3>1
    <2> QED BY <1>1, <1>2, <1>4, <2>1, MovedFrom
  <1>6. Types'
    BY <1>1, <1>2, <1>3, <1>5 DEF Types, TableOf
  <1>7. w = Later(peers', active', queue')
    BY <1>1, <1>3
  <1>8. Befalls(c, d, up, up, e, "connect") /\ Told(w, w, "connect", e)
    BY <1>2, <1>4 DEF Befalls, Told
  <1>9. /\ ~overtaken => Within(d, up, w)
        /\ AllTold => Matches(d, up, w)
    BY <1>2, <1>4, <1>8, WithinTold, MatchesMoved
  <1>10. up' = up /\ overtaken' = overtaken /\ AllTold' = AllTold
    BY <1>3 DEF AllTold
  <1> QED BY <1>1, <1>6, <1>7, <1>9, <1>10, Zenon DEF Inv

LEMMA DrainKeeps ==
  ASSUME Inv, Drain
  PROVE  Inv'
  <1>1. PICK t, w, r : /\ t = TableOf(peers, active) /\ w = Later(peers, active, queue)
                       /\ r = Later(peers', active', queue')
    OBVIOUS
  <1>2. Types /\ t \in Tables /\ queue \in Seq(Alerts)
    BY <1>1 DEF Inv, Types
  <1>3. w \in Tables /\ w = AfterAlerts(t, queue)
    BY <1>1, <1>2, LaterKeeps DEF Later
  <1>4. /\ peers' = w.peers /\ active' = w.active
        /\ queue' = <<>> /\ lost' = FALSE /\ blurred' = (blurred \/ lost)
        /\ at' \in {"drain", "snapshot"} /\ UNCHANGED <<connections, up, overtaken>>
    <2>1. w = FoldLeft(Handled, [peers |-> peers, active |-> active], queue)
      BY <1>1, Zenon DEF Later, AfterAlerts, TableOf
    <2>2. /\ peers' = FoldLeft(Handled, [peers |-> peers, active |-> active], queue).peers
          /\ active' = FoldLeft(Handled, [peers |-> peers, active |-> active], queue).active
      BY Zenon DEF Drain
    <2>3. /\ queue' = <<>> /\ lost' = FALSE /\ blurred' = (blurred \/ lost)
          /\ at' \in {"drain", "snapshot"} /\ UNCHANGED <<connections, up, overtaken>>
      BY Zenon DEF Drain, swarm
    <2> QED BY <2>1, <2>2, <2>3, Zenon
  <1>5. TableOf(peers', active') = w
    BY <1>3, <1>4, TableParts DEF TableOf
  <1>6. r = w
    <2>1. TableOf(peers', active') \in Tables /\ <<>> \in Seq(Alerts)
      BY <1>3, <1>5, EmptySeq
    <2>2. Later(peers', active', <<>>) = TableOf(peers', active')
      BY <2>1, LaterKeeps
    <2> QED BY <1>1, <1>4, <1>5, <2>2
  <1>7. Types'
    <2>1. /\ queue' \in Seq(Alerts) /\ Len(queue') <= QueueSize
      BY <1>4, EmptySeq, TotalsAssumption
    <2>2. blurred' \in BOOLEAN /\ lost' \in BOOLEAN /\ at' \in {"drain", "snapshot", "done"}
      BY <1>2, <1>4 DEF Types
    <2>3. TableOf(peers', active') \in Tables
      BY <1>3, <1>5
    <2> QED BY <1>2, <1>4, <2>1, <2>2, <2>3 DEF Types
  <1>8. AllTold' => AllTold
    BY <1>4 DEF AllTold
  <1> QED BY <1>1, <1>4, <1>6, <1>7, <1>8, Zenon DEF Inv

LEMMA SnapshotKeeps ==
  ASSUME Inv, Snapshot
  PROVE  Inv'
  <1>1. PICK t, x, c, d, w :
            /\ t = TableOf(peers, active) /\ x = TableOf(peers', active')
            /\ c = connections /\ d = connections' /\ w = Later(peers, active, queue)
    OBVIOUS
  <1>2. /\ Types /\ t \in Tables /\ queue \in Seq(Alerts) /\ c \in Attempts
        /\ up \in SUBSET Endpoints /\ \A e \in up : 1 <= Len(c[e])
    BY <1>1 DEF Inv, Types
  <1>3. /\ peers' = [e \in Endpoints |-> peers'[e]]
        /\ active' = [e \in Endpoints |-> active'[e]]
        /\ d = [e \in Endpoints |-> d[e]]
        /\ \A e \in Endpoints : e \notin up =>
               peers'[e] = peers[e] /\ active'[e] = active[e] /\ d[e] = c[e]
    BY <1>1 DEF Snapshot
  <1>4. \A e \in up : /\ d[e] \in Seq(Connection) /\ peers'[e] \in Seq(Peer)
                      /\ active'[e] \in 1..Len(peers'[e])
                      /\ Taken(c, d, t, x, e)
    BY <1>1, <1>2, SnapshotOf
  <1>5. /\ UNCHANGED <<up, queue, lost, blurred>> /\ at' \in {"drain", "done"}
        /\ overtaken' = (overtaken \/ queue # <<>>)
    BY Zenon DEF Snapshot, alerts
  <1>6. ASSUME NEW e \in Endpoints, e \notin up
        PROVE  /\ x.peers[e] = t.peers[e] /\ x.active[e] = t.active[e] /\ d[e] = c[e]
    BY <1>1, <1>3, <1>6 DEF TableOf
  <1>7. d \in Attempts
    <2>1. ASSUME NEW e \in Endpoints
          PROVE  d[e] \in Seq(Connection)
      <3>1. CASE e \in up
        BY <1>4, <3>1
      <3>2. CASE e \notin up
        BY <1>2, <1>6, <3>2, AttemptsAre
      <3> QED BY <3>1, <3>2
    <2> QED BY <1>3, <2>1 DEF Attempts
  <1>8. x \in Tables
    <2>1. x.peers = peers' /\ x.active = active' /\ x = [peers |-> x.peers, active |-> x.active]
      BY <1>1 DEF TableOf
    <2>2. ASSUME NEW e \in Endpoints
          PROVE  /\ peers'[e] \in Seq(Peer) /\ active'[e] \in Nat
                 /\ active'[e] <= Len(peers'[e])
      <3>1. CASE e \in up
        <4>1. peers'[e] \in Seq(Peer) /\ active'[e] \in 1..Len(peers'[e])
          BY <1>4, <3>1
        <4>2. Len(peers'[e]) \in Nat
          BY <4>1, LenProperties
        <4> QED BY <4>1, <4>2
      <3>2. CASE e \notin up
        <4>1. peers'[e] = t.peers[e] /\ active'[e] = t.active[e]
          BY <1>1, <1>3, <3>2 DEF TableOf
        <4>2. t.peers[e] \in Seq(Peer) /\ Len(t.peers[e]) \in Nat /\ t.active[e] \in 0..Len(t.peers[e])
          BY <1>2, TableParts
        <4> QED BY <4>1, <4>2
      <3> QED BY <3>1, <3>2
    <2>3. x.peers \in [Endpoints -> Seq(Peer)] /\ x.active \in [Endpoints -> Nat]
      BY <1>3, <2>1, <2>2
    <2>4. \A e \in Endpoints : x.active[e] <= Len(x.peers[e])
      BY <2>1, <2>2
    <2> QED BY <2>1, <2>3, <2>4 DEF Tables
  <1>9. Types'
    <2>1. ASSUME NEW e \in up
          PROVE  1 <= Len(d[e])
      BY <1>2, <1>4 DEF Taken
    <2>2. overtaken' \in BOOLEAN /\ blurred' \in BOOLEAN /\ lost' \in BOOLEAN
          /\ at' \in {"drain", "snapshot", "done"}
      BY <1>2, <1>5 DEF Types
    <2> QED BY <1>1, <1>2, <1>5, <1>7, <1>8, <2>1, <2>2 DEF Types
  <1>10. CASE queue # <<>>
    <2>1. overtaken' /\ ~AllTold'
      BY <1>5, <1>10 DEF AllTold
    <2> QED BY <1>9, <2>1, Zenon DEF Inv
  <1>11. CASE queue = <<>>
    <2>1. w = t /\ Later(peers', active', queue') = x
      <3>1. \A p, a : TableOf(p, a) \in Tables => Later(p, a, <<>>) = TableOf(p, a)
        BY <1>2, <1>11, LaterKeeps
      <3> QED BY <1>1, <1>2, <1>5, <1>8, <1>11, <3>1
    <2>2. /\ overtaken' = overtaken /\ AllTold' = AllTold
      BY <1>2, <1>5, <1>11 DEF AllTold, Types
    <2>3. ASSUME Within(c, up, t)
          PROVE  Within(d, up, x)
      <3>1. ASSUME NEW e \in Endpoints
            PROVE  WithinAt(d, up, x, e) /\ FewerAt(d, up, x, e)
        <4>1. WithinAt(c, up, t, e) /\ FewerAt(c, up, t, e)
          BY <2>3 DEF Within
        <4>2. CASE e \in up
          BY <1>2, <1>4, <1>7, <1>8, <4>1, <4>2, WithinTaken, FewerTaken
        <4>3. CASE e \notin up
          <5>1. x.peers[e] = t.peers[e] /\ x.active[e] = t.active[e] /\ d[e] = c[e]
            BY <1>6, <4>3
          <5>2. BytesAt(x, e) = BytesAt(t, e) /\ Keys(x, e) = Keys(t, e)
            BY <5>1, Zenon DEF BytesAt, BytesIn, Keys
          <5>3. WithinAt(d, up, x, e)
            BY <4>1, <5>1, <5>2 DEF WithinAt, BytesOf
          <5>4. FewerAt(d, up, x, e)
            BY <4>1, <5>1 DEF FewerAt, SizeOf
          <5> QED BY <5>3, <5>4
        <4> QED BY <4>2, <4>3
      <3> QED BY <3>1 DEF Within
    <2>4. ASSUME Matches(c, up, t)
          PROVE  Matches(d, up, x)
      <3>1. ASSUME NEW e \in Endpoints
            PROVE  MatchesAt(d, up, x, e)
        <4>1. MatchesAt(c, up, t, e)
          BY <2>4 DEF Matches
        <4>2. CASE e \in up
          BY <1>2, <1>4, <1>7, <1>8, <4>1, <4>2, MatchesTaken
        <4>3. CASE e \notin up
          <5>1. x.peers[e] = t.peers[e] /\ x.active[e] = t.active[e] /\ d[e] = c[e]
            BY <1>6, <4>3
          <5> QED BY <4>1, <5>1 DEF MatchesAt, BytesIn, RequestsIn
        <4> QED BY <4>2, <4>3
      <3> QED BY <3>1 DEF Matches
    <2>5. /\ ~overtaken => Within(c, up, t)
          /\ AllTold => Matches(c, up, t)
      BY <1>1, <2>1, Zenon DEF Inv
    <2> QED BY <1>1, <1>5, <1>9, <2>1, <2>2, <2>3, <2>4, <2>5, Zenon DEF Inv
  <1> QED BY <1>10, <1>11

LEMMA NextKeepsInv == Inv /\ [Next]_vars => Inv'
  <1> SUFFICES ASSUME Inv, [Next]_vars
               PROVE  Inv'
    OBVIOUS
  <1>1. ASSUME NEW e \in Endpoints,
               Open(e) \/ Close(e) \/ OpenFails(e) \/ Transfer(e) \/ Request(e)
        PROVE  Inv'
    BY <1>1, AlertActionKeeps, TransferKeeps
  <1>2. CASE Drain
    BY <1>2, DrainKeeps
  <1>3. CASE Snapshot
    BY <1>3, SnapshotKeeps
  <1>4. CASE UNCHANGED vars
    <2>1. UNCHANGED <<connections, up, queue, lost, peers, active, at, overtaken, blurred>>
      BY <1>4 DEF vars, swarm, alerts, stats
    <2>2. Types' = Types /\ AllTold' = AllTold
      BY <2>1 DEF Types, AllTold
    <2> QED BY <2>1, <2>2, Zenon DEF Inv
  <1> QED BY <1>1, <1>2, <1>3, <1>4 DEF Next

LEMMA InvHolds == Spec => []Inv
  BY InitInv, NextKeepsInv, PTL DEF Spec

-----------------------------------------------------------------------------
(* What the summary says.                                                   *)

BytesByEndpoint(w) == [e \in Endpoints |-> BytesOf(w, e, Keys(w, e))]
SeenByEndpoint(c) == [e \in Endpoints |-> SeenOf(c[e], 1..Len(c[e]))]

\* The bytes of a network are those there will be once the alerts that wait are handled.
LEMMA NetworkBytesAre ==
  ASSUME Types
  PROVE  NetworkBytes =
            SumFunctionOnSet(BytesByEndpoint(Later(peers, active, queue)), Endpoints)
  <1>1. PICK t, w : t = TableOf(peers, active) /\ w = Later(peers, active, queue)
    OBVIOUS
  <1>2. t \in Tables /\ w \in Tables /\ Keeps(t, w) /\ t.peers = peers
    BY <1>1, LaterKeeps DEF Types, TableOf
  <1>3. ASSUME NEW e \in Endpoints
        PROVE  SumFunction([k \in DOMAIN peers[e] |-> peers[e][k].bytes])
                   = BytesOf(w, e, Keys(w, e))
    <2>1. PICK f, g, n, S : /\ f = [k \in DOMAIN peers[e] |-> peers[e][k].bytes]
                            /\ g = BytesAt(t, e) /\ n = Len(peers[e]) /\ S = 1..n
      OBVIOUS
    <2>2. n \in Nat /\ DOMAIN peers[e] = S
      BY <1>2, <2>1, TableParts, LenProperties
    <2>3. SumFunction(f) = SumFunctionOnSet(f, S)
      <3>1. DOMAIN f = S
        BY <2>1, <2>2
      <3> QED BY <3>1, Zenon DEF SumFunction
    <2>4. ASSUME NEW k \in S
          PROVE  f[k] \in Int /\ f[k] = g[k]
      <3>1. k \in Nat /\ f[k] = peers[e][k].bytes
        BY <2>1, <2>2
      <3>2. g[k] = BytesIn(t, e, k) /\ BytesIn(t, e, k) \in Nat
        BY <1>2, <2>1, <3>1, BytesInType DEF BytesAt
      <3>3. BytesIn(t, e, k) = peers[e][k].bytes
        BY <1>2, <2>1, Zenon DEF BytesIn
      <3> QED BY <3>1, <3>2, <3>3
    <2>5. IsFiniteSet(S) /\ S \subseteq S /\ \A k \in S \ S : g[k] = 0
      BY <2>1, <2>2, FS_Interval
    <2>6. SumFunctionOnSet(f, S) = SumFunctionOnSet(g, S)
      BY <2>4, <2>5, SumSame
    <2>7. SumFunctionOnSet(g, S) = BytesOf(t, e, Keys(t, e))
      BY <1>2, <2>1, Zenon DEF BytesOf, Keys
    <2>8. BytesOf(w, e, Keys(w, e)) = BytesOf(t, e, Keys(t, e))
      <3>1. /\ BytesAt(w, e) = BytesAt(t, e) /\ Len(t.peers[e]) <= Len(w.peers[e])
            /\ Len(w.peers[e]) \in Nat
        BY <1>2, TableParts DEF Keeps
      <3>2. BytesOf(w, e, 1..Len(w.peers[e])) = BytesOf(t, e, Keys(t, e))
        BY <1>2, <3>1, BytesStay
      <3> QED BY <3>2, Zenon DEF Keys
    <2> QED BY <2>1, <2>3, <2>6, <2>7, <2>8
  <1>4. PICK F : F = [e \in Endpoints |-> SumFunction([k \in DOMAIN peers[e] |-> peers[e][k].bytes])]
    OBVIOUS
  <1>5. F = BytesByEndpoint(w)
    BY <1>3, <1>4, Zenon DEF BytesByEndpoint
  <1>6. DOMAIN F = Endpoints
    BY <1>4
  <1>7. NetworkBytes = SumFunctionOnSet(F, DOMAIN F)
    BY <1>4, Zenon DEF NetworkBytes, SumFunction
  <1> QED BY <1>1, <1>5, <1>6, <1>7, Zenon

LEMMA BytesSeenAre ==
  ASSUME Types
  PROVE  BytesSeen = SumFunctionOnSet(SeenByEndpoint(connections), Endpoints)
  <1>1. ASSUME NEW e \in Endpoints
        PROVE  SumFunction([k \in DOMAIN connections[e] |-> connections[e][k].seen])
                   = SeenOf(connections[e], 1..Len(connections[e]))
    <2>1. PICK c, f, g, n, S :
              /\ c = connections[e] /\ f = [k \in DOMAIN c |-> c[k].seen]
              /\ g = SeenAt(c) /\ n = Len(c) /\ S = 1..n
      OBVIOUS
    <2>2. n \in Nat /\ DOMAIN c = S /\ \A k : SeenIn(c, k) \in Nat
      <3>1. connections \in Attempts
        BY DEF Types
      <3>2. c \in Seq(Connection) /\ n \in Nat /\ \A k : SeenIn(c, k) \in Nat
        BY <2>1, <3>1, AttemptsAre
      <3> QED BY <2>1, <3>2, LenProperties
    <2>3. SumFunction(f) = SumFunctionOnSet(f, S)
      <3>1. DOMAIN f = S
        BY <2>1, <2>2
      <3> QED BY <3>1, Zenon DEF SumFunction
    <2>4. ASSUME NEW k \in S
          PROVE  f[k] \in Int /\ f[k] = g[k]
      <3>1. k \in Nat /\ f[k] = c[k].seen
        BY <2>1, <2>2
      <3>2. g[k] = SeenIn(c, k) /\ SeenIn(c, k) \in Nat
        BY <2>1, <2>2, <3>1 DEF SeenAt
      <3>3. SeenIn(c, k) = c[k].seen
        BY <2>1, Zenon DEF SeenIn
      <3> QED BY <3>1, <3>2, <3>3
    <2>5. IsFiniteSet(S) /\ S \subseteq S /\ \A k \in S \ S : g[k] = 0
      BY <2>1, <2>2, FS_Interval
    <2>6. SumFunctionOnSet(f, S) = SumFunctionOnSet(g, S)
      BY <2>4, <2>5, SumSame
    <2> QED BY <2>1, <2>3, <2>6, Zenon DEF SeenOf
  <1>2. PICK F : F = [e \in Endpoints |->
                        SumFunction([k \in DOMAIN connections[e] |-> connections[e][k].seen])]
    OBVIOUS
  <1>3. F = SeenByEndpoint(connections)
    BY <1>1, <1>2, Zenon DEF SeenByEndpoint
  <1>4. DOMAIN F = Endpoints
    BY <1>2
  <1>5. BytesSeen = SumFunctionOnSet(F, DOMAIN F)
    BY <1>2, Zenon DEF BytesSeen, SumFunction
  <1> QED BY <1>3, <1>4, <1>5, Zenon

\* Both are integers, endpoint by endpoint.
LEMMA EndpointsSum ==
  ASSUME Types, NEW e \in Endpoints, NEW w, w = Later(peers, active, queue)
  PROVE  /\ BytesByEndpoint(w)[e] = BytesOf(w, e, Keys(w, e))
         /\ SeenByEndpoint(connections)[e] = SeenOf(connections[e], 1..Len(connections[e]))
         /\ BytesByEndpoint(w)[e] \in Int /\ SeenByEndpoint(connections)[e] \in Int
  <1>1. w \in Tables /\ connections \in Attempts
    BY LaterKeeps DEF Types
  <1>2. BytesOf(w, e, Keys(w, e)) \in Int
    <2>1. Len(w.peers[e]) \in Nat /\ Keys(w, e) \in SUBSET (1..Len(w.peers[e]))
      BY <1>1, TableParts DEF Keys
    <2> QED BY <1>1, <2>1, BytesSum
  <1>3. SeenOf(connections[e], 1..Len(connections[e])) \in Int
    <2>1. Len(connections[e]) \in Nat
      BY <1>1, AttemptsAre
    <2> QED BY <1>1, <2>1, SeenSum
  <1> QED BY <1>2, <1>3 DEF BytesByEndpoint, SeenByEndpoint

LEMMA InvImpliesNeverOvercounted == Inv => NeverOvercounted
  <1> SUFFICES ASSUME Inv, ~overtaken
               PROVE  NetworkBytes <= BytesSeen
    BY DEF NeverOvercounted
  <1>1. PICK w, f, g : /\ w = Later(peers, active, queue)
                       /\ f = BytesByEndpoint(w) /\ g = SeenByEndpoint(connections)
    OBVIOUS
  <1>2. Types /\ Within(connections, up, w)
    BY <1>1 DEF Inv
  <1>3. ASSUME NEW e \in Endpoints
        PROVE  f[e] \in Int /\ g[e] \in Int /\ f[e] <= g[e]
    BY <1>1, <1>2, EndpointsSum DEF Within, WithinAt
  <1>4. IsFiniteSet(Endpoints)
    BY TotalsAssumption
  <1>5. SumFunctionOnSet(f, Endpoints) <= SumFunctionOnSet(g, Endpoints)
    <2>1. Endpoints \subseteq Endpoints /\ \A e \in Endpoints \ Endpoints : 0 <= g[e]
      OBVIOUS
    <2> QED BY <1>3, <1>4, <2>1, SumAtMost
  <1> QED BY <1>1, <1>2, <1>5, NetworkBytesAre, BytesSeenAre

\* Endpoint by endpoint, the records that will be are the attempts.
LEMMA MatchingSums ==
  ASSUME NEW c \in Attempts, NEW w \in Tables, NEW e \in Endpoints, NEW u,
         MatchesAt(c, u, w, e)
  PROVE  BytesOf(w, e, Keys(w, e)) = SeenOf(c[e], 1..Len(c[e]))
  <1>1. BytesAt(w, e) = SeenAt(c[e])
    BY Zenon DEF MatchesAt, BytesAt, SeenAt
  <1>2. Keys(w, e) = 1..Len(c[e])
    BY DEF MatchesAt, Keys
  <1> QED BY <1>1, <1>2, Zenon DEF BytesOf, SeenOf

LEMMA InvImpliesTotalsAddUp == Inv => TotalsAddUp
  <1> SUFFICES ASSUME Inv, AllTold
               PROVE  NetworkBytes = BytesSeen
    BY DEF TotalsAddUp
  <1>1. PICK w : w = Later(peers, active, queue)
    OBVIOUS
  <1>2. Types /\ Matches(connections, up, w)
    BY <1>1 DEF Inv
  <1>3. w \in Tables /\ connections \in Attempts
    BY <1>1, <1>2, LaterKeeps DEF Types
  <1>4. \A e \in Endpoints :
           BytesOf(w, e, Keys(w, e)) = SeenOf(connections[e], 1..Len(connections[e]))
    BY <1>2, <1>3, MatchingSums DEF Matches
  <1>5. BytesByEndpoint(w) = SeenByEndpoint(connections)
    BY <1>4, Zenon DEF BytesByEndpoint, SeenByEndpoint
  <1> QED BY <1>1, <1>2, <1>5, NetworkBytesAre, BytesSeenAre

\* The records there are stay in the table there will be.
LEMMA FewerRecords ==
  ASSUME Inv, ~overtaken
  PROVE  peer_observation_counts.observed <= ConnectionCounts.observed
  <1>1. PICK t, w : t = TableOf(peers, active) /\ w = Later(peers, active, queue)
    OBVIOUS
  <1>2. /\ Types /\ t \in Tables /\ connections \in Attempts /\ t.peers = peers
        /\ Within(connections, up, w)
    BY <1>1 DEF Inv, Types, TableOf
  <1>3. Keeps(t, w)
    BY <1>1, <1>2, LaterKeeps DEF Types
  <1>4. w \in Tables
    BY <1>1, <1>2, LaterKeeps DEF Types
  <1>5. ASSUME NEW e \in Endpoints
        PROVE  /\ DOMAIN peers[e] \subseteq DOMAIN connections[e]
               /\ IsFiniteSet(DOMAIN connections[e])
    <2>1. PICK p, c, n, m, k : /\ p = peers[e] /\ c = connections[e] /\ n = Len(p)
                               /\ m = Len(c) /\ k = Len(w.peers[e])
      OBVIOUS
    <2>2. p \in Seq(Peer) /\ c \in Seq(Connection) /\ n \in Nat /\ m \in Nat /\ k \in Nat
      BY <1>2, <1>4, <2>1, TableParts, AttemptsAre
    <2>3. n <= k /\ k <= m
      BY <1>2, <1>3, <2>1 DEF Keeps, Within, FewerAt
    <2>4. DOMAIN p = 1..n /\ DOMAIN c = 1..m
      BY <2>1, <2>2, LenProperties
    <2>5. IsFiniteSet(1..m) /\ 1..n \subseteq 1..m
      BY <2>2, <2>3, FS_Interval
    <2> QED BY <2>1, <2>4, <2>5
  <1>6. All(peers) \subseteq All(connections)
    BY <1>5 DEF All
  <1>7. IsFiniteSet(All(connections))
    <2>1. PICK S : S = {{e} \X DOMAIN connections[e] : e \in Endpoints}
      OBVIOUS
    <2>2. IsFiniteSet(S)
      <3>1. PICK f : f = [e \in Endpoints |-> {e} \X DOMAIN connections[e]]
        OBVIOUS
      <3>2. f \in Surjection(Endpoints, S)
        BY <2>1, <3>1 DEF Surjection
      <3> QED BY <3>2, TotalsAssumption, FS_Surjection
    <2>3. ASSUME NEW A \in S
          PROVE  IsFiniteSet(A)
      <3>1. PICK e \in Endpoints : A = {e} \X DOMAIN connections[e]
        BY <2>1
      <3>2. IsFiniteSet({e}) /\ IsFiniteSet(DOMAIN connections[e])
        BY <1>5, FS_Singleton
      <3> QED BY <3>1, <3>2, FS_Product
    <2>4. IsFiniteSet(UNION S)
      BY <2>2, <2>3, FS_UNION
    <2> QED BY <2>1, <2>4 DEF All
  <1>8. Cardinality(All(peers)) <= Cardinality(All(connections))
    BY <1>6, <1>7, FS_Subset
  <1>9. /\ peer_observation_counts.observed = Cardinality(All(peers))
        /\ ConnectionCounts.observed = Cardinality(All(connections))
    BY DEF peer_observation_counts, ConnectionCounts
  <1> QED BY <1>8, <1>9

LEMMA InvImpliesCounts == Inv => CountsAreConnections
  <1> SUFFICES ASSUME Inv, AllTold, queue = <<>>
               PROVE  peer_observation_counts = ConnectionCounts
    BY FewerRecords DEF CountsAreConnections
  <1>1. PICK t : t = TableOf(peers, active)
    OBVIOUS
  <1>2. /\ Types /\ t \in Tables /\ connections \in Attempts /\ t.peers = peers
    BY <1>1 DEF Inv, Types, TableOf
  <1>3. Later(peers, active, queue) = t
    BY <1>1, <1>2, LaterKeeps DEF Types
  <1>4. Matches(connections, up, t)
    BY <1>3, Zenon DEF Inv
  <1>5. ASSUME NEW e \in Endpoints
        PROVE  /\ DOMAIN peers[e] = DOMAIN connections[e]
               /\ \A k \in DOMAIN peers[e] :
                      /\ peers[e][k].bytes = connections[e][k].seen
                      /\ peers[e][k].requests = connections[e][k].requests
                      /\ peers[e][k].requests \in Nat /\ peers[e][k].bytes \in Nat
    <2>1. PICK c, p, n : c = connections[e] /\ p = peers[e] /\ n = Len(p)
      OBVIOUS
    <2>2. p \in Seq(Peer) /\ c \in Seq(Connection) /\ n \in Nat /\ Len(c) = n
      <3>1. MatchesAt(connections, up, t, e)
        BY <1>4 DEF Matches
      <3> QED BY <1>2, <2>1, <3>1, TableParts, AttemptsAre DEF MatchesAt
    <2>3. DOMAIN p = 1..n /\ DOMAIN c = 1..n
      BY <2>1, <2>2, LenProperties
    <2>4. ASSUME NEW k \in 1..n
          PROVE  /\ p[k].bytes = c[k].seen /\ p[k].requests = c[k].requests
                 /\ p[k].requests \in Nat /\ p[k].bytes \in Nat
      <3>1. k \in Nat /\ p[k] \in Peer
        BY <2>1, <2>2, ElementOfSeq
      <3>2. BytesIn(t, e, k) = SeenIn(c, k) /\ RequestsIn(t, e, k) = AskedIn(c, k)
        BY <1>4, <2>1, <3>1 DEF Matches, MatchesAt
      <3>3. /\ BytesIn(t, e, k) = p[k].bytes /\ RequestsIn(t, e, k) = p[k].requests
            /\ SeenIn(c, k) = c[k].seen /\ AskedIn(c, k) = c[k].requests
        BY <1>2, <2>1, <2>2 DEF BytesIn, RequestsIn, SeenIn, AskedIn
      <3> QED BY <3>1, <3>2, <3>3 DEF Peer
    <2> QED BY <2>1, <2>3, <2>4
  <1>6. All(peers) = All(connections)
    BY <1>5 DEF All
  <1>7. ASSUME NEW k \in All(peers)
        PROVE  /\ HadProtocolActivity(peers[k[1]][k[2]]) <=>
                      connections[k[1]][k[2]].requests > 0 \/ connections[k[1]][k[2]].seen > 0
               /\ Fingerprintable(peers[k[1]][k[2]]) <=>
                      connections[k[1]][k[2]].requests >= SampleThreshold
    <2>1. PICK e, m : e = k[1] /\ m = k[2]
      OBVIOUS
    <2>2. e \in Endpoints /\ m \in DOMAIN peers[e]
      BY <2>1 DEF All
    <2>3. PICK p, c : p = peers[e][m] /\ c = connections[e][m]
      OBVIOUS
    <2>4. p.bytes = c.seen /\ p.requests = c.requests /\ p.requests \in Nat /\ p.bytes \in Nat
      BY <1>5, <2>2, <2>3
    <2>5. /\ HadProtocolActivity(p) <=> c.requests > 0 \/ c.seen > 0
          /\ Fingerprintable(p) <=> c.requests >= SampleThreshold
      BY <2>4, TotalsAssumption DEF HadProtocolActivity, Fingerprintable
    <2> QED BY <2>1, <2>3, <2>5
  <1>8. {k \in All(peers) : HadProtocolActivity(peers[k[1]][k[2]])}
          = {k \in All(connections) : connections[k[1]][k[2]].requests > 0
                                      \/ connections[k[1]][k[2]].seen > 0}
    BY <1>6, <1>7, Zenon
  <1>9. {k \in All(peers) : Fingerprintable(peers[k[1]][k[2]])}
          = {k \in All(connections) : connections[k[1]][k[2]].requests >= SampleThreshold}
    BY <1>6, <1>7, Zenon
  <1> QED BY <1>6, <1>8, <1>9, Zenon DEF peer_observation_counts, ConnectionCounts

\* Every variable stays within its type, and the table names records there are.
THEOREM TotalsTypes == Spec => []TypeOK
  <1>1. Inv => TypeOK
    BY TypesImplyTypeOK DEF Inv
  <1> QED BY <1>1, InvHolds, PTL

\* Bytes are counted twice only if a snapshot overtook alerts, whatever alerts are lost.
THEOREM OvertakenOrNotOvercounted == Spec => []NeverOvercounted
  BY InvHolds, InvImpliesNeverOvercounted, PTL

\* If a disconnect tells of every end, no alert is lost and no snapshot overtakes one, the
\* total misses nothing but what was moved after the last snapshot that saw the connection.
THEOREM InOrderTotalsAddUp == Spec => []TotalsAddUp
  BY InvHolds, InvImpliesTotalsAddUp, PTL

\* Unless a snapshot overtook alerts there are never more records than attempts; and if
\* besides every end is told by a disconnect, the counts are those of the attempts.
THEOREM InOrderCountsAreRight == Spec => []CountsAreConnections
  BY InvHolds, InvImpliesCounts, PTL

-----------------------------------------------------------------------------
(* The interpolation of the percentiles.                                    *)

Ascending(s) == \A i, j \in 1..Len(s) : i <= j => s[i] <= s[j]

\* Both neighbours of a position are samples, and the upper one is never the lower.
LEMMA Neighbours ==
  ASSUME NEW n \in Nat \ {0}, NEW f \in 0..20
  PROVE  /\ position(n, f) \in Nat /\ position(n, f) % 20 \in 0..19
         /\ lower_index(position(n, f)) \in 1..n
         /\ upper_index(position(n, f)) \in 1..n
         /\ lower_index(position(n, f)) <= upper_index(position(n, f))
  <1> DEFINE p == f * (n - 1)
  <1>1. p \in Nat /\ p <= 20 * (n - 1)
    <2>1. n - 1 \in Nat /\ f \in Nat /\ f <= 20 /\ (20 - f) \in Nat
      OBVIOUS
    <2>2. f * (n - 1) \in Nat /\ (20 - f) * (n - 1) \in Nat
      BY <2>1
    <2>3. f * (n - 1) + (20 - f) * (n - 1) = 20 * (n - 1)
      BY <2>1
    <2> QED BY <2>2, <2>3
  <1> HIDE DEF p
  <1>2. /\ p % 20 \in 0..19 /\ p \div 20 \in Nat /\ p = 20 * (p \div 20) + (p % 20)
        /\ (p + 19) \div 20 \in Nat
        /\ 20 * ((p + 19) \div 20) <= p + 19
        /\ p \div 20 <= (p + 19) \div 20
    BY <1>1
  <1>3. p \div 20 <= n - 1 /\ (p + 19) \div 20 <= n - 1
    BY <1>1, <1>2
  <1> QED BY <1>1, <1>2, <1>3 DEF p, position, lower_index, upper_index

\* What is interpolated lies between what it is interpolated from.
LEMMA InterpolationBetween ==
  ASSUME NEW lower \in Int, NEW upper \in Int, lower <= upper, NEW weight \in 0..19
  PROVE  /\ Interpolate(lower, upper, weight) \in Int
         /\ 20 * lower <= Interpolate(lower, upper, weight)
         /\ Interpolate(lower, upper, weight) <= 20 * upper
  <1> DEFINE distance == upper - lower
  <1>1. distance \in Nat /\ upper = lower + distance
    OBVIOUS
  <1>2. /\ weight * distance \in Nat /\ (20 - weight) * distance \in Nat
        /\ weight * distance + (20 - weight) * distance = 20 * distance
    BY <1>1
  <1>3. lower * (20 - weight) + upper * weight = 20 * lower + weight * distance
    BY <1>1
  <1> HIDE DEF distance
  <1>4. 20 * upper = 20 * lower + 20 * distance
    BY <1>1
  <1> QED BY <1>1, <1>2, <1>3, <1>4 DEF Interpolate

\* A percentile lies between the samples its position falls between, and so between
\* the smallest and the largest.
THEOREM PercentileBetween ==
  ASSUME NEW s \in Seq(Int), s # <<>>, Ascending(s), NEW f \in 0..20
  PROVE  LET p == position(Len(s), f) IN
         /\ percentile(s, f) \in Int
         /\ 20 * s[1] <= percentile(s, f) /\ percentile(s, f) <= 20 * s[Len(s)]
         /\ 20 * s[lower_index(p)] <= percentile(s, f)
         /\ percentile(s, f) <= 20 * s[upper_index(p)]
  <1> DEFINE p == position(Len(s), f)
             lower == lower_index(p)
             upper == upper_index(p)
  <1>1. Len(s) \in Nat \ {0} /\ \A i \in 1..Len(s) : s[i] \in Int
    BY EmptySeq, ElementOfSeq
  <1>2. /\ p \in Nat /\ p % 20 \in 0..19
        /\ lower \in 1..Len(s) /\ upper \in 1..Len(s) /\ lower <= upper
    BY <1>1, Neighbours
  <1>3. percentile(s, f) = Interpolate(s[lower], s[upper], p % 20)
    <2>1. CASE Len(s) = 1
      <3>1. p = 0 /\ lower = 1 /\ upper = 1 /\ p % 20 = 0
        BY <2>1 DEF position, lower_index, upper_index
      <3> QED BY <1>1, <2>1, <3>1 DEF percentile, Interpolate
    <2>2. CASE Len(s) # 1
      BY <1>1, <2>2 DEF percentile
    <2> QED BY <2>1, <2>2
  <1> HIDE DEF p, lower, upper
  <1>4. /\ s[1] <= s[lower] /\ s[lower] <= s[upper] /\ s[upper] <= s[Len(s)]
        /\ s[1] \in Int /\ s[lower] \in Int /\ s[upper] \in Int /\ s[Len(s)] \in Int
    BY <1>1, <1>2 DEF Ascending
  <1>5. /\ percentile(s, f) \in Int
        /\ 20 * s[lower] <= percentile(s, f) /\ percentile(s, f) <= 20 * s[upper]
    <2>1. PICK a, b, weight : a = s[lower] /\ b = s[upper] /\ weight = p % 20
      OBVIOUS
    <2>2. a \in Int /\ b \in Int /\ a <= b /\ weight \in 0..19
      BY <1>2, <1>4, <2>1
    <2>3. percentile(s, f) = Interpolate(a, b, weight)
      BY <1>3, <2>1
    <2>4. /\ Interpolate(a, b, weight) \in Int
          /\ 20 * a <= Interpolate(a, b, weight) /\ Interpolate(a, b, weight) <= 20 * b
      BY <2>2, InterpolationBetween
    <2> QED BY <2>1, <2>3, <2>4
  <1>6. 20 * s[1] <= percentile(s, f) /\ percentile(s, f) <= 20 * s[Len(s)]
    BY <1>4, <1>5
  <1> QED BY <1>5, <1>6 DEF p, lower, upper

\* A percentile does not fall as the fraction rises: the 95th is never below the
\* median.
THEOREM PercentilesRise ==
  ASSUME NEW s \in Seq(Int), s # <<>>, Ascending(s),
         NEW f \in 0..20, NEW g \in 0..20, f <= g
  PROVE  percentile(s, f) <= percentile(s, g)
  <1> DEFINE p == position(Len(s), f)
             q == position(Len(s), g)
  <1>1. Len(s) \in Nat \ {0} /\ \A i \in 1..Len(s) : s[i] \in Int
    BY EmptySeq, ElementOfSeq
  <1>2. /\ p \in Nat /\ p % 20 \in 0..19
        /\ lower_index(p) \in 1..Len(s) /\ upper_index(p) \in 1..Len(s)
        /\ lower_index(p) <= upper_index(p)
        /\ q \in Nat /\ q % 20 \in 0..19
        /\ lower_index(q) \in 1..Len(s) /\ upper_index(q) \in 1..Len(s)
        /\ lower_index(q) <= upper_index(q)
    BY <1>1, Neighbours
  <1>3. p <= q
    <2>1. (g - f) * (Len(s) - 1) \in Nat
      BY <1>1
    <2>2. g * (Len(s) - 1) = f * (Len(s) - 1) + (g - f) * (Len(s) - 1)
      BY <1>1
    <2> QED BY <1>2, <2>1, <2>2 DEF position
  <1>4. /\ percentile(s, f) \in Int /\ percentile(s, g) \in Int
        /\ percentile(s, f) <= 20 * s[upper_index(p)]
        /\ 20 * s[lower_index(q)] <= percentile(s, g)
    BY PercentileBetween
  <1> HIDE DEF p, q
  <1>5. CASE upper_index(p) <= lower_index(q)
    <2>1. s[upper_index(p)] <= s[lower_index(q)]
      BY <1>2, <1>5 DEF Ascending
    <2>2. s[upper_index(p)] \in Int /\ s[lower_index(q)] \in Int
      BY <1>1, <1>2
    <2> QED BY <1>4, <2>1, <2>2
  <1>6. CASE upper_index(p) > lower_index(q)
    <2>1. /\ lower_index(p) = lower_index(q) /\ upper_index(p) = upper_index(q)
          /\ p % 20 <= q % 20
      BY <1>2, <1>3, <1>6 DEF lower_index, upper_index
    <2>2. Len(s) # 1
      BY <1>1, <1>2, <1>6
    <2> DEFINE lower == s[lower_index(p)]
               distance == s[upper_index(p)] - lower
    <2>3. lower \in Int /\ distance \in Nat /\ s[upper_index(p)] = lower + distance
      BY <1>1, <1>2 DEF Ascending
    <2>4. /\ percentile(s, f) = Interpolate(lower, lower + distance, p % 20)
          /\ percentile(s, g) = Interpolate(lower, lower + distance, q % 20)
      BY <1>1, <2>1, <2>2, <2>3 DEF percentile, p, q
    <2> HIDE DEF lower, distance
    <2>5. ((q % 20) - (p % 20)) * distance \in Nat
      BY <1>2, <2>1, <2>3
    <2>6. /\ Interpolate(lower, lower + distance, p % 20) = 20 * lower + (p % 20) * distance
          /\ Interpolate(lower, lower + distance, q % 20)
                 = 20 * lower + (p % 20) * distance + ((q % 20) - (p % 20)) * distance
      BY <1>2, <2>3 DEF Interpolate
    <2>7. 20 * lower + (p % 20) * distance \in Int
      BY <1>2, <2>3
    <2>8. percentile(s, g) = percentile(s, f) + ((q % 20) - (p % 20)) * distance
      BY <2>4, <2>6
    <2> QED BY <1>4, <2>5, <2>8
  <1> QED BY <1>2, <1>5, <1>6

-----------------------------------------------------------------------------
(* Sums over the first places of a sequence, one place at a time.            *)

SumTo(f, n) == SumFunctionOnSet(f, 1..n)

LEMMA SumToNext ==
  ASSUME NEW f, NEW n \in Nat, \A i \in 1..n : f[i] \in Int
  PROVE  /\ SumTo(f, n) \in Int /\ SumTo(f, 0) = 0
         /\ n # 0 => SumTo(f, n) = SumTo(f, n - 1) + f[n]
  <1>1. PICK S : S = 1..n
    OBVIOUS
  <1>2. IsFiniteSet(S) /\ \A i \in S : f[i] \in Int
    BY <1>1, FS_Interval
  <1>3. SumFunctionOnSet(f, S) \in Int
    BY <1>2, SumType
  <1>4. SumTo(f, 0) = 0
    <2>1. PICK T : T = 1..0
      OBVIOUS
    <2>2. T = {} /\ IsFiniteSet(T)
      BY <2>1, FS_EmptySet
    <2>3. SumFunctionOnSet(f, T) = 0
      BY <2>2, SumFolds
    <2> QED BY <2>1, <2>3 DEF SumTo
  <1>5. ASSUME n # 0
        PROVE  SumTo(f, n) = SumTo(f, n - 1) + f[n]
    <2>1. PICK T : T = 1..(n - 1)
      OBVIOUS
    <2>2. T = S \ {n} /\ n \in S
      <3>1. n \in 1..n /\ \A i : i \in (1..n) \ {n} <=> i \in 1..(n - 1)
        BY <1>5
      <3> QED BY <1>1, <2>1, <3>1, Zenon
    <2>3. SumFunctionOnSet(f, S) = f[n] + SumFunctionOnSet(f, S \ {n})
      <3>1. \A i \in S : SumFunctionOnSet(f, S) = f[i] + SumFunctionOnSet(f, S \ {i})
        BY <1>2, SumRemoves
      <3> QED BY <2>2, <3>1, Zenon
    <2>4. SumFunctionOnSet(f, T) \in Int
      <3>1. T \in SUBSET S
        BY <2>2
      <3>2. IsFiniteSet(T)
        BY <1>2, <3>1, FS_Subset
      <3>3. \A i \in T : f[i] \in Int
        BY <1>2, <3>1
      <3> QED BY <3>2, <3>3, SumType
    <2>5. f[n] \in Int
      BY <1>2, <2>2
    <2>6. SumFunctionOnSet(f, S) = SumFunctionOnSet(f, T) + f[n]
      BY <2>2, <2>3, <2>4, <2>5
    <2> QED BY <1>1, <2>1, <2>6 DEF SumTo
  <1> QED BY <1>1, <1>3, <1>4, <1>5 DEF SumTo

\* f is g with y at place k + 1, before the rest.
PutsIn(f, g, n, k, y) ==
    /\ n \in Nat /\ k \in 0..n /\ y \in Int /\ \A i \in 1..n : g[i] \in Int
    /\ \A i \in 1..k : f[i] = g[i]
    /\ f[k + 1] = y
    /\ \A i \in (k + 1)..n : f[i + 1] = g[i]

LEMMA PutsInSum ==
  ASSUME NEW f, NEW g, NEW n, NEW k, NEW y, PutsIn(f, g, n, k, y)
  PROVE  SumTo(f, n + 1) = SumTo(g, n) + y
  <1>1. /\ n \in Nat /\ k \in 0..n /\ k \in Nat /\ y \in Int /\ f[k + 1] = y
        /\ \A i \in 1..n : g[i] \in Int
        /\ \A i \in 1..k : f[i] = g[i]
        /\ \A i \in (k + 1)..n : f[i + 1] = g[i]
    BY DEF PutsIn
  <1>2. ASSUME NEW i \in 1..(n + 1)
        PROVE  f[i] \in Int
    <2>1. CASE i <= k
      BY <1>1, <2>1
    <2>2. CASE i = k + 1
      BY <1>1, <2>2
    <2>3. CASE i > k + 1
      <3>1. i - 1 \in (k + 1)..n /\ i - 1 \in 1..n /\ (i - 1) + 1 = i
        BY <1>1, <2>3
      <3>2. f[(i - 1) + 1] = g[i - 1]
        BY <1>1, <3>1
      <3> QED BY <1>1, <3>1, <3>2
    <2> QED BY <1>1, <2>1, <2>2, <2>3
  <1>3. ASSUME NEW m \in 0..(n + 1)
        PROVE  /\ SumTo(f, m) \in Int /\ SumTo(f, 0) = 0
               /\ m # 0 => SumTo(f, m) = SumTo(f, m - 1) + f[m]
    <2>1. m \in Nat /\ \A i \in 1..m : i \in 1..(n + 1)
      BY <1>1
    <2>2. \A i \in 1..m : f[i] \in Int
      BY <1>2, <2>1
    <2> QED BY <2>1, <2>2, SumToNext
  <1>4. ASSUME NEW m \in 0..n
        PROVE  /\ SumTo(g, m) \in Int /\ SumTo(g, 0) = 0
               /\ m # 0 => SumTo(g, m) = SumTo(g, m - 1) + g[m]
    <2>1. m \in Nat /\ \A i \in 1..m : i \in 1..n
      BY <1>1
    <2>2. \A i \in 1..m : g[i] \in Int
      BY <1>1, <2>1
    <2> QED BY <2>1, <2>2, SumToNext
  <1> DEFINE D == {m \in 0..n : /\ m <= k => SumTo(f, m) = SumTo(g, m)
                                /\ m >= k => SumTo(f, m + 1) = SumTo(g, m) + y}
  <1>5. \A m \in 0..n : m + 1 \in 0..(n + 1) /\ m \in 0..(n + 1) /\ m + 1 # 0 /\ (m + 1) - 1 = m
    BY <1>1
  <1>6. ASSUME NEW m \in 0..n
        PROVE  SumTo(f, m + 1) = SumTo(f, m) + f[m + 1]
    <2>1. m + 1 \in 0..(n + 1) /\ m + 1 # 0 /\ (m + 1) - 1 = m
      BY <1>5
    <2>2. SumTo(f, m + 1) = SumTo(f, (m + 1) - 1) + f[m + 1]
      BY <1>3, <2>1
    <2> QED BY <2>1, <2>2
  <1>7. 0 \in D
    <2>1. 0 \in 0..n /\ 0 \in 0..(n + 1)
      BY <1>1
    <2>2. SumTo(f, 0) = 0 /\ SumTo(g, 0) = 0
      BY <1>3, <1>4, <2>1
    <2>3. ASSUME 0 >= k
          PROVE  SumTo(f, 0 + 1) = SumTo(g, 0) + y
      <3>1. k = 0
        BY <1>1, <2>3
      <3>2. SumTo(f, 0 + 1) = SumTo(f, 0) + f[0 + 1]
        BY <1>6, <2>1
      <3> QED BY <1>1, <2>2, <3>1, <3>2
    <2> QED BY <2>1, <2>2, <2>3
  <1>8. ASSUME NEW m \in 0..(n - 1), m \in D
        PROVE  m + 1 \in D
    <2>1. m \in 0..n /\ m + 1 \in 0..n /\ m \in Nat /\ m + 1 \in 1..n
      BY <1>1
    <2>2. SumTo(f, m + 1) = SumTo(f, m) + f[m + 1]
      BY <1>6, <2>1
    <2>3. SumTo(f, (m + 1) + 1) = SumTo(f, m + 1) + f[(m + 1) + 1]
      BY <1>6, <2>1
    <2>4. SumTo(g, m + 1) = SumTo(g, m) + g[m + 1] /\ SumTo(g, m) \in Int /\ g[m + 1] \in Int
      <3>1. m + 1 # 0 /\ (m + 1) - 1 = m
        BY <2>1
      <3>2. SumTo(g, m + 1) = SumTo(g, (m + 1) - 1) + g[m + 1]
        BY <1>4, <2>1, <3>1
      <3> QED BY <1>1, <1>4, <2>1, <3>1, <3>2
    <2>5. ASSUME m + 1 <= k
          PROVE  SumTo(f, m + 1) = SumTo(g, m + 1)
      <3>1. SumTo(f, m) = SumTo(g, m) /\ f[m + 1] = g[m + 1]
        BY <1>1, <1>8, <2>1, <2>5
      <3> QED BY <2>2, <2>4, <3>1
    <2>6. ASSUME m + 1 >= k
          PROVE  SumTo(f, (m + 1) + 1) = SumTo(g, m + 1) + y
      <3>1. CASE m + 1 = k
        <4>1. SumTo(f, m + 1) = SumTo(g, m + 1) /\ f[(m + 1) + 1] = y
          BY <1>1, <2>1, <2>5, <3>1
        <4> QED BY <2>3, <4>1
      <3>2. CASE m + 1 > k
        <4>1. m >= k /\ m + 1 \in (k + 1)..n
          BY <1>1, <2>1, <3>2
        <4>2. SumTo(f, m + 1) = SumTo(g, m) + y /\ f[(m + 1) + 1] = g[m + 1]
          BY <1>1, <1>8, <4>1
        <4> QED BY <1>1, <2>3, <2>4, <4>2
      <3> QED BY <1>1, <2>1, <2>6, <3>1, <3>2
    <2> QED BY <2>1, <2>5, <2>6
  <1>9. n \in D
    <2> HIDE DEF D
    <2>1. \A m \in 0..(n - 1) : m \in D => m + 1 \in D
      BY <1>8
    <2> QED BY <1>1, <1>7, <2>1, UpTo
  <1> QED BY <1>1, <1>9

-----------------------------------------------------------------------------
(* Sorting.                                                                  *)

\* r is the ascending sequence t with x put in behind its first k numbers.
PutsNumber(t, x, k, r) ==
    /\ k \in 0..Len(t) /\ Len(r) = Len(t) + 1
    /\ \A i \in 1..k : r[i] = t[i] /\ t[i] <= x
    /\ r[k + 1] = x
    /\ \A i \in (k + 1)..Len(t) : r[i + 1] = t[i] /\ x < t[i]

\* Those that are not above x are the first k.
LEMMA FirstNotAbove ==
  ASSUME NEW V \in SUBSET Int, NEW t \in Seq(V), Ascending(t), NEW x \in V
  PROVE  \E k \in 0..Len(t) : \A i \in 1..Len(t) : t[i] <= x <=> i <= k
  <1>1. PICK n : n = Len(t)
    OBVIOUS
  <1>2. n \in Nat /\ (\A i \in 1..n : t[i] \in Int) /\ x \in Int
    <2>1. \A i \in 1..Len(t) : t[i] \in V
      BY ElementOfSeq
    <2>2. Len(t) \in Nat
      BY LenProperties
    <2> QED BY <1>1, <2>1, <2>2
  <1> DEFINE D == {m \in 0..n : \E k \in 0..m : \A i \in 1..m : t[i] <= x <=> i <= k}
  <1>3. 0 \in D
    <2>1. 0 \in 0..n /\ 0 \in 0..0 /\ \A i \in 1..0 : t[i] <= x <=> i <= 0
      BY <1>2
    <2> QED BY <2>1
  <1>4. ASSUME NEW m \in 0..(n - 1), m \in D
        PROVE  m + 1 \in D
    <2>1. m \in Nat /\ m + 1 \in 0..n /\ m + 1 \in 1..n
      BY <1>2
    <2>2. PICK k \in 0..m : \A i \in 1..m : t[i] <= x <=> i <= k
      BY <1>4
    <2>3. CASE t[m + 1] <= x
      <3>1. ASSUME NEW i \in 1..(m + 1)
            PROVE  t[i] <= x <=> i <= m + 1
        <4>1. i \in 1..n /\ i <= m + 1 /\ m + 1 \in 1..n
          BY <1>2, <2>1
        <4>2. t[i] <= t[m + 1]
          BY <1>1, <4>1 DEF Ascending
        <4>3. t[i] \in Int /\ t[m + 1] \in Int
          BY <1>2, <4>1
        <4> QED BY <1>2, <2>3, <4>1, <4>2, <4>3
      <3>2. m + 1 \in 0..(m + 1)
        BY <2>1
      <3> QED BY <2>1, <3>1, <3>2
    <2>4. CASE ~(t[m + 1] <= x)
      <3>1. ASSUME NEW i \in 1..(m + 1)
            PROVE  t[i] <= x <=> i <= k
        <4>1. CASE i = m + 1
          BY <2>1, <2>4, <4>1
        <4>2. CASE i # m + 1
          <5>1. i \in 1..m
            BY <2>1, <4>2
          <5> QED BY <2>2, <5>1
        <4> QED BY <4>1, <4>2
      <3>2. k \in 0..(m + 1)
        BY <2>1
      <3> QED BY <2>1, <3>1, <3>2
    <2> QED BY <2>3, <2>4
  <1>5. n \in D
    <2> HIDE DEF D
    <2>1. \A m \in 0..(n - 1) : m \in D => m + 1 \in D
      BY <1>4
    <2> QED BY <1>2, <1>3, <2>1, UpTo
  <1> QED BY <1>1, <1>5

\* A number is put in where it belongs.
LEMMA InsertedIs ==
  ASSUME NEW V \in SUBSET Int, NEW t \in Seq(V), Ascending(t), NEW x \in V
  PROVE  /\ Inserted(t, x) \in Seq(V)
         /\ \E k \in 0..Len(t) : PutsNumber(t, x, k, Inserted(t, x))
  <1>1. PICK n : n = Len(t)
    OBVIOUS
  <1>2. n \in Nat /\ (\A i \in 1..n : t[i] \in V /\ t[i] \in Int) /\ x \in Int /\ DOMAIN t = 1..n
    <2>1. \A i \in 1..Len(t) : t[i] \in V
      BY ElementOfSeq
    <2>2. Len(t) \in Nat /\ DOMAIN t = 1..Len(t)
      BY LenProperties
    <2> QED BY <1>1, <2>1, <2>2
  <1>3. PICK k \in 0..n : \A i \in 1..n : t[i] <= x <=> i <= k
    BY <1>1, FirstNotAbove
  <1>4. k \in Nat /\ k <= n
    BY <1>2
  <1>5. Cardinality({i \in DOMAIN t : t[i] <= x}) = k
    <2>1. PICK S : S = {i \in DOMAIN t : t[i] <= x}
      OBVIOUS
    <2>2. \A i : i \in S <=> i \in 1..k
      <3>1. \A i : i \in 1..k <=> i \in 1..n /\ i <= k
        BY <1>4, <1>2
      <3>2. \A i : i \in S <=> i \in 1..n /\ t[i] <= x
        BY <1>2, <2>1, Zenon
      <3> QED BY <1>3, <3>1, <3>2, Zenon
    <2>3. S = 1..k
      BY <2>2, Zenon
    <2>4. Cardinality(1..k) = k
      BY <1>4, FS_Interval
    <2> QED BY <2>1, <2>3, <2>4
  <1>6. PICK a, b, c, r : /\ a = SubSeq(t, 1, (k + 1) - 1) /\ b = <<x>> /\ c = SubSeq(t, k + 1, n)
                          /\ r = (a \o b) \o c
    OBVIOUS
  <1>7. Inserted(t, x) = r
    BY <1>1, <1>5, <1>6, Zenon DEF Inserted, InsertAt
  <1>8. a \in Seq(V) /\ Len(a) = k /\ \A i \in 1..k : a[i] = t[i]
    <2>1. PICK h : h = (k + 1) - 1
      OBVIOUS
    <2>2. h = k /\ h \in Int /\ 1 \in Int /\ \A i \in 1..h : t[i] \in V
      BY <1>2, <1>4, <2>1
    <2>3. /\ SubSeq(t, 1, h) \in Seq(V)
          /\ Len(SubSeq(t, 1, h)) = IF 1 <= h THEN h - 1 + 1 ELSE 0
          /\ \A i \in 1..(h - 1 + 1) : SubSeq(t, 1, h)[i] = t[1 + i - 1]
      BY <2>2, SubSeqProperties
    <2>4. a = SubSeq(t, 1, h)
      BY <1>6, <2>1
    <2>5. /\ a \in Seq(V)
          /\ Len(a) = IF 1 <= h THEN h - 1 + 1 ELSE 0
          /\ \A i \in 1..(h - 1 + 1) : a[i] = t[1 + i - 1]
      BY <2>3, <2>4, Zenon
    <2>6. Len(a) = k
      BY <1>4, <2>2, <2>5
    <2>7. \A i \in 1..k : i \in 1..(h - 1 + 1) /\ 1 + i - 1 = i
      BY <1>4, <2>2
    <2> QED BY <2>5, <2>6, <2>7
  <1>9. c \in Seq(V) /\ Len(c) = n - k /\ \A i \in 1..(n - k) : c[i] = t[k + i]
    <2>1. PICK h : h = k + 1
      OBVIOUS
    <2>2. h \in Int /\ n \in Int /\ \A i \in h..n : t[i] \in V
      BY <1>2, <1>4, <2>1
    <2>3. /\ SubSeq(t, h, n) \in Seq(V)
          /\ Len(SubSeq(t, h, n)) = IF h <= n THEN n - h + 1 ELSE 0
          /\ \A i \in 1..(n - h + 1) : SubSeq(t, h, n)[i] = t[h + i - 1]
      BY <2>2, SubSeqProperties
    <2>4. c = SubSeq(t, h, n)
      BY <1>6, <2>1
    <2>5. /\ c \in Seq(V)
          /\ Len(c) = IF h <= n THEN n - h + 1 ELSE 0
          /\ \A i \in 1..(n - h + 1) : c[i] = t[h + i - 1]
      BY <2>3, <2>4, Zenon
    <2>6. Len(c) = n - k
      BY <1>2, <1>4, <2>1, <2>5
    <2>7. \A i \in 1..(n - k) : i \in 1..(n - h + 1) /\ h + i - 1 = k + i
      BY <1>2, <1>4, <2>1
    <2> QED BY <2>5, <2>6, <2>7
  <1>10. /\ a \o b \in Seq(V) /\ Len(a \o b) = k + 1
         /\ (\A i \in 1..k : (a \o b)[i] = t[i]) /\ (a \o b)[k + 1] = x
    <2>1. b \in Seq(V) /\ Len(b) = 1 /\ b[1] = x
      BY <1>6
    <2>2. PICK d : d = a \o b
      OBVIOUS
    <2>3. /\ d \in Seq(V) /\ Len(d) = k + 1
          /\ \A i \in 1..(k + 1) : d[i] = IF i <= k THEN a[i] ELSE b[i - k]
      <3>1. /\ a \o b \in Seq(V) /\ Len(a \o b) = Len(a) + Len(b)
            /\ \A i \in 1..(Len(a) + Len(b)) :
                  (a \o b)[i] = IF i <= Len(a) THEN a[i] ELSE b[i - Len(a)]
        BY <1>8, <2>1, ConcatProperties
      <3> QED BY <1>8, <2>1, <2>2, <3>1, Zenon
    <2>4. ASSUME NEW i \in 1..k
          PROVE  d[i] = t[i]
      <3>1. i \in 1..(k + 1) /\ i <= k
        BY <1>4
      <3> QED BY <1>8, <2>3, <3>1
    <2>5. d[k + 1] = x
      <3>1. k + 1 \in 1..(k + 1) /\ ~(k + 1 <= k) /\ (k + 1) - k = 1
        BY <1>4
      <3>2. d[k + 1] = b[(k + 1) - k]
        BY <2>3, <3>1
      <3> QED BY <2>1, <3>1, <3>2
    <2> QED BY <2>2, <2>3, <2>4, <2>5
  <1>11. /\ r \in Seq(V) /\ Len(r) = n + 1
         /\ (\A i \in 1..k : r[i] = t[i]) /\ r[k + 1] = x
         /\ \A i \in (k + 1)..n : r[i + 1] = t[i]
    <2>1. PICK d : d = a \o b
      OBVIOUS
    <2>2. /\ d \in Seq(V) /\ Len(d) = k + 1 /\ (\A i \in 1..k : d[i] = t[i]) /\ d[k + 1] = x
          /\ r = d \o c
      BY <1>6, <1>10, <2>1
    <2>3. /\ r \in Seq(V) /\ Len(r) = Len(d) + Len(c)
          /\ \A i \in 1..(Len(d) + Len(c)) : r[i] = IF i <= Len(d) THEN d[i] ELSE c[i - Len(d)]
      BY <1>9, <2>2, ConcatProperties
    <2>4. Len(d) + Len(c) = n + 1 /\ Len(d) = k + 1
      BY <1>2, <1>4, <1>9, <2>2
    <2>5. \A i \in 1..(n + 1) : r[i] = IF i <= k + 1 THEN d[i] ELSE c[i - (k + 1)]
      BY <2>3, <2>4
    <2>6. ASSUME NEW i \in 1..k
          PROVE  r[i] = t[i]
      <3>1. i \in 1..(n + 1) /\ i <= k + 1
        BY <1>2, <1>4
      <3> QED BY <2>2, <2>5, <3>1
    <2>7. r[k + 1] = x
      <3>1. k + 1 \in 1..(n + 1) /\ k + 1 <= k + 1
        BY <1>2, <1>4
      <3> QED BY <2>2, <2>5, <3>1
    <2>8. ASSUME NEW i \in (k + 1)..n
          PROVE  r[i + 1] = t[i]
      <3>1. /\ i + 1 \in 1..(n + 1) /\ ~(i + 1 <= k + 1) /\ (i + 1) - (k + 1) = i - k
            /\ i - k \in 1..(n - k) /\ k + (i - k) = i
        BY <1>2, <1>4
      <3>2. r[i + 1] = c[(i + 1) - (k + 1)]
        BY <2>5, <3>1
      <3>3. c[i - k] = t[k + (i - k)]
        BY <1>9, <3>1
      <3> QED BY <3>1, <3>2, <3>3
    <2> QED BY <2>3, <2>4, <2>6, <2>7, <2>8
  <1>12. PutsNumber(t, x, k, r)
    <2>1. \A i \in 1..k : i \in 1..n /\ i <= k
      BY <1>2, <1>4
    <2>2. \A i \in (k + 1)..n : i \in 1..n /\ ~(i <= k)
      BY <1>2, <1>4
    <2>3. \A i \in 1..k : t[i] <= x
      BY <1>3, <2>1
    <2>4. \A i \in (k + 1)..n : x < t[i]
      <3>1. \A i \in (k + 1)..n : ~(t[i] <= x) /\ t[i] \in Int
        BY <1>2, <1>3, <2>2
      <3> QED BY <1>2, <3>1
    <2> QED BY <1>1, <1>11, <2>3, <2>4 DEF PutsNumber
  <1> QED BY <1>1, <1>7, <1>11, <1>12

LEMMA PutsNumberAscends ==
  ASSUME NEW V \in SUBSET Int, NEW t \in Seq(V), Ascending(t), NEW x \in V, NEW k, NEW r,
         PutsNumber(t, x, k, r)
  PROVE  Ascending(r)
  <1>1. PICK n : n = Len(t)
    OBVIOUS
  <1>2. /\ n \in Nat /\ (\A i \in 1..n : t[i] \in Int) /\ x \in Int
        /\ k \in Nat /\ k <= n /\ Len(r) = n + 1
    <2>1. \A i \in 1..Len(t) : t[i] \in V
      BY ElementOfSeq
    <2>2. Len(t) \in Nat
      BY LenProperties
    <2>3. k \in 0..Len(t) /\ Len(r) = Len(t) + 1
      BY DEF PutsNumber
    <2>4. \A i \in 1..n : t[i] \in Int
      BY <1>1, <2>1
    <2> QED BY <1>1, <2>2, <2>3, <2>4
  <1>3. ASSUME NEW i \in 1..(n + 1)
        PROVE  \/ i <= k /\ i \in 1..n /\ r[i] = t[i] /\ t[i] <= x
               \/ i = k + 1 /\ r[i] = x
               \/ i > k + 1 /\ i - 1 \in 1..n /\ r[i] = t[i - 1] /\ x < t[i - 1]
    <2>1. CASE i <= k
      <3>1. i \in 1..k /\ i \in 1..n
        BY <1>2, <2>1
      <3> QED BY <2>1, <3>1 DEF PutsNumber
    <2>2. CASE i = k + 1
      BY <2>2 DEF PutsNumber
    <2>3. CASE i > k + 1
      <3>1. i - 1 \in (k + 1)..n /\ i - 1 \in 1..n /\ (i - 1) + 1 = i
        BY <1>2, <2>3
      <3>2. r[(i - 1) + 1] = t[i - 1] /\ x < t[i - 1]
        BY <1>1, <3>1 DEF PutsNumber
      <3> QED BY <2>3, <3>1, <3>2
    <2> QED BY <1>2, <2>1, <2>2, <2>3
  <1>4. ASSUME NEW i \in 1..(n + 1), NEW j \in 1..(n + 1), i <= j
        PROVE  r[i] <= r[j]
    <2>1. \A a, b \in 1..n : a <= b => t[a] <= t[b]
      BY <1>1 DEF Ascending
    <2>2. CASE j <= k
      <3>1. i <= k /\ i # k + 1 /\ ~(i > k + 1)
        BY <1>2, <1>4, <2>2
      <3>2. i \in 1..n /\ j \in 1..n /\ r[i] = t[i] /\ r[j] = t[j]
        BY <1>2, <1>3, <2>2, <3>1
      <3> QED BY <1>4, <2>1, <3>2
    <2>3. CASE i > k + 1
      <3>1. j > k + 1 /\ j # k + 1 /\ ~(j <= k) /\ i - 1 <= j - 1
        BY <1>2, <1>4, <2>3
      <3>2. i - 1 \in 1..n /\ j - 1 \in 1..n /\ r[i] = t[i - 1] /\ r[j] = t[j - 1]
        BY <1>2, <1>3, <2>3, <3>1
      <3> QED BY <2>1, <3>1, <3>2
    <2>4. CASE ~(j <= k) /\ ~(i > k + 1)
      <3>1. r[i] \in Int /\ r[i] <= x
        BY <1>2, <1>3, <2>4
      <3>2. \/ r[j] = x
            \/ j - 1 \in 1..n /\ r[j] = t[j - 1] /\ x < t[j - 1]
        BY <1>3, <2>4
      <3>3. r[j] \in Int /\ x <= r[j]
        BY <1>2, <3>2
      <3> QED BY <1>2, <3>1, <3>3
    <2> QED BY <2>2, <2>3, <2>4
  <1> QED BY <1>2, <1>4 DEF Ascending

\* The values of h along a sequence.
Along(h, s) == [i \in Nat |-> h[s[i]]]

\* t has the first m numbers of s in ascending order, each as often.
SortsFirst(V, s, m, t) ==
    /\ t \in Seq(V) /\ Len(t) = m /\ Ascending(t)
    /\ \A h \in [Int -> Int] : SumTo(Along(h, t), m) = SumTo(Along(h, s), m)

LEMMA AlongAre ==
  ASSUME NEW V \in SUBSET Int, NEW s \in Seq(V), NEW h \in [Int -> Int], NEW m \in 0..Len(s)
  PROVE  /\ \A i \in 1..m : Along(h, s)[i] = h[s[i]] /\ Along(h, s)[i] \in Int
         /\ SumTo(Along(h, s), m) \in Int /\ SumTo(Along(h, s), 0) = 0
         /\ m # 0 => SumTo(Along(h, s), m) = SumTo(Along(h, s), m - 1) + h[s[m]]
  <1>1. PICK f : f = Along(h, s)
    OBVIOUS
  <1>2. Len(s) \in Nat /\ m \in Nat
    BY LenProperties
  <1>3. ASSUME NEW i \in 1..m
        PROVE  f[i] = h[s[i]] /\ f[i] \in Int
    <2>1. i \in Nat /\ i \in 1..Len(s)
      BY <1>2
    <2>2. s[i] \in Int
      BY <2>1, ElementOfSeq
    <2>3. f[i] = h[s[i]]
      BY <1>1, <2>1, Zenon DEF Along
    <2> QED BY <2>2, <2>3
  <1>4. /\ SumTo(f, m) \in Int /\ SumTo(f, 0) = 0
        /\ m # 0 => SumTo(f, m) = SumTo(f, m - 1) + f[m]
    BY <1>2, <1>3, SumToNext
  <1>5. m # 0 => f[m] = h[s[m]]
    <2>1. m # 0 => m \in 1..m
      BY <1>2
    <2> QED BY <1>3, <2>1
  <1> QED BY <1>1, <1>3, <1>4, <1>5

LEMMA SortsOneMore ==
  ASSUME NEW V \in SUBSET Int, NEW s \in Seq(V), NEW m \in 0..(Len(s) - 1), NEW t,
         SortsFirst(V, s, m, t)
  PROVE  SortsFirst(V, s, m + 1, Inserted(t, s[m + 1]))
  <1>1. PICK x, r : x = s[m + 1] /\ r = Inserted(t, x)
    OBVIOUS
  <1>2. Len(s) \in Nat /\ m \in Nat /\ m + 1 \in 1..Len(s) /\ m + 1 \in 0..Len(s) /\ m \in 0..Len(s)
    BY LenProperties
  <1>3. x \in V /\ x \in Int
    BY <1>1, <1>2, ElementOfSeq
  <1>4. t \in Seq(V) /\ Len(t) = m /\ Ascending(t)
    BY DEF SortsFirst
  <1>5. r \in Seq(V) /\ \E k \in 0..Len(t) : PutsNumber(t, x, k, r)
    BY <1>1, <1>3, <1>4, InsertedIs
  <1>6. PICK k \in 0..m : PutsNumber(t, x, k, r)
    BY <1>4, <1>5
  <1>7. Len(r) = m + 1 /\ Ascending(r)
    <2>1. Ascending(r)
      BY <1>3, <1>4, <1>6, PutsNumberAscends
    <2> QED BY <1>4, <1>6, <2>1 DEF PutsNumber
  <1>8. ASSUME NEW h \in [Int -> Int]
        PROVE  SumTo(Along(h, r), m + 1) = SumTo(Along(h, s), m + 1)
    <2>1. PICK f, g, y : f = Along(h, r) /\ g = Along(h, t) /\ y = h[x]
      OBVIOUS
    <2>2. m \in 0..Len(t) /\ m + 1 \in 0..Len(r)
      BY <1>2, <1>4, <1>7
    <2>3. \A i \in 1..m : g[i] = h[t[i]] /\ g[i] \in Int
      BY <1>4, <2>1, <2>2, AlongAre
    <2>4. \A i \in 1..(m + 1) : f[i] = h[r[i]]
      BY <1>5, <2>1, <2>2, AlongAre
    <2>5. PutsIn(f, g, m, k, y)
      <3>1. \A i \in 1..k : i \in 1..m /\ i \in 1..(m + 1) /\ r[i] = t[i]
        BY <1>2, <1>6 DEF PutsNumber
      <3>2. ASSUME NEW i \in 1..k
            PROVE  f[i] = g[i]
        <4>1. f[i] = h[r[i]] /\ g[i] = h[t[i]] /\ r[i] = t[i]
          BY <2>3, <2>4, <3>1
        <4> QED BY <4>1
      <3>3. k + 1 \in 1..(m + 1) /\ r[k + 1] = x
        BY <1>2, <1>6 DEF PutsNumber
      <3>4. f[k + 1] = y
        BY <2>1, <2>4, <3>3
      <3>5. \A i \in (k + 1)..m : i \in 1..m /\ i + 1 \in 1..(m + 1) /\ r[i + 1] = t[i]
        BY <1>2, <1>4, <1>6 DEF PutsNumber
      <3>6. ASSUME NEW i \in (k + 1)..m
            PROVE  f[i + 1] = g[i]
        <4>1. i \in 1..m /\ i + 1 \in 1..(m + 1) /\ r[i + 1] = t[i]
          BY <3>5
        <4>2. f[i + 1] = h[r[i + 1]] /\ g[i] = h[t[i]]
          BY <2>3, <2>4, <4>1
        <4> QED BY <4>1, <4>2
      <3>7. y \in Int
        BY <1>3, <2>1
      <3> QED BY <1>2, <2>3, <3>2, <3>4, <3>6, <3>7 DEF PutsIn
    <2>6. SumTo(f, m + 1) = SumTo(g, m) + y
      BY <2>5, PutsInSum
    <2>7. SumTo(g, m) = SumTo(Along(h, s), m)
      BY <2>1 DEF SortsFirst
    <2>8. SumTo(Along(h, s), m + 1) = SumTo(Along(h, s), m) + y
      <3>1. m + 1 # 0 /\ (m + 1) - 1 = m
        BY <1>2
      <3>2. SumTo(Along(h, s), m + 1) = SumTo(Along(h, s), (m + 1) - 1) + h[s[m + 1]]
        BY <1>2, <3>1, AlongAre
      <3> QED BY <1>1, <2>1, <3>1, <3>2
    <2> QED BY <2>1, <2>6, <2>7, <2>8
  <1> QED BY <1>1, <1>5, <1>7, <1>8 DEF SortsFirst

\* The function a sequence is sorted with.
Sorting(s, n, f) ==
    f = [j \in 0..n |-> IF j = 0 THEN <<>> ELSE Inserted(f[j - 1], s[j])]

LEMMA SortingExists ==
  ASSUME NEW s, NEW n \in Nat
  PROVE  \E f : Sorting(s, n, f)
  <1> DEFINE D == {m \in 0..n : \E f : Sorting(s, m, f)}
  <1>1. 0 \in D
    <2>1. PICK f : f = [j \in 0..0 |-> <<>>]
      OBVIOUS
    <2>2. \A j \in 0..0 : j = 0
      OBVIOUS
    <2>3. f = [j \in 0..0 |-> IF j = 0 THEN <<>> ELSE Inserted(f[j - 1], s[j])]
      BY <2>1, <2>2, Zenon
    <2> QED BY <2>3 DEF Sorting
  <1>2. ASSUME NEW m \in 0..(n - 1), m \in D
        PROVE  m + 1 \in D
    <2>1. PICK f : Sorting(s, m, f)
      BY <1>2
    <2>2. m \in Nat /\ m + 1 \in 0..n /\ m + 1 # 0 /\ (m + 1) - 1 = m /\ ~(m + 1 \in 0..m)
      OBVIOUS
    <2>3. PICK y, k : y = Inserted(f[m], s[m + 1]) /\ k = m + 1
      OBVIOUS
    <2>4. PICK g : g = [j \in 0..(m + 1) |-> IF j = k THEN y ELSE f[j]]
      OBVIOUS
    <2>5. ASSUME NEW j \in 0..(m + 1)
          PROVE  g[j] = IF j = 0 THEN <<>> ELSE Inserted(g[j - 1], s[j])
      <3>1. CASE j = k
        <4>1. j # 0 /\ j - 1 = m /\ m \in 0..(m + 1) /\ m # k
          BY <2>2, <2>3, <3>1
        <4>2. g[j] = y
          BY <2>4, <3>1
        <4>3. g[m] = f[m]
          BY <2>4, <4>1
        <4>4. y = Inserted(g[j - 1], s[j])
          <5>1. s[j] = s[m + 1]
            BY <2>3, <3>1
          <5> QED BY <2>3, <4>1, <4>3, <5>1, Zenon
        <4> QED BY <4>1, <4>2, <4>4, Zenon
      <3>2. CASE j # k
        <4>1. j \in 0..m /\ g[j] = f[j]
          BY <2>2, <2>3, <2>4, <3>2
        <4>2. f[j] = IF j = 0 THEN <<>> ELSE Inserted(f[j - 1], s[j])
          <5>1. PICK h : h = [i \in 0..m |-> IF i = 0 THEN <<>> ELSE Inserted(f[i - 1], s[i])]
            OBVIOUS
          <5>2. h[j] = IF j = 0 THEN <<>> ELSE Inserted(f[j - 1], s[j])
            BY <4>1, <5>1, Zenon
          <5>3. f = h
            BY <2>1, <5>1 DEF Sorting
          <5> QED BY <5>2, <5>3, Zenon
        <4>3. CASE j = 0
          BY <4>1, <4>2, <4>3, Zenon
        <4>4. CASE j # 0
          <5>1. j - 1 \in 0..(m + 1) /\ j - 1 # k
            BY <2>2, <2>3, <4>1, <4>4
          <5>2. g[j - 1] = f[j - 1]
            BY <2>4, <5>1
          <5> QED BY <4>1, <4>2, <4>4, <5>2, Zenon
        <4> QED BY <4>3, <4>4
      <3> QED BY <3>1, <3>2
    <2>6. Sorting(s, m + 1, g)
      <3>1. g = [j \in 0..(m + 1) |-> g[j]]
        BY <2>4
      <3>2. g = [j \in 0..(m + 1) |-> IF j = 0 THEN <<>> ELSE Inserted(g[j - 1], s[j])]
        BY <2>5, <3>1, Zenon
      <3> QED BY <3>2, Zenon DEF Sorting
    <2> QED BY <2>2, <2>6
  <1>3. n \in D
    <2> HIDE DEF D
    <2>1. \A m \in 0..(n - 1) : m \in D => m + 1 \in D
      BY <1>2
    <2> QED BY <1>1, <2>1, UpTo
  <1> QED BY <1>3

LEMMA SortedUnfolds ==
  ASSUME NEW s
  PROVE  Sorted(s) = (CHOOSE f : Sorting(s, Len(s), f))[Len(s)]
  BY Zenon DEF Sorted, Sorting

\* What is sorted ascends, and has every number as often.
LEMMA SortedIs ==
  ASSUME NEW V \in SUBSET Int, NEW s \in Seq(V)
  PROVE  SortsFirst(V, s, Len(s), Sorted(s))
  <1>1. PICK n : n = Len(s)
    OBVIOUS
  <1>2. n \in Nat
    BY <1>1, LenProperties
  <1>3. PICK f : f = (CHOOSE g : Sorting(s, n, g))
    OBVIOUS
  <1>4. Sorting(s, n, f)
    <2>1. \E g : Sorting(s, n, g)
      BY <1>2, SortingExists
    <2> QED BY <1>3, <2>1, Zenon
  <1>5. ASSUME NEW j \in 0..n
        PROVE  f[j] = IF j = 0 THEN <<>> ELSE Inserted(f[j - 1], s[j])
    <2>1. PICK h : h = [i \in 0..n |-> IF i = 0 THEN <<>> ELSE Inserted(f[i - 1], s[i])]
      OBVIOUS
    <2>2. h[j] = IF j = 0 THEN <<>> ELSE Inserted(f[j - 1], s[j])
      BY <2>1, Zenon
    <2>3. f = h
      BY <1>4, <2>1 DEF Sorting
    <2> QED BY <2>2, <2>3, Zenon
  <1> DEFINE D == {m \in 0..n : SortsFirst(V, s, m, f[m])}
  <1>6. 0 \in D
    <2>1. 0 \in 0..n /\ 0 \in 0..Len(s)
      BY <1>1, <1>2
    <2>2. f[0] = <<>>
      BY <1>5, <2>1, Zenon
    <2>3. PICK t : t = <<>>
      OBVIOUS
    <2>4. t \in Seq(V) /\ Len(t) = 0
      BY <2>3, EmptySeq
    <2>5. Ascending(t)
      BY <2>4 DEF Ascending
    <2>6. ASSUME NEW h \in [Int -> Int]
          PROVE  SumTo(Along(h, t), 0) = SumTo(Along(h, s), 0)
      <3>1. SumTo(Along(h, s), 0) = 0
        BY <2>1, AlongAre
      <3>2. 0 \in 0..Len(t)
        BY <2>4
      <3>3. SumTo(Along(h, t), 0) = 0
        BY <2>4, <3>2, AlongAre
      <3> QED BY <3>1, <3>3
    <2>7. SortsFirst(V, s, 0, t)
      BY <2>4, <2>5, <2>6 DEF SortsFirst
    <2> QED BY <2>1, <2>2, <2>3, <2>7
  <1>7. ASSUME NEW m \in 0..(n - 1), m \in D
        PROVE  m + 1 \in D
    <2>1. m + 1 \in 0..n /\ m + 1 # 0 /\ (m + 1) - 1 = m /\ m \in 0..(Len(s) - 1)
      BY <1>1, <1>2
    <2>2. f[m + 1] = Inserted(f[m], s[m + 1])
      BY <1>5, <2>1, Zenon
    <2>3. SortsFirst(V, s, m, f[m])
      BY <1>7
    <2>4. SortsFirst(V, s, m + 1, Inserted(f[m], s[m + 1]))
      BY <2>1, <2>3, SortsOneMore
    <2> QED BY <2>1, <2>2, <2>4
  <1>8. n \in D
    <2> HIDE DEF D
    <2>1. \A m \in 0..(n - 1) : m \in D => m + 1 \in D
      BY <1>7
    <2> QED BY <1>2, <1>6, <2>1, UpTo
  <1>9. SortsFirst(V, s, n, f[n])
    BY <1>8
  <1>10. Sorted(s) = f[n]
    BY <1>1, <1>3, SortedUnfolds, Zenon
  <1> QED BY <1>1, <1>9, <1>10, Zenon

-----------------------------------------------------------------------------
(* Percentiles, by counting.                                                 *)

Indicator(W) == [y \in Int |-> IF y \in W THEN 1 ELSE 0]

\* How many are in a set is a sum too.
LEMMA CountIs ==
  ASSUME NEW V \in SUBSET Int, NEW s \in Seq(V), NEW W
  PROVE  SumTo(Along(Indicator(W), s), Len(s)) = Cardinality({i \in 1..Len(s) : s[i] \in W})
  <1>1. PICK n, h : n = Len(s) /\ h = Indicator(W)
    OBVIOUS
  <1>2. n \in Nat /\ h \in [Int -> Int] /\ \A y \in Int : h[y] = IF y \in W THEN 1 ELSE 0
    BY <1>1, LenProperties DEF Indicator
  <1> DEFINE In(m) == {i \in 1..m : s[i] \in W}
             D == {m \in 0..n : IsFiniteSet(In(m)) /\ SumTo(Along(h, s), m) = Cardinality(In(m))}
  <1>3. 0 \in D
    <2>1. PICK S : S = In(0)
      OBVIOUS
    <2>2. S = {}
      BY <2>1
    <2>3. IsFiniteSet(S) /\ Cardinality(S) = 0
      BY <2>2, FS_EmptySet
    <2>4. 0 \in 0..n /\ 0 \in 0..Len(s)
      BY <1>1, <1>2
    <2>5. SumTo(Along(h, s), 0) = 0
      BY <1>2, <2>4, AlongAre
    <2> HIDE DEF In
    <2> QED BY <2>1, <2>3, <2>4, <2>5
  <1>4. ASSUME NEW m \in 0..(n - 1), m \in D
        PROVE  m + 1 \in D
    <2>1. m \in Nat /\ m + 1 \in 0..Len(s) /\ m + 1 \in 1..n /\ m + 1 \in 1..Len(s) /\ m + 1 \in 0..n
      BY <1>1, <1>2
    <2>2. SumTo(Along(h, s), m + 1) = SumTo(Along(h, s), m) + h[s[m + 1]]
      <3>1. PICK j : j = m + 1
        OBVIOUS
      <3>2. j \in 0..Len(s) /\ j # 0 /\ j - 1 = m
        BY <2>1, <3>1
      <3>3. h \in [Int -> Int]
        BY <1>2
      <3> HIDE DEF D, In
      <3>4. j # 0 => SumTo(Along(h, s), j) = SumTo(Along(h, s), j - 1) + h[s[j]]
        BY <3>2, <3>3, AlongAre
      <3> QED BY <3>1, <3>2, <3>4
    <2>3. s[m + 1] \in Int
      BY <2>1, ElementOfSeq
    <2>4. PICK S, T : S = In(m) /\ T = In(m + 1)
      OBVIOUS
    <2>5. IsFiniteSet(S) /\ SumTo(Along(h, s), m) = Cardinality(S)
      BY <1>4, <2>4
    <2>6. \A i : i \in 1..(m + 1) <=> i \in 1..m \/ i = m + 1
      BY <2>1
    <2>7. ~(m + 1 \in S)
      BY <2>1, <2>4
    <2>8. Cardinality(S) \in Nat
      BY <2>5, FS_CardinalityType
    <2>9. IsFiniteSet(T) /\ SumTo(Along(h, s), m + 1) = Cardinality(T)
      <3>1. CASE s[m + 1] \in W
        <4>1. T = S \cup {m + 1}
          BY <2>4, <2>6, <3>1
        <4>2. IsFiniteSet(T) /\ Cardinality(T) = Cardinality(S) + 1
          BY <2>5, <2>7, <4>1, FS_AddElement
        <4>3. h[s[m + 1]] = 1
          BY <1>2, <2>3, <3>1
        <4> QED BY <2>2, <2>5, <2>8, <4>2, <4>3
      <3>2. CASE ~(s[m + 1] \in W)
        <4>1. T = S
          BY <2>4, <2>6, <3>2
        <4>2. h[s[m + 1]] = 0
          BY <1>2, <2>3, <3>2
        <4> QED BY <2>2, <2>5, <2>8, <4>1, <4>2
      <3> QED BY <3>1, <3>2
    <2> HIDE DEF In
    <2> QED BY <2>1, <2>4, <2>9
  <1>5. n \in D
    <2> HIDE DEF D
    <2>1. \A m \in 0..(n - 1) : m \in D => m + 1 \in D
      BY <1>4
    <2> QED BY <1>2, <1>3, <2>1, UpTo
  <1> QED BY <1>1, <1>5

LEMMA SortedCounts ==
  ASSUME NEW V \in SUBSET Int, NEW s \in Seq(V), NEW W
  PROVE  Cardinality({i \in 1..Len(s) : s[i] \in W})
             = Cardinality({i \in 1..Len(s) : Sorted(s)[i] \in W})
  <1>1. PICK t, h, n : t = Sorted(s) /\ h = Indicator(W) /\ n = Len(s)
    OBVIOUS
  <1>2. SortsFirst(V, s, n, t)
    BY <1>1, SortedIs
  <1>3. h \in [Int -> Int]
    BY <1>1 DEF Indicator
  <1>4. t \in Seq(V) /\ Len(t) = n /\ SumTo(Along(h, t), n) = SumTo(Along(h, s), n)
    BY <1>2, <1>3 DEF SortsFirst
  <1>5. SumTo(Along(h, s), n) = Cardinality({i \in 1..n : s[i] \in W})
    BY <1>1, CountIs
  <1>6. SumTo(Along(h, t), n) = Cardinality({i \in 1..n : t[i] \in W})
    <2>1. SumTo(Along(Indicator(W), t), Len(t)) = Cardinality({i \in 1..Len(t) : t[i] \in W})
      BY <1>4, CountIs
    <2> QED BY <1>1, <1>4, <2>1, Zenon
  <1> QED BY <1>1, <1>4, <1>5, <1>6

\* The counts of the samples, from those in order.
LEMMA CountsInOrder ==
  ASSUME samples \in Seq(Values), NEW v \in Int
  PROVE  /\ Below(v) = Cardinality({i \in 1..Len(samples) : Sorted(samples)[i] < v})
         /\ NotAbove(v) = Cardinality({i \in 1..Len(samples) : Sorted(samples)[i] <= v})
  <1>1. PICK s, t, n : s = samples /\ t = Sorted(samples) /\ n = Len(samples)
    OBVIOUS
  <1>2. Values \in SUBSET Int
    BY StatisticsAssumption
  <1>3. s \in Seq(Values) /\ t \in Seq(Values) /\ Len(t) = n /\ Len(s) = n /\ DOMAIN s = 1..n
    <2>1. SortsFirst(Values, samples, Len(samples), Sorted(samples))
      BY <1>2, SortedIs
    <2>2. DOMAIN samples = 1..Len(samples)
      BY LenProperties
    <2> QED BY <1>1, <2>1, <2>2 DEF SortsFirst
  <1>4. \A i \in 1..n : s[i] \in Int /\ t[i] \in Int
    <2>1. \A i \in 1..Len(s) : s[i] \in Values
      BY <1>3, ElementOfSeq
    <2>2. \A i \in 1..Len(t) : t[i] \in Values
      BY <1>3, ElementOfSeq
    <2> QED BY <1>2, <1>3, <2>1, <2>2
  <1>5. PICK W : W = {y \in Int : y < v}
    OBVIOUS
  <1>6. PICK U : U = {y \in Int : y <= v}
    OBVIOUS
  <1>7. ASSUME NEW X
        PROVE  Cardinality({i \in 1..n : s[i] \in X}) = Cardinality({i \in 1..n : t[i] \in X})
    <2>1. Cardinality({i \in 1..Len(samples) : samples[i] \in X})
              = Cardinality({i \in 1..Len(samples) : Sorted(samples)[i] \in X})
      BY <1>2, SortedCounts
    <2> QED BY <1>1, <2>1, Zenon
  <1>8. Below(v) = Cardinality({i \in 1..n : t[i] < v})
    <2>1. {i \in DOMAIN s : s[i] < v} = {i \in 1..n : s[i] \in W}
      BY <1>3, <1>4, <1>5
    <2>2. {i \in 1..n : t[i] < v} = {i \in 1..n : t[i] \in W}
      BY <1>4, <1>5
    <2>3. Below(v) = Cardinality({i \in DOMAIN s : s[i] < v})
      BY <1>1, Zenon DEF Below
    <2> QED BY <1>7, <2>1, <2>2, <2>3, Zenon
  <1>9. NotAbove(v) = Cardinality({i \in 1..n : t[i] <= v})
    <2>1. {i \in DOMAIN s : s[i] <= v} = {i \in 1..n : s[i] \in U}
      BY <1>3, <1>4, <1>6
    <2>2. {i \in 1..n : t[i] <= v} = {i \in 1..n : t[i] \in U}
      BY <1>4, <1>6
    <2>3. NotAbove(v) = Cardinality({i \in DOMAIN s : s[i] <= v})
      BY <1>1, Zenon DEF NotAbove
    <2> QED BY <1>7, <2>1, <2>2, <2>3, Zenon
  <1> QED BY <1>1, <1>8, <1>9

\* What a larger number has below it has whatever a smaller one has not above it.
LEMMA CountsRise ==
  ASSUME samples \in Seq(Values), NEW v \in Int, NEW w \in Int, v < w
  PROVE  /\ NotAbove(v) \in Nat /\ Below(w) \in Nat /\ NotAbove(v) <= Below(w)
  <1>1. PICK S : S = {i \in DOMAIN samples : samples[i] <= v}
    OBVIOUS
  <1>2. PICK T : T = {i \in DOMAIN samples : samples[i] < w}
    OBVIOUS
  <1>3. IsFiniteSet(DOMAIN samples) /\ \A i \in DOMAIN samples : samples[i] \in Int
    <2>1. DOMAIN samples = 1..Len(samples) /\ Len(samples) \in Nat
      BY LenProperties
    <2>2. \A i \in 1..Len(samples) : samples[i] \in Values
      BY ElementOfSeq
    <2>3. PICK n : n = Len(samples)
      OBVIOUS
    <2>4. IsFiniteSet(1..n)
      BY <2>1, <2>3, FS_Interval
    <2> QED BY <2>1, <2>2, <2>3, <2>4, StatisticsAssumption
  <1>4. S \subseteq T
    BY <1>1, <1>2, <1>3
  <1>5. IsFiniteSet(T)
    <2>1. T \in SUBSET DOMAIN samples
      BY <1>2
    <2> QED BY <1>3, <2>1, FS_Subset
  <1>6. IsFiniteSet(S) /\ Cardinality(S) <= Cardinality(T)
    <2>1. S \in SUBSET T
      BY <1>4
    <2> QED BY <1>5, <2>1, FS_Subset
  <1>7. Cardinality(S) \in Nat /\ Cardinality(T) \in Nat
    BY <1>5, <1>6, FS_CardinalityType
  <1>8. NotAbove(v) = Cardinality(S) /\ Below(w) = Cardinality(T)
    BY <1>1, <1>2, Zenon DEF NotAbove, Below
  <1> QED BY <1>6, <1>7, <1>8

\* The order statistics are the sorted samples.
LEMMA OrderStatisticIs ==
  ASSUME samples \in Seq(Values), NEW k \in 0..(Len(samples) - 1)
  PROVE  OrderStatistic(k) = Sorted(samples)[k + 1]
  <1>1. PICK t, n : t = Sorted(samples) /\ n = Len(samples)
    OBVIOUS
  <1>2. Values \in SUBSET Int
    BY StatisticsAssumption
  <1>3. n \in Nat /\ k \in Nat /\ k + 1 \in 1..n /\ t \in Seq(Values) /\ Len(t) = n /\ Ascending(t)
    <2>1. SortsFirst(Values, samples, Len(samples), Sorted(samples))
      BY <1>2, SortedIs
    <2>2. Len(samples) \in Nat
      BY LenProperties
    <2> QED BY <1>1, <2>1, <2>2 DEF SortsFirst
  <1>4. \A i \in 1..n : t[i] \in Values /\ t[i] \in Int
    <2>1. \A i \in 1..Len(t) : t[i] \in Values
      BY <1>3, ElementOfSeq
    <2> QED BY <1>2, <1>3, <2>1
  <1>5. PICK v : v = t[k + 1]
    OBVIOUS
  <1>6. v \in Values /\ v \in Int
    BY <1>3, <1>4, <1>5
  <1>7. PICK S : S = {i \in 1..n : t[i] < v}
    OBVIOUS
  <1>8. PICK T : T = {i \in 1..n : t[i] <= v}
    OBVIOUS
  <1>9. Below(v) = Cardinality(S) /\ NotAbove(v) = Cardinality(T)
    BY <1>1, <1>6, <1>7, <1>8, CountsInOrder
  <1>10. Cardinality(S) \in Nat /\ Cardinality(S) <= k
    <2>1. \A i \in S : i \in 1..k
      <3> SUFFICES ASSUME NEW i \in S
                   PROVE  i \in 1..k
        OBVIOUS
      <3>1. i \in 1..n /\ t[i] < v /\ t[i] \in Int
        BY <1>4, <1>7
      <3>2. ASSUME k + 1 <= i
            PROVE  FALSE
        <4>1. t[k + 1] <= t[i]
          BY <1>3, <3>1, <3>2 DEF Ascending
        <4> QED BY <1>5, <1>6, <3>1, <4>1
      <3> QED BY <1>3, <3>1, <3>2
    <2>2. IsFiniteSet(1..k) /\ Cardinality(1..k) = k
      BY <1>3, FS_Interval
    <2>3. S \in SUBSET (1..k)
      BY <2>1
    <2>4. IsFiniteSet(S) /\ Cardinality(S) <= Cardinality(1..k)
      BY <2>2, <2>3, FS_Subset
    <2> QED BY <2>2, <2>4, FS_CardinalityType
  <1>11. Cardinality(T) \in Nat /\ k < Cardinality(T)
    <2>1. \A i \in 1..(k + 1) : i \in T
      <3> SUFFICES ASSUME NEW i \in 1..(k + 1)
                   PROVE  i \in T
        OBVIOUS
      <3>1. i \in 1..n /\ i <= k + 1
        BY <1>3
      <3>2. t[i] <= t[k + 1]
        BY <1>3, <3>1 DEF Ascending
      <3> QED BY <1>5, <1>8, <3>1, <3>2
    <2>2. IsFiniteSet(T)
      <3>1. IsFiniteSet(1..n)
        BY <1>3, FS_Interval
      <3>2. T \in SUBSET (1..n)
        BY <1>8
      <3> QED BY <3>1, <3>2, FS_Subset
    <2>3. PICK j : j = k + 1
      OBVIOUS
    <2>4. Cardinality(1..j) = j
      BY <1>3, <2>3, FS_Interval
    <2>5. (1..j) \in SUBSET T
      BY <2>1, <2>3
    <2>6. Cardinality(1..j) <= Cardinality(T) /\ Cardinality(T) \in Nat
      BY <2>2, <2>5, FS_Subset, FS_CardinalityType
    <2> QED BY <1>3, <2>3, <2>4, <2>6
  <1>12. Below(v) <= k /\ k < NotAbove(v) /\ Below(v) \in Nat /\ NotAbove(v) \in Nat
    BY <1>9, <1>10, <1>11
  <1>13. ASSUME NEW w \in Values, Below(w) <= k, k < NotAbove(w)
         PROVE  w = v
    <2>1. w \in Int
      BY <1>2
    <2>2. ASSUME v < w
          PROVE  FALSE
      <3>1. NotAbove(v) <= Below(w) /\ Below(w) \in Nat
        BY <1>6, <2>1, <2>2, CountsRise
      <3> QED BY <1>3, <1>12, <1>13, <3>1
    <2>3. ASSUME w < v
          PROVE  FALSE
      <3>1. NotAbove(w) <= Below(v) /\ NotAbove(w) \in Nat
        BY <1>6, <2>1, <2>3, CountsRise
      <3> QED BY <1>3, <1>12, <1>13, <3>1
    <2> QED BY <1>6, <2>1, <2>2, <2>3
  <1>14. OrderStatistic(k) = v
    <2>1. PICK w : w = OrderStatistic(k)
      OBVIOUS
    <2>2. w \in Values /\ Below(w) <= k /\ k < NotAbove(w)
      BY <1>6, <1>12, <2>1, Zenon DEF OrderStatistic
    <2> QED BY <1>13, <2>1, <2>2
  <1> QED BY <1>1, <1>5, <1>14

LEMMA QuantileIs ==
  ASSUME samples \in Seq(Values), samples # <<>>, NEW f \in 0..20
  PROVE  percentile(Sorted(samples), f) = Quantile(f)
  <1>1. PICK t, n : t = Sorted(samples) /\ n = Len(samples)
    OBVIOUS
  <1>2. Values \in SUBSET Int
    BY StatisticsAssumption
  <1>3. n \in Nat \ {0} /\ t \in Seq(Values) /\ Len(t) = n
    <2>1. SortsFirst(Values, samples, Len(samples), Sorted(samples))
      BY <1>2, SortedIs
    <2>2. Len(samples) \in Nat \ {0}
      BY EmptySeq
    <2> QED BY <1>1, <2>1, <2>2 DEF SortsFirst
  <1>4. \A i \in 1..n : t[i] \in Int
    <2>1. \A i \in 1..Len(t) : t[i] \in Values
      BY <1>3, ElementOfSeq
    <2> QED BY <1>2, <1>3, <2>1
  <1>5. PICK p : p = f * (n - 1)
    OBVIOUS
  <1>6. /\ p \in Nat /\ p % 20 \in 0..19
        /\ lower_index(p) \in 1..n /\ upper_index(p) \in 1..n
    BY <1>3, <1>5, Neighbours DEF position
  <1>7. PICK k, rest : k = p \div 20 /\ rest = p % 20
    OBVIOUS
  <1>8. /\ k \in Nat /\ rest \in 0..19 /\ p = 20 * k + rest /\ rest = p - 20 * k
        /\ lower_index(p) = k + 1
        /\ upper_index(p) = IF rest = 0 THEN k + 1 ELSE k + 2
    BY <1>6, <1>7 DEF lower_index, upper_index
  <1>9. \A i \in 0..(n - 1) : OrderStatistic(i) = t[i + 1]
    BY <1>1, OrderStatisticIs
  <1>10. k \in 0..(n - 1) /\ OrderStatistic(k) = t[k + 1] /\ t[k + 1] \in Int
    <2>1. k \in 0..(n - 1) /\ k + 1 \in 1..n
      BY <1>3, <1>6, <1>8
    <2> QED BY <1>4, <1>9, <2>1
  <1>11. Quantile(f) = IF rest = 0 THEN 20 * OrderStatistic(k)
                       ELSE 20 * OrderStatistic(k)
                                + rest * (OrderStatistic(k + 1) - OrderStatistic(k))
    BY <1>1, <1>5, <1>7, <1>8 DEF Quantile
  <1>12. CASE n = 1
    <2>1. p = 0 /\ rest = 0 /\ k = 0
      BY <1>5, <1>7, <1>12
    <2>2. percentile(t, f) = 20 * t[1]
      BY <1>3, <1>12 DEF percentile
    <2> QED BY <1>1, <1>10, <1>11, <2>1, <2>2
  <1>13. CASE n # 1
    <2>1. percentile(t, f) = Interpolate(t[lower_index(p)], t[upper_index(p)], rest)
      BY <1>3, <1>5, <1>7, <1>13 DEF percentile, position
    <2>2. CASE rest = 0
      <3>1. percentile(t, f) = t[k + 1] * (20 - 0) + t[k + 1] * 0
        BY <1>8, <2>1, <2>2 DEF Interpolate
      <3>2. percentile(t, f) = 20 * t[k + 1]
        BY <1>10, <3>1
      <3> QED BY <1>1, <1>10, <1>11, <2>2, <3>2
    <2>3. CASE rest # 0
      <3>1. k + 2 \in 1..n /\ k + 1 \in 0..(n - 1) /\ (k + 1) + 1 = k + 2
        BY <1>3, <1>6, <1>8, <2>3
      <3>2. OrderStatistic(k + 1) = t[k + 2] /\ t[k + 2] \in Int
        <4>1. OrderStatistic(k + 1) = t[(k + 1) + 1]
          BY <1>9, <3>1
        <4> QED BY <1>4, <3>1, <4>1
      <3>3. PICK a, b : a = t[k + 1] /\ b = t[k + 2]
        OBVIOUS
      <3>4. a \in Int /\ b \in Int /\ rest \in Int
        BY <1>8, <1>10, <3>2, <3>3
      <3>5. percentile(t, f) = a * (20 - rest) + b * rest
        BY <1>8, <2>1, <2>3, <3>3 DEF Interpolate
      <3>6. Quantile(f) = 20 * a + rest * (b - a)
        BY <1>10, <1>11, <2>3, <3>2, <3>3
      <3>7. a * (20 - rest) + b * rest = 20 * a + rest * (b - a)
        BY <3>4
      <3> QED BY <1>1, <3>5, <3>6, <3>7
    <2> QED BY <2>2, <2>3
  <1> QED BY <1>12, <1>13

-----------------------------------------------------------------------------
(* Deviations, by what their squares expand to.                              *)

Same == [y \in Int |-> y]
Squared == [y \in Int |-> y * y]
Delta(n, sum) == [y \in Int |-> (n * y - sum) * (n * y - sum)]

LEMMA SquareExpands ==
  ASSUME NEW n \in Int, NEW sum \in Int, NEW x \in Int, NEW m \in Int,
         NEW deltas, NEW squares \in Int, NEW plain \in Int,
         deltas = (n * n) * squares - (2 * n * sum) * plain + m * (sum * sum)
  PROVE  deltas + (n * x - sum) * (n * x - sum)
             = (n * n) * (squares + x * x) - (2 * n * sum) * (plain + x)
                   + (m + 1) * (sum * sum)
  <1>1. (n * x - sum) * (n * x - sum)
            = (n * n) * (x * x) - (2 * n * sum) * x + sum * sum
    OBVIOUS
  <1>2. (n * n) * (squares + x * x) = (n * n) * squares + (n * n) * (x * x)
    OBVIOUS
  <1>3. (2 * n * sum) * (plain + x) = (2 * n * sum) * plain + (2 * n * sum) * x
    OBVIOUS
  <1>4. (m + 1) * (sum * sum) = m * (sum * sum) + sum * sum
    OBVIOUS
  <1>5. PICK a, b, c, d, e, g : /\ a = (n * n) * squares /\ b = (n * n) * (x * x)
                                /\ c = (2 * n * sum) * plain /\ d = (2 * n * sum) * x
                                /\ e = m * (sum * sum) /\ g = sum * sum
    OBVIOUS
  <1>6. a \in Int /\ b \in Int /\ c \in Int /\ d \in Int /\ e \in Int /\ g \in Int
    BY <1>5
  <1>7. deltas = a - c + e /\ (n * x - sum) * (n * x - sum) = b - d + g
    BY <1>1, <1>5
  <1>8. (a - c + e) + (b - d + g) = (a + b) - (c + d) + (e + g)
    BY <1>6
  <1> QED BY <1>2, <1>3, <1>4, <1>5, <1>7, <1>8

LEMMA DeltasExpand ==
  ASSUME NEW V \in SUBSET Int, NEW s \in Seq(V), NEW n \in Int, NEW sum \in Int
  PROVE  SumTo(Along(Delta(n, sum), s), Len(s))
             = (n * n) * SumTo(Along(Squared, s), Len(s))
                   - (2 * n * sum) * SumTo(Along(Same, s), Len(s)) + Len(s) * (sum * sum)
  <1>1. PICK h, g, i, l : h = Delta(n, sum) /\ g = Squared /\ i = Same /\ l = Len(s)
    OBVIOUS
  <1>2. /\ h \in [Int -> Int] /\ \A y \in Int : h[y] = (n * y - sum) * (n * y - sum)
    BY <1>1 DEF Delta
  <1>3. /\ g \in [Int -> Int] /\ \A y \in Int : g[y] = y * y
    BY <1>1 DEF Squared
  <1>4. /\ i \in [Int -> Int] /\ \A y \in Int : i[y] = y
    BY <1>1 DEF Same
  <1>5. l \in Nat /\ \A m \in 1..l : s[m] \in Int
    <2>1. \A m \in 1..Len(s) : s[m] \in V
      BY ElementOfSeq
    <2> QED BY <1>1, <2>1, LenProperties
  <1> DEFINE Expands(m) == SumTo(Along(h, s), m)
                               = (n * n) * SumTo(Along(g, s), m)
                                     - (2 * n * sum) * SumTo(Along(i, s), m) + m * (sum * sum)
             D == {m \in 0..l : Expands(m)}
  <1>6. ASSUME NEW m \in 0..l, NEW f \in [Int -> Int]
        PROVE  /\ SumTo(Along(f, s), m) \in Int /\ SumTo(Along(f, s), 0) = 0
               /\ m # 0 => SumTo(Along(f, s), m) = SumTo(Along(f, s), m - 1) + f[s[m]]
    <2>1. m \in 0..Len(s)
      BY <1>1
    <2> QED BY <2>1, AlongAre
  <1>7. 0 \in D
    <2>1. 0 \in 0..l
      BY <1>5
    <2>2. /\ SumTo(Along(h, s), 0) = 0 /\ SumTo(Along(g, s), 0) = 0 /\ SumTo(Along(i, s), 0) = 0
      BY <1>2, <1>3, <1>4, <1>6, <2>1
    <2>3. 0 = (n * n) * 0 - (2 * n * sum) * 0 + 0 * (sum * sum)
      OBVIOUS
    <2> QED BY <2>1, <2>2, <2>3
  <1>8. ASSUME NEW m \in 0..(l - 1), m \in D
        PROVE  m + 1 \in D
    <2>1. m \in 0..l /\ m \in Int /\ m + 1 \in 0..l /\ m + 1 # 0 /\ (m + 1) - 1 = m /\ m + 1 \in 1..l
      BY <1>5
    <2>2. PICK x, j : x = s[m + 1] /\ j = m + 1
      OBVIOUS
    <2>3. x \in Int
      BY <1>5, <2>1, <2>2
    <2>4. ASSUME NEW f \in [Int -> Int]
          PROVE  SumTo(Along(f, s), j) = SumTo(Along(f, s), m) + f[x]
      <3>1. j \in 0..l /\ j # 0 /\ j - 1 = m
        BY <2>1, <2>2
      <3>2. SumTo(Along(f, s), j) = SumTo(Along(f, s), j - 1) + f[s[j]]
        BY <1>6, <3>1
      <3> QED BY <2>2, <3>1, <3>2
    <2>5. PICK a, b, c : /\ a = SumTo(Along(h, s), m) /\ b = SumTo(Along(g, s), m)
                         /\ c = SumTo(Along(i, s), m)
      OBVIOUS
    <2>6. a \in Int /\ b \in Int /\ c \in Int
      BY <1>2, <1>3, <1>4, <1>6, <2>1, <2>5
    <2>7. a = (n * n) * b - (2 * n * sum) * c + m * (sum * sum)
      BY <1>8, <2>5
    <2>8. a + (n * x - sum) * (n * x - sum)
              = (n * n) * (b + x * x) - (2 * n * sum) * (c + x) + (m + 1) * (sum * sum)
      BY <2>1, <2>3, <2>6, <2>7, SquareExpands
    <2>9. /\ SumTo(Along(h, s), j) = a + (n * x - sum) * (n * x - sum)
          /\ SumTo(Along(g, s), j) = b + x * x
          /\ SumTo(Along(i, s), j) = c + x
      <3>1. /\ SumTo(Along(h, s), j) = a + h[x] /\ SumTo(Along(g, s), j) = b + g[x]
            /\ SumTo(Along(i, s), j) = c + i[x]
        BY <1>2, <1>3, <1>4, <2>4, <2>5
      <3> QED BY <1>2, <1>3, <1>4, <2>3, <3>1
    <2>10. Expands(j)
      BY <2>2, <2>8, <2>9, Zenon
    <2> QED BY <2>1, <2>2, <2>10
  <1>9. l \in D
    <2> HIDE DEF D
    <2>1. \A m \in 0..(l - 1) : m \in D => m + 1 \in D
      BY <1>8
    <2> QED BY <1>5, <1>7, <2>1, UpTo
  <1> QED BY <1>1, <1>9

\* No square is above the sum of all.
LEMMA SquaresBelowSum ==
  ASSUME NEW f, NEW n \in Nat, \A i \in 1..n : f[i] \in Nat
  PROVE  SumTo(f, n) \in Nat /\ \A i \in 1..n : f[i] <= SumTo(f, n)
  <1> DEFINE D == {m \in 0..n : SumTo(f, m) \in Nat /\ \A i \in 1..m : f[i] <= SumTo(f, m)}
  <1>1. ASSUME NEW m \in 0..n
        PROVE  /\ SumTo(f, m) \in Int /\ SumTo(f, 0) = 0
               /\ m # 0 => SumTo(f, m) = SumTo(f, m - 1) + f[m]
    <2>1. m \in Nat /\ \A i \in 1..m : f[i] \in Int
      OBVIOUS
    <2> QED BY <2>1, SumToNext
  <1>2. 0 \in D
    <2>1. 0 \in 0..n
      OBVIOUS
    <2> QED BY <1>1, <2>1
  <1>3. ASSUME NEW m \in 0..(n - 1), m \in D
        PROVE  m + 1 \in D
    <2>1. m + 1 \in 0..n /\ m + 1 \in 1..n /\ m + 1 # 0 /\ (m + 1) - 1 = m
      OBVIOUS
    <2>2. SumTo(f, m + 1) = SumTo(f, m) + f[m + 1]
      <3>1. PICK j : j = m + 1
        OBVIOUS
      <3>2. j \in 0..n /\ j # 0 /\ j - 1 = m
        BY <2>1, <3>1
      <3>3. SumTo(f, j) = SumTo(f, j - 1) + f[j]
        BY <1>1, <3>2
      <3> QED BY <3>1, <3>2, <3>3
    <2>3. SumTo(f, m) \in Nat /\ f[m + 1] \in Nat
      BY <1>3, <2>1
    <2>4. ASSUME NEW i \in 1..(m + 1)
          PROVE  f[i] <= SumTo(f, m + 1)
      <3>1. CASE i = m + 1
        BY <2>2, <2>3, <3>1
      <3>2. CASE i # m + 1
        <4>1. i \in 1..m /\ i \in 1..n
          BY <3>2
        <4>2. f[i] <= SumTo(f, m) /\ f[i] \in Nat
          BY <1>3, <4>1
        <4> QED BY <2>2, <2>3, <4>2
      <3> QED BY <3>1, <3>2
    <2> QED BY <2>1, <2>2, <2>3, <2>4
  <1>4. n \in D
    <2> HIDE DEF D
    <2>1. \A m \in 0..(n - 1) : m \in D => m + 1 \in D
      BY <1>3
    <2> QED BY <1>2, <2>1, UpTo
  <1> QED BY <1>4

\* If every number is the same, the sum is that many times as much.
LEMMA SameSum ==
  ASSUME NEW f, NEW n \in Nat, NEW c \in Int, \A i \in 1..n : f[i] = c
  PROVE  SumTo(f, n) = n * c
  <1> DEFINE D == {m \in 0..n : SumTo(f, m) = m * c}
  <1>1. ASSUME NEW m \in 0..n
        PROVE  /\ SumTo(f, m) \in Int /\ SumTo(f, 0) = 0
               /\ m # 0 => SumTo(f, m) = SumTo(f, m - 1) + f[m]
    <2>1. m \in Nat /\ \A i \in 1..m : f[i] \in Int
      OBVIOUS
    <2> QED BY <2>1, SumToNext
  <1>2. 0 \in D
    <2>1. 0 \in 0..n /\ 0 * c = 0
      OBVIOUS
    <2> QED BY <1>1, <2>1
  <1>3. ASSUME NEW m \in 0..(n - 1), m \in D
        PROVE  m + 1 \in D
    <2>1. PICK j : j = m + 1
      OBVIOUS
    <2>2. j \in 0..n /\ j \in 1..n /\ j # 0 /\ j - 1 = m
      BY <2>1
    <2>3. SumTo(f, j) = SumTo(f, j - 1) + f[j]
      BY <1>1, <2>2
    <2>4. SumTo(f, j) = m * c + c
      BY <1>3, <2>2, <2>3
    <2>5. m * c + c = (m + 1) * c
      OBVIOUS
    <2> QED BY <2>1, <2>2, <2>4, <2>5
  <1>4. n \in D
    <2> HIDE DEF D
    <2>1. \A m \in 0..(n - 1) : m \in D => m + 1 \in D
      BY <1>3
    <2> QED BY <1>2, <2>1, UpTo
  <1> QED BY <1>4

\* Functions that agree on a set have the same sum there.
Alike(f, g, S) == IsFiniteSet(S) /\ \A x \in S : f[x] \in Int /\ f[x] = g[x]

LEMMA AlikeSums ==
  ASSUME NEW f, NEW g, NEW S, Alike(f, g, S)
  PROVE  SumFunctionOnSet(f, S) = SumFunctionOnSet(g, S)
  <1>1. IsFiniteSet(S) /\ \A x \in S : f[x] \in Int /\ f[x] = g[x]
    BY DEF Alike
  <1>2. S \subseteq S /\ \A x \in S \ S : g[x] = 0
    OBVIOUS
  <1> QED BY <1>1, <1>2, SumSame

\* A sum over a sequence, as the library folds it.
ReadsAlong(g, h, s) == DOMAIN g = 1..Len(s) /\ \A i \in 1..Len(s) : g[i] = h[s[i]]

LEMMA SequenceSum ==
  ASSUME NEW V \in SUBSET Int, NEW s \in Seq(V), NEW h \in [Int -> Int],
         NEW g, ReadsAlong(g, h, s)
  PROVE  SumFunction(g) = SumTo(Along(h, s), Len(s))
  <1>1. PICK n, f, S : n = Len(s) /\ f = Along(h, s) /\ S = 1..n
    OBVIOUS
  <1>2. n \in Nat /\ n \in 0..Len(s)
    BY <1>1, LenProperties
  <1>3. \A i \in 1..n : f[i] = h[s[i]] /\ f[i] \in Int
    BY <1>1, <1>2, AlongAre
  <1>4. IsFiniteSet(S) /\ S \subseteq S /\ \A i \in S \ S : f[i] = 0
    BY <1>1, <1>2, FS_Interval
  <1>5. \A i \in S : g[i] \in Int /\ g[i] = f[i]
    BY <1>1, <1>3 DEF ReadsAlong
  <1>6. SumFunctionOnSet(g, S) = SumFunctionOnSet(f, S)
    <2>1. Alike(g, f, S)
      BY <1>4, <1>5 DEF Alike
    <2> QED BY <2>1, AlikeSums
  <1>7. DOMAIN g = S
    BY <1>1 DEF ReadsAlong
  <1> QED BY <1>1, <1>6, <1>7, Zenon DEF SumFunction, SumTo

\* What the summary computes from the samples in order, from the samples.
LEMMA DeviationsAre ==
  ASSUME NEW V \in SUBSET Int, NEW s \in Seq(V)
  PROVE  /\ SumFunction(s) = SumTo(Along(Same, s), Len(s))
         /\ deviations(s) = SumTo(Along(Delta(Len(s), SumFunction(s)), s), Len(s))
  <1>1. /\ Len(s) \in Nat /\ DOMAIN s = 1..Len(s) /\ \A i \in 1..Len(s) : s[i] \in Int
    <2>1. \A i \in 1..Len(s) : s[i] \in V
      BY ElementOfSeq
    <2> QED BY <2>1, LenProperties
  <1>2. SumFunction(s) = SumTo(Along(Same, s), Len(s)) /\ SumFunction(s) \in Int
    <2>1. PICK h : h = Same
      OBVIOUS
    <2>2. h \in [Int -> Int] /\ \A i \in 1..Len(s) : s[i] = h[s[i]]
      BY <1>1, <2>1 DEF Same
    <2>3. SumFunction(s) = SumTo(Along(h, s), Len(s))
      BY <1>1, <2>2, SequenceSum DEF ReadsAlong
    <2>4. Len(s) \in 0..Len(s)
      BY <1>1
    <2>5. SumTo(Along(h, s), Len(s)) \in Int
      BY <2>2, <2>4, AlongAre
    <2> QED BY <2>1, <2>3, <2>5
  <1>3. deviations(s) = SumTo(Along(Delta(Len(s), SumFunction(s)), s), Len(s))
    <2>1. PICK n, sum, h : n = Len(s) /\ sum = SumFunction(s) /\ h = Delta(n, sum)
      OBVIOUS
    <2>2. PICK g : g = [i \in DOMAIN s |-> (n * s[i] - sum) * (n * s[i] - sum)]
      OBVIOUS
    <2>3. n \in Int /\ sum \in Int
      BY <1>1, <1>2, <2>1
    <2>4. h \in [Int -> Int] /\ \A y \in Int : h[y] = (n * y - sum) * (n * y - sum)
      BY <2>1, <2>3 DEF Delta
    <2>5. DOMAIN g = 1..Len(s) /\ \A i \in 1..Len(s) : g[i] = h[s[i]]
      BY <1>1, <2>2, <2>4
    <2>6. SumFunction(g) = SumTo(Along(h, s), Len(s))
      BY <2>4, <2>5, SequenceSum DEF ReadsAlong
    <2>7. deviations(s) = SumFunction(g)
      BY <2>1, <2>2, Zenon DEF deviations
    <2> QED BY <2>1, <2>6, <2>7
  <1> QED BY <1>2, <1>3

LEMMA SummaryFields ==
  ASSUME samples # <<>>, NEW t, t = Sorted(samples)
  PROVE  /\ Summary.deviations = deviations(t) /\ Summary.min = t[1] /\ Summary.max = t[Len(t)]
         /\ Summary.p50 = percentile(t, 10) /\ Summary.p95 = percentile(t, 19)
  <1>1. PICK a, b, c, d, e, f, g :
            /\ a = Len(samples) /\ b = t[1] /\ c = t[Len(t)] /\ d = SumFunction(t)
            /\ e = deviations(t) /\ f = percentile(t, 10) /\ g = percentile(t, 19)
    OBVIOUS
  <1>2. Summary = [count |-> a, min |-> b, max |-> c, sum |-> d, deviations |-> e,
                   p50 |-> f, p95 |-> g]
    BY <1>1, Zenon DEF Summary, summarize_samples
  <1>3. /\ Summary.deviations = e /\ Summary.min = b /\ Summary.max = c
        /\ Summary.p50 = f /\ Summary.p95 = g
    BY <1>2
  <1> QED BY <1>1, <1>3

LEMMA PercentilesHold ==
  ASSUME samples \in Seq(Values)
  PROVE  PercentilesAreQuantiles
  <1> SUFFICES ASSUME samples # <<>>
               PROVE  Summary.p50 = Quantile(10) /\ Summary.p95 = Quantile(19)
    BY Zenon DEF PercentilesAreQuantiles
  <1>1. PICK t : t = Sorted(samples)
    OBVIOUS
  <1>2. Summary.p50 = percentile(t, 10) /\ Summary.p95 = percentile(t, 19)
    BY <1>1, SummaryFields
  <1>3. percentile(t, 10) = Quantile(10) /\ percentile(t, 19) = Quantile(19)
    <2>1. \A f \in 0..20 : percentile(t, f) = Quantile(f)
      BY <1>1, QuantileIs
    <2>2. 10 \in 0..20 /\ 19 \in 0..20
      OBVIOUS
    <2> QED BY <2>1, <2>2, Zenon
  <1> QED BY <1>2, <1>3, Zenon

\* Nothing deviates only if the first and the last of the sorted numbers are the same.
LEMMA NoDeviation ==
  ASSUME NEW V \in SUBSET Int, NEW t \in Seq(V), Ascending(t), NEW n, n = Len(t), n # 0,
         NEW sum, sum = SumTo(Along(Same, t), n)
  PROVE  SumTo(Along(Delta(n, sum), t), n) = 0 <=> t[1] = t[n]
  <1>1. PICK h, g, f, e : h = Delta(n, sum) /\ g = Same /\ f = Along(h, t) /\ e = Along(g, t)
    OBVIOUS
  <1>2. n \in Nat \ {0} /\ n \in 0..Len(t) /\ \A i \in 1..n : t[i] \in Int
    <2>1. \A i \in 1..Len(t) : t[i] \in V
      BY ElementOfSeq
    <2>2. Len(t) \in Nat
      BY LenProperties
    <2>3. n \in Nat \ {0} /\ n \in 0..Len(t)
      BY <2>2
    <2> QED BY <2>1, <2>3
  <1>3. g \in [Int -> Int] /\ \A y \in Int : g[y] = y
    BY <1>1 DEF Same
  <1>4. sum \in Int /\ \A i \in 1..n : e[i] = t[i]
    <2>1. /\ \A i \in 1..n : Along(g, t)[i] = g[t[i]]
          /\ SumTo(Along(g, t), n) \in Int
      BY <1>2, <1>3, AlongAre
    <2>2. sum = SumTo(e, n)
      BY <1>1
    <2> QED BY <1>1, <1>2, <1>3, <2>1, <2>2
  <1>5. h \in [Int -> Int] /\ \A y \in Int : h[y] = (n * y - sum) * (n * y - sum)
    BY <1>1, <1>2, <1>4 DEF Delta
  <1>6. ASSUME NEW i \in 1..n
        PROVE  f[i] = (n * t[i] - sum) * (n * t[i] - sum) /\ f[i] \in Nat
    <2>1. f[i] = h[t[i]]
      <3>1. h \in [Int -> Int] /\ n \in 0..Len(t)
        BY <1>2, <1>5
      <3>2. \A k \in 1..n : Along(h, t)[k] = h[t[k]]
        BY <3>1, AlongAre
      <3> QED BY <1>1, <3>2
    <2>2. PICK d : d = n * t[i] - sum
      OBVIOUS
    <2>3. d \in Int /\ f[i] = d * d
      <3>1. t[i] \in Int /\ n \in Int /\ sum \in Int
        BY <1>2, <1>4
      <3>2. f[i] = (n * t[i] - sum) * (n * t[i] - sum)
        BY <1>5, <2>1, <3>1
      <3> QED BY <2>2, <3>1, <3>2
    <2>4. d * d \in Nat
      <3>1. CASE d >= 0
        BY <2>3, <3>1
      <3>2. CASE d < 0
        <4>1. (-d) \in Nat /\ (-d) * (-d) = d * d
          BY <2>3, <3>2
        <4>2. (-d) * (-d) \in Nat
          BY <4>1
        <4> QED BY <4>1, <4>2
      <3> QED BY <2>3, <3>1, <3>2
    <2> QED BY <2>2, <2>3, <2>4
  <1>7. ASSUME SumTo(f, n) = 0
        PROVE  t[1] = t[n]
    <2>1. 1 \in 1..n /\ n \in 1..n
      BY <1>2
    <2>2. \A i \in 1..n : f[i] <= SumTo(f, n)
      BY <1>2, <1>6, SquaresBelowSum
    <2>3. ASSUME NEW i \in 1..n
          PROVE  n * t[i] = sum
      <3>1. PICK d : d = n * t[i] - sum
        OBVIOUS
      <3>2. d \in Int /\ f[i] = d * d /\ f[i] \in Nat /\ f[i] <= 0
        BY <1>2, <1>4, <1>6, <1>7, <2>2, <3>1
      <3>3. d * d = 0
        BY <3>2
      <3>4. d = 0
        BY <3>2, <3>3
      <3>5. n * t[i] \in Int
        BY <1>2
      <3> QED BY <1>4, <3>1, <3>4, <3>5
    <2>4. n * t[1] = n * t[n] /\ t[1] \in Int /\ t[n] \in Int
      BY <1>2, <2>1, <2>3
    <2>5. n * (t[1] - t[n]) = 0
      BY <1>2, <2>4
    <2> QED BY <1>2, <2>4, <2>5
  <1>8. ASSUME t[1] = t[n]
        PROVE  SumTo(f, n) = 0
    <2>1. PICK c : c = t[1]
      OBVIOUS
    <2>2. 1 \in 1..n /\ n \in 1..n /\ c \in Int
      BY <1>2, <2>1
    <2>3. ASSUME NEW i \in 1..n
          PROVE  t[i] = c
      <3>1. t[1] <= t[i] /\ t[i] <= t[n] /\ t[i] \in Int
        BY <1>2, <2>2 DEF Ascending
      <3> QED BY <1>8, <2>1, <2>2, <3>1
    <2>4. sum = n * c
      <3>1. \A i \in 1..n : e[i] = c
        BY <1>4, <2>3
      <3>2. SumTo(e, n) = n * c
        BY <1>2, <2>2, <3>1, SameSum
      <3> QED BY <1>1, <3>2
    <2>5. \A i \in 1..n : f[i] = 0
      <3>1. n * c - sum = 0
        BY <1>2, <2>2, <2>4
      <3>2. \A i \in 1..n : f[i] = (n * c - sum) * (n * c - sum)
        BY <1>6, <2>3
      <3> QED BY <3>1, <3>2
    <2>6. SumTo(f, n) = n * 0
      BY <1>2, <2>5, SameSum
    <2> QED BY <1>2, <2>6
  <1> QED BY <1>1, <1>7, <1>8

LEMMA DeviationsHold ==
  ASSUME samples \in Seq(Values)
  PROVE  DeviationsAreOfTheMean
  <1> SUFFICES ASSUME samples # <<>>
               PROVE  LET n == Len(samples)
                          squares == SumFunction([i \in 1..n |-> samples[i] * samples[i]])
                          sum == SumFunction(samples)
                      IN /\ Summary.deviations = n * (n * squares - sum * sum)
                         /\ Summary.deviations = 0 <=> Summary.min = Summary.max
    BY Zenon DEF DeviationsAreOfTheMean
  <1>1. PICK s, t, n, sum, squares :
            /\ s = samples /\ t = Sorted(samples) /\ n = Len(samples)
            /\ sum = SumFunction(samples)
            /\ squares = SumFunction([i \in 1..n |-> samples[i] * samples[i]])
    OBVIOUS
  <1>2. Values \in SUBSET Int
    BY StatisticsAssumption
  <1>3. SortsFirst(Values, s, n, t)
    BY <1>1, <1>2, SortedIs
  <1>4. /\ s \in Seq(Values) /\ t \in Seq(Values) /\ Len(t) = n /\ Len(s) = n /\ n \in Nat \ {0}
        /\ Ascending(t) /\ \A i \in 1..n : s[i] \in Int
    <2>1. \A i \in 1..Len(s) : s[i] \in Values
      BY <1>1, ElementOfSeq
    <2>2. Len(s) \in Nat \ {0}
      BY <1>1, EmptySeq
    <2> QED BY <1>1, <1>2, <1>3, <2>1, <2>2 DEF SortsFirst
  <1>5. \A h \in [Int -> Int] : SumTo(Along(h, t), n) = SumTo(Along(h, s), n)
    BY <1>3, Zenon DEF SortsFirst
  <1>6. PICK i, g : i = Same /\ g = Squared
    OBVIOUS
  <1>7. i \in [Int -> Int] /\ g \in [Int -> Int] /\ \A y \in Int : g[y] = y * y
    BY <1>6 DEF Same, Squared
  <1>8. sum = SumTo(Along(i, s), n) /\ sum = SumTo(Along(i, t), n) /\ SumFunction(t) = sum
    <2>1. SumFunction(s) = SumTo(Along(Same, s), Len(s))
      BY <1>2, <1>4, DeviationsAre
    <2>2. SumFunction(t) = SumTo(Along(Same, t), Len(t))
      BY <1>2, <1>4, DeviationsAre
    <2>3. SumTo(Along(i, t), n) = SumTo(Along(i, s), n)
      BY <1>5, <1>7
    <2> QED BY <1>1, <1>4, <1>6, <2>1, <2>2, <2>3, Zenon
  <1>9. /\ sum \in Int /\ SumTo(Along(g, s), n) \in Int
    <2>1. n \in 0..Len(s)
      BY <1>4
    <2>2. ASSUME NEW h \in [Int -> Int]
          PROVE  SumTo(Along(h, s), n) \in Int
      BY <1>2, <1>4, <2>1, AlongAre
    <2> QED BY <1>7, <1>8, <2>2
  <1>10. squares = SumTo(Along(g, s), n)
    <2>1. PICK f : f = [k \in 1..n |-> s[k] * s[k]]
      OBVIOUS
    <2>2. DOMAIN f = 1..Len(s) /\ \A k \in 1..Len(s) : f[k] = g[s[k]]
      BY <1>4, <1>7, <2>1
    <2>3. SumFunction(f) = SumTo(Along(g, s), Len(s))
      <3>1. ReadsAlong(f, g, s)
        BY <2>2 DEF ReadsAlong
      <3> QED BY <1>2, <1>4, <1>7, <3>1, SequenceSum
    <2>4. squares = SumFunction(f)
      BY <1>1, <2>1
    <2> QED BY <1>4, <2>3, <2>4
  <1>11. PICK h : h = Delta(n, sum)
    OBVIOUS
  <1>12. h \in [Int -> Int]
    BY <1>4, <1>9, <1>11 DEF Delta
  <1>13. /\ deviations(t) = SumTo(Along(h, t), n)
         /\ deviations(t) = SumTo(Along(h, s), n)
    <2>1. deviations(t) = SumTo(Along(Delta(Len(t), SumFunction(t)), t), Len(t))
      BY <1>2, <1>4, DeviationsAre
    <2>2. deviations(t) = SumTo(Along(h, t), n)
      BY <1>4, <1>8, <1>11, <2>1, Zenon
    <2> QED BY <1>5, <1>12, <2>2
  <1>14. SumTo(Along(h, s), n) = (n * n) * squares - (2 * n * sum) * sum + n * (sum * sum)
    <2>1. SumTo(Along(Delta(n, sum), s), Len(s))
              = (n * n) * SumTo(Along(Squared, s), Len(s))
                    - (2 * n * sum) * SumTo(Along(Same, s), Len(s)) + Len(s) * (sum * sum)
      <3>1. n \in Int
        BY <1>4
      <3> QED BY <1>2, <1>4, <1>9, <3>1, DeltasExpand
    <2> QED BY <1>4, <1>6, <1>8, <1>10, <1>11, <2>1, Zenon
  <1>15. deviations(t) = n * (n * squares - sum * sum)
    <2>1. n \in Int /\ squares \in Int /\ sum \in Int
      BY <1>4, <1>9, <1>10
    <2>2. (n * n) * squares - (2 * n * sum) * sum + n * (sum * sum) = n * (n * squares - sum * sum)
      BY <2>1
    <2> QED BY <1>13, <1>14, <2>2
  <1>16. deviations(t) = 0 <=> t[1] = t[n]
    <2>1. sum = SumTo(Along(Same, t), n)
      BY <1>6, <1>8
    <2>2. SumTo(Along(Delta(n, sum), t), n) = 0 <=> t[1] = t[n]
      BY <1>2, <1>4, <2>1, NoDeviation
    <2> QED BY <1>11, <1>13, <2>2
  <1>17. /\ Summary.deviations = deviations(t) /\ Summary.min = t[1] /\ Summary.max = t[n]
    <2>1. Summary.deviations = deviations(t) /\ Summary.min = t[1] /\ Summary.max = t[Len(t)]
      BY <1>1, SummaryFields
    <2> QED BY <1>4, <2>1
  <1>18. Summary.deviations = n * (n * squares - sum * sum)
    BY <1>15, <1>17
  <1>19. Summary.deviations = 0 <=> Summary.min = Summary.max
    BY <1>16, <1>17
  <1> QED BY <1>1, <1>18, <1>19, Zenon

LEMMA SamplesAre == SeriesSpec => [](samples \in Seq(Values))
  <1>1. SeriesInit => samples \in Seq(Values)
    BY DEF SeriesInit
  <1>2. samples \in Seq(Values) /\ [AppendSample]_samples => (samples \in Seq(Values))'
    <2> SUFFICES ASSUME samples \in Seq(Values), [AppendSample]_samples
                 PROVE  samples' \in Seq(Values)
      OBVIOUS
    <2>1. CASE UNCHANGED samples
      BY <2>1
    <2>2. CASE AppendSample
      <3>1. PICK value \in Values : samples' = Append(samples, value)
        BY <2>2 DEF AppendSample
      <3> QED BY <3>1, AppendProperties
    <2> QED BY <2>1, <2>2
  <1> QED BY <1>1, <1>2, PTL DEF SeriesSpec

\* The median and the 95th percentile of a summary are those of the samples, in whatever
\* order they came, however many there are.
THEOREM PercentilesAreTrue == SeriesSpec => []PercentilesAreQuantiles
  BY SamplesAre, PercentilesHold, PTL

\* The deviations are those of the whole series from its mean, and zero only if all the
\* samples are the same.
THEOREM DeviationsAreTrue == SeriesSpec => []DeviationsAreOfTheMean
  BY SamplesAre, DeviationsHold, PTL
=============================================================================
