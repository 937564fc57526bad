---------------------------- MODULE SumTheorems ----------------------------
(***************************************************************************)
(* Sums over finite sets, as the models take them with the folds of the    *)
(* community modules: what adding or changing a member does to a sum, that *)
(* sums over classes add up, and that a finite set of ones is counted.     *)
(* The folds are recursive functions; each is unfolded by showing that     *)
(* the function exists and that only one does.  The inductions this takes  *)
(* are over sets (NatInductive, SubsetsInductive), as no prover can        *)
(* instantiate the library's, which take operators.                        *)
(***************************************************************************)
EXTENDS Integers, FiniteSetsExt, FiniteSetTheorems, TLAPS

(* A set of numbers with 0 and, with each number, the next one has them    *)
(* all.  If t were missing, 0..t would be sent into 1..t without meeting.  *)
LEMMA NatInductive ==
    ASSUME NEW U \in SUBSET Nat, 0 \in U, \A n \in U : n + 1 \in U
    PROVE  U = Nat
<1>1. SUFFICES ASSUME NEW t \in Nat, t \notin U PROVE FALSE
  OBVIOUS
<1> DEFINE f == [n \in 0..t |-> IF n \in U THEN n + 1 ELSE n]
<1>2. f \in [0..t -> 1..t]
  <2>1. SUFFICES ASSUME NEW n \in 0..t PROVE f[n] \in 1..t
    OBVIOUS
  <2>2. CASE n \in U
    <3>1. n # t
      BY <1>1, <2>2
    <3> QED
      BY <2>2, <3>1
  <2>3. CASE n \notin U
    <3>1. n # 0
      BY <2>3
    <3> QED
      BY <2>3, <3>1
  <2> QED
    BY <2>2, <2>3
<1>3. \E x, y \in 0..t : x # y /\ f[x] = f[y]
  <2>1. /\ IsFiniteSet(0..t) /\ Cardinality(0..t) = t + 1
        /\ IsFiniteSet(1..t) /\ Cardinality(1..t) = t
    BY FS_Interval
  <2>2. t < t + 1
    BY <1>1
  <2> HIDE DEF f
  <2> QED
    BY <1>2, <2>1, <2>2, FS_PigeonHole, Zenon
<1>4. PICK x, y \in 0..t : x # y /\ f[x] = f[y]
  BY <1>3
<1>5. \A a, b \in 0..t : a \in U /\ b \notin U => f[a] # f[b]
  <2>1. SUFFICES ASSUME NEW a \in 0..t, NEW b \in 0..t, a \in U, b \notin U, f[a] = f[b]
                 PROVE FALSE
    OBVIOUS
  <2>2. a + 1 = b
    BY <2>1
  <2> QED
    BY <2>1, <2>2
<1>6. x \in U <=> y \in U
  BY <1>4, <1>5
<1> QED
  BY <1>4, <1>6

(* A family of subsets of a finite set has them all, if it has the empty   *)
(* one and each set that it has whenever it has those of one element less. *)
LEMMA SubsetsInductive ==
    ASSUME NEW S, IsFiniteSet(S), NEW F, {} \in F,
           \A T \in SUBSET S : T # {} /\ (\A x \in T : T \ {x} \in F) => T \in F
    PROVE  \A T \in SUBSET S : T \in F
<1> DEFINE U == {n \in Nat : \A T \in SUBSET S : Cardinality(T) = n => T \in F}
<1>1. \A T \in SUBSET S : IsFiniteSet(T) /\ Cardinality(T) \in Nat
  BY FS_Subset, FS_CardinalityType
<1>2. 0 \in U
  BY <1>1, FS_EmptySet
<1>3. \A n \in U : n + 1 \in U
  <2>1. SUFFICES ASSUME NEW n \in U, NEW T \in SUBSET S, Cardinality(T) = n + 1
                 PROVE T \in F
    OBVIOUS
  <2>2. n \in Nat /\ n + 1 # 0
    OBVIOUS
  <2>3. T # {}
    BY <2>1, <2>2, FS_EmptySet, Zenon
  <2>4. ASSUME NEW x \in T PROVE T \ {x} \in F
    <3>1. Cardinality(T \ {x}) = n
      <4>1. IsFiniteSet(T)
        BY <1>1
      <4>2. Cardinality(T \ {x}) = IF x \in T THEN Cardinality(T) - 1 ELSE Cardinality(T)
        BY <4>1, FS_RemoveElement, Zenon
      <4>3. Cardinality(T \ {x}) = (n + 1) - 1
        BY <2>1, <4>2, Zenon
      <4> QED
        BY <2>2, <4>3
    <3> QED
      BY <3>1
  <2> QED
    BY <2>3, <2>4
<1>4. U = Nat
  <2>1. U \in SUBSET Nat
    OBVIOUS
  <2> HIDE DEF U
  <2> QED
    BY <1>2, <1>3, <2>1, NatInductive
<1> QED
  BY <1>1, <1>4

-----------------------------------------------------------------------------
SumOf(w, S) == MapThenSumSet(LAMBDA x : w[x], S)

Pick(S) == CHOOSE x \in S : TRUE

IsSum(g, w, S) ==
    g = [s \in SUBSET S |-> IF s = {} THEN 0 ELSE w[Pick(s)] + g[s \ {Pick(s)}]]

LEMMA SumOfDef ==
    ASSUME NEW w, NEW S PROVE SumOf(w, S) = (CHOOSE g : IsSum(g, w, S))[S]
BY Zenon DEF SumOf, MapThenSumSet, MapThenFoldSet, IsSum, Pick

LEMMA PickIn == ASSUME NEW S, S # {} PROVE Pick(S) \in S
BY DEF Pick

LEMMA IsSumAt ==
    ASSUME NEW w, NEW S, NEW g, IsSum(g, w, S), NEW T \in SUBSET S
    PROVE  g[T] = IF T = {} THEN 0 ELSE w[Pick(T)] + g[T \ {Pick(T)}]
BY DEF IsSum

(* Two such functions agree wherever both are defined. *)
LEMMA SumUnique ==
    ASSUME NEW w, NEW S, IsFiniteSet(S), NEW A, NEW B, S \subseteq A, S \subseteq B,
           NEW g, IsSum(g, w, A), NEW h, IsSum(h, w, B)
    PROVE  g[S] = h[S]
<1> DEFINE F == {T \in SUBSET S : g[T] = h[T]}
<1>1. {} \in F
  BY IsSumAt
<1>2. \A T \in SUBSET S : T # {} /\ (\A x \in T : T \ {x} \in F) => T \in F
  <2>1. SUFFICES ASSUME NEW T \in SUBSET S, T # {}, \A x \in T : T \ {x} \in F PROVE T \in F
    OBVIOUS
  <2>2. Pick(T) \in T /\ T \ {Pick(T)} \in F
    BY <2>1, PickIn
  <2>3. g[T] = w[Pick(T)] + g[T \ {Pick(T)}] /\ h[T] = w[Pick(T)] + h[T \ {Pick(T)}]
    BY <2>1, IsSumAt
  <2> QED
    BY <2>2, <2>3
<1> HIDE DEF F
<1>3. \A T \in SUBSET S : T \in F
  BY <1>1, <1>2, SubsetsInductive
<1> QED
  BY <1>3 DEF F

(* There is such a function, and so the sum obeys its equation. *)
LEMMA SumStep ==
    ASSUME NEW w, NEW S, IsFiniteSet(S)
    PROVE  SumOf(w, S) = IF S = {} THEN 0 ELSE w[Pick(S)] + SumOf(w, S \ {Pick(S)})
<1> DEFINE Step(T) == SumOf(w, T) = IF T = {} THEN 0 ELSE w[Pick(T)] + SumOf(w, T \ {Pick(T)})
           F == {T \in SUBSET S : \A R \in SUBSET T : Step(R)}
<1>1. ASSUME NEW T \in SUBSET S, \A R \in SUBSET T : R # T => Step(R) PROVE Step(T)
  <2> DEFINE g == [s \in SUBSET T |->
                     IF s = {} THEN 0
                     ELSE w[Pick(s)] + SumOf(w, s \ {Pick(s)})]
  <2>1. \A s \in SUBSET T : s # T => g[s] = SumOf(w, s)
    BY <1>1
  <2>2. IsSum(g, w, T)
    <3>1. \A s \in SUBSET T : s # {} => g[s \ {Pick(s)}] = SumOf(w, s \ {Pick(s)})
      BY <2>1, PickIn
    <3>2. g = [s \in SUBSET T |-> IF s = {} THEN 0 ELSE w[Pick(s)] + g[s \ {Pick(s)}]]
      BY <3>1
    <3> QED
      BY <3>2 DEF IsSum
  <2> DEFINE h == CHOOSE h : IsSum(h, w, T)
  <2>3. IsSum(h, w, T)
    BY <2>2
  <2>4. SumOf(w, T) = h[T]
    BY SumOfDef
  <2>5. IsFiniteSet(T)
    BY FS_Subset
  <2> HIDE DEF h, g
  <2>6. h[T] = g[T]
    BY <2>2, <2>3, <2>5, SumUnique
  <2> QED
    BY <2>4, <2>6 DEF g
<1>2. \A T \in SUBSET S : T # {} /\ (\A x \in T : T \ {x} \in F) => T \in F
  <2>1. SUFFICES ASSUME NEW T \in SUBSET S, T # {}, \A x \in T : T \ {x} \in F PROVE T \in F
    OBVIOUS
  <2>2. \A R \in SUBSET T : R # T => Step(R)
    <3>1. SUFFICES ASSUME NEW R \in SUBSET T, R # T PROVE Step(R)
      OBVIOUS
    <3>2. PICK x \in T : R \in SUBSET (T \ {x})
      BY <3>1
    <3>3. T \ {x} \in F
      BY <2>1
    <3> HIDE DEF Step
    <3> QED
      BY <3>2, <3>3
  <2>3. Step(T)
    BY <1>1, <2>2
  <2> HIDE DEF Step
  <2> QED
    BY <2>2, <2>3
<1>3. {} \in F
  <2>1. Step({})
    <3>1. \A R \in SUBSET {} : R # {} => Step(R)
      OBVIOUS
    <3> HIDE DEF Step
    <3> QED
      BY <1>1, <3>1
  <2> HIDE DEF Step
  <2> QED
    BY <2>1
<1> HIDE DEF F
<1>4. \A T \in SUBSET S : T \in F
  BY <1>2, <1>3, SubsetsInductive
<1> QED
  BY <1>4 DEF F

(* A sum of integers is one, and of naturals too. *)
LEMMA SumType ==
    ASSUME NEW S, IsFiniteSet(S), NEW w, \A x \in S : w[x] \in Int
    PROVE  SumOf(w, S) \in Int
<1> DEFINE F == {T \in SUBSET S : SumOf(w, T) \in Int}
<1>1. {} \in F
  <2>1. SumOf(w, {}) = 0
    BY SumStep, FS_EmptySet
  <2> QED
    BY <2>1
<1>2. \A T \in SUBSET S : T # {} /\ (\A x \in T : T \ {x} \in F) => T \in F
  <2>1. SUFFICES ASSUME NEW T \in SUBSET S, T # {}, \A x \in T : T \ {x} \in F PROVE T \in F
    OBVIOUS
  <2>2. Pick(T) \in T /\ T \ {Pick(T)} \in F
    BY <2>1, PickIn
  <2>3. IsFiniteSet(T)
    BY FS_Subset
  <2>4. SumOf(w, T) = w[Pick(T)] + SumOf(w, T \ {Pick(T)})
    BY <2>1, <2>3, SumStep
  <2> QED
    BY <2>2, <2>4
<1> HIDE DEF F
<1>3. \A T \in SUBSET S : T \in F
  BY <1>1, <1>2, SubsetsInductive
<1> QED
  BY <1>3 DEF F

(* Any element may be the one that is split off. *)
LEMMA SumSplit ==
    ASSUME NEW S, IsFiniteSet(S), NEW w, \A x \in S : w[x] \in Int, NEW y \in S
    PROVE  SumOf(w, S) = w[y] + SumOf(w, S \ {y})
<1> DEFINE F == {T \in SUBSET S : \A x \in T : SumOf(w, T) = w[x] + SumOf(w, T \ {x})}
<1>1. {} \in F
  OBVIOUS
<1>2. \A T \in SUBSET S : T # {} /\ (\A x \in T : T \ {x} \in F) => T \in F
  <2>1. SUFFICES ASSUME NEW T \in SUBSET S, T # {}, \A x \in T : T \ {x} \in F PROVE T \in F
    OBVIOUS
  <2>2. SUFFICES ASSUME NEW x \in T, x # Pick(T)
                 PROVE SumOf(w, T) = w[x] + SumOf(w, T \ {x})
    BY <2>1, SumStep, FS_Subset
  <2> DEFINE c == Pick(T)
             Rest == T \ {c, x}
  <2>3. c \in T /\ x # c
    BY <2>1, <2>2, PickIn
  <2> HIDE DEF c
  <2>4. SumOf(w, T) = w[c] + SumOf(w, T \ {c})
    BY <2>1, SumStep, FS_Subset DEF c
  <2>5. SumOf(w, T \ {c}) = w[x] + SumOf(w, Rest)
    <3>1. (T \ {c}) \ {x} = Rest
      OBVIOUS
    <3> QED
      BY <2>1, <2>3, <3>1
  <2>6. SumOf(w, T \ {x}) = w[c] + SumOf(w, Rest)
    <3>1. (T \ {x}) \ {c} = Rest
      OBVIOUS
    <3> QED
      BY <2>1, <2>3, <3>1
  <2>7. w[c] \in Int /\ w[x] \in Int /\ SumOf(w, Rest) \in Int
    <3>1. IsFiniteSet(Rest)
      BY FS_Subset
    <3> QED
      BY <2>3, <3>1, SumType
  <2> QED
    BY <2>4, <2>5, <2>6, <2>7
<1> HIDE DEF F
<1>3. \A T \in SUBSET S : T \in F
  BY <1>1, <1>2, SubsetsInductive
<1> QED
  BY <1>3 DEF F

(* The sum looks at nothing but the values on its set. *)
LEMMA SumSame ==
    ASSUME NEW S, IsFiniteSet(S), NEW v, NEW w, \A x \in S : v[x] = w[x]
    PROVE  SumOf(v, S) = SumOf(w, S)
<1> DEFINE F == {T \in SUBSET S : SumOf(v, T) = SumOf(w, T)}
<1>1. {} \in F
  <2>1. SumOf(w, {}) = 0 /\ SumOf(v, {}) = 0
    BY SumStep, FS_EmptySet
  <2> QED
    BY <2>1
<1>2. \A T \in SUBSET S : T # {} /\ (\A x \in T : T \ {x} \in F) => T \in F
  <2>1. SUFFICES ASSUME NEW T \in SUBSET S, T # {}, \A x \in T : T \ {x} \in F PROVE T \in F
    OBVIOUS
  <2>2. Pick(T) \in T /\ T \ {Pick(T)} \in F
    BY <2>1, PickIn
  <2>3. IsFiniteSet(T)
    BY FS_Subset
  <2>4. /\ SumOf(w, T) = w[Pick(T)] + SumOf(w, T \ {Pick(T)})
        /\ SumOf(v, T) = v[Pick(T)] + SumOf(v, T \ {Pick(T)})
    BY <2>1, <2>3, SumStep
  <2> QED
    BY <2>2, <2>4
<1> HIDE DEF F
<1>3. \A T \in SUBSET S : T \in F
  BY <1>1, <1>2, SubsetsInductive
<1> QED
  BY <1>3 DEF F

(* A sum of naturals is one. *)
LEMMA SumNatural ==
    ASSUME NEW S, IsFiniteSet(S), NEW w, \A x \in S : w[x] \in Nat
    PROVE  SumOf(w, S) \in Nat
<1> DEFINE F == {T \in SUBSET S : SumOf(w, T) \in Nat}
<1>1. {} \in F
  <2>1. SumOf(w, {}) = 0
    BY SumStep, FS_EmptySet
  <2> QED
    BY <2>1
<1>2. \A T \in SUBSET S : T # {} /\ (\A x \in T : T \ {x} \in F) => T \in F
  <2>1. SUFFICES ASSUME NEW T \in SUBSET S, T # {}, \A x \in T : T \ {x} \in F PROVE T \in F
    OBVIOUS
  <2>2. Pick(T) \in T /\ T \ {Pick(T)} \in F
    BY <2>1, PickIn
  <2>3. IsFiniteSet(T)
    BY FS_Subset
  <2>4. SumOf(w, T) = w[Pick(T)] + SumOf(w, T \ {Pick(T)})
    BY <2>1, <2>3, SumStep
  <2> QED
    BY <2>2, <2>4
<1> HIDE DEF F
<1>3. \A T \in SUBSET S : T \in F
  BY <1>1, <1>2, SubsetsInductive
<1> QED
  BY <1>3 DEF F

(* Larger values have a larger sum. *)
LEMMA SumAtMost ==
    ASSUME NEW S, IsFiniteSet(S), NEW v, NEW w,
           \A x \in S : v[x] \in Int /\ w[x] \in Int /\ v[x] <= w[x]
    PROVE  SumOf(v, S) <= SumOf(w, S)
<1> DEFINE F == {T \in SUBSET S : SumOf(v, T) <= SumOf(w, T)}
<1>1. {} \in F
  <2>1. SumOf(w, {}) = 0 /\ SumOf(v, {}) = 0
    BY SumStep, FS_EmptySet
  <2> QED
    BY <2>1
<1>2. \A T \in SUBSET S : T # {} /\ (\A x \in T : T \ {x} \in F) => T \in F
  <2>1. SUFFICES ASSUME NEW T \in SUBSET S, T # {}, \A x \in T : T \ {x} \in F PROVE T \in F
    OBVIOUS
  <2> DEFINE p == Pick(T)
             rest == T \ {p}
  <2>2. p \in T /\ rest \in F
    BY <2>1, PickIn
  <2>3. IsFiniteSet(T) /\ IsFiniteSet(rest)
    BY FS_Subset
  <2>4. /\ SumOf(w, T) = w[p] + SumOf(w, rest)
        /\ SumOf(v, T) = v[p] + SumOf(v, rest)
    BY <2>1, <2>3, SumStep
  <2> HIDE DEF p
  <2>5. SumOf(w, rest) \in Int /\ SumOf(v, rest) \in Int
    BY <2>3, SumType
  <2>6. v[p] \in Int /\ w[p] \in Int /\ v[p] <= w[p]
    BY <2>2
  <2>7. SumOf(v, rest) <= SumOf(w, rest)
    BY <2>2
  <2> HIDE DEF rest
  <2>8. SumOf(v, T) <= SumOf(w, T)
    BY <2>4, <2>5, <2>6, <2>7
  <2> QED
    BY <2>8
<1> HIDE DEF F
<1>3. \A T \in SUBSET S : T \in F
  BY <1>1, <1>2, SubsetsInductive
<1> QED
  BY <1>3 DEF F

(* One value changes: so does the sum, by the difference. *)
LEMMA SumChanged ==
    ASSUME NEW S, IsFiniteSet(S), NEW v, NEW w, NEW y \in S,
           \A x \in S : v[x] \in Int /\ w[x] \in Int,
           \A x \in S \ {y} : v[x] = w[x]
    PROVE  SumOf(v, S) = SumOf(w, S) + v[y] - w[y]
<1>1. SumOf(v, S) = v[y] + SumOf(v, S \ {y}) /\ SumOf(w, S) = w[y] + SumOf(w, S \ {y})
  BY SumSplit
<1>2. IsFiniteSet(S \ {y})
  BY FS_Subset
<1>3. SumOf(v, S \ {y}) = SumOf(w, S \ {y}) /\ SumOf(w, S \ {y}) \in Int
  BY <1>2, SumSame, SumType
<1>4. v[y] \in Int /\ w[y] \in Int
  OBVIOUS
<1> QED
  BY <1>1, <1>3, <1>4

(* The same sum over a set with one element more. *)
LEMMA SumExtended ==
    ASSUME NEW S, IsFiniteSet(S), NEW w, NEW y, y \notin S,
           \A x \in S \cup {y} : w[x] \in Int
    PROVE  SumOf(w, S \cup {y}) = SumOf(w, S) + w[y]
<1>1. IsFiniteSet(S \cup {y}) /\ (S \cup {y}) \ {y} = S
  BY FS_AddElement
<1>2. SumOf(w, S \cup {y}) = w[y] + SumOf(w, S)
  BY <1>1, SumSplit
<1>3. SumOf(w, S) \in Int /\ w[y] \in Int
  BY SumType
<1> QED
  BY <1>2, <1>3

(* For the sums of an operator's values: their recursion is that of the    *)
(* function with these values, and it has a solution.                      *)
LEMMA SumExists == ASSUME NEW w, NEW S, IsFiniteSet(S) PROVE \E g : IsSum(g, w, S)
<1> DEFINE g == [s \in SUBSET S |-> SumOf(w, s)]
<1>1. \A s \in SUBSET S :
          SumOf(w, s) = IF s = {} THEN 0 ELSE w[Pick(s)] + SumOf(w, s \ {Pick(s)})
  BY SumStep, FS_Subset
<1>2. \A s \in SUBSET S : g[s \ {Pick(s)}] = SumOf(w, s \ {Pick(s)})
  OBVIOUS
<1>3. g = [s \in SUBSET S |-> IF s = {} THEN 0 ELSE w[Pick(s)] + g[s \ {Pick(s)}]]
  BY <1>1, <1>2
<1> QED
  BY <1>3 DEF IsSum

LEMMA SumIs ==
    ASSUME NEW w, NEW S, IsFiniteSet(S), NEW g, IsSum(g, w, S) PROVE g[S] = SumOf(w, S)
<1> DEFINE h == CHOOSE h : IsSum(h, w, S)
<1>1. IsSum(h, w, S) /\ SumOf(w, S) = h[S]
  BY SumOfDef
<1> HIDE DEF h
<1> QED
  BY <1>1, SumUnique

LEMMA SumZero ==
    ASSUME NEW S, IsFiniteSet(S), NEW w, \A x \in S : w[x] = 0
    PROVE  SumOf(w, S) = 0
<1> DEFINE F == {T \in SUBSET S : SumOf(w, T) = 0}
<1>1. {} \in F
  BY FS_EmptySet, SumStep
<1>2. \A T \in SUBSET S : T # {} /\ (\A x \in T : T \ {x} \in F) => T \in F
  <2>1. SUFFICES ASSUME NEW T \in SUBSET S, T # {}, \A x \in T : T \ {x} \in F PROVE T \in F
    OBVIOUS
  <2>2. Pick(T) \in T /\ T \ {Pick(T)} \in F
    BY <2>1, PickIn
  <2>3. SumOf(w, T) = w[Pick(T)] + SumOf(w, T \ {Pick(T)})
    BY <2>1, FS_Subset, SumStep
  <2>4. w[Pick(T)] = 0
    BY <2>2
  <2> QED
    BY <2>2, <2>3, <2>4
<1> HIDE DEF F
<1>3. S \in F
  BY <1>1, <1>2, SubsetsInductive
<1> QED
  BY <1>3 DEF F

(* The members of a set are counted by counting those of each class.       *)
LEMMA SumOfClasses ==
    ASSUME NEW K, IsFiniteSet(K), NEW A, IsFiniteSet(A), NEW f, \A a \in A : f[a] \in K,
           NEW class, \A k \in K : \A a : a \in class[k] <=> a \in A /\ f[a] = k,
           NEW w, \A k \in K : w[k] = Cardinality(class[k])
    PROVE  SumOf(w, K) = Cardinality(A)
<1> DEFINE Class(T, k) == {a \in T : f[a] = k}
           sizes(T) == [k \in K |-> Cardinality(Class(T, k))]
           F == {T \in SUBSET A : SumOf(sizes(T), K) = Cardinality(T)}
<1>1. \A T \in SUBSET A : \A k \in K : sizes(T)[k] = Cardinality(Class(T, k))
  OBVIOUS
<1>2. \A T \in SUBSET A : \A k : IsFiniteSet(T) /\ IsFiniteSet(Class(T, k))
  <2>1. SUFFICES ASSUME NEW T \in SUBSET A, NEW k PROVE IsFiniteSet(T) /\ IsFiniteSet(Class(T, k))
    OBVIOUS
  <2>2. Class(T, k) \in SUBSET A
    OBVIOUS
  <2> HIDE DEF Class
  <2> QED
    BY <2>2, FS_Subset
<1>3. {} \in F
  <2>1. \A k \in K : Class({}, k) = {}
    OBVIOUS
  <2>2. \A k \in K : sizes({})[k] = 0
    BY <1>1, <2>1, FS_EmptySet
  <2> HIDE DEF sizes
  <2>3. SumOf(sizes({}), K) = 0
    BY <2>2, SumZero
  <2> QED
    BY <2>3, FS_EmptySet
<1>4. \A T \in SUBSET A : T # {} /\ (\A x \in T : T \ {x} \in F) => T \in F
  <2>1. SUFFICES ASSUME NEW T \in SUBSET A, T # {}, \A x \in T : T \ {x} \in F PROVE T \in F
    OBVIOUS
  <2> DEFINE x == Pick(T)
             R == T \ {x}
  <2>2. x \in T /\ R \in SUBSET A /\ SumOf(sizes(R), K) = Cardinality(R) /\ f[x] \in K
    BY <2>1, PickIn
  <2>3. Cardinality(R) = Cardinality(T) - 1
    BY <1>2, <2>2, FS_RemoveElement
  <2>4. \A k \in K \ {f[x]} : Class(T, k) = Class(R, k)
    OBVIOUS
  <2>5. Class(R, f[x]) = Class(T, f[x]) \ {x} /\ x \in Class(T, f[x])
    BY <2>2
  <2>6. Cardinality(Class(R, f[x])) = Cardinality(Class(T, f[x])) - 1
    <3>1. IsFiniteSet(Class(T, f[x]))
      BY <1>2
    <3> HIDE DEF Class, R, x
    <3> QED
      BY ONLY <2>5, <3>1, FS_RemoveElement
  <2>7. \A k \in K : Cardinality(Class(T, k)) \in Int /\ Cardinality(Class(R, k)) \in Int
    <3>1. \A k \in K : IsFiniteSet(Class(T, k)) /\ IsFiniteSet(Class(R, k))
      BY <1>2, <2>2
    <3> HIDE DEF Class, R, x
    <3>2. \A k \in K : Cardinality(Class(T, k)) \in Nat /\ Cardinality(Class(R, k)) \in Nat
      BY <3>1, FS_CardinalityType
    <3> QED
      BY <3>2
  <2>8. /\ \A k \in K : sizes(T)[k] \in Int /\ sizes(R)[k] \in Int
        /\ \A k \in K \ {f[x]} : sizes(T)[k] = sizes(R)[k]
        /\ sizes(T)[f[x]] = sizes(R)[f[x]] + 1
    <3>1. sizes(T)[f[x]] = Cardinality(Class(T, f[x])) /\ sizes(R)[f[x]] = Cardinality(Class(R, f[x]))
      BY <1>1, <2>2
    <3>2. Cardinality(Class(T, f[x])) \in Int
      BY <2>2, <2>7
    <3>3. sizes(T)[f[x]] = sizes(R)[f[x]] + 1
      <4> HIDE DEF Class, R, x, sizes
      <4> QED
        BY <2>6, <3>1, <3>2
    <3>4. \A k \in K \ {f[x]} : sizes(T)[k] = sizes(R)[k]
      BY <1>1, <2>2, <2>4
    <3> QED
      BY <1>1, <2>2, <2>7, <3>3, <3>4
  <2> DEFINE after == sizes(T)
             before == sizes(R)
  <2>9. SumOf(after, K) = SumOf(before, K) + after[f[x]] - before[f[x]]
    <3>1. /\ \A k \in K : after[k] \in Int /\ before[k] \in Int
          /\ \A k \in K \ {f[x]} : after[k] = before[k]
      BY <2>8
    <3> DEFINE y == f[x]
    <3>2. y \in K /\ IsFiniteSet(K)
      BY <2>2
    <3>3. \A k \in K \ {y} : after[k] = before[k]
      BY <3>1
    <3> HIDE DEF after, before, R, x, y
    <3>4. SumOf(after, K) = SumOf(before, K) + after[y] - before[y]
      BY ONLY <3>1, <3>2, <3>3, SumChanged
    <3> QED
      BY <3>4 DEF y
  <2>10. SumOf(before, K) \in Int /\ before[f[x]] \in Int /\ Cardinality(T) \in Int
    <3>1. \A k \in K : before[k] \in Int
      BY <2>8
    <3> HIDE DEF before, R, x
    <3>2. SumOf(before, K) \in Int
      BY <3>1, SumType
    <3>3. Cardinality(T) \in Nat
      BY <1>2, FS_CardinalityType
    <3> QED
      BY <2>2, <3>1, <3>2, <3>3
  <2>11. SumOf(after, K) = Cardinality(T)
    <3> HIDE DEF sizes, R, x, after, before
    <3>1. SumOf(before, K) = Cardinality(T) - 1 /\ after[f[x]] = before[f[x]] + 1
      BY <2>2, <2>3, <2>8 DEF after, before
    <3> QED
      BY <2>9, <2>10, <3>1
  <2> QED
    BY <2>11
<1> HIDE DEF F
<1>5. A \in F
  <2>1. IsFiniteSet(A) /\ A \in SUBSET A
    OBVIOUS
  <2>2. \A T \in SUBSET A : T \in F
    BY ONLY <1>3, <1>4, <2>1, SubsetsInductive
  <2> QED
    BY <2>1, <2>2
<1>6. \A k \in K : w[k] = sizes(A)[k]
  <2>1. \A k \in K : class[k] = Class(A, k)
    OBVIOUS
  <2> QED
    BY <1>1, <2>1
<1>7. SumOf(w, K) = SumOf(sizes(A), K)
  <2> HIDE DEF sizes
  <2> QED
    BY <1>6, SumSame
<1> QED
  BY <1>5, <1>7 DEF F
=============================================================================
