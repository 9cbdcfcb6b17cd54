---------------------------- MODULE MoneyLemmas -----------------------------
(***************************************************************************)
(* What the proofs about money rest on, for every amount and every finite  *)
(* set of holders: sums over a set, whole division, rounding half up, the  *)
(* share of a fee, and the shares of an amount.                            *)
(*                                                                         *)
(* Facts about all finite sets are proved by a least counterexample: among *)
(* the subsets of a finite set for which the claim fails, one is least.    *)
(***************************************************************************)
EXTENDS RefundMath, FiniteSetTheorems, TLAPS

-----------------------------------------------------------------------------
(* Subsets of a finite set.                                                *)

\* A set of subsets of a finite set has one that is least.
LEMMA LeastSubset ==
  ASSUME NEW S, IsFiniteSet(S), NEW U \in SUBSET SUBSET S, U # {}
  PROVE  \E T \in U : \A V \in U : V \subseteq T => V = T
<1> DEFINE R == StrictSubsetOrdering(S)
<1>1. IsWellFoundedOn(R, SUBSET S)
  BY FS_StrictSubsetOrderingWellFounded, FS_FiniteSubsetsOfFinite
<1> HIDE DEF R
<1>2. PICK T \in U : \A V \in U : <<V, T>> \notin R
  BY <1>1, WFMin
<1> QED BY <1>2 DEF R, StrictSubsetOrdering

\* Induction over the subsets of a finite set, U being those of which the claim holds.
LEMMA SubsetInduction ==
  ASSUME NEW S, IsFiniteSet(S), NEW U,
         {} \in U,
         \A T \in SUBSET S : \A x \in S \ T : T \in U => T \cup {x} \in U
  PROVE  S \in U
<1> SUFFICES ASSUME S \notin U PROVE FALSE
  OBVIOUS
<1> DEFINE Bad == {T \in SUBSET S : T \notin U}
<1>1. Bad # {} /\ Bad \in SUBSET SUBSET S
  OBVIOUS
<1> HIDE DEF Bad
<1>2. PICK T \in Bad : \A V \in Bad : V \subseteq T => V = T
  BY <1>1, LeastSubset
<1>3. T \in SUBSET S /\ T \notin U /\ T # {}
  BY <1>2 DEF Bad
<1>4. PICK x \in T : TRUE
  BY <1>3
<1>5. T \ {x} \in SUBSET S /\ T \ {x} \subseteq T /\ T \ {x} # T /\ (T \ {x}) \cup {x} = T
  BY <1>3, <1>4
<1>6. T \ {x} \in U
  BY <1>2, <1>5 DEF Bad
<1> QED BY <1>3, <1>5, <1>6

-----------------------------------------------------------------------------
(* A sum by its recursion: the fold takes the elements in an order of its  *)
(* own, and any other gives the same.                                      *)

Pick(s) == CHOOSE x \in s : TRUE
Sums(f, S, g) == g = [s \in SUBSET S |-> IF s = {} THEN 0 ELSE f[Pick(s)] + g[s \ {Pick(s)}]]

\* A sum over a function is the value of its recursion.
LEMMA SumIs ==
  ASSUME NEW f, NEW S
  PROVE  SumFunctionOnSet(f, S) = (CHOOSE g : Sums(f, S, g))[S]
BY DEF SumFunctionOnSet, FoldFunctionOnSet, MapThenFoldSet, Sums, Pick

\* The fold takes an element of the set.
LEMMA PickIn == \A s : s # {} => Pick(s) \in s
BY DEF Pick

\* The recursion gives a part of the set the same sum whatever set it was set up for.
LEMMA SumsAgree ==
  ASSUME NEW f, NEW S, IsFiniteSet(S), NEW T \in SUBSET S, NEW g, NEW h,
         Sums(f, S, g), Sums(f, T, h)
  PROVE  g[T] = h[T]
<1> SUFFICES ASSUME g[T] # h[T] PROVE FALSE
  OBVIOUS
<1> DEFINE Bad == {s \in SUBSET T : g[s] # h[s]}
<1>1. Bad # {} /\ Bad \in SUBSET SUBSET S
  OBVIOUS
<1>2. \E s \in Bad : \A t \in Bad : t \subseteq s => t = s
  <2> HIDE DEF Bad
  <2> QED BY <1>1, LeastSubset
<1>3. PICK s \in Bad : \A t \in Bad : t \subseteq s => t = s
  BY <1>2
<1>4. s # {} => g[s \ {Pick(s)}] = h[s \ {Pick(s)}]
  BY <1>3, PickIn
<1>5. /\ g[s] = IF s = {} THEN 0 ELSE f[Pick(s)] + g[s \ {Pick(s)}]
      /\ h[s] = IF s = {} THEN 0 ELSE f[Pick(s)] + h[s \ {Pick(s)}]
  <2>1. s \in SUBSET S /\ s \in SUBSET T
    BY <1>3
  <2> HIDE DEF Bad
  <2> QED BY <2>1, Zenon DEF Sums
<1> QED BY <1>3, <1>4, <1>5

\* There is a function that satisfies the recursion.
LEMMA SumsExist ==
  ASSUME NEW f, NEW S, IsFiniteSet(S)
  PROVE  \E g : Sums(f, S, g)
<1> SUFFICES ASSUME ~ \E g : Sums(f, S, g) PROVE FALSE
  OBVIOUS
<1> DEFINE Bad == {T \in SUBSET S : ~ \E g : Sums(f, T, g)}
<1>1. Bad # {} /\ Bad \in SUBSET SUBSET S
  OBVIOUS
<1>2. \E T \in Bad : \A V \in Bad : V \subseteq T => V = T
  <2> HIDE DEF Bad
  <2> QED BY <1>1, LeastSubset
<1>3. PICK T \in Bad : \A V \in Bad : V \subseteq T => V = T
  BY <1>2
<1> DEFINE G(V) == CHOOSE g : Sums(f, V, g)
           h == [s \in SUBSET T |-> IF s = {} THEN 0 ELSE f[Pick(s)] + G(s \ {Pick(s)})[s \ {Pick(s)}]]
<1>4. ASSUME NEW V \in SUBSET T, V # T PROVE Sums(f, V, G(V))
  <2>1. \E g : Sums(f, V, g)
    BY <1>3, <1>4
  <2> QED BY <2>1, Zenon
<1>5. ASSUME NEW V \in SUBSET T, V # T PROVE h[V] = G(V)[V]
  <2>1. CASE V = {}
    <3>1. G(V)[V] = 0
      <4>1. Sums(f, V, G(V)) /\ V \in SUBSET V
        BY <1>4, <1>5
      <4> HIDE DEF G
      <4> QED BY <4>1, <2>1 DEF Sums
    <3> QED BY <2>1, <3>1
  <2>2. CASE V # {}
    <3> DEFINE W == V \ {Pick(V)}
    <3>1. W \in SUBSET T /\ W # T /\ W \in SUBSET V
      BY <2>2, PickIn
    <3>2. G(V)[V] = f[Pick(V)] + G(V)[W]
      <4>1. Sums(f, V, G(V)) /\ V \in SUBSET V
        BY <1>4, <1>5
      <4> HIDE DEF G
      <4> QED BY <4>1, <2>2 DEF Sums
    <3>3. G(V)[W] = G(W)[W]
      <4>1. Sums(f, V, G(V)) /\ Sums(f, W, G(W)) /\ IsFiniteSet(V)
        BY <1>3, <1>4, <1>5, <3>1, FS_Subset
      <4> HIDE DEF G, W
      <4> QED BY <4>1, <3>1, SumsAgree
    <3>4. h[V] = f[Pick(V)] + G(W)[W]
      <4> HIDE DEF G
      <4> QED BY <2>2
    <3> QED BY <3>2, <3>3, <3>4
  <2> QED BY <2>1, <2>2
<1>6. Sums(f, T, h)
  <2>1. ASSUME NEW s \in SUBSET T, s # {} PROVE h[s \ {Pick(s)}] = G(s \ {Pick(s)})[s \ {Pick(s)}]
    <3>1. s \ {Pick(s)} \in SUBSET T /\ s \ {Pick(s)} # T
      BY <2>1, PickIn
    <3> HIDE DEF h, G
    <3> QED BY <3>1, <1>5
  <2>2. h = [s \in SUBSET T |-> IF s = {} THEN 0 ELSE f[Pick(s)] + h[s \ {Pick(s)}]]
    <3> DEFINE k == [s \in SUBSET T |-> IF s = {} THEN 0 ELSE f[Pick(s)] + h[s \ {Pick(s)}]]
    <3>1. \A s \in SUBSET T : h[s] = k[s]
      <4> HIDE DEF G
      <4> SUFFICES ASSUME NEW s \in SUBSET T PROVE h[s] = k[s]
        OBVIOUS
      <4>1. k[s] = IF s = {} THEN 0 ELSE f[Pick(s)] + h[s \ {Pick(s)}]
        <5> HIDE DEF h
        <5> QED OBVIOUS
      <4>2. h[s] = IF s = {} THEN 0 ELSE f[Pick(s)] + G(s \ {Pick(s)})[s \ {Pick(s)}]
        OBVIOUS
      <4> HIDE DEF h, k
      <4> QED BY <4>1, <4>2, <2>1
    <3>2. DOMAIN h = SUBSET T /\ DOMAIN k = SUBSET T
      OBVIOUS
    <3>3. h = [s \in SUBSET T |-> h[s]] /\ k = [s \in SUBSET T |-> k[s]]
      <4> HIDE DEF G
      <4>1. h = [s \in SUBSET T |-> h[s]]
        OBVIOUS
      <4>2. k = [s \in SUBSET T |-> k[s]]
        <5> HIDE DEF h
        <5> QED OBVIOUS
      <4> QED BY <4>1, <4>2
    <3> HIDE DEF h, k, G
    <3>4. h = k
      BY <3>1, <3>3
    <3> QED BY <3>4 DEF k
  <2> HIDE DEF h
  <2> QED BY <2>2 DEF Sums
<1> QED BY <1>3, <1>6

-----------------------------------------------------------------------------
(* What the sums of a project are worth. *)

\* Nothing sums to nothing.
LEMMA SumEmpty == \A f : SumFunctionOnSet(f, {}) = 0
<1> TAKE f
<1>1. PICK g : Sums(f, {}, g)
  BY SumsExist, FS_EmptySet
<1>2. Sums(f, {}, CHOOSE h : Sums(f, {}, h))
  BY <1>1, Zenon
<1> DEFINE h == CHOOSE h : Sums(f, {}, h)
<1>3. h[{}] = 0
  <2>1. Sums(f, {}, h)
    BY <1>2
  <2> HIDE DEF h
  <2> QED BY <2>1 DEF Sums
<1> QED BY <1>3, SumIs

\* A sum is the element the fold takes first and the sum of the others.
LEMMA SumPick ==
  ASSUME NEW f, NEW S, IsFiniteSet(S), S # {}
  PROVE  SumFunctionOnSet(f, S) = f[Pick(S)] + SumFunctionOnSet(f, S \ {Pick(S)})
<1> DEFINE T == S \ {Pick(S)}
           g == CHOOSE g : Sums(f, S, g)
           h == CHOOSE h : Sums(f, T, h)
<1>1. T \in SUBSET S /\ IsFiniteSet(T)
  BY FS_Subset
<1>2. Sums(f, S, g) /\ Sums(f, T, h)
  <2>1. (\E k : Sums(f, S, k)) /\ (\E k : Sums(f, T, k))
    BY <1>1, SumsExist
  <2> QED BY <2>1, Zenon
<1>3. g[S] = SumFunctionOnSet(f, S) /\ h[T] = SumFunctionOnSet(f, T)
  BY SumIs
<1> HIDE DEF g, h
<1>4. g[T] = h[T]
  BY <1>1, <1>2, SumsAgree
<1>5. g[S] = f[Pick(S)] + g[T]
  BY <1>2 DEF Sums
<1> QED BY <1>3, <1>4, <1>5

\* The order of the fold does not matter, and what is summed up is a number.
LEMMA SumRemoved ==
  ASSUME NEW f, NEW S, IsFiniteSet(S), \A x \in S : f[x] \in Int
  PROVE  /\ SumFunctionOnSet(f, S) \in Int
         /\ \A a \in S : SumFunctionOnSet(f, S) = f[a] + SumFunctionOnSet(f, S \ {a})
<1> DEFINE Good(T) == /\ SumFunctionOnSet(f, T) \in Int
                      /\ \A a \in T : SumFunctionOnSet(f, T) = f[a] + SumFunctionOnSet(f, T \ {a})
<1> SUFFICES ASSUME ~Good(S) PROVE FALSE
  OBVIOUS
<1> DEFINE Bad == {T \in SUBSET S : ~Good(T)}
<1> HIDE DEF Good
<1>1. Bad # {} /\ Bad \in SUBSET SUBSET S
  OBVIOUS
<1> HIDE DEF Bad
<1>2. PICK T \in Bad : \A V \in Bad : V \subseteq T => V = T
  BY <1>1, LeastSubset
<1>3. T \in SUBSET S /\ ~Good(T) /\ IsFiniteSet(T)
  BY <1>2, FS_Subset DEF Bad
<1>4. \A V \in SUBSET T : V # T => Good(V)
  BY <1>2, <1>3 DEF Bad
<1>5. T # {}
  BY <1>3, SumEmpty DEF Good
<1> DEFINE c == Pick(T)
<1>6. c \in T
  BY <1>5, PickIn
<1>7. SumFunctionOnSet(f, T) = f[c] + SumFunctionOnSet(f, T \ {c})
  BY <1>3, <1>5, SumPick
<1> HIDE DEF c
<1>8. Good(T \ {c}) /\ f[c] \in Int
  BY <1>3, <1>4, <1>6
<1>9. SumFunctionOnSet(f, T) \in Int
  BY <1>7, <1>8 DEF Good
<1>10. ASSUME NEW a \in T PROVE SumFunctionOnSet(f, T) = f[a] + SumFunctionOnSet(f, T \ {a})
  <2>1. CASE a = c
    BY <2>1, <1>7
  <2>2. CASE a # c
    <3> DEFINE p == SumFunctionOnSet(f, T \ {c})
               q == SumFunctionOnSet(f, T \ {a})
               r == SumFunctionOnSet(f, T \ {a, c})
    <3>1. Good(T \ {a}) /\ Good(T \ {a, c})
      BY <1>4, <1>6
    <3>2. (T \ {c}) \ {a} = T \ {a, c} /\ (T \ {a}) \ {c} = T \ {a, c}
      OBVIOUS
    <3>3. p = f[a] + r /\ q = f[c] + r
      BY <1>6, <1>8, <3>1, <3>2, <2>2 DEF Good
    <3>4. f[a] \in Int /\ f[c] \in Int /\ r \in Int
      BY <1>3, <1>8, <3>1 DEF Good
    <3>5. SumFunctionOnSet(f, T) = f[c] + p
      BY <1>7
    <3> HIDE DEF p, q, r
    <3>6. f[c] + (f[a] + r) = f[a] + (f[c] + r)
      BY <3>4
    <3>7. SumFunctionOnSet(f, T) = f[a] + q
      BY <3>3, <3>5, <3>6
    <3> QED BY <3>7 DEF q
  <2> QED BY <2>1, <2>2
<1> QED BY <1>3, <1>9, <1>10 DEF Good

\* An element more.
LEMMA SumAdd ==
  ASSUME NEW f, NEW S, IsFiniteSet(S), NEW a, a \notin S, \A x \in S \cup {a} : f[x] \in Int
  PROVE  SumFunctionOnSet(f, S \cup {a}) = f[a] + SumFunctionOnSet(f, S)
<1>1. IsFiniteSet(S \cup {a}) /\ (S \cup {a}) \ {a} = S
  BY FS_AddElement
<1> QED BY <1>1, SumRemoved

\* Equal entries, equal sums.
LEMMA SumSame ==
  ASSUME NEW f, NEW g, NEW S, IsFiniteSet(S), \A x \in S : f[x] \in Int /\ f[x] = g[x]
  PROVE  SumFunctionOnSet(f, S) = SumFunctionOnSet(g, S)
<1> DEFINE U == {T \in SUBSET S : SumFunctionOnSet(f, T) = SumFunctionOnSet(g, T)}
<1>1. {} \in U
  BY SumEmpty
<1>2. ASSUME NEW T \in SUBSET S, NEW x \in S \ T, T \in U PROVE T \cup {x} \in U
  <2>1. IsFiniteSet(T)
    BY FS_Subset
  <2>2. SumFunctionOnSet(f, T \cup {x}) = f[x] + SumFunctionOnSet(f, T)
    BY <2>1, SumAdd
  <2>3. SumFunctionOnSet(g, T \cup {x}) = g[x] + SumFunctionOnSet(g, T)
    BY <2>1, SumAdd
  <2> QED BY <1>2, <2>2, <2>3
<1> HIDE DEF U
<1>3. S \in U
  BY <1>1, <1>2, SubsetInduction
<1> QED BY <1>3 DEF U

\* The sum of two functions, entry by entry.
LEMMA SumPlus ==
  ASSUME NEW f, NEW g, NEW h, NEW S, IsFiniteSet(S),
         \A x \in S : f[x] \in Int /\ g[x] \in Int /\ h[x] = f[x] + g[x]
  PROVE  SumFunctionOnSet(h, S) = SumFunctionOnSet(f, S) + SumFunctionOnSet(g, S)
<1> DEFINE U == {T \in SUBSET S : SumFunctionOnSet(h, T) = SumFunctionOnSet(f, T) + SumFunctionOnSet(g, T)}
<1>1. {} \in U
  BY SumEmpty
<1>2. ASSUME NEW T \in SUBSET S, NEW x \in S \ T, T \in U PROVE T \cup {x} \in U
  <2> DEFINE p == SumFunctionOnSet(f, T)
             q == SumFunctionOnSet(g, T)
             r == SumFunctionOnSet(h, T)
  <2>1. IsFiniteSet(T)
    BY FS_Subset
  <2>2. SumFunctionOnSet(f, T \cup {x}) = f[x] + p /\ p \in Int
    BY <2>1, SumAdd, SumRemoved
  <2>3. SumFunctionOnSet(g, T \cup {x}) = g[x] + q /\ q \in Int
    BY <2>1, SumAdd, SumRemoved
  <2>4. SumFunctionOnSet(h, T \cup {x}) = h[x] + r
    BY <2>1, SumAdd
  <2>5. r = p + q
    BY <1>2
  <2> HIDE DEF p, q, r
  <2>6. SumFunctionOnSet(h, T \cup {x}) = (f[x] + p) + (g[x] + q)
    BY <2>2, <2>3, <2>4, <2>5
  <2> QED BY <2>2, <2>3, <2>6
<1> HIDE DEF U
<1>3. S \in U
  BY <1>1, <1>2, SubsetInduction
<1> QED BY <1>3 DEF U

\* Larger entries, a larger sum.
LEMMA SumMonotone ==
  ASSUME NEW f, NEW g, NEW S, IsFiniteSet(S),
         \A x \in S : f[x] \in Int /\ g[x] \in Int /\ f[x] <= g[x]
  PROVE  SumFunctionOnSet(f, S) <= SumFunctionOnSet(g, S)
<1> DEFINE U == {T \in SUBSET S : SumFunctionOnSet(f, T) <= SumFunctionOnSet(g, T)}
<1>1. {} \in U
  BY SumEmpty
<1>2. ASSUME NEW T \in SUBSET S, NEW x \in S \ T, T \in U PROVE T \cup {x} \in U
  <2> DEFINE p == SumFunctionOnSet(f, T)
             q == SumFunctionOnSet(g, T)
  <2>1. IsFiniteSet(T)
    BY FS_Subset
  <2>2. SumFunctionOnSet(f, T \cup {x}) = f[x] + p /\ p \in Int
    BY <2>1, SumAdd, SumRemoved
  <2>3. SumFunctionOnSet(g, T \cup {x}) = g[x] + q /\ q \in Int
    BY <2>1, SumAdd, SumRemoved
  <2>4. p <= q
    BY <1>2
  <2> HIDE DEF p, q
  <2>5. SumFunctionOnSet(f, T \cup {x}) <= SumFunctionOnSet(g, T \cup {x})
    BY <2>2, <2>3, <2>4
  <2> QED BY <2>5
<1> HIDE DEF U
<1>3. S \in U
  BY <1>1, <1>2, SubsetInduction
<1> QED BY <1>3 DEF U

\* A factor common to the entries.
LEMMA SumTimes ==
  ASSUME NEW f, NEW g, NEW c \in Int, NEW S, IsFiniteSet(S),
         \A x \in S : f[x] \in Int /\ g[x] = c * f[x]
  PROVE  SumFunctionOnSet(g, S) = c * SumFunctionOnSet(f, S)
<1> DEFINE U == {T \in SUBSET S : SumFunctionOnSet(g, T) = c * SumFunctionOnSet(f, T)}
<1>1. {} \in U
  <2>1. c * 0 = 0
    OBVIOUS
  <2> QED BY <2>1, SumEmpty
<1>2. ASSUME NEW T \in SUBSET S, NEW x \in S \ T, T \in U PROVE T \cup {x} \in U
  <2> DEFINE p == SumFunctionOnSet(f, T)
             y == f[x]
  <2>1. IsFiniteSet(T) /\ y \in Int
    BY FS_Subset
  <2>2. SumFunctionOnSet(f, T \cup {x}) = y + p /\ p \in Int
    BY <2>1, SumAdd, SumRemoved
  <2>3. SumFunctionOnSet(g, T \cup {x}) = g[x] + SumFunctionOnSet(g, T)
    <3>1. \A z \in T \cup {x} : g[z] \in Int
      OBVIOUS
    <3> QED BY <2>1, <3>1, SumAdd
  <2>4. SumFunctionOnSet(g, T) = c * p /\ g[x] = c * y
    BY <1>2
  <2> HIDE DEF p, y
  <2>5. c * y + c * p = c * (y + p)
    BY <2>1, <2>2
  <2> QED BY <2>2, <2>3, <2>4, <2>5
<1> HIDE DEF U
<1>3. S \in U
  BY <1>1, <1>2, SubsetInduction
<1> QED BY <1>3 DEF U

\* A sum of zeros.
LEMMA SumZero ==
  ASSUME NEW f, NEW S, IsFiniteSet(S), \A x \in S : f[x] = 0
  PROVE  SumFunctionOnSet(f, S) = 0
<1>1. \A x \in S : f[x] \in Int /\ f[x] = 0 * f[x]
  OBVIOUS
<1>2. SumFunctionOnSet(f, S) = 0 * SumFunctionOnSet(f, S)
  BY <1>1, SumTimes
<1>3. SumFunctionOnSet(f, S) \in Int
  BY <1>1, SumRemoved
<1> QED BY <1>2, <1>3

\* One entry changed, the sum changes by as much.
LEMMA SumChanged ==
  ASSUME NEW f, NEW g, NEW S, IsFiniteSet(S), NEW a \in S,
         \A x \in S : f[x] \in Int /\ g[x] \in Int /\ (x # a => g[x] = f[x])
  PROVE  SumFunctionOnSet(g, S) = SumFunctionOnSet(f, S) + (g[a] - f[a])
<1> DEFINE p == SumFunctionOnSet(f, S \ {a})
<1>1. IsFiniteSet(S \ {a})
  BY FS_Subset
<1>2. SumFunctionOnSet(f, S \ {a}) = SumFunctionOnSet(g, S \ {a})
  BY <1>1, SumSame
<1>3. SumFunctionOnSet(f, S) = f[a] + p
  BY SumRemoved
<1>4. SumFunctionOnSet(g, S) = g[a] + p
  BY <1>2, SumRemoved
<1>5. p \in Int /\ f[a] \in Int /\ g[a] \in Int
  BY <1>1, SumRemoved
<1> HIDE DEF p
<1> QED BY <1>3, <1>4, <1>5

Moved(f, g, n) == SumFunction(f) \in Int /\ SumFunction(g) = SumFunction(f) + n

\* One account changes by n: what is in all of them changes by n.
LEMMA SumMoved ==
  ASSUME NEW S, IsFiniteSet(S), NEW a \in S, NEW n \in Int, NEW f \in [S -> Int], NEW g \in [S -> Int],
         \A x \in S : g[x] = IF x = a THEN f[a] + n ELSE f[x]
  PROVE  Moved(f, g, n)
<1>1. DOMAIN f = S /\ DOMAIN g = S
  OBVIOUS
<1>2. SumFunctionOnSet(g, S) = SumFunctionOnSet(f, S) + (g[a] - f[a])
  BY SumChanged
<1>3. g[a] - f[a] = n
  OBVIOUS
<1>4. SumFunctionOnSet(f, S) \in Int
  BY SumRemoved
<1> QED BY <1>1, <1>2, <1>3, <1>4 DEF Moved, SumFunction

\* What is summed over two sets apart.
LEMMA SumDisjoint ==
  ASSUME NEW f, NEW S, IsFiniteSet(S), NEW T, IsFiniteSet(T), S \cap T = {},
         \A x \in S \cup T : f[x] \in Int
  PROVE  SumFunctionOnSet(f, S \cup T) = SumFunctionOnSet(f, S) + SumFunctionOnSet(f, T)
<1> DEFINE U == {V \in SUBSET T : SumFunctionOnSet(f, S \cup V) = SumFunctionOnSet(f, S) + SumFunctionOnSet(f, V)}
           p == SumFunctionOnSet(f, S)
<1>0. p \in Int
  BY SumRemoved
<1>1. {} \in U
  <2>1. SumFunctionOnSet(f, S \cup {}) = p
    OBVIOUS
  <2> HIDE DEF p
  <2>2. p = p + 0
    BY <1>0
  <2> QED BY <2>1, <2>2, SumEmpty DEF p
<1>2. ASSUME NEW V \in SUBSET T, NEW x \in T \ V, V \in U PROVE V \cup {x} \in U
  <2> DEFINE q == SumFunctionOnSet(f, V)
             r == SumFunctionOnSet(f, S \cup V)
  <2>1. IsFiniteSet(V) /\ IsFiniteSet(S \cup V) /\ x \notin S \cup V
    BY FS_Subset, FS_Union
  <2>2. SumFunctionOnSet(f, V \cup {x}) = f[x] + q /\ q \in Int
    BY <2>1, SumAdd, SumRemoved
  <2>3. SumFunctionOnSet(f, (S \cup V) \cup {x}) = f[x] + r
    <3>1. \A y \in (S \cup V) \cup {x} : f[y] \in Int
      OBVIOUS
    <3> QED BY <2>1, <3>1, SumAdd
  <2>4. S \cup (V \cup {x}) = (S \cup V) \cup {x} /\ f[x] \in Int
    OBVIOUS
  <2>5. r = p + q
    BY <1>2
  <2> HIDE DEF p, q, r
  <2>6. SumFunctionOnSet(f, S \cup (V \cup {x})) = p + SumFunctionOnSet(f, V \cup {x})
    <3>1. SumFunctionOnSet(f, S \cup (V \cup {x})) = f[x] + (p + q)
      BY <2>3, <2>4, <2>5
    <3> QED BY <1>0, <2>2, <2>4, <3>1
  <2> QED BY <2>6 DEF p
<1> HIDE DEF U
<1>3. T \in U
  BY <1>1, <1>2, SubsetInduction
<1> QED BY <1>3 DEF U

\* No entry below zero: the sum is not, and no entry is more than it.
LEMMA SumNat ==
  ASSUME NEW f, NEW S, IsFiniteSet(S), \A x \in S : f[x] \in Nat
  PROVE  /\ SumFunctionOnSet(f, S) \in Nat
         /\ \A a \in S : f[a] <= SumFunctionOnSet(f, S)
<1> DEFINE g == [x \in S |-> 0]
<1>1. SumFunctionOnSet(g, S) = 0
  BY SumZero
<1>2. \A T \in SUBSET S : SumFunctionOnSet(f, T) \in Nat
  <2> TAKE T \in SUBSET S
  <2>1. IsFiniteSet(T)
    BY FS_Subset
  <2>2. SumFunctionOnSet(g, T) = 0
    BY <2>1, SumZero
  <2>3. SumFunctionOnSet(g, T) <= SumFunctionOnSet(f, T)
    BY <2>1, SumMonotone
  <2>4. SumFunctionOnSet(f, T) \in Int
    BY <2>1, SumRemoved
  <2> QED BY <2>2, <2>3, <2>4
<1>3. ASSUME NEW a \in S PROVE f[a] <= SumFunctionOnSet(f, S)
  <2>1. SumFunctionOnSet(f, S) = f[a] + SumFunctionOnSet(f, S \ {a})
    BY SumRemoved
  <2>2. SumFunctionOnSet(f, S \ {a}) \in Nat
    BY <1>2
  <2> QED BY <2>1, <2>2
<1> QED BY <1>2, <1>3

\* The sum of one entry.
LEMMA SumOne ==
  ASSUME NEW f, NEW a, f[a] \in Int
  PROVE  SumFunctionOnSet(f, {a}) = f[a]
<1>1. {a} \ {a} = {} /\ IsFiniteSet({a})
  BY FS_Singleton
<1>2. SumFunctionOnSet(f, {a}) = f[a] + 0
  BY <1>1, SumRemoved, SumEmpty
<1> QED BY <1>2

\* Only the entries that are not zero count.
LEMMA SumWhere ==
  ASSUME NEW f, NEW S, IsFiniteSet(S), NEW T \in SUBSET S,
         \A x \in T : f[x] \in Int, \A x \in S \ T : f[x] = 0
  PROVE  SumFunctionOnSet(f, S) = SumFunctionOnSet(f, T)
<1>1. IsFiniteSet(T) /\ IsFiniteSet(S \ T) /\ T \cap (S \ T) = {} /\ T \cup (S \ T) = S
  BY FS_Subset
<1>2. SumFunctionOnSet(f, S) = SumFunctionOnSet(f, T) + SumFunctionOnSet(f, S \ T)
  <2>1. \A x \in T \cup (S \ T) : f[x] \in Int
    OBVIOUS
  <2>2. SumFunctionOnSet(f, T \cup (S \ T)) = SumFunctionOnSet(f, T) + SumFunctionOnSet(f, S \ T)
    BY <1>1, <2>1, SumDisjoint
  <2> QED BY <1>1, <2>2
<1>3. SumFunctionOnSet(f, S \ T) = 0 /\ SumFunctionOnSet(f, T) \in Int
  BY <1>1, SumZero, SumRemoved
<1> QED BY <1>2, <1>3

\* What is summed over a part is at most what is summed over the whole.
LEMMA SumPart ==
  ASSUME NEW f, NEW S, IsFiniteSet(S), \A x \in S : f[x] \in Nat, NEW T \in SUBSET S
  PROVE  /\ SumFunctionOnSet(f, T) \in Nat
         /\ SumFunctionOnSet(f, T) <= SumFunctionOnSet(f, S)
<1>1. IsFiniteSet(T) /\ IsFiniteSet(S \ T) /\ T \cap (S \ T) = {} /\ T \cup (S \ T) = S
  BY FS_Subset
<1>2. SumFunctionOnSet(f, T) \in Nat /\ SumFunctionOnSet(f, S \ T) \in Nat
  BY <1>1, SumNat
<1>3. SumFunctionOnSet(f, S) = SumFunctionOnSet(f, T) + SumFunctionOnSet(f, S \ T)
  <2>1. \A x \in T \cup (S \ T) : f[x] \in Int
    OBVIOUS
  <2>2. SumFunctionOnSet(f, T \cup (S \ T)) = SumFunctionOnSet(f, T) + SumFunctionOnSet(f, S \ T)
    BY <1>1, <2>1, SumDisjoint
  <2> QED BY <1>1, <2>2
<1> QED BY <1>2, <1>3

\* A sum of ones counts.
LEMMA SumOnes ==
  ASSUME NEW f, NEW S, IsFiniteSet(S), \A x \in S : f[x] = 1
  PROVE  SumFunctionOnSet(f, S) = Cardinality(S)
<1> DEFINE U == {T \in SUBSET S : SumFunctionOnSet(f, T) = Cardinality(T)}
<1>1. {} \in U
  BY SumEmpty, FS_EmptySet
<1>2. ASSUME NEW T \in SUBSET S, NEW x \in S \ T, T \in U PROVE T \cup {x} \in U
  <2>1. IsFiniteSet(T) /\ Cardinality(T) \in Nat
    BY FS_Subset, FS_CardinalityType
  <2>2. SumFunctionOnSet(f, T \cup {x}) = f[x] + SumFunctionOnSet(f, T)
    BY <2>1, SumAdd
  <2>3. Cardinality(T \cup {x}) = Cardinality(T) + 1
    BY <2>1, FS_AddElement
  <2>4. SumFunctionOnSet(f, T \cup {x}) = Cardinality(T \cup {x})
    BY <1>2, <2>1, <2>2, <2>3
  <2> QED BY <2>4
<1> HIDE DEF U
<1>3. S \in U
  BY <1>1, <1>2, SubsetInduction
<1> QED BY <1>3 DEF U

-----------------------------------------------------------------------------
(* Division and rounding.                                                  *)

\* What whole division is.
LEMMA DivFacts ==
  ASSUME NEW x \in Int, NEW d \in Nat \ {0}
  PROVE  /\ x \div d \in Int
         /\ d * (x \div d) <= x /\ x < d * (x \div d) + d
  OBVIOUS

\* Whole division keeps the order.
LEMMA DivMonotone ==
  ASSUME NEW x \in Nat, NEW y \in Nat, NEW d \in Nat \ {0}, x <= y
  PROVE  x \div d <= y \div d /\ x \div d \in Nat
<1> DEFINE p == x \div d
           q == y \div d
<1>1. /\ p \in Int /\ q \in Int
      /\ d * p <= x /\ x < d * p + d
      /\ d * q <= y /\ y < d * q + d
  BY DivFacts
<1> HIDE DEF p, q
<1>2. p <= q
  <2> SUFFICES ASSUME p >= q + 1 PROVE FALSE
    BY <1>1
  <2>1. d * p >= d * (q + 1)
    BY <1>1
  <2>2. d * (q + 1) = d * q + d
    BY <1>1
  <2> QED BY <1>1, <2>1, <2>2
<1>3. p >= 0
  <2> SUFFICES ASSUME p <= -1 PROVE FALSE
    BY <1>1
  <2>1. d * p <= d * (-1)
    BY <1>1
  <2> QED BY <1>1, <2>1
<1> QED BY <1>1, <1>2, <1>3 DEF p, q

\* Rounded half up, the share is within half a unit of the exact one.
LEMMA HalfUpNear ==
  ASSUME NEW n \in Nat, NEW d \in Nat \ {0}
  PROVE  /\ HalfUp(n, d) \in Nat
         /\ -d <= 2 * n - 2 * (HalfUp(n, d) * d) /\ 2 * n - 2 * (HalfUp(n, d) * d) <= d
<1> DEFINE x == 2 * n + d
           e == 2 * d
           h == x \div e
<1>1. x \in Nat /\ e \in Nat \ {0}
  OBVIOUS
<1> HIDE DEF x, e
<1>2. h \in Nat /\ e * h <= x /\ x < e * h + e
  BY <1>1, DivFacts, DivMonotone
<1>3. HalfUp(n, d) = h
  BY DEF HalfUp, x, e
<1> HIDE DEF h
<1>4. e * h = 2 * (h * d) /\ h * d \in Nat
  BY <1>2 DEF e
<1> DEFINE m == h * d
<1>5. m \in Nat /\ e * h = 2 * m
  BY <1>4
<1> HIDE DEF m
<1>6. -d <= 2 * n - 2 * m /\ 2 * n - 2 * m <= d
  BY <1>2, <1>5 DEF x, e
<1> QED BY <1>2, <1>3, <1>6 DEF m

\* Rounding keeps the order.
LEMMA HalfUpMonotone ==
  ASSUME NEW n \in Nat, NEW m \in Nat, NEW d \in Nat \ {0}, n <= m
  PROVE  HalfUp(n, d) <= HalfUp(m, d)
<1> DEFINE x == 2 * n + d
           y == 2 * m + d
           e == 2 * d
<1>1. x \in Nat /\ y \in Nat /\ e \in Nat \ {0} /\ x <= y
  OBVIOUS
<1> HIDE DEF x, y, e
<1>2. x \div e <= y \div e
  BY <1>1, DivMonotone
<1> QED BY <1>2 DEF HalfUp, x, y, e

\* A part of an amount, rounded, is at most the amount.
LEMMA HalfUpBounded ==
  ASSUME NEW c \in Nat, NEW r \in Nat, NEW d \in Nat \ {0}, r <= d
  PROVE  c * r \in Nat /\ HalfUp(c * r, d) \in 0..c
<1> DEFINE n == c * r
           h == HalfUp(n, d)
<1>1. n \in Nat /\ n <= c * d
  <2>1. c * r <= c * d
    OBVIOUS
  <2> QED BY <2>1
<1> HIDE DEF n
<1>2. h \in Nat /\ 2 * (h * d) <= 2 * n + d
  BY <1>1, HalfUpNear
<1> HIDE DEF h
<1>3. h <= c
  <2> SUFFICES ASSUME h >= c + 1 PROVE FALSE
    BY <1>2
  <2>1. h * d >= (c + 1) * d
    BY <1>2
  <2>2. (c + 1) * d = c * d + d
    OBVIOUS
  <2> QED BY <1>1, <1>2, <2>1, <2>2
<1> QED BY <1>1, <1>2, <1>3 DEF n, h

-----------------------------------------------------------------------------
(* The fee's share: `charged` was taken on `base`, r of it is refunded.    *)

\* The share is a part of the fee, and none of it belongs to nothing.
LEMMA ShareType ==
  ASSUME NEW charged \in Nat, NEW base \in Nat \ {0}, NEW r \in 0..base
  PROVE  FeeShare(charged, base, r) \in 0..charged
  BY HalfUpBounded DEF FeeShare

\* No refund, no share.
LEMMA ShareOfNothing ==
  ASSUME NEW charged \in Nat, NEW base \in Nat \ {0}
  PROVE  FeeShare(charged, base, 0) = 0
<1>1. charged * 0 = 0
  OBVIOUS
<1>2. HalfUp(0, base) \in 0..0
  <2>1. 0 * 0 = 0 /\ 0 \in Nat /\ 0 <= base
    OBVIOUS
  <2>2. HalfUp(0 * 0, base) \in 0..0
    BY <2>1, HalfUpBounded
  <2> QED BY <2>1, <2>2
<1> QED BY <1>1, <1>2 DEF FeeShare

\* The fee on a larger refund is no smaller.
LEMMA ShareMonotone ==
  ASSUME NEW charged \in Nat, NEW base \in Nat \ {0},
         NEW r \in 0..base, NEW s \in 0..base, r <= s
  PROVE  FeeShare(charged, base, r) <= FeeShare(charged, base, s)
<1>1. CASE s = base
  BY <1>1, ShareType DEF FeeShare
<1>2. CASE s < base
  <2>1. charged * r \in Nat /\ charged * s \in Nat /\ charged * r <= charged * s
    OBVIOUS
  <2>2. HalfUp(charged * r, base) <= HalfUp(charged * s, base)
    BY <2>1, HalfUpMonotone
  <2> QED BY <1>2, <2>2 DEF FeeShare
<1> QED BY <1>1, <1>2

\* A step of the base moves the fee's share by no more than the step.
LEMMA ShareStep ==
  ASSUME NEW charged \in Nat, NEW base \in Nat \ {0}, charged <= base,
         NEW r \in 0..base, NEW s \in 0..base, r <= s
  PROVE  FeeShare(charged, base, s) <= FeeShare(charged, base, r) + (s - r)
<1> DEFINE cr == charged * r
           cs == charged * s
           d == 2 * base
           p == HalfUp(cr, base)
           q == FeeShare(charged, base, s)
<1>1. cr \in Nat /\ cs \in Nat /\ d \in Nat \ {0} /\ d = 2 * base
  OBVIOUS
<1>2. cs <= cr + base * (s - r)
  <2>1. cs = cr + charged * (s - r)
    OBVIOUS
  <2>2. charged * (s - r) <= base * (s - r)
    OBVIOUS
  <2>3. base * (s - r) \in Nat /\ charged * (s - r) \in Nat
    OBVIOUS
  <2> HIDE DEF cr, cs
  <2> QED BY <1>1, <2>1, <2>2, <2>3
<1>3. p \in Int /\ 2 * cr + base < d * p + d
  <2> HIDE DEF cr
  <2>1. 2 * cr + base \in Int /\ d \in Nat \ {0}
    BY <1>1
  <2>2. p = (2 * cr + base) \div d
    BY DEF HalfUp
  <2> QED BY <2>1, <2>2, DivFacts
<1>4. q \in Int /\ d * q <= 2 * cs + base
  <2>1. CASE s = base
    <3>1. q = charged
      BY <2>1 DEF FeeShare
    <3>2. d * charged = 2 * cs
      BY <2>1
    <3> QED BY <3>1, <3>2, <1>1
  <2>2. CASE s < base
    <3>1. q = (2 * cs + base) \div d
      BY <2>2 DEF FeeShare, HalfUp
    <3> HIDE DEF cs, q, d
    <3> QED BY <3>1, <1>1, DivFacts
  <2> QED BY <2>1, <2>2
<1>5. CASE r = base
  BY <1>5, <1>4
<1>6. CASE r < base
  <2>1. FeeShare(charged, base, r) = p
    BY <1>6 DEF FeeShare
  <2>2. d * (s - r) = 2 * (base * (s - r)) /\ base * (s - r) \in Int
    OBVIOUS
  <2> DEFINE k == s - r
             t == p + k + 1
  <2>3. k \in Int
    OBVIOUS
  <2>4. d * t = d * p + d * k + d
    <3> HIDE DEF p, k, d
    <3> QED BY <1>1, <1>3, <2>3
  <2>5. d * q < d * t
    <3> DEFINE e == base * k
               u == d * p
               w == d * k
               x == d * q
               y == d * t
    <3>1. w = 2 * e /\ e \in Int /\ cs <= cr + e
      BY <1>2, <2>2
    <3>2. u \in Int /\ 2 * cr + base < u + d /\ x <= 2 * cs + base /\ x \in Int /\ y = u + w + d
      BY <1>1, <1>3, <1>4, <2>4
    <3> HIDE DEF e, u, w, x, y, cs, cr, k, p, q, t, d
    <3>3. x < y
      BY <1>1, <3>1, <3>2
    <3> QED BY <3>3 DEF x, y
  <2>6. q < t
    <3>1. t \in Int
      BY <1>3, <2>3
    <3> HIDE DEF d, q, t, p, k
    <3> SUFFICES ASSUME q >= t PROVE FALSE
      BY <1>4, <3>1
    <3>2. d * q >= d * t
      BY <1>1, <1>4, <3>1
    <3>3. d * q \in Int /\ d * t \in Int
      BY <1>1, <1>4, <3>1
    <3> QED BY <2>5, <3>2, <3>3
  <2>7. q <= p + k
    <3> HIDE DEF q, p, k
    <3> QED BY <2>6, <1>3, <1>4, <2>3
  <2> QED BY <2>1, <2>7
<1> QED BY <1>5, <1>6

-----------------------------------------------------------------------------
(* Places in a line.                                                       *)

\* R puts the elements of W in a line.
Lined(R, W) ==
  /\ \A i \in W : <<i, i>> \notin R
  /\ \A i, j \in W : i # j => <<i, j>> \in R \/ <<j, i>> \in R
  /\ \A i, j, k \in W : <<i, j>> \in R /\ <<j, k>> \in R => <<i, k>> \in R

Ahead(R, W, k) == {i \in W : <<i, k>> \in R}
FirstOf(R, W, s) == {k \in W : Cardinality(Ahead(R, W, k)) < s}

\* A finite line has a last.
LEMMA LastInLine ==
  ASSUME NEW W, IsFiniteSet(W), NEW R, Lined(R, W), W # {}
  PROVE  \E c \in W : \A i \in W : i # c => <<i, c>> \in R
<1> DEFINE U == {T \in SUBSET W : T = {} \/ \E c \in T : \A i \in T : i # c => <<i, c>> \in R}
<1>1. {} \in U
  OBVIOUS
<1>2. ASSUME NEW T \in SUBSET W, NEW x \in W \ T, T \in U PROVE T \cup {x} \in U
  <2>1. CASE T = {}
    BY <2>1
  <2>2. CASE T # {}
    <3>1. PICK c \in T : \A i \in T : i # c => <<i, c>> \in R
      BY <1>2, <2>2
    <3>2. CASE <<c, x>> \in R
      <4>1. \A i \in T \cup {x} : i # x => <<i, x>> \in R
        BY <3>1, <3>2 DEF Lined
      <4> QED BY <4>1
    <3>3. CASE <<x, c>> \in R
      <4>1. \A i \in T \cup {x} : i # c => <<i, c>> \in R
        BY <3>1, <3>3
      <4> QED BY <3>1, <4>1
    <3> QED BY <3>1, <3>2, <3>3 DEF Lined
  <2> QED BY <2>1, <2>2
<1> HIDE DEF U
<1>3. W \in U
  BY <1>1, <1>2, SubsetInduction
<1> QED BY <1>3 DEF U

\* In a finite line s elements have fewer than s before them.
LEMMA FirstAreMany ==
  ASSUME NEW W, IsFiniteSet(W), NEW R, Lined(R, W), NEW s \in 0..Cardinality(W)
  PROVE  Cardinality(FirstOf(R, W, s)) = s
<1> DEFINE Good(T) == \A n \in 0..Cardinality(T) : Cardinality(FirstOf(R, T, n)) = n
<1> SUFFICES ASSUME ~Good(W) PROVE FALSE
  OBVIOUS
<1> DEFINE Bad == {T \in SUBSET W : ~Good(T)}
<1> HIDE DEF Good
<1>1. Bad # {} /\ Bad \in SUBSET SUBSET W
  OBVIOUS
<1> HIDE DEF Bad
<1>2. PICK T \in Bad : \A V \in Bad : V \subseteq T => V = T
  BY <1>1, LeastSubset
<1>3. T \in SUBSET W /\ ~Good(T) /\ IsFiniteSet(T) /\ Cardinality(T) \in Nat
  BY <1>2, FS_Subset, FS_CardinalityType DEF Bad
<1>4. \A V \in SUBSET T : V # T => Good(V)
  BY <1>2, <1>3 DEF Bad
<1>5. PICK n \in 0..Cardinality(T) : Cardinality(FirstOf(R, T, n)) # n
  BY <1>3 DEF Good
<1>6. T # {}
  <2> SUFFICES ASSUME T = {} PROVE FALSE
    OBVIOUS
  <2>1. n = 0 /\ FirstOf(R, T, n) = {}
    BY <1>5, FS_EmptySet DEF FirstOf
  <2> QED BY <1>5, <2>1, FS_EmptySet
<1>7. PICK c \in T : \A i \in T : i # c => <<i, c>> \in R
  <2>1. Lined(R, T)
    BY <1>3 DEF Lined
  <2> QED BY <1>3, <1>6, <2>1, LastInLine
<1> DEFINE V == T \ {c}
<1>8. /\ V \in SUBSET T /\ V # T /\ IsFiniteSet(V)
      /\ Cardinality(V) = Cardinality(T) - 1 /\ Cardinality(V) \in Nat
  BY <1>3, <1>7, FS_RemoveElement, FS_CardinalityType
<1>9. Good(V)
  BY <1>4, <1>8
<1>10. \A k \in V : Ahead(R, T, k) = Ahead(R, V, k)
  <2> SUFFICES ASSUME NEW k \in V, <<c, k>> \in R PROVE FALSE
    BY DEF Ahead
  <2>1. <<k, c>> \in R
    BY <1>7
  <2> QED BY <1>3, <2>1 DEF Lined
<1>11. Ahead(R, T, c) = V
  BY <1>3, <1>7 DEF Ahead, Lined
<1>12. CASE n <= Cardinality(V)
  <2>1. ~(Cardinality(V) < n)
    BY <1>5, <1>8, <1>12
  <2>2. FirstOf(R, T, n) = FirstOf(R, V, n)
    <3>1. c \notin FirstOf(R, T, n)
      BY <1>11, <2>1 DEF FirstOf
    <3> QED BY <1>10, <3>1 DEF FirstOf
  <2>3. n \in 0..Cardinality(V)
    BY <1>5, <1>12
  <2> QED BY <1>5, <1>9, <2>2, <2>3 DEF Good
<1>13. CASE n = Cardinality(T)
  <2>1. ASSUME NEW k \in T PROVE Cardinality(Ahead(R, T, k)) < n
    <3>1. Ahead(R, T, k) \subseteq T \ {k}
      BY <1>3 DEF Ahead, Lined
    <3>2. IsFiniteSet(T \ {k}) /\ Cardinality(T \ {k}) = Cardinality(T) - 1
      BY <1>3, FS_RemoveElement
    <3>3. Cardinality(Ahead(R, T, k)) <= Cardinality(T) - 1 /\ Cardinality(Ahead(R, T, k)) \in Nat
      BY <3>1, <3>2, FS_Subset, FS_CardinalityType
    <3> QED BY <1>3, <1>13, <3>3
  <2>2. FirstOf(R, T, n) = T
    BY <2>1 DEF FirstOf
  <2> QED BY <1>5, <1>13, <2>2
<1> QED BY <1>3, <1>5, <1>8, <1>12, <1>13

-----------------------------------------------------------------------------
(* The shares of an amount.                                                *)

\* Floor shares and remainders, as Allocate has them; t stands for the rooms' total.
Quotient(a, r, t) == (a * r) \div t
Over(a, r, t) == (a * r) % t
Floor(amount, room, t) == [k \in DOMAIN room |-> Quotient(amount, room[k], t)]
Remainder(amount, room, t) == [k \in DOMAIN room |-> Over(amount, room[k], t)]

\* What one floor share leaves over.
LEMMA FloorOfOne ==
  ASSUME NEW a \in Nat, NEW r \in Nat, NEW t \in Nat \ {0}, a <= t
  PROVE  /\ Quotient(a, r, t) \in Nat /\ Over(a, r, t) \in Nat /\ Over(a, r, t) < t
         /\ Quotient(a, r, t) * t = a * r - Over(a, r, t)
         /\ Quotient(a, r, t) <= r
         /\ Over(a, r, t) > 0 => Quotient(a, r, t) + 1 <= r
<1> DEFINE x == a * r
           f == x \div t
           m == x % t
<1>1. x \in Nat /\ x <= t * r
  <2>1. a * r <= t * r
    OBVIOUS
  <2> QED BY <2>1
<1> HIDE DEF x
<1>2. f \in Nat /\ m \in Nat /\ m < t /\ x = t * f + m
  <2>1. f \in Nat
    BY <1>1, DivMonotone
  <2>2. x % t \in 0..(t - 1) /\ x = t * (x \div t) + (x % t)
    BY <1>1
  <2> QED BY <2>1, <2>2
<1> HIDE DEF f, m
<1>3. f <= r
  <2> SUFFICES ASSUME f >= r + 1 PROVE FALSE
    BY <1>2
  <2>1. t * f >= t * (r + 1)
    BY <1>2
  <2>2. t * (r + 1) = t * r + t
    OBVIOUS
  <2>3. t * f <= t * r
    BY <1>1, <1>2
  <2>4. t * r \in Nat /\ t * f \in Nat
    BY <1>2
  <2> QED BY <2>1, <2>2, <2>3, <2>4
<1>4. ASSUME m > 0, f = r PROVE FALSE
  <2>1. t * f = t * r /\ t * f \in Nat
    BY <1>2, <1>4
  <2> QED BY <1>1, <1>2, <1>4, <2>1
<1>5. f * t = x - m
  <2>1. t * f = f * t /\ t * f \in Nat
    BY <1>2
  <2> QED BY <1>2, <2>1
<1>6. m > 0 => f + 1 <= r
  BY <1>2, <1>3, <1>4
<1>7. /\ f \in Nat /\ m \in Nat /\ m < t /\ f * t = x - m
      /\ f <= r /\ (m > 0 => f + 1 <= r)
  BY <1>2, <1>3, <1>5, <1>6
<1> QED BY <1>7 DEF f, m, x, Quotient, Over

WithRest(rest, V) == {k \in V : rest[k] > 0}

\* The spare pesewas are whole remainders put together: no more of them than keys with one.
LEMMA SpareIsFew ==
  ASSUME NEW V, IsFiniteSet(V), NEW room \in [V -> Nat],
         NEW t \in Nat \ {0}, t = SumFunctionOnSet(room, V), NEW a \in Nat, a <= t
  PROVE  /\ SumFunctionOnSet(Floor(a, room, t), V) \in Int
         /\ a - SumFunctionOnSet(Floor(a, room, t), V)
              \in 0..Cardinality(WithRest(Remainder(a, room, t), V))
<1> DEFINE floor == Floor(a, room, t)
           rest == Remainder(a, room, t)
           F == SumFunctionOnSet(floor, V)
           M == SumFunctionOnSet(rest, V)
           P == WithRest(rest, V)
           spare == a - F
<1>0. P \in SUBSET V /\ \A k \in V : k \in P <=> rest[k] > 0
  BY DEF WithRest
<1> HIDE DEF P
<1>1. ASSUME NEW k \in V
      PROVE  /\ floor[k] \in Nat /\ rest[k] \in Nat /\ rest[k] < t
             /\ floor[k] * t = a * room[k] - rest[k]
  <2>1. room[k] \in Nat /\ floor[k] = Quotient(a, room[k], t) /\ rest[k] = Over(a, room[k], t)
    BY DEF Floor, Remainder
  <2> HIDE DEF floor, rest, F, M, spare
  <2> QED BY <2>1, FloorOfOne
<1> HIDE DEF floor, rest, spare
<1>2. F \in Nat /\ M \in Nat
  BY <1>1, SumNat
<1> DEFINE exact == [k \in V |-> a * room[k]]
           whole == [k \in V |-> t * floor[k]]
<1>3. SumFunctionOnSet(exact, V) = a * t
  BY SumTimes
<1>4. SumFunctionOnSet(whole, V) = t * F
  BY <1>1, SumTimes
<1>5. SumFunctionOnSet(exact, V) = SumFunctionOnSet(whole, V) + M
  <2>1. ASSUME NEW k \in V
        PROVE  exact[k] = whole[k] + rest[k] /\ whole[k] \in Int /\ rest[k] \in Int
    <3> DEFINE e == a * room[k]
               f == floor[k]
    <3>1. exact[k] = e /\ whole[k] = t * f /\ e \in Int /\ f \in Int /\ t * f = f * t /\ t * f \in Int
      BY <1>1
    <3>2. f * t = e - rest[k] /\ rest[k] \in Int
      BY <1>1
    <3> HIDE DEF e, f, exact, whole
    <3>3. t * f + rest[k] = e
      BY <3>1, <3>2
    <3> QED BY <3>1, <3>2, <3>3
  <2> HIDE DEF exact, whole
  <2> QED BY <2>1, SumPlus
<1> HIDE DEF exact, whole, F, M
<1>6. t * spare = M
  <2>1. a * t = t * F + M
    BY <1>3, <1>4, <1>5
  <2>2. t * (a - F) = a * t - t * F /\ a * t \in Int /\ t * F \in Int
    BY <1>2
  <2>3. t * (a - F) = M
    BY <1>2, <2>1, <2>2
  <2>4. spare = a - F
    BY DEF spare
  <2> QED BY <2>3, <2>4
<1>7. spare \in Int
  BY <1>2 DEF spare
<1>8. spare >= 0
  <2> SUFFICES ASSUME spare <= -1 PROVE FALSE
    BY <1>7
  <2>1. t * spare <= t * (-1)
    BY <1>7
  <2>2. t * (-1) = -t
    OBVIOUS
  <2> QED BY <1>2, <1>6, <2>1, <2>2
<1> DEFINE n == Cardinality(P)
<1>9. IsFiniteSet(P) /\ n \in Nat
  BY <1>0, FS_Subset, FS_CardinalityType
<1>10. M <= t * n
  <2> DEFINE ones == [k \in V |-> 1]
             most == [k \in V |-> t * ones[k]]
  <2>1. M = SumFunctionOnSet(rest, P)
    <3>1. P \in SUBSET V /\ (\A k \in P : rest[k] \in Int) /\ \A k \in V \ P : rest[k] = 0
      BY <1>0, <1>1
    <3> QED BY <3>1, SumWhere DEF M
  <2>2. SumFunctionOnSet(rest, P) <= SumFunctionOnSet(most, P)
    <3>1. \A k \in P : rest[k] \in Int /\ most[k] \in Int /\ rest[k] <= most[k]
      BY <1>0, <1>1
    <3> HIDE DEF most
    <3> QED BY <1>9, <3>1, SumMonotone
  <2>3. SumFunctionOnSet(most, P) = t * SumFunctionOnSet(ones, P)
    <3>1. \A k \in P : ones[k] \in Int /\ most[k] = t * ones[k]
      BY <1>0
    <3> HIDE DEF most, ones
    <3> QED BY <1>9, <3>1, SumTimes
  <2>4. SumFunctionOnSet(ones, P) = n
    <3>1. \A k \in P : ones[k] = 1
      BY <1>0
    <3> HIDE DEF ones
    <3> QED BY <1>9, <3>1, SumOnes
  <2> HIDE DEF n
  <2>5. t * n \in Int
    BY <1>9
  <2> QED BY <1>2, <2>1, <2>2, <2>3, <2>4, <2>5
<1> HIDE DEF n
<1>11. spare <= n
  <2> SUFFICES ASSUME spare >= n + 1 PROVE FALSE
    BY <1>7, <1>9
  <2>1. t * spare >= t * (n + 1)
    BY <1>7, <1>9
  <2>2. t * (n + 1) = t * n + t /\ t * n \in Int
    BY <1>9
  <2> QED BY <1>2, <1>6, <1>10, <2>1, <2>2
<1>12. F \in Int /\ spare \in 0..n
  BY <1>2, <1>7, <1>8, <1>9, <1>11
<1> QED BY <1>12 DEF spare, F, n, P, floor, rest

\* Floor shares, and a pesewa more to the first in the line R.
SharesOf(amount, room, t, R) ==
  LET floor == Floor(amount, room, t)
  IN  [k \in DOMAIN room |->
         floor[k] + IF k \in FirstOf(R, DOMAIN room, amount - SumFunctionOnSet(floor, DOMAIN room)) THEN 1 ELSE 0]

\* The shares make up the amount, each within its room and within a unit of its exact part.
Fair(share, amount, room, V) ==
  LET total == SumFunctionOnSet(room, V) IN
  /\ share \in [V -> Nat] /\ SumFunctionOnSet(share, V) = amount
  /\ \A k \in V :
       LET off == share[k] * total - amount * room[k]
       IN  share[k] <= room[k] /\ -total < off /\ off < total

\* Floor shares and a pesewa more to the first in line, those with something over being
\* ahead of those without, are fair.
LEMMA SharesInLine ==
  ASSUME NEW V, IsFiniteSet(V), NEW room \in [V -> Nat],
         NEW t \in Nat \ {0}, t = SumFunctionOnSet(room, V), NEW a \in Nat, a <= t,
         NEW R, Lined(R, V),
         \A i, k \in V : Remainder(a, room, t)[i] > Remainder(a, room, t)[k] => <<i, k>> \in R
  PROVE  Fair(SharesOf(a, room, t, R), a, room, V)
<1> DEFINE floor == Floor(a, room, t)
           rest == Remainder(a, room, t)
           spare == a - SumFunctionOnSet(floor, V)
           first == FirstOf(R, V, spare)
           extra == [k \in V |-> IF k \in first THEN 1 ELSE 0]
           share == SharesOf(a, room, t, R)
           P == WithRest(rest, V)
<1>0. P \in SUBSET V /\ \A k \in V : k \in P <=> rest[k] > 0
  BY DEF WithRest
<1>1. SumFunctionOnSet(floor, V) \in Int /\ spare \in 0..Cardinality(P)
  BY SpareIsFew
<1>2. ASSUME NEW k \in V
      PROVE  /\ floor[k] \in Nat /\ rest[k] \in Nat /\ rest[k] < t
             /\ floor[k] * t = a * room[k] - rest[k]
             /\ floor[k] <= room[k] /\ (rest[k] > 0 => floor[k] + 1 <= room[k])
  <2>1. room[k] \in Nat /\ floor[k] = Quotient(a, room[k], t) /\ rest[k] = Over(a, room[k], t)
    BY DEF Floor, Remainder
  <2> HIDE DEF floor, rest, spare, P, share
  <2>2. /\ Quotient(a, room[k], t) \in Nat /\ Over(a, room[k], t) \in Nat /\ Over(a, room[k], t) < t
        /\ Quotient(a, room[k], t) * t = a * room[k] - Over(a, room[k], t)
        /\ Quotient(a, room[k], t) <= room[k]
        /\ Over(a, room[k], t) > 0 => Quotient(a, room[k], t) + 1 <= room[k]
    BY <2>1, FloorOfOne
  <2> QED BY <2>1, <2>2, Zenon
<1>3. share = [k \in V |-> floor[k] + extra[k]] /\ \A i, k \in V : rest[i] > rest[k] => <<i, k>> \in R
  <2>1. \A k \in V : extra[k] = IF k \in first THEN 1 ELSE 0
    OBVIOUS
  <2>2. share = [k \in V |-> floor[k] + IF k \in first THEN 1 ELSE 0]
    BY DEF SharesOf
  <2> HIDE DEF extra, share
  <2> QED BY <2>1, <2>2
<1> HIDE DEF floor, rest, P, share
<1>4. /\ IsFiniteSet(first) /\ first \in SUBSET V
      /\ spare \in Nat /\ Cardinality(P) \in Nat /\ spare <= Cardinality(P) /\ Cardinality(first) = spare
  <2>1. Cardinality(P) <= Cardinality(V) /\ Cardinality(P) \in Nat /\ Cardinality(V) \in Nat
    BY <1>0, FS_Subset, FS_CardinalityType
  <2>2. first \in SUBSET V /\ IsFiniteSet(first)
    BY FS_Subset DEF FirstOf
  <2> HIDE DEF spare
  <2>3. spare \in 0..Cardinality(V)
    BY <1>1, <2>1
  <2>4. Cardinality(first) = spare
    BY <2>3, FirstAreMany
  <2> QED BY <1>1, <2>1, <2>2, <2>4
\* Who gets one more has something over.
<1>5. ASSUME NEW k \in first PROVE k \in V /\ rest[k] > 0
  <2>1. k \in V /\ Cardinality(Ahead(R, V, k)) < spare
    BY DEF FirstOf
  <2> SUFFICES ASSUME rest[k] <= 0 PROVE FALSE
    BY <1>2, <2>1
  <2>2. P \subseteq Ahead(R, V, k)
    <3>1. \A i \in P : i \in V /\ rest[i] > rest[k]
      BY <1>0, <1>2, <2>1
    <3> QED BY <1>3, <2>1, <3>1 DEF Ahead
  <2>3. IsFiniteSet(Ahead(R, V, k))
    <3>1. Ahead(R, V, k) \subseteq V
      BY DEF Ahead
    <3> QED BY <3>1, FS_Subset
  <2>4. Cardinality(P) <= Cardinality(Ahead(R, V, k)) /\ Cardinality(Ahead(R, V, k)) \in Nat
    BY <2>2, <2>3, FS_Subset, FS_CardinalityType
  <2> HIDE DEF spare
  <2> QED BY <1>4, <2>1, <2>4
<1> HIDE DEF first
<1>6. SumFunctionOnSet(extra, V) = spare
  <2>1. SumFunctionOnSet(extra, V) = SumFunctionOnSet(extra, first)
    <3>1. (\A k \in first : extra[k] \in Int) /\ \A k \in V \ first : extra[k] = 0
      BY <1>4
    <3> HIDE DEF extra
    <3> QED BY <1>4, <3>1, SumWhere
  <2>2. SumFunctionOnSet(extra, first) = Cardinality(first)
    <3>1. \A k \in first : extra[k] = 1
      BY <1>4
    <3> HIDE DEF extra
    <3> QED BY <1>4, <3>1, SumOnes
  <2> QED BY <1>4, <2>1, <2>2
<1>7. SumFunctionOnSet(share, V) = a
  <2>1. \A k \in V : floor[k] \in Int /\ extra[k] \in Int /\ share[k] = floor[k] + extra[k]
    BY <1>2, <1>3
  <2> HIDE DEF extra, spare
  <2>2. SumFunctionOnSet(share, V) = SumFunctionOnSet(floor, V) + SumFunctionOnSet(extra, V)
    BY <2>1, SumPlus
  <2>3. SumFunctionOnSet(extra, V) = a - SumFunctionOnSet(floor, V)
    BY <1>6 DEF spare
  <2> QED BY <1>1, <2>2, <2>3
<1>8. ASSUME NEW k \in V
      PROVE  /\ share[k] \in Nat /\ share[k] <= room[k]
             /\ -t < share[k] * t - a * room[k] /\ share[k] * t - a * room[k] < t
  <2> DEFINE f == floor[k]
             x == a * room[k]
             ft == f * t
             m == rest[k]
  <2>1. f \in Nat /\ m \in Nat /\ m < t /\ ft = x - m /\ f <= room[k] /\ (m > 0 => f + 1 <= room[k])
    BY <1>2
  <2>2. x \in Nat /\ ft \in Nat
    BY <2>1
  <2>3. CASE k \in first
    <3>1. share[k] = f + 1 /\ m > 0
      BY <1>3, <1>5, <2>3
    <3>2. (f + 1) * t = ft + t
      BY <2>1
    <3> HIDE DEF f, x, ft, m, floor, extra
    <3>3. share[k] * t = ft + t
      BY <3>1, <3>2
    <3>4. -t < share[k] * t - x /\ share[k] * t - x < t
      BY <2>1, <2>2, <3>1, <3>3
    <3> QED BY <2>1, <3>1, <3>4 DEF x
  <2>4. CASE k \notin first
    <3>1. share[k] = f
      BY <1>2, <1>3, <2>4
    <3> HIDE DEF f, x, m, floor, extra
    <3>3. share[k] * t = ft
      BY <3>1
    <3> HIDE DEF ft
    <3>4. -t < share[k] * t - x /\ share[k] * t - x < t
      BY <2>1, <2>2, <3>3
    <3> QED BY <2>1, <3>1, <3>4 DEF x
  <2> QED BY <2>3, <2>4
<1>9. share \in [V -> Nat]
  <2> HIDE DEF extra
  <2> QED BY <1>3, <1>8
<1> HIDE DEF extra
<1>10. Fair(share, a, room, V)
  BY <1>7, <1>8, <1>9 DEF Fair
<1> QED BY <1>10 DEF share

\* allocate's promise, for any keys in a line and any rooms: the shares make up the amount,
\* each stays within its room, and none is a whole pesewa away from its exact part.
THEOREM AllocateIsFair ==
  ASSUME NEW V, V \subseteq Int, IsFiniteSet(V), NEW room \in [V -> Nat],
         NEW a \in Nat \ {0}, a <= SumFunction(room)
  PROVE  Fair(Allocate(a, room), a, room, V)
<1> DEFINE t == SumFunctionOnSet(room, V)
           floor == Floor(a, room, t)
           rest == Remainder(a, room, t)
           spare == a - SumFunctionOnSet(floor, V)
           R == {p \in V \X V : rest[p[1]] > rest[p[2]] \/ (rest[p[1]] = rest[p[2]] /\ p[1] < p[2])}
           share == SharesOf(a, room, t, R)
<1>1. t \in Nat \ {0} /\ a <= t /\ SumFunction(room) = t
  <2>1. SumFunction(room) = t
    BY DEF SumFunction
  <2>2. t \in Nat
    BY SumNat
  <2> QED BY <2>1, <2>2
<1>2. \A i, j \in V : <<i, j>> \in R <=> rest[i] > rest[j] \/ (rest[i] = rest[j] /\ i < j)
  OBVIOUS
<1>3. \A k \in V : ServedBefore(rest, k) = Ahead(R, V, k)
  BY DEF ServedBefore, Ahead, Remainder
<1>4. Allocate(a, room) = share
  <2>1. DOMAIN room = V /\ SumFunction(floor) = SumFunctionOnSet(floor, V)
    BY DEF SumFunction, Floor
  <2>2. Allocate(a, room) = [k \in V |-> floor[k] + IF Cardinality(ServedBefore(rest, k)) < spare THEN 1 ELSE 0]
    <3>1. ~(a <= 0 \/ t <= 0)
      BY <1>1
    <3> HIDE DEF t, R
    <3> QED BY <1>1, <2>1, <3>1 DEF Allocate, Floor, Remainder, Quotient, Over
  <2> HIDE DEF floor, rest, spare, R
  <2>3. share = [k \in V |-> floor[k] + IF k \in FirstOf(R, V, spare) THEN 1 ELSE 0]
    BY <2>1 DEF SharesOf, floor, spare
  <2> QED BY <1>3, <2>2, <2>3 DEF FirstOf
<1>5. \A k \in V : rest[k] \in Nat
  <2> SUFFICES ASSUME NEW k \in V PROVE rest[k] \in Nat
    OBVIOUS
  <2>1. room[k] \in Nat /\ a \in Nat /\ rest[k] = Over(a, room[k], t)
    BY DEF Remainder
  <2> HIDE DEF t, rest, R, share
  <2>2. Over(a, room[k], t) \in Nat
    BY <1>1, <2>1, FloorOfOne
  <2> QED BY <2>1, <2>2
<1> HIDE DEF t, floor, rest, R, share
<1>6. Lined(R, V)
  <2>1. \A i, j, k \in V : <<i, j>> \in R /\ <<j, k>> \in R => <<i, k>> \in R
    BY <1>2, <1>5
  <2>2. \A i, j \in V : i # j => <<i, j>> \in R \/ <<j, i>> \in R
    BY <1>2, <1>5
  <2>3. \A i \in V : <<i, i>> \notin R
    BY <1>2, <1>5
  <2> QED BY <2>1, <2>2, <2>3 DEF Lined
<1>7. \A i, k \in V : rest[i] > rest[k] => <<i, k>> \in R
  BY <1>2
<1> QED
  <2>1. a \in Nat /\ t = SumFunctionOnSet(room, V)
    BY DEF t
  <2>2. \A i, k \in V : Remainder(a, room, t)[i] > Remainder(a, room, t)[k] => <<i, k>> \in R
    BY <1>7 DEF rest
  <2>3. IsFiniteSet(V) /\ room \in [V -> Nat] /\ t \in Nat \ {0} /\ a <= t
    BY <1>1
  <2>4. Fair(SharesOf(a, room, t, R), a, room, V)
    BY <1>6, <2>1, <2>2, <2>3, SharesInLine
  <2> QED BY <1>4, <2>4 DEF share

=============================================================================
