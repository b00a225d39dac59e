----------------------------- MODULE PfcProofs ------------------------------
(***************************************************************************)
(* The MMU's two-part count of a queue always equals the device's own      *)
(* count, and its counters of queues, ports and pools add up to what is in *)
(* the buffer, for every set of classes, packet sizes, thresholds, timers. *)
(*                                                                         *)
(* The handlers are operators on a state of the switch, so the invariant   *)
(* is a predicate on such states that each operator preserves.  While      *)
(* DoSwitchSend runs, the MMU has charged a packet the device has not yet  *)
(* queued: the predicate takes what is owed to each queue as a parameter.  *)
(*                                                                         *)
(* The counters are sums.  The laws of finite sums come first: the sum is  *)
(* a fold that takes some element of a set away until none is left, and    *)
(* induction over finite sets is replaced by a minimal counterexample, of  *)
(* the sets that violate a lemma one of least cardinality.                 *)
(***************************************************************************)
EXTENDS PfcProperties, SequenceTheorems, FiniteSetTheorems,
        WellFoundedInduction, TLAPS

-----------------------------------------------------------------------------
(* Minimal counterexamples.                                                *)

\* A nonempty set of numbers has a least one.
LEMMA LeastNumber ==
    ASSUME NEW S \in SUBSET Nat, S # {}
    PROVE  \E x \in S : \A y \in S : x <= y
  <1> DEFINE less == {pair \in Nat \X Nat : pair[1] < pair[2]}
  <1>1. IsWellFoundedOn(less, Nat)
    BY NatLessThanWellFounded DEF less, OpToRel
  <1>2. PICK x \in S : \A y \in S : <<y, x>> \notin less
    <2> HIDE DEF less
    <2> QED BY <1>1, WFMin
  <1>3. ASSUME NEW y \in S PROVE x <= y
    <2>1. x \in Nat /\ y \in Nat /\ <<y, x>> \notin less
      BY <1>2
    <2> QED BY <2>1
  <1> QED BY <1>3

\* A nonempty set of finite sets has one whose proper parts are not in it.
LEMMA LeastSet ==
    ASSUME NEW Bad, Bad # {}, \A T \in Bad : IsFiniteSet(T)
    PROVE  \E T \in Bad : \A x \in T : T \ {x} \notin Bad
  <1> DEFINE sizes == {Cardinality(T) : T \in Bad}
  <1>1. sizes \subseteq Nat /\ sizes # {}
    BY FS_CardinalityType
  <1>2. PICK n \in sizes : \A k \in sizes : n <= k
    <2> HIDE DEF sizes
    <2> QED BY <1>1, LeastNumber
  <1>3. PICK T \in Bad : Cardinality(T) = n
    BY <1>2
  <1>4. ASSUME NEW x \in T, T \ {x} \in Bad PROVE FALSE
    <2>1. Cardinality(T \ {x}) = n - 1
      BY <1>3, FS_RemoveElement
    <2>2. Cardinality(T \ {x}) \in sizes
      BY <1>4
    <2>3. n \in Nat /\ n <= n - 1
      BY <1>1, <1>2, <2>1, <2>2
    <2> QED BY <2>3
  <1> QED BY <1>4

-----------------------------------------------------------------------------
(* The sum as a fold.                                                      *)

\* g gives each part of S its sum, whatever element is taken away first.
Sums(g, f, S) ==
    /\ g \in [SUBSET S -> Int]
    /\ g[{}] = 0
    /\ \A s \in SUBSET S : \A x \in s : g[s] = f[x] + g[s \ {x}]

\* Such a g exists: of a set that has none, an element is taken away.
LEMMA SumsExist ==
    ASSUME NEW S, IsFiniteSet(S), NEW f, \A x \in S : f[x] \in Int
    PROVE  \E g : Sums(g, f, S)
  <1> DEFINE Bad == {T \in SUBSET S : ~ \E g : Sums(g, f, T)}
  <1>1. SUFFICES ASSUME Bad # {} PROVE FALSE
    OBVIOUS
  <1>2. PICK T \in Bad : \A x \in T : T \ {x} \notin Bad
    <2>1. \A T \in Bad : IsFiniteSet(T)
      BY FS_Subset
    <2> HIDE DEF Bad
    <2> QED BY <1>1, <2>1, LeastSet
  <1>3. T \subseteq S /\ ~ \E g : Sums(g, f, T)
    BY DEF Bad
  <1>4. CASE T = {}
    <2>1. Sums([s \in SUBSET {} |-> 0], f, {})
      BY DEF Sums
    <2> QED BY <1>3, <1>4, <2>1
  <1>5. CASE T # {}
    <2>1. PICK e \in T : TRUE
      BY <1>5
    <2>2. PICK g : Sums(g, f, T \ {e})
      <3>1. T \ {e} \in SUBSET S
        BY <1>3
      <3> QED BY <1>2, <2>1, <3>1
    <2> DEFINE h == [s \in SUBSET T |-> IF e \in s THEN f[e] + g[s \ {e}] ELSE g[s]]
    <2>3. f[e] \in Int /\ \A x \in T : f[x] \in Int
      BY <1>3, <2>1
    <2>4. \A s \in SUBSET T : s \ {e} \in SUBSET (T \ {e}) /\ g[s \ {e}] \in Int
      BY <2>2 DEF Sums
    <2>5. \A s \in SUBSET T : e \notin s => s \in SUBSET (T \ {e}) /\ g[s] \in Int
      BY <2>2 DEF Sums
    <2>6. h \in [SUBSET T -> Int]
      BY <2>3, <2>4, <2>5
    <2>7. h[{}] = 0
      BY <2>2 DEF Sums
    <2>8. ASSUME NEW s \in SUBSET T, NEW x \in s
          PROVE  h[s] = f[x] + h[s \ {x}]
      <3>1. s \ {x} \in SUBSET T
        OBVIOUS
      <3>2. CASE x = e
        BY <3>1, <3>2
      <3>3. CASE x # e /\ e \in s
        <4>1. h[s] = f[e] + g[s \ {e}] /\ h[s \ {x}] = f[e] + g[(s \ {x}) \ {e}]
          BY <3>1, <3>3
        <4>2. (s \ {x}) \ {e} = (s \ {e}) \ {x} /\ x \in s \ {e}
          BY <3>3
        <4>3. g[s \ {e}] = f[x] + g[(s \ {e}) \ {x}]
          BY <2>2, <2>4, <4>2 DEF Sums
        <4>4. g[(s \ {x}) \ {e}] \in Int /\ f[x] \in Int
          BY <2>3, <2>4, <3>1
        <4>5. PICK v \in Int : v = g[(s \ {x}) \ {e}]
          BY <4>4
        <4>6. h[s] = f[e] + (f[x] + v) /\ h[s \ {x}] = f[e] + v
          BY <4>1, <4>2, <4>3, <4>5, Zenon
        <4> HIDE DEF h
        <4> QED BY <2>3, <4>4, <4>5, <4>6
      <3>4. CASE x # e /\ e \notin s
        <4>1. h[s] = g[s] /\ h[s \ {x}] = g[s \ {x}]
          BY <3>1, <3>4
        <4> QED BY <2>2, <2>5, <3>4, <4>1 DEF Sums
      <3> QED BY <3>2, <3>3, <3>4
    <2>9. Sums(h, f, T)
      <3> HIDE DEF h
      <3> QED BY <2>6, <2>7, <2>8 DEF Sums
    <2> QED BY <1>3, <2>9
  <1> QED BY <1>4, <1>5

Pick(s) == CHOOSE x \in s : TRUE

Folded(g, f, S) ==
    g = [s \in SUBSET S |-> IF s = {} THEN 0 ELSE f[Pick(s)] + g[s \ {Pick(s)}]]

LEMMA SumIsFold ==
    ASSUME NEW f, NEW S
    PROVE  SumFunctionOnSet(f, S) = (CHOOSE g : Folded(g, f, S))[S]
  BY Zenon DEF SumFunctionOnSet, FoldFunctionOnSet, MapThenFoldSet, Folded, Pick

\* The fold computes the sum.
LEMMA SumIs ==
    ASSUME NEW S, IsFiniteSet(S), NEW f, NEW g, Sums(g, f, S)
    PROVE  SumFunctionOnSet(f, S) = g[S]
  <1>1. \A s : s # {} => Pick(s) \in s
    BY DEF Pick
  <1>2. Folded(g, f, S)
    <2>1. g = [s \in SUBSET S |-> g[s]]
      BY DEF Sums
    <2>2. ASSUME NEW s \in SUBSET S
          PROVE  g[s] = IF s = {} THEN 0 ELSE f[Pick(s)] + g[s \ {Pick(s)}]
      BY <1>1 DEF Sums
    <2> QED BY <2>1, <2>2 DEF Folded
  <1>3. PICK h : h = (CHOOSE x : Folded(x, f, S))
    OBVIOUS
  <1>4. Folded(h, f, S)
    BY <1>2, <1>3, Zenon
  <1> DEFINE Bad == {s \in SUBSET S : h[s] # g[s]}
  <1>5. ASSUME Bad # {} PROVE FALSE
    <2>1. PICK s \in Bad : \A x \in s : s \ {x} \notin Bad
      <3>1. \A s \in Bad : IsFiniteSet(s)
        BY FS_Subset
      <3> HIDE DEF Bad
      <3> QED BY <1>5, <3>1, LeastSet
    <2>2. s \in SUBSET S /\ h[s] # g[s]
      BY DEF Bad
    <2>3. h[s] = IF s = {} THEN 0 ELSE f[Pick(s)] + h[s \ {Pick(s)}]
      BY <1>4, <2>2 DEF Folded
    <2>4. g[s] = IF s = {} THEN 0 ELSE f[Pick(s)] + g[s \ {Pick(s)}]
      BY <1>1, <2>2 DEF Sums
    <2>5. s # {} => h[s \ {Pick(s)}] = g[s \ {Pick(s)}]
      BY <1>1, <2>1, <2>2 DEF Bad
    <2> QED BY <2>2, <2>3, <2>4, <2>5
  <1>6. h[S] = g[S]
    BY <1>5
  <1> QED BY <1>3, <1>6, SumIsFold

-----------------------------------------------------------------------------
(* The laws of sums.                                                       *)

\* No element: 0; else any element and the rest.
LEMMA SumParts ==
    ASSUME NEW S, IsFiniteSet(S), NEW f, \A x \in S : f[x] \in Int
    PROVE  /\ SumFunctionOnSet(f, S) \in Int
           /\ S = {} => SumFunctionOnSet(f, S) = 0
           /\ \A x \in S : SumFunctionOnSet(f, S) = f[x] + SumFunctionOnSet(f, S \ {x})
  <1>1. PICK g : Sums(g, f, S)
    BY SumsExist
  <1>2. SumFunctionOnSet(f, S) = g[S] /\ g[S] \in Int /\ (S = {} => g[S] = 0)
    <2>1. SumFunctionOnSet(f, S) = g[S]
      BY <1>1, SumIs
    <2>2. S \in SUBSET S /\ g \in [SUBSET S -> Int] /\ g[{}] = 0
      BY <1>1 DEF Sums
    <2> QED BY <2>1, <2>2
  <1>3. ASSUME NEW x \in S
        PROVE  SumFunctionOnSet(f, S \ {x}) = g[S \ {x}]
    <2> DEFINE T == S \ {x}
               h == [s \in SUBSET T |-> g[s]]
    <2>1. Sums(h, f, T)
      <3>1. \A s \in SUBSET T : s \in SUBSET S /\ h[s] = g[s]
        OBVIOUS
      <3>2. h \in [SUBSET T -> Int]
        BY <1>1, <3>1 DEF Sums
      <3>3. \A s \in SUBSET T : \A y \in s : s \ {y} \in SUBSET T
        OBVIOUS
      <3>4. {} \in SUBSET T
        OBVIOUS
      <3> HIDE DEF h, T
      <3> QED BY <1>1, <3>1, <3>2, <3>3, <3>4 DEF Sums
    <2>2. IsFiniteSet(T)
      BY FS_RemoveElement
    <2>3. h[T] = g[T]
      OBVIOUS
    <2> HIDE DEF h, T
    <2>4. SumFunctionOnSet(f, T) = g[T]
      BY <2>1, <2>2, <2>3, SumIs
    <2> QED BY <2>4 DEF T
  <1>4. \A x \in S : g[S] = f[x] + g[S \ {x}]
    BY <1>1 DEF Sums
  <1> QED BY <1>2, <1>3, <1>4

\* Only the values on the set matter.
LEMMA SumAgrees ==
    ASSUME NEW S, IsFiniteSet(S), NEW f, NEW g,
           \A x \in S : f[x] \in Int /\ g[x] = f[x]
    PROVE  SumFunctionOnSet(g, S) = SumFunctionOnSet(f, S)
  <1> DEFINE Bad == {T \in SUBSET S : SumFunctionOnSet(g, T) # SumFunctionOnSet(f, T)}
  <1>1. SUFFICES ASSUME Bad # {} PROVE FALSE
    OBVIOUS
  <1>2. PICK T \in Bad : \A x \in T : T \ {x} \notin Bad
    <2>1. \A T \in Bad : IsFiniteSet(T)
      BY FS_Subset
    <2> HIDE DEF Bad
    <2> QED BY <1>1, <2>1, LeastSet
  <1>3. T \in SUBSET S /\ IsFiniteSet(T) /\ SumFunctionOnSet(g, T) # SumFunctionOnSet(f, T)
    BY FS_Subset DEF Bad
  <1>4. T # {}
    BY <1>3, SumParts
  <1>5. PICK x \in T : TRUE
    BY <1>4
  <1>6. /\ SumFunctionOnSet(f, T) = f[x] + SumFunctionOnSet(f, T \ {x})
        /\ SumFunctionOnSet(g, T) = g[x] + SumFunctionOnSet(g, T \ {x})
    BY <1>3, SumParts
  <1>7. SumFunctionOnSet(g, T \ {x}) = SumFunctionOnSet(f, T \ {x})
    BY <1>2, <1>3 DEF Bad
  <1> QED BY <1>3, <1>6, <1>7

\* One value changes.
Differ(f, g, S, x) ==
    /\ x \in S
    /\ \A y \in S : f[y] \in Int /\ g[y] \in Int /\ (y # x => g[y] = f[y])

LEMMA SumChanges ==
    ASSUME NEW S, IsFiniteSet(S), NEW f, NEW g, NEW x, Differ(f, g, S, x)
    PROVE  SumFunctionOnSet(g, S) = SumFunctionOnSet(f, S) + (g[x] - f[x])
  <1> USE DEF Differ
  <1> DEFINE T == S \ {x}
  <1>1. IsFiniteSet(T)
    BY FS_RemoveElement
  <1>2. SumFunctionOnSet(g, T) = SumFunctionOnSet(f, T)
    BY <1>1, SumAgrees
  <1>3. SumFunctionOnSet(f, T) \in Int
    BY <1>1, SumParts
  <1>4. /\ SumFunctionOnSet(f, S) = f[x] + SumFunctionOnSet(f, T)
        /\ SumFunctionOnSet(g, S) = g[x] + SumFunctionOnSet(g, T)
    BY SumParts
  <1> HIDE DEF T
  <1> QED BY <1>2, <1>3, <1>4

\* Of numbers that are not negative the sum is not less than any of them.
LEMMA SumBounds ==
    ASSUME NEW S, IsFiniteSet(S), NEW f, \A x \in S : f[x] \in Nat
    PROVE  /\ SumFunctionOnSet(f, S) \in Nat
           /\ \A x \in S : f[x] <= SumFunctionOnSet(f, S)
  <1> DEFINE Bad == {T \in SUBSET S : SumFunctionOnSet(f, T) \notin Nat}
  <1>1. ASSUME Bad # {} PROVE FALSE
    <2>1. PICK T \in Bad : \A x \in T : T \ {x} \notin Bad
      <3>1. \A T \in Bad : IsFiniteSet(T)
        BY FS_Subset
      <3> HIDE DEF Bad
      <3> QED BY <1>1, <3>1, LeastSet
    <2>2. T \in SUBSET S /\ IsFiniteSet(T) /\ SumFunctionOnSet(f, T) \notin Nat
      BY FS_Subset DEF Bad
    <2>3. T # {}
      BY <2>2, SumParts
    <2>4. PICK x \in T : TRUE
      BY <2>3
    <2>5. SumFunctionOnSet(f, T) = f[x] + SumFunctionOnSet(f, T \ {x})
      BY <2>2, SumParts
    <2>6. SumFunctionOnSet(f, T \ {x}) \in Nat
      BY <2>1, <2>2 DEF Bad
    <2> QED BY <2>2, <2>5, <2>6
  <1>2. \A T \in SUBSET S : SumFunctionOnSet(f, T) \in Nat
    BY <1>1
  <1>3. ASSUME NEW x \in S PROVE f[x] <= SumFunctionOnSet(f, S)
    <2>1. SumFunctionOnSet(f, S) = f[x] + SumFunctionOnSet(f, S \ {x})
      BY SumParts
    <2>2. SumFunctionOnSet(f, S \ {x}) \in Nat /\ f[x] \in Nat
      BY <1>2
    <2> QED BY <2>1, <2>2
  <1> QED BY <1>2, <1>3

\* A sum of zeros.
LEMMA SumOfZeros ==
    ASSUME NEW S, IsFiniteSet(S), NEW f, \A x \in S : f[x] = 0
    PROVE  SumFunctionOnSet(f, S) = 0
  <1> DEFINE Bad == {T \in SUBSET S : SumFunctionOnSet(f, T) # 0}
  <1>1. SUFFICES ASSUME Bad # {} PROVE FALSE
    OBVIOUS
  <1>2. PICK T \in Bad : \A x \in T : T \ {x} \notin Bad
    <2>1. \A T \in Bad : IsFiniteSet(T)
      BY FS_Subset
    <2> HIDE DEF Bad
    <2> QED BY <1>1, <2>1, LeastSet
  <1>3. T \in SUBSET S /\ IsFiniteSet(T) /\ SumFunctionOnSet(f, T) # 0
    BY FS_Subset DEF Bad
  <1>4. T # {}
    BY <1>3, SumParts
  <1>5. PICK x \in T : TRUE
    BY <1>4
  <1>6. SumFunctionOnSet(f, T) = f[x] + SumFunctionOnSet(f, T \ {x})
    BY <1>3, SumParts
  <1>7. SumFunctionOnSet(f, T \ {x}) = 0
    BY <1>2, <1>3 DEF Bad
  <1> QED BY <1>3, <1>6, <1>7

\* Terms of at most k.
LEMMA SumAtMost ==
    ASSUME NEW S, IsFiniteSet(S), NEW k \in Nat, NEW f,
           \A x \in S : f[x] \in Int /\ f[x] <= k
    PROVE  SumFunctionOnSet(f, S) <= Cardinality(S) * k
  <1> DEFINE Bad == {T \in SUBSET S : ~(SumFunctionOnSet(f, T) <= Cardinality(T) * k)}
  <1>1. SUFFICES ASSUME Bad # {} PROVE FALSE
    OBVIOUS
  <1>2. PICK T \in Bad : \A x \in T : T \ {x} \notin Bad
    <2>1. \A T \in Bad : IsFiniteSet(T)
      BY FS_Subset
    <2> HIDE DEF Bad
    <2> QED BY <1>1, <2>1, LeastSet
  <1>3. /\ T \in SUBSET S /\ IsFiniteSet(T)
        /\ ~(SumFunctionOnSet(f, T) <= Cardinality(T) * k)
    BY FS_Subset DEF Bad
  <1>4. T # {}
    <2>1. T = {} => SumFunctionOnSet(f, T) = 0 /\ Cardinality(T) = 0
      BY <1>3, SumParts, FS_EmptySet
    <2> QED BY <1>3, <2>1
  <1>5. PICK x \in T : TRUE
    BY <1>4
  <1> DEFINE rest == T \ {x}
             n == Cardinality(rest)
  <1>6. SumFunctionOnSet(f, T) = f[x] + SumFunctionOnSet(f, rest)
    BY <1>3, SumParts
  <1>7. IsFiniteSet(rest) /\ n \in Nat /\ Cardinality(T) = n + 1
    <2>1. IsFiniteSet(rest) /\ n = Cardinality(T) - 1
      BY <1>3, <1>5, FS_RemoveElement
    <2> QED BY <1>3, <2>1, FS_CardinalityType
  <1>8. SumFunctionOnSet(f, rest) \in Int
    BY <1>3, <1>7, SumParts
  <1>9. SumFunctionOnSet(f, rest) <= n * k
    BY <1>2, <1>3 DEF Bad
  <1>10. f[x] \in Int /\ f[x] <= k
    BY <1>3
  <1> HIDE DEF n, rest
  <1>11. (n + 1) * k = n * k + k /\ n * k \in Int
    BY <1>7
  <1> QED BY <1>3, <1>6, <1>7, <1>8, <1>9, <1>10, <1>11

-----------------------------------------------------------------------------
(* Sums over sequences.                                                    *)

\* Numbers at the positions 2 to m + 1, and the same numbers at 1 to m.
LEMMA SumShifts ==
    ASSUME NEW n \in Nat, NEW f, NEW g,
           \A i \in 1..n : f[i + 1] \in Int /\ g[i] = f[i + 1]
    PROVE  SumFunctionOnSet(f, 2..(n + 1)) = SumFunctionOnSet(g, 1..n)
  <1> DEFINE Bad == {m \in 0..n :
                       SumFunctionOnSet(f, 2..(m + 1)) # SumFunctionOnSet(g, 1..m)}
  <1>1. SUFFICES ASSUME Bad # {} PROVE FALSE
    OBVIOUS
  <1>2. PICK m \in Bad : \A k \in Bad : m <= k
    <2>1. Bad \in SUBSET Nat
      OBVIOUS
    <2> HIDE DEF Bad
    <2> QED BY <1>1, <2>1, LeastNumber
  <1>3. /\ m \in 0..n
        /\ SumFunctionOnSet(f, 2..(m + 1)) # SumFunctionOnSet(g, 1..m)
    BY <1>2
  <1>4. IsFiniteSet(1..m) /\ IsFiniteSet(2..(m + 1))
    BY <1>3, FS_Interval
  <1>5. /\ \A i \in 1..m : g[i] \in Int
        /\ \A i \in 2..(m + 1) : f[i] \in Int
    <2>1. ASSUME NEW i \in 2..(m + 1) PROVE f[i] \in Int
      <3>1. i - 1 \in 1..n /\ (i - 1) + 1 = i
        BY <1>3
      <3> QED BY <3>1
    <2> QED BY <1>3, <2>1
  <1>6. CASE m = 0
    <2>1. 1..m = {} /\ 2..(m + 1) = {}
      BY <1>6
    <2>2. SumFunctionOnSet(f, 2..(m + 1)) = 0 /\ SumFunctionOnSet(g, 1..m) = 0
      BY <1>4, <1>5, <2>1, SumParts
    <2> QED BY <1>3, <2>2
  <1>7. CASE m # 0
    <2>1. m \in 1..m /\ m + 1 \in 2..(m + 1) /\ m \in 1..n
      BY <1>3, <1>7
    <2>2. /\ SumFunctionOnSet(g, 1..m) = g[m] + SumFunctionOnSet(g, (1..m) \ {m})
          /\ SumFunctionOnSet(f, 2..(m + 1)) =
               f[m + 1] + SumFunctionOnSet(f, (2..(m + 1)) \ {m + 1})
      BY <1>4, <1>5, <2>1, SumParts
    <2>3. (1..m) \ {m} = 1..(m - 1) /\ (2..(m + 1)) \ {m + 1} = 2..((m - 1) + 1)
      BY <1>3
    <2>4. m - 1 \notin Bad
      BY <1>2, <1>3
    <2>5. SumFunctionOnSet(f, 2..((m - 1) + 1)) = SumFunctionOnSet(g, 1..(m - 1))
      BY <1>3, <1>7, <2>4
    <2> QED BY <1>3, <2>1, <2>2, <2>3, <2>5
  <1> QED BY <1>6, <1>7

\* A number is appended.
LEMMA SumAppends ==
    ASSUME NEW n \in Nat, NEW f, NEW g, DOMAIN f = 1..n, DOMAIN g = 1..(n + 1),
           \A i \in 1..n : f[i] \in Int /\ g[i] = f[i], g[n + 1] \in Int
    PROVE  SumFunction(g) = SumFunction(f) + g[n + 1]
  <1>1. IsFiniteSet(1..n) /\ IsFiniteSet(1..(n + 1))
    BY FS_Interval
  <1>2. \A i \in 1..(n + 1) : g[i] \in Int
    <2>1. \A i \in 1..(n + 1) : i \in 1..n \/ i = n + 1
      OBVIOUS
    <2> QED BY <2>1
  <1>3. (1..(n + 1)) \ {n + 1} = 1..n /\ n + 1 \in 1..(n + 1)
    OBVIOUS
  <1>4. SumFunctionOnSet(g, 1..(n + 1)) = g[n + 1] + SumFunctionOnSet(g, 1..n)
    BY <1>1, <1>2, <1>3, SumParts
  <1>5. SumFunctionOnSet(g, 1..n) = SumFunctionOnSet(f, 1..n)
    BY <1>1, SumAgrees
  <1>6. SumFunctionOnSet(f, 1..n) \in Int
    BY <1>1, SumParts
  <1> QED BY <1>4, <1>5, <1>6 DEF SumFunction

\* The first number is taken off.
LEMMA SumLosesFirst ==
    ASSUME NEW n \in Nat, NEW f, NEW g, DOMAIN f = 1..(n + 1), DOMAIN g = 1..n,
           \A i \in 1..(n + 1) : f[i] \in Int, \A i \in 1..n : g[i] = f[i + 1]
    PROVE  SumFunction(g) = SumFunction(f) - f[1]
  <1>1. IsFiniteSet(1..(n + 1)) /\ IsFiniteSet(2..(n + 1))
    BY FS_Interval
  <1>2. (1..(n + 1)) \ {1} = 2..(n + 1) /\ 1 \in 1..(n + 1)
    OBVIOUS
  <1>3. SumFunctionOnSet(f, 1..(n + 1)) = f[1] + SumFunctionOnSet(f, 2..(n + 1))
    <2> DEFINE S == 1..(n + 1)
               one == 1
    <2>1. IsFiniteSet(S) /\ one \in S /\ \A i \in S : f[i] \in Int
      BY <1>1, <1>2
    <2> HIDE DEF S, one
    <2>2. SumFunctionOnSet(f, S) = f[one] + SumFunctionOnSet(f, S \ {one})
      BY <2>1, SumParts
    <2> QED BY <1>2, <2>2 DEF S, one
  <1>4. \A i \in 1..n : f[i + 1] \in Int
    OBVIOUS
  <1>5. SumFunctionOnSet(f, 2..(n + 1)) = SumFunctionOnSet(g, 1..n)
    BY <1>4, SumShifts
  <1>6. SumFunctionOnSet(f, 2..(n + 1)) \in Int
    BY <1>1, SumParts
  <1> QED BY <1>2, <1>3, <1>5, <1>6 DEF SumFunction

-----------------------------------------------------------------------------
(* The counters of one queue.                                             *)

Pkt == [inDev : Ports, size : PktSizes]
WirePkt == [out : Ports, class : Classes, size : PktSizes, left : Int]

EgressSet == [qmin : [Ports -> [Classes -> Int]],
              shared : [Ports -> [Classes -> Int]],
              port : [Ports -> Int], sp : [Pools -> Int]]

\* A queue of n bytes: the guarantee first, the rest shared.
Split(qmin, shared, n) ==
    /\ qmin + shared = n
    /\ qmin <= QMin
    /\ qmin < QMin => shared = 0

Device(d) ==
    d \in [queue : [Classes -> Seq(Pkt)], bytes : [Classes -> Int],
           ctrl : {d.ctrl}, rrlast : Int, busy : {d.busy},
           paused : {d.paused}, resumeIn : {d.resumeIn}]

Devices(f) == f = [p \in Ports |-> f[p]] /\ \A p \in Ports : Device(f[p])

Shape(s) ==
    s \in [ingress : {s.ingress}, egress : {s.egress}, pfc : {s.pfc},
           dev : {s.dev}, toPeer : {s.toPeer}]

Owed == [Ports -> [Classes -> Int]]
NothingOwed == [p \in Ports |-> [c \in Classes |-> 0]]

\* The state s of a switch whose devices still have to queue owed[p][c]
\* bytes the MMU has charged.
Counted(s, owed) ==
    /\ Shape(s)
    /\ s.egress \in EgressSet
    /\ Devices(s.dev)
    /\ \A p \in Ports, c \in Classes :
         Split(s.egress.qmin[p][c], s.egress.shared[p][c],
               s.dev[p].bytes[c] + owed[p][c])

-----------------------------------------------------------------------------
(* Charging and releasing.                                                 *)

\* The sizes, classes and thresholds are integers (the assumptions of the model).
LEMMA MmuNumbers ==
    /\ QMin \in Int
    /\ PktSizes \subseteq Int /\ \A s \in PktSizes : s > 0
    /\ Classes \subseteq Int
    /\ QCnt \in Nat \ {0}
  BY MmuAssumption, PfcAssumption DEF QMin

\* GetEgressSP names one of the pools the MMU counts.
LEMMA EgressPool == \A c \in Classes : EgressSP(c) \in Pools
  BY DEF EgressSP, Pools

\* Charging a packet keeps the split of its queue and touches no other.
LEMMA ChargeSplits ==
    ASSUME NEW eg \in EgressSet, NEW p \in Ports, NEW c \in Classes,
           NEW size \in PktSizes, NEW n \in Int,
           Split(eg.qmin[p][c], eg.shared[p][c], n)
    PROVE  LET new == ChargeEgress(eg, p, c, size)
           IN  /\ new \in EgressSet
               /\ Split(new.qmin[p][c], new.shared[p][c], n + size)
               /\ \A q \in Ports, d \in Classes : <<q, d>> # <<p, c>> =>
                    /\ new.qmin[q][d] = eg.qmin[q][d]
                    /\ new.shared[q][d] = eg.shared[q][d]
  <1> DEFINE part == SharedPart(eg.qmin[p][c], size)
             new == ChargeEgress(eg, p, c, size)
  <1>1. /\ eg.qmin[p][c] \in Int /\ eg.shared[p][c] \in Int /\ eg.port[p] \in Int
        /\ size \in Int /\ QMin \in Int /\ size > 0
    BY MmuNumbers DEF EgressSet
  <1>2. part \in Int
    BY <1>1 DEF SharedPart
  <1>3. Split(eg.qmin[p][c] + size - part, eg.shared[p][c] + part, n + size)
    <2>1. CASE eg.qmin[p][c] + size < QMin
      BY <1>1, <2>1 DEF SharedPart, Split
    <2>2. CASE ~(eg.qmin[p][c] + size < QMin)
      <3>1. part = size + eg.qmin[p][c] - QMin
        BY <2>2 DEF SharedPart
      <3>2. eg.qmin[p][c] + size - part = QMin
        BY <1>1, <1>2, <3>1
      <3> HIDE DEF part
      <3> QED BY <1>1, <1>2, <3>1, <3>2 DEF Split
    <2> QED BY <2>1, <2>2
  <1>4. EgressSP(c) \in Pools
    BY EgressPool
  <1> HIDE DEF part
  <1>5. new \in EgressSet
    BY <1>1, <1>2, <1>4 DEF EgressSet, ChargeEgress, part
  <1>6. /\ new.qmin[p][c] = eg.qmin[p][c] + size - part
        /\ new.shared[p][c] = eg.shared[p][c] + part
    BY DEF EgressSet, ChargeEgress, part
  <1>7. \A q \in Ports, d \in Classes : <<q, d>> # <<p, c>> =>
                    /\ new.qmin[q][d] = eg.qmin[q][d]
                    /\ new.shared[q][d] = eg.shared[q][d]
    BY DEF EgressSet, ChargeEgress
  <1> QED BY <1>3, <1>5, <1>6, <1>7

\* Releasing a packet does too.
LEMMA ReleaseSplits ==
    ASSUME NEW eg \in EgressSet, NEW p \in Ports, NEW c \in Classes,
           NEW size \in PktSizes, NEW n \in Int,
           Split(eg.qmin[p][c], eg.shared[p][c], n)
    PROVE  LET new == ReleaseEgress(eg, p, c, size)
           IN  /\ new \in EgressSet
               /\ Split(new.qmin[p][c], new.shared[p][c], n - size)
               /\ \A q \in Ports, d \in Classes : <<q, d>> # <<p, c>> =>
                    /\ new.qmin[q][d] = eg.qmin[q][d]
                    /\ new.shared[q][d] = eg.shared[q][d]
  <1> DEFINE part == ReleasedShare(eg, p, c, size)
             new == ReleaseEgress(eg, p, c, size)
  <1>1. /\ eg.qmin[p][c] \in Int /\ eg.shared[p][c] \in Int /\ eg.port[p] \in Int
        /\ size \in Int /\ QMin \in Int /\ size > 0
    BY MmuNumbers DEF EgressSet
  <1>2. part \in Int
    BY <1>1 DEF ReleasedShare
  <1>3. Split(eg.qmin[p][c] - (size - part), eg.shared[p][c] - part, n - size)
    BY <1>1, <1>2 DEF ReleasedShare, Split
  <1>4. EgressSP(c) \in Pools
    BY EgressPool
  <1> HIDE DEF part
  <1>5. new \in EgressSet
    BY <1>1, <1>2, <1>4 DEF EgressSet, ReleaseEgress, part
  <1>6. /\ new.qmin[p][c] = eg.qmin[p][c] - (size - part)
        /\ new.shared[p][c] = eg.shared[p][c] - part
    BY DEF EgressSet, ReleaseEgress, part
  <1>7. \A q \in Ports, d \in Classes : <<q, d>> # <<p, c>> =>
                    /\ new.qmin[q][d] = eg.qmin[q][d]
                    /\ new.shared[q][d] = eg.shared[q][d]
    BY DEF EgressSet, ReleaseEgress
  <1> QED BY <1>3, <1>5, <1>6, <1>7

-----------------------------------------------------------------------------
(* The devices.                                                            *)

\* What changes no queue keeps its device well formed and its bytes.
LEMMA DeviceKept ==
    ASSUME NEW d, Device(d), NEW c, NEW frames
    PROVE  \A e \in {ControlSent(d), ControlQueued(d, frames), Ready(d),
                     Paused(d, c), Unpaused(d, c), Elapsed(d)} :
             Device(e) /\ e.bytes = d.bytes /\ e.queue = d.queue
  <1>1. Device(ControlSent(d)) /\ ControlSent(d).bytes = d.bytes /\ ControlSent(d).queue = d.queue
    BY DEF Device, ControlSent
  <1>2. Device(ControlQueued(d, frames)) /\ ControlQueued(d, frames).bytes = d.bytes /\ ControlQueued(d, frames).queue = d.queue
    BY DEF Device, ControlQueued
  <1>3. Device(Ready(d)) /\ Ready(d).bytes = d.bytes /\ Ready(d).queue = d.queue
    BY DEF Device, Ready
  <1>4. Device(Paused(d, c)) /\ Paused(d, c).bytes = d.bytes /\ Paused(d, c).queue = d.queue
    BY DEF Device, Paused
  <1>5. Device(Unpaused(d, c)) /\ Unpaused(d, c).bytes = d.bytes /\ Unpaused(d, c).queue = d.queue
    BY DEF Device, Unpaused
  <1>6. Device(Elapsed(d)) /\ Elapsed(d).bytes = d.bytes /\ Elapsed(d).queue = d.queue
    BY DEF Device, Elapsed
  <1> QED BY <1>1, <1>2, <1>3, <1>4, <1>5, <1>6

\* The packet DataSent takes, and what the device counts afterwards.
LEMMA DeviceSends ==
    ASSUME NEW d, Device(d), NEW c \in Classes, d.queue[c] # <<>>
    PROVE  /\ Head(d.queue[c]) \in Pkt
           /\ Device(DataSent(d, c))
           /\ DataSent(d, c).bytes =
                [d.bytes EXCEPT ![c] = @ - Head(d.queue[c]).size]
           /\ DataSent(d, c).queue = [d.queue EXCEPT ![c] = Tail(@)]
  <1> DEFINE w == d.queue[c]
             size == Head(w).size
             queue == [d.queue EXCEPT ![c] = Tail(@)]
             bytes == [d.bytes EXCEPT ![c] = @ - size]
  <1>1. w \in Seq(Pkt) /\ w # <<>>
    BY DEF Device
  <1>2. Tail(w) \in Seq(Pkt) /\ Head(w) \in Pkt
    <2> HIDE DEF w
    <2> QED BY <1>1
  <1>3. size \in Int
    BY <1>2, MmuNumbers DEF Pkt
  <1>4. queue \in [Classes -> Seq(Pkt)]
    BY <1>2 DEF Device
  <1>5. bytes \in [Classes -> Int]
    BY <1>3 DEF Device
  <1>6. /\ Device(DataSent(d, c)) /\ DataSent(d, c).bytes = bytes
        /\ DataSent(d, c).queue = queue
    BY <1>4, <1>5, MmuNumbers DEF Device, DataSent
  <1> QED BY <1>2, <1>6

\* The packet Queued adds, and what the device counts afterwards.
LEMMA DeviceQueues ==
    ASSUME NEW d, Device(d), NEW c \in Classes, NEW in \in Ports,
           NEW size \in PktSizes
    PROVE  /\ Device(Queued(d, in, c, size))
           /\ Queued(d, in, c, size).bytes = [d.bytes EXCEPT ![c] = @ + size]
  <1> DEFINE pkt == [inDev |-> in, size |-> size]
             queue == [d.queue EXCEPT ![c] = Append(@, pkt)]
             bytes == [d.bytes EXCEPT ![c] = @ + size]
  <1>1. pkt \in Pkt
    BY DEF Pkt
  <1>2. d.queue[c] \in Seq(Pkt)
    BY DEF Device
  <1>3. Append(d.queue[c], pkt) \in Seq(Pkt)
    <2> HIDE DEF pkt
    <2> QED BY <1>1, <1>2
  <1>4. queue \in [Classes -> Seq(Pkt)]
    BY <1>3 DEF Device
  <1>5. bytes \in [Classes -> Int]
    BY MmuNumbers DEF Device
  <1> QED BY <1>4, <1>5 DEF Device, Queued

-----------------------------------------------------------------------------
(* The handlers.                                                           *)

\* A call that changes at most one device, and no count.
LEMMA CountedPut ==
    ASSUME NEW s, NEW t, NEW owed, Counted(s, owed), Shape(t),
           t.egress = s.egress,
           NEW p \in Ports, NEW d, Device(d), d.bytes = s.dev[p].bytes,
           t.dev = [s.dev EXCEPT ![p] = d]
    PROVE  Counted(t, owed)
  <1>1. Devices(t.dev)
    BY DEF Counted, Devices
  <1>2. \A q \in Ports : t.dev[q].bytes = s.dev[q].bytes
    BY DEF Counted, Devices
  <1> QED BY <1>1, <1>2 DEF Counted

\* A call that moves bytes of class c at port p, leaving device d there.
Moved(s, t, p, c, d, owed, owes) ==
    /\ Shape(t) /\ t.egress \in EgressSet
    /\ Device(d) /\ t.dev = [s.dev EXCEPT ![p] = d]
    /\ Split(t.egress.qmin[p][c], t.egress.shared[p][c],
             d.bytes[c] + owes[p][c])
    /\ \A e \in Classes \ {c} : d.bytes[e] = s.dev[p].bytes[e]
    /\ \A q \in Ports, e \in Classes : <<q, e>> # <<p, c>> =>
         /\ t.egress.qmin[q][e] = s.egress.qmin[q][e]
         /\ t.egress.shared[q][e] = s.egress.shared[q][e]
         /\ owes[q][e] = owed[q][e]

\* ... keeps the split of every queue, whatever it was owed before.
LEMMA CountedMoved ==
    ASSUME NEW s, NEW t, NEW owed, NEW owes, Counted(s, owed),
           NEW p \in Ports, NEW c \in Classes, NEW d,
           Moved(s, t, p, c, d, owed, owes)
    PROVE  Counted(t, owes)
  <1>1. Devices(t.dev)
    BY DEF Moved, Counted, Devices
  <1>2. ASSUME NEW q \in Ports, NEW e \in Classes
        PROVE  Split(t.egress.qmin[q][e], t.egress.shared[q][e],
                     t.dev[q].bytes[e] + owes[q][e])
    <2>1. CASE q = p /\ e = c
      BY <2>1 DEF Moved, Counted, Devices
    <2>2. CASE q = p /\ e # c
      BY <2>2 DEF Moved, Counted, Devices
    <2>3. CASE q # p
      BY <2>3 DEF Moved, Counted, Devices
    <2> QED BY <2>1, <2>2, <2>3
  <1> QED BY <1>1, <1>2 DEF Moved, Counted

\* The pause flags are no part of the counts.
LEMMA CountedPfc ==
    ASSUME NEW s, NEW owed, Counted(s, owed), NEW v
    PROVE  Counted([s EXCEPT !.pfc = v], owed)
  <1> DEFINE t == [s EXCEPT !.pfc = v]
  <1>1. Shape(t) /\ t.egress = s.egress /\ t.dev = s.dev
    BY DEF Counted, Shape
  <1> SUFFICES Counted(t, owed)
    OBVIOUS
  <1> HIDE DEF t
  <1> QED BY <1>1 DEF Counted

\* Taking a control frame off the priority queue moves no data byte.
LEMMA SendControlCounted ==
    ASSUME NEW s, NEW owed, Counted(s, owed), NEW p \in Ports
    PROVE  Counted(SendControl(s, p), owed)
  <1> DEFINE d == ControlSent(s.dev[p])
             t == SendControl(s, p)
  <1>1. Shape(t) /\ t.dev = [s.dev EXCEPT ![p] = d] /\ t.egress = s.egress
    BY DEF Counted, Shape, SendControl
  <1>2. Device(s.dev[p])
    BY DEF Counted, Devices
  <1>3. Device(d) /\ d.bytes = s.dev[p].bytes
    BY <1>2, DeviceKept
  <1> SUFFICES Counted(t, owed)
    OBVIOUS
  <1> HIDE DEF d, t
  <1> QED BY <1>1, <1>3, CountedPut

\* Nor does queueing PFC frames, and starting the transmitter for them.
LEMMA SendPfcCounted ==
    ASSUME NEW s, NEW owed, Counted(s, owed), NEW p \in Ports, NEW frames
    PROVE  Counted(SendPfc(s, p, frames), owed)
  <1> DEFINE d == ControlQueued(s.dev[p], frames)
             t == [s EXCEPT !.dev[p] = ControlQueued(@, frames)]
  <1>1. Shape(t) /\ t.dev = [s.dev EXCEPT ![p] = d] /\ t.egress = s.egress
    BY DEF Counted, Shape
  <1>2. Device(s.dev[p])
    BY DEF Counted, Devices
  <1>3. Device(d) /\ d.bytes = s.dev[p].bytes
    BY <1>2, DeviceKept
  <1>4. SendPfc(s, p, frames) \in {t, SendControl(t, p)}
    BY DEF SendPfc
  <1> HIDE DEF d, t
  <1>5. Counted(t, owed)
    BY <1>1, <1>3, CountedPut
  <1> QED BY <1>4, <1>5, SendControlCounted

\* CheckAndSendPfc, the pauses and the resumes of one port.
LEMMA CheckAndSendPfcCounted ==
    ASSUME NEW s, NEW owed, Counted(s, owed), NEW p \in Ports,
           NEW c
    PROVE  Counted(CheckAndSendPfc(s, p, c), owed)
  <1> DEFINE pauses == ToPause(s, p, c)
             v == SetRemote(SetPause(s.pfc, p, pauses), p, pauses, TRUE)
             told == [s EXCEPT !.pfc = v]
             resumes == {e \in Classes :
                           told.pfc.remote[p][e] /\ ResumeClass(told, p, e)}
             w == SetRemote(SetResume(told.pfc, p, resumes), p, resumes, FALSE)
             frames == Frames(pauses, TRUE) \o Frames(resumes, FALSE)
  <1>1. CheckAndSendPfc(s, p, c) = SendPfc([told EXCEPT !.pfc = w], p, frames)
    BY Zenon DEF CheckAndSendPfc
  <1>2. Counted(told, owed)
    <2> HIDE DEF v
    <2> QED BY CountedPfc
  <1>3. Counted([told EXCEPT !.pfc = w], owed)
    <2> HIDE DEF told, w
    <2> QED BY <1>2, CountedPfc
  <1> HIDE DEF told, w, frames
  <1> QED BY <1>1, <1>3, SendPfcCounted

\* CheckAndSendResume, for the class of the packet that left.
LEMMA CheckAndSendResumeCounted ==
    ASSUME NEW s, NEW owed, Counted(s, owed), NEW p \in Ports,
           NEW c
    PROVE  Counted(CheckAndSendResume(s, p, c), owed)
  <1> DEFINE told == [s EXCEPT !.pfc = SetResume(@, p, {c})]
  <1>1. CheckAndSendResume(s, p, c) \in {s, SendPfc(told, p, Frames({c}, FALSE))}
    BY Zenon DEF CheckAndSendResume
  <1>2. Counted(told, owed)
    BY CountedPfc
  <1> HIDE DEF told
  <1> QED BY <1>1, <1>2, SendPfcCounted

\* Some class of a nonempty set has the least distance from m_rrlast.
LEMMA NextClassSendable ==
    ASSUME NEW d, Device(d), Sendable(d) # {}
    PROVE  NextClass(d) \in Sendable(d)
  <1> DEFINE key(c) == (c - d.rrlast - 1) % QCnt
             keys == {key(c) : c \in Sendable(d)}
  <1>1. \A c \in Sendable(d) : key(c) \in Nat
    BY MmuNumbers DEF Device, Sendable
  <1>2. keys \in SUBSET Nat /\ keys # {}
    BY <1>1
  <1>3. PICK x \in keys : \A y \in keys : x <= y
    <2> HIDE DEF keys
    <2> QED BY <1>2, LeastNumber
  <1>4. \E c \in Sendable(d) : \A e \in Sendable(d) : key(c) <= key(e)
    BY <1>3
  <1> QED BY <1>4 DEF NextClass

\* A data packet leaves, ...
DataTaken(s, p, c) ==
    [s EXCEPT
       !.dev[p] = DataSent(@, c),
       !.ingress = ReleaseIngress(@, Head(s.dev[p].queue[c]).inDev, c,
                                  Head(s.dev[p].queue[c]).size),
       !.egress = ReleaseEgress(@, p, c, Head(s.dev[p].queue[c]).size)]

\* ... and its device and the MMU give up the same bytes.
LEMMA DataTakenCounted ==
    ASSUME NEW s, NEW owed \in Owed, Counted(s, owed), NEW p \in Ports,
           NEW c \in Sendable(s.dev[p])
    PROVE  /\ Counted(DataTaken(s, p, c), owed)
           /\ Head(s.dev[p].queue[c]).inDev \in Ports
  <1> DEFINE pkt == Head(s.dev[p].queue[c])
             d == DataSent(s.dev[p], c)
             eg == ReleaseEgress(s.egress, p, c, pkt.size)
             t == DataTaken(s, p, c)
  <1>1. Device(s.dev[p]) /\ c \in Classes /\ s.dev[p].queue[c] # <<>>
    BY DEF Counted, Devices, Sendable
  <1>2. /\ pkt \in Pkt /\ Device(d)
        /\ d.bytes = [s.dev[p].bytes EXCEPT ![c] = @ - pkt.size]
    BY <1>1, DeviceSends
  <1>3. pkt.inDev \in Ports /\ pkt.size \in PktSizes /\ pkt.size \in Int
    BY <1>2, MmuNumbers DEF Pkt
  <1>4. Shape(t) /\ t.dev = [s.dev EXCEPT ![p] = d] /\ t.egress = eg
    BY DEF Counted, Shape, DataTaken
  <1>6. /\ s.dev[p].bytes[c] \in Int /\ owed[p][c] \in Int
        /\ Split(s.egress.qmin[p][c], s.egress.shared[p][c],
                 s.dev[p].bytes[c] + owed[p][c])
    BY <1>1 DEF Counted, Device, Owed
  <1>7. /\ eg \in EgressSet
        /\ Split(eg.qmin[p][c], eg.shared[p][c],
                 s.dev[p].bytes[c] + owed[p][c] - pkt.size)
        /\ \A q \in Ports, e \in Classes : <<q, e>> # <<p, c>> =>
             /\ eg.qmin[q][e] = s.egress.qmin[q][e]
             /\ eg.shared[q][e] = s.egress.shared[q][e]
    <2>1. s.egress \in EgressSet /\ s.dev[p].bytes[c] + owed[p][c] \in Int
      BY <1>6 DEF Counted
    <2> HIDE DEF pkt, d, t
    <2> QED BY <1>1, <1>3, <1>6, <2>1, ReleaseSplits, SMTT(30)
  <1> HIDE DEF d, eg, t
  <1>8. d.bytes[c] + owed[p][c] = s.dev[p].bytes[c] + owed[p][c] - pkt.size
    BY <1>1, <1>2, <1>3, <1>6, SMTT(60) DEF Device
  <1>9. \A e \in Classes \ {c} : d.bytes[e] = s.dev[p].bytes[e]
    BY <1>1, <1>2, SMTT(60) DEF Device
  <1>10. Moved(s, t, p, c, d, owed, owed)
    BY <1>2, <1>4, <1>7, <1>8, <1>9 DEF Moved
  <1>11. Counted(t, owed)
    BY <1>1, <1>10, CountedMoved
  <1> QED BY <1>3, <1>11 DEF t

LEMMA SendDataCounted ==
    ASSUME NEW s, NEW owed \in Owed, Counted(s, owed), NEW p \in Ports,
           NEW c \in Sendable(s.dev[p])
    PROVE  Counted(SendData(s, p, c), owed)
  <1>1. SendData(s, p, c) =
          CheckAndSendResume(DataTaken(s, p, c), Head(s.dev[p].queue[c]).inDev, c)
    BY Zenon DEF SendData, DataTaken
  <1> QED BY <1>1, DataTakenCounted, CheckAndSendResumeCounted

\* DequeueAndTransmit, whether it finds a control frame, a packet or neither.
LEMMA DequeueCounted ==
    ASSUME NEW s, NEW owed \in Owed, Counted(s, owed), NEW p \in Ports
    PROVE  Counted(DequeueAndTransmit(s, p), owed)
  <1>1. Device(s.dev[p])
    BY DEF Counted, Devices
  <1>2. ASSUME Sendable(s.dev[p]) # {}
        PROVE  Counted(SendData(s, p, NextClass(s.dev[p])), owed)
    BY <1>1, <1>2, NextClassSendable, SendDataCounted
  <1> QED BY <1>2, SendControlCounted DEF DequeueAndTransmit

\* The admitted packet is first charged, ...
Owes(out, c, size) == [NothingOwed EXCEPT ![out] = [@ EXCEPT ![c] = size]]

Charged(s, in, out, c, size) ==
    [s EXCEPT !.ingress = ChargeIngress(@, in, c, size),
              !.egress = ChargeEgress(@, out, c, size)]

LEMMA OwesPacket ==
    ASSUME NEW out \in Ports, NEW c \in Classes, NEW size \in PktSizes
    PROVE  /\ size \in Int /\ NothingOwed \in Owed /\ Owes(out, c, size) \in Owed
           /\ Owes(out, c, size)[out][c] = size /\ NothingOwed[out][c] = 0
           /\ \A q \in Ports, e \in Classes : <<q, e>> # <<out, c>> =>
                Owes(out, c, size)[q][e] = NothingOwed[q][e]
  BY MmuNumbers DEF NothingOwed, Owed, Owes

LEMMA ChargedCounted ==
    ASSUME NEW s, Counted(s, NothingOwed), NEW in \in Ports, NEW out \in Ports,
           NEW c \in Classes, NEW size \in PktSizes
    PROVE  Counted(Charged(s, in, out, c, size), Owes(out, c, size))
  <1> DEFINE owes == Owes(out, c, size)
             eg == ChargeEgress(s.egress, out, c, size)
             charged == Charged(s, in, out, c, size)
  <1>2. size \in Int /\ NothingOwed \in Owed /\ owes \in Owed
    BY OwesPacket
  <1>3. /\ owes[out][c] = size /\ NothingOwed[out][c] = 0
        /\ \A q \in Ports, e \in Classes : <<q, e>> # <<out, c>> =>
             owes[q][e] = NothingOwed[q][e]
    BY OwesPacket
  <1>4. Shape(charged) /\ charged.dev = s.dev /\ charged.egress = eg
    BY DEF Counted, Shape, Charged
  <1>5. /\ Device(s.dev[out]) /\ s.dev[out].bytes[c] \in Int
        /\ Split(s.egress.qmin[out][c], s.egress.shared[out][c],
                 s.dev[out].bytes[c])
    BY <1>3 DEF Counted, Devices, Device
  <1>6. /\ eg \in EgressSet
        /\ Split(eg.qmin[out][c], eg.shared[out][c],
                 s.dev[out].bytes[c] + size)
        /\ \A q \in Ports, e \in Classes : <<q, e>> # <<out, c>> =>
             /\ eg.qmin[q][e] = s.egress.qmin[q][e]
             /\ eg.shared[q][e] = s.egress.shared[q][e]
    <2>1. s.egress \in EgressSet
      BY DEF Counted
    <2> QED BY <1>5, <2>1, ChargeSplits
  <1>7. s.dev = [s.dev EXCEPT ![out] = s.dev[out]]
    BY DEF Counted, Devices
  <1> HIDE DEF owes, eg, charged
  <1>8. Moved(s, charged, out, c, s.dev[out], NothingOwed, owes)
    BY <1>3, <1>4, <1>5, <1>6, <1>7 DEF Moved
  <1>9. Counted(charged, owes)
    BY <1>8, CountedMoved
  <1> QED BY <1>9 DEF charged, owes

\* ... and then queued.
PacketQueued(s, in, out, c, size) == [s EXCEPT !.dev[out] = Queued(@, in, c, size)]

LEMMA PacketQueuedCounted ==
    ASSUME NEW in \in Ports, NEW out \in Ports, NEW c \in Classes, NEW size \in PktSizes,
           NEW s, Counted(s, Owes(out, c, size))
    PROVE  Counted(PacketQueued(s, in, out, c, size), NothingOwed)
  <1> DEFINE owes == Owes(out, c, size)
             d == Queued(s.dev[out], in, c, size)
             t == PacketQueued(s, in, out, c, size)
  <1>2. size \in Int
    BY OwesPacket
  <1>3. /\ owes[out][c] = size /\ NothingOwed[out][c] = 0
        /\ \A q \in Ports, e \in Classes : <<q, e>> # <<out, c>> =>
             owes[q][e] = NothingOwed[q][e]
    BY OwesPacket
  <1>10. Counted(s, owes)
    OBVIOUS
  <1> HIDE DEF owes
  <1>11. Device(s.dev[out])
    BY <1>10 DEF Counted, Devices
  <1>12. Device(d) /\ d.bytes = [s.dev[out].bytes EXCEPT ![c] = @ + size]
    BY <1>11, DeviceQueues
  <1>13. Shape(t) /\ t.dev = [s.dev EXCEPT ![out] = d]
           /\ t.egress = s.egress
    BY <1>10 DEF Counted, Shape, PacketQueued
  <1>14. /\ s.egress \in EgressSet /\ s.dev[out].bytes[c] \in Int
         /\ Split(s.egress.qmin[out][c], s.egress.shared[out][c],
                  s.dev[out].bytes[c] + size)
    BY <1>3, <1>10, <1>11 DEF Counted, Device
  <1>15. /\ d.bytes[c] + NothingOwed[out][c] = s.dev[out].bytes[c] + size
         /\ \A e \in Classes \ {c} : d.bytes[e] = s.dev[out].bytes[e]
    BY <1>2, <1>3, <1>11, <1>12, <1>14 DEF Device
  <1> HIDE DEF d, t
  <1>16. Moved(s, t, out, c, d, owes, NothingOwed)
    BY <1>3, <1>12, <1>13, <1>14, <1>15 DEF Moved
  <1>17. Counted(t, NothingOwed)
    BY <1>10, <1>16, CountedMoved
  <1> QED BY <1>17 DEF t

LEMMA DoSwitchSendCounted ==
    ASSUME NEW s, Counted(s, NothingOwed), NEW in \in Ports, NEW out \in Ports,
           NEW c \in Classes, NEW size \in PktSizes
    PROVE  Counted(DoSwitchSend(s, in, out, c, size), NothingOwed)
  <1> DEFINE told == CheckAndSendPfc(Charged(s, in, out, c, size), in, c)
             t == PacketQueued(told, in, out, c, size)
  <1>1. DoSwitchSend(s, in, out, c, size) \in {s, DequeueAndTransmit(t, out)}
    BY Zenon DEF DoSwitchSend, Charged, PacketQueued
  <1>2. Counted(told, Owes(out, c, size))
    BY ChargedCounted, CheckAndSendPfcCounted
  <1>3. Counted(t, NothingOwed)
    <2> HIDE DEF told
    <2> QED BY <1>2, PacketQueuedCounted
  <1> HIDE DEF t
  <1> QED BY <1>1, <1>3, OwesPacket, DequeueCounted

-----------------------------------------------------------------------------
(* The invariant of the specification.                                     *)

CountInv ==
    /\ Counted(Switch, NothingOwed)
    /\ toSwitch \in [Ports -> Seq(WirePkt)]

\* A handler's final state is the next state of the variables.
LEMMA BecomeCounted ==
    ASSUME NEW s, Counted(s, NothingOwed), Become(s)
    PROVE  Counted(Switch, NothingOwed)'
  <1>1. Shape(Switch')
    BY DEF Shape, Switch
  <1>2. Switch'.egress = s.egress /\ Switch'.dev = s.dev
    BY DEF Switch, Become
  <1> HIDE DEF Switch
  <1> QED BY <1>1, <1>2 DEF Counted

\* A step that changes no count.
LEMMA BytesKept ==
    ASSUME CountInv, UNCHANGED egress, Devices(dev'),
           \A q \in Ports : dev'[q].bytes = dev[q].bytes,
           toSwitch' \in [Ports -> Seq(WirePkt)]
    PROVE  CountInv'
  <1>1. Shape(Switch')
    BY DEF Shape, Switch
  <1>2. /\ Switch'.egress = Switch.egress /\ Switch'.dev = dev'
        /\ Switch.dev = dev
    BY DEF Switch
  <1> HIDE DEF Switch
  <1> QED BY <1>1, <1>2 DEF CountInv, Counted

\* Empty queues are counted.
LEMMA InitCounted == Init => CountInv
  <1> SUFFICES ASSUME Init PROVE CountInv
    OBVIOUS
  <1>1. egress \in EgressSet /\ Devices(dev)
    <2>1. egress \in EgressSet
      BY DEF Init, NoEgress, EgressSet
    <2>2. ASSUME NEW p \in Ports PROVE Device(dev[p])
      <3>1. dev[p] = [queue |-> [c \in Classes |-> <<>>],
                      bytes |-> [c \in Classes |-> 0], ctrl |-> <<>>,
                      rrlast |-> 0, busy |-> 0,
                      paused |-> ForEach(FALSE), resumeIn |-> ForEach(0)]
        BY DEF Init, ForEach
      <3>2. [c \in Classes |-> <<>>] \in [Classes -> Seq(Pkt)]
        OBVIOUS
      <3> QED BY <3>1, <3>2 DEF Device
    <2>3. dev = [p \in Ports |-> dev[p]]
      BY DEF Init
    <2> QED BY <2>1, <2>2, <2>3 DEF Devices
  <1>2. \A p \in Ports, c \in Classes :
          Split(egress.qmin[p][c], egress.shared[p][c],
                dev[p].bytes[c] + NothingOwed[p][c])
    BY MmuNumbers, MmuAssumption DEF Init, NoEgress, ForEach, Split, NothingOwed, QMin
  <1>3. toSwitch \in [Ports -> Seq(WirePkt)]
    BY DEF Init
  <1> QED BY <1>1, <1>2, <1>3 DEF CountInv, Counted, Shape, Switch

\* Every event of the simulator keeps the counts.
LEMMA StepCounted == CountInv /\ [Next]_vars => CountInv'
  <1> SUFFICES ASSUME CountInv, [Next]_vars PROVE CountInv'
    OBVIOUS
  <1> USE DEF CountInv
  <1>0. /\ Counted(Switch, NothingOwed) /\ NothingOwed \in Owed
        /\ Switch.dev = dev /\ Switch.egress = egress
        /\ Devices(dev) /\ \A p \in Ports : Device(dev[p])
    BY DEF NothingOwed, Owed, Switch, Counted, Devices
  <1>1. ASSUME NEW p \in Ports, SwitchReceive(p) PROVE CountInv'
    <2> DEFINE wire == toSwitch[p]
               pkt == Head(wire)
    <2>1. wire \in Seq(WirePkt) /\ wire # <<>>
      BY <1>1 DEF SwitchReceive, FirstDue
    <2>2. pkt \in WirePkt /\ Tail(wire) \in Seq(WirePkt)
      <3> HIDE DEF wire
      <3> QED BY <2>1
    <2>3. pkt.out \in Ports /\ pkt.class \in Classes /\ pkt.size \in PktSizes
      BY <2>2 DEF WirePkt
    <2>4. Become(DoSwitchSend(Switch, p, pkt.out, pkt.class, pkt.size))
      BY <1>1 DEF SwitchReceive
    <2>5. toSwitch' = [toSwitch EXCEPT ![p] = Tail(wire)]
      BY <1>1 DEF SwitchReceive
    <2>6. toSwitch' \in [Ports -> Seq(WirePkt)]
      BY <2>2, <2>5
    <2> HIDE DEF pkt
    <2>7. Counted(Switch, NothingOwed)'
      BY <1>0, <2>3, <2>4, DoSwitchSendCounted, BecomeCounted
    <2> QED BY <2>6, <2>7
  <1>2. ASSUME NEW p \in Ports, TransmitComplete(p) PROVE CountInv'
    <2> DEFINE t == [Switch EXCEPT !.dev[p] = Ready(@)]
    <2>1. /\ Shape(t) /\ t.egress = Switch.egress
          /\ t.dev = [Switch.dev EXCEPT ![p] = Ready(Switch.dev[p])]
      BY DEF Shape, Switch
    <2>2. Become(DequeueAndTransmit(t, p)) /\ UNCHANGED toSwitch
      BY <1>2 DEF TransmitComplete
    <2> HIDE DEF t
    <2>3. Counted(t, NothingOwed)
      <3> DEFINE sw == Switch
                 d == Ready(sw.dev[p])
      <3>1. Device(d) /\ d.bytes = sw.dev[p].bytes
        BY <1>0, DeviceKept
      <3>2. t.dev = [sw.dev EXCEPT ![p] = d] /\ t.egress = sw.egress
        BY <2>1
      <3>3. Counted(sw, NothingOwed) /\ Shape(t)
        BY <1>0, <2>1
      <3> HIDE DEF sw, d, CountInv
      <3> QED BY <3>1, <3>2, <3>3, CountedPut
    <2>4. Counted(Switch, NothingOwed)'
      BY <1>0, <2>2, <2>3, DequeueCounted, BecomeCounted
    <2> QED BY <2>2, <2>4
  <1>3. ASSUME NEW p \in Ports, NEW c \in Classes, Resume(p, c) PROVE CountInv'
    <2> DEFINE t == [Switch EXCEPT !.dev[p] = Unpaused(@, c)]
    <2>1. /\ Shape(t) /\ t.egress = Switch.egress
          /\ t.dev = [Switch.dev EXCEPT ![p] = Unpaused(Switch.dev[p], c)]
      BY DEF Shape, Switch
    <2>2. Become(DequeueAndTransmit(t, p)) /\ UNCHANGED toSwitch
      BY <1>3 DEF Resume
    <2> HIDE DEF t
    <2>3. Counted(t, NothingOwed)
      <3> DEFINE sw == Switch
                 d == Unpaused(sw.dev[p], c)
      <3>1. Device(d) /\ d.bytes = sw.dev[p].bytes
        BY <1>0, DeviceKept
      <3>2. t.dev = [sw.dev EXCEPT ![p] = d] /\ t.egress = sw.egress
        BY <2>1
      <3>3. Counted(sw, NothingOwed) /\ Shape(t)
        BY <1>0, <2>1
      <3> HIDE DEF sw, d, CountInv
      <3> QED BY <3>1, <3>2, <3>3, CountedPut
    <2>4. Counted(Switch, NothingOwed)'
      BY <1>0, <2>2, <2>3, DequeueCounted, BecomeCounted
    <2> QED BY <2>2, <2>4
  <1>4. ASSUME NEW p \in Ports, NEW c \in Classes, DevicePause(p, c) PROVE CountInv'
    <2>1. dev' = [dev EXCEPT ![p] = Paused(dev[p], c)]
      BY <1>4 DEF DevicePause
    <2>2. UNCHANGED <<egress, toSwitch>>
      BY <1>4 DEF DevicePause
    <2>3. Device(Paused(dev[p], c)) /\ Paused(dev[p], c).bytes = dev[p].bytes
      BY <1>0, DeviceKept
    <2>4. Devices(dev') /\ \A q \in Ports : dev'[q].bytes = dev[q].bytes
      <3> DEFINE d == Paused(dev[p], c)
      <3>1. dev' = [dev EXCEPT ![p] = d] /\ Device(d) /\ d.bytes = dev[p].bytes
        BY <2>1, <2>3
      <3> HIDE DEF d
      <3> QED BY <1>0, <3>1 DEF Devices
    <2> QED BY <2>2, <2>4, BytesKept
  <1>5. CASE Tick
    <2>1. dev' = [p \in Ports |-> Elapsed(dev[p])] /\ UNCHANGED egress
      BY <1>5 DEF Tick
    <2>2. Devices(dev') /\ \A q \in Ports : dev'[q].bytes = dev[q].bytes
      <3>1. \A q \in Ports : /\ Device(Elapsed(dev[q]))
                             /\ Elapsed(dev[q]).bytes = dev[q].bytes
        BY <1>0, DeviceKept
      <3> QED BY <2>1, <3>1 DEF Devices
    <2>3. ASSUME NEW wire \in Seq(WirePkt)
          PROVE  EarlierWire(wire) \in Seq(WirePkt)
      <3>1. \A i \in 1..Len(wire) : wire[i] \in WirePkt
        OBVIOUS
      <3>2. ASSUME NEW pkt \in WirePkt
            PROVE  [pkt EXCEPT !.left = Earlier(@)] \in WirePkt
        <4>1. Earlier(pkt.left) \in Int
          BY DEF WirePkt, Earlier
        <4> QED BY <4>1 DEF WirePkt
      <3> QED BY <3>1, <3>2 DEF EarlierWire
    <2>4. toSwitch' \in [Ports -> Seq(WirePkt)]
      BY <1>5, <2>3 DEF Tick
    <2> QED BY <2>1, <2>2, <2>4, BytesKept
  <1>6. ASSUME NEW p \in Ports, NEW out \in Ports, NEW c \in Classes,
               NEW size \in PktSizes, PeerSend(p, out, c, size)
        PROVE  CountInv'
    <2> DEFINE pkt == [out |-> out, class |-> c, size |-> size,
                       left |-> After(PeerTxTime + Delay)]
    <2>1. pkt \in WirePkt
      BY PfcAssumption DEF WirePkt, After
    <2>2. toSwitch' = [toSwitch EXCEPT ![p] = Append(@, pkt)]
      BY <1>6 DEF PeerSend
    <2> HIDE DEF pkt
    <2>3. toSwitch' \in [Ports -> Seq(WirePkt)]
      BY <2>1, <2>2
    <2>4. UNCHANGED <<egress, dev>>
      BY <1>6 DEF PeerSend
    <2> QED BY <1>0, <2>3, <2>4, BytesKept
  <1>7. ASSUME NEW p \in Ports, PeerReceive(p) PROVE CountInv'
    BY <1>0, <1>7, BytesKept DEF PeerReceive
  <1>8. ASSUME NEW p \in Ports, NEW c \in Classes,
               PauseExpires(p, c) \/ PeerResume(p, c)
        PROVE  CountInv'
    BY <1>0, <1>8, BytesKept DEF PauseExpires, PeerResume
  <1>9. CASE UNCHANGED vars
    BY <1>0, <1>9, BytesKept DEF vars
  <1> QED
    BY <1>1, <1>2, <1>3, <1>4, <1>5, <1>6, <1>7, <1>8, <1>9
    DEF Next, DeviceResume, DevicePauseExpires

LEMMA QueuesMatch == CountInv => EgressMatchesQueue
  <1> SUFFICES ASSUME CountInv, NEW p \in Ports, NEW c \in Classes
               PROVE  Split(egress.qmin[p][c], egress.shared[p][c], dev[p].bytes[c])
    BY DEF EgressMatchesQueue, Split
  <1>1. Device(dev[p]) /\ NothingOwed[p][c] = 0
    BY DEF CountInv, Counted, Switch, Devices, NothingOwed
  <1>2. dev[p].bytes[c] + NothingOwed[p][c] = dev[p].bytes[c]
    BY <1>1 DEF Device
  <1> QED BY <1>2 DEF CountInv, Counted, Switch

\* The MMU's two counters of a queue always add up to the bytes the device has
\* queued, and the guarantee is used first: admission, PFC frames and
\* transmission keep it so, for all constants that satisfy the assumptions.
THEOREM EgressMatches == Spec => []EgressMatchesQueue
  BY QueuesMatch, InitCounted, StepCounted, PTL DEF Spec

-----------------------------------------------------------------------------
(* Sums over ports and classes.                                            *)

Matrix == [Ports -> [Classes -> Int]]
Put(m, p, c, n) == [m EXCEPT ![p] = [@ EXCEPT ![c] = n]]

OverPorts(m, S) == SumFunction([p \in Ports |-> SumOf(m[p], S)])

\* There are finitely many ports and classes.
LEMMA FiniteMmu ==
    /\ IsFiniteSet(Ports) /\ IsFiniteSet(Classes)
    /\ \A S \in SUBSET Classes : IsFiniteSet(S)
  <1>1. IsFiniteSet(Ports)
    BY MmuAssumption, FS_Interval DEF Ports
  <1>2. IsFiniteSet(1..(QCnt - 1))
    BY MmuAssumption, FS_Interval
  <1>3. IsFiniteSet(Classes)
    BY <1>2, MmuAssumption, FS_Subset
  <1> QED BY <1>1, <1>3, FS_Subset

\* A sum over ports of sums over classes is a number, and if no term is negative
\* it is not less than any of them.
LEMMA OverPortsBounds ==
    ASSUME NEW m \in Matrix, NEW S \in SUBSET Classes
    PROVE  /\ OverPorts(m, S) \in Int /\ \A p \in Ports : SumOf(m[p], S) \in Int
           /\ (\A p \in Ports, c \in Classes : m[p][c] \in Nat) =>
                /\ OverPorts(m, S) \in Nat
                /\ \A p \in Ports : /\ SumOf(m[p], S) \in Nat
                                    /\ SumOf(m[p], S) <= OverPorts(m, S)
                /\ \A p \in Ports, c \in S : m[p][c] <= SumOf(m[p], S)
  <1> USE DEF Matrix
  <1> DEFINE f == [p \in Ports |-> SumOf(m[p], S)]
  <1>1. IsFiniteSet(Ports) /\ IsFiniteSet(S)
    BY FiniteMmu
  <1>2. ASSUME NEW p \in Ports PROVE SumOf(m[p], S) \in Int
    <2>1. \A c \in S : m[p][c] \in Int
      OBVIOUS
    <2> QED BY <1>1, <2>1, SumParts DEF SumOf
  <1>3. OverPorts(m, S) = SumFunctionOnSet(f, Ports)
    BY DEF OverPorts, SumFunction
  <1>4. \A p \in Ports : f[p] \in Int
    BY <1>2
  <1>5. SumFunctionOnSet(f, Ports) \in Int
    <2> HIDE DEF f
    <2> QED BY <1>1, <1>4, SumParts
  <1>6. ASSUME \A p \in Ports, c \in Classes : m[p][c] \in Nat
        PROVE  /\ OverPorts(m, S) \in Nat
               /\ \A p \in Ports : /\ SumOf(m[p], S) \in Nat
                                   /\ SumOf(m[p], S) <= OverPorts(m, S)
               /\ \A p \in Ports, c \in S : m[p][c] <= SumOf(m[p], S)
    <2>1. ASSUME NEW p \in Ports
          PROVE  /\ SumOf(m[p], S) \in Nat
                 /\ \A c \in S : m[p][c] <= SumOf(m[p], S)
      <3>1. \A c \in S : m[p][c] \in Nat
        BY <1>6
      <3> QED BY <1>1, <3>1, SumBounds DEF SumOf
    <2>2. \A p \in Ports : f[p] \in Nat
      BY <2>1
    <2>3. /\ SumFunctionOnSet(f, Ports) \in Nat
          /\ \A p \in Ports : f[p] <= SumFunctionOnSet(f, Ports)
      <3> HIDE DEF f
      <3> QED BY <1>1, <2>2, SumBounds
    <2> QED BY <1>3, <2>1, <2>3
  <1> QED BY <1>2, <1>3, <1>5, <1>6

\* One entry changes.
LEMMA PutChanges ==
    ASSUME NEW m \in Matrix, NEW p \in Ports, NEW c \in Classes, NEW n \in Int
    PROVE  /\ Put(m, p, c, n) \in Matrix /\ Put(m, p, c, n)[p][c] = n
           /\ \A q \in Ports, d \in Classes :
                <<q, d>> # <<p, c>> => Put(m, p, c, n)[q][d] = m[q][d]
           /\ \A q \in Ports : q # p => Put(m, p, c, n)[q] = m[q]
  BY DEF Matrix, Put

LEMMA OverPortsChange ==
    ASSUME NEW m \in Matrix, NEW p \in Ports, NEW c \in Classes, NEW n \in Int,
           NEW S \in SUBSET Classes
    PROVE  /\ \A q \in Ports : q # p => SumOf(Put(m, p, c, n)[q], S) = SumOf(m[q], S)
           /\ c \in S =>
                /\ SumOf(Put(m, p, c, n)[p], S) = SumOf(m[p], S) + (n - m[p][c])
                /\ OverPorts(Put(m, p, c, n), S) = OverPorts(m, S) + (n - m[p][c])
           /\ c \notin S =>
                /\ SumOf(Put(m, p, c, n)[p], S) = SumOf(m[p], S)
                /\ OverPorts(Put(m, p, c, n), S) = OverPorts(m, S)
  <1> DEFINE new == Put(m, p, c, n)
  <1> USE DEF Matrix
  <1> DEFINE f == [q \in Ports |-> SumOf(m[q], S)]
             g == [q \in Ports |-> SumOf(new[q], S)]
  <1>1. IsFiniteSet(Ports) /\ IsFiniteSet(S)
    BY FiniteMmu
  <1>2. /\ new \in [Ports -> [Classes -> Int]] /\ new[p][c] = n
        /\ \A q \in Ports, d \in Classes : <<q, d>> # <<p, c>> => new[q][d] = m[q][d]
        /\ \A q \in Ports : q # p => new[q] = m[q]
    BY PutChanges
  <1> HIDE DEF new
  <1>3. /\ OverPorts(m, S) = SumFunctionOnSet(f, Ports)
        /\ OverPorts(new, S) = SumFunctionOnSet(g, Ports)
    BY DEF OverPorts, SumFunction
  <1>4. /\ \A q \in Ports : f[q] = SumOf(m[q], S) /\ g[q] = SumOf(new[q], S)
        /\ \A q \in Ports : f[q] \in Int /\ g[q] \in Int
    BY <1>2, OverPortsBounds
  <1>5. ASSUME c \in S PROVE SumOf(new[p], S) = SumOf(m[p], S) + (n - m[p][c])
    <2> DEFINE before == m[p]
               after == new[p]
    <2>1. Differ(before, after, S, c) /\ after[c] = n
      BY <1>2, <1>5 DEF Differ
    <2> HIDE DEF before, after
    <2>2. SumFunctionOnSet(after, S) = SumFunctionOnSet(before, S) + (after[c] - before[c])
      BY <1>1, <2>1, SumChanges
    <2> QED BY <2>1, <2>2 DEF SumOf, before, after
  <1>6. ASSUME c \notin S PROVE SumOf(new[p], S) = SumOf(m[p], S)
    <2> DEFINE before == m[p]
               after == new[p]
    <2>1. \A d \in S : before[d] \in Int /\ after[d] = before[d]
      BY <1>2, <1>6
    <2> HIDE DEF before, after
    <2>2. SumFunctionOnSet(after, S) = SumFunctionOnSet(before, S)
      BY <1>1, <2>1, SumAgrees
    <2> QED BY <2>2 DEF SumOf, before, after
  <1>7. \A q \in Ports : q # p => SumOf(new[q], S) = SumOf(m[q], S)
    BY <1>2
  <1>8. SumFunctionOnSet(g, Ports) = SumFunctionOnSet(f, Ports) + (g[p] - f[p])
    <2>1. Differ(f, g, Ports, p)
      BY <1>4, <1>7 DEF Differ
    <2> HIDE DEF f, g
    <2> QED BY <1>1, <2>1, SumChanges
  <1>9. SumFunctionOnSet(f, Ports) \in Int
    <2> HIDE DEF f, g
    <2> QED BY <1>1, <1>4, SumParts
  <1> HIDE DEF f, g
  <1>10. CASE c \in S
    <2>1. g[p] - f[p] = n - m[p][c]
      <3>1. SumOf(m[p], S) \in Int /\ m[p][c] \in Int
        BY <1>4
      <3> QED BY <1>4, <1>5, <1>10, <3>1
    <2> QED BY <1>2, <1>3, <1>5, <1>7, <1>8, <1>10, <2>1 DEF new
  <1>11. CASE c \notin S
    <2>1. g[p] - f[p] = 0
      BY <1>4, <1>6, <1>11
    <2> QED BY <1>2, <1>3, <1>6, <1>7, <1>8, <1>9, <1>11, <2>1 DEF new
  <1> QED BY <1>10, <1>11

-----------------------------------------------------------------------------
(* The counters of the ingress side.                                       *)

Positive(m) == m \in Matrix /\ \A p \in Ports, c \in Classes : m[p][c] \in Nat

\* The ports, the pools and the total count what the classes count, and what a
\* pool holds above its limit is charged to headroom.
IngressSums(ig) ==
    /\ ig \in [total : Int, sp : [Pools -> Int], port : [Ports -> Int],
               pg : Matrix, hdrm : Matrix]
    /\ Positive(ig.pg) /\ Positive(ig.hdrm)
    /\ \A p \in Ports, c \in Classes : ig.hdrm[p][c] <= ig.pg[p][c]
    /\ \A p \in Ports : ig.port[p] = SumOf(ig.pg[p], Classes)
    /\ \A k \in Pools : ig.sp[k] = OverPorts(ig.pg, InPool(k))
    /\ ig.total = SumOf(ig.port, Ports)
    /\ \A k \in Pools : ig.sp[k] - BufferLimit <= OverPorts(ig.hdrm, InPool(k))

\* GetIngressSP names one of the pools, the one the class is in.
LEMMA IngressPool ==
    /\ \A k : InPool(k) \in SUBSET Classes
    /\ \A c \in Classes : IngressSP(c) \in Pools
    /\ \A c \in Classes, k \in Pools : c \in InPool(k) <=> k = IngressSP(c)
  BY DEF IngressSP, Pools, InPool

\* One class of a port gains or loses n bytes; the headroom follows as far as
\* it must.
LEMMA IngressMoves ==
    ASSUME NEW ig, IngressSums(ig), NEW p \in Ports, NEW c \in Classes, NEW n \in Int,
           NEW h \in Int, NEW new,
           new = [total |-> ig.total + n,
                  sp |-> [ig.sp EXCEPT ![IngressSP(c)] = @ + n],
                  port |-> [ig.port EXCEPT ![p] = @ + n],
                  pg |-> Put(ig.pg, p, c, ig.pg[p][c] + n),
                  hdrm |-> Put(ig.hdrm, p, c, h)],
           0 <= h, h <= ig.pg[p][c] + n,
           \/ h - ig.hdrm[p][c] >= n
           \/ h >= ig.hdrm[p][c] /\ ig.sp[IngressSP(c)] + n <= BufferLimit
    PROVE  IngressSums(new)
  <1> DEFINE pg == Put(ig.pg, p, c, ig.pg[p][c] + n)
             hdrm == Put(ig.hdrm, p, c, h)
             port == [ig.port EXCEPT ![p] = @ + n]
             sp == [ig.sp EXCEPT ![IngressSP(c)] = @ + n]
  <1>1. /\ ig.pg \in Matrix /\ ig.hdrm \in Matrix /\ ig.total \in Int
        /\ ig.sp \in [Pools -> Int] /\ ig.port \in [Ports -> Int]
        /\ ig.pg[p][c] \in Nat /\ ig.hdrm[p][c] \in Nat
        /\ IngressSP(c) \in Pools /\ BufferLimit \in Nat
    BY IngressPool, MmuAssumption DEF IngressSums, Positive
  <1>2. ig.pg[p][c] + n \in Nat /\ h \in Nat
    BY <1>1
  <1>3. /\ new.total = ig.total + n /\ new.sp = sp /\ new.port = port
        /\ new.pg = pg /\ new.hdrm = hdrm
        /\ new = [total |-> new.total, sp |-> new.sp, port |-> new.port,
                  pg |-> new.pg, hdrm |-> new.hdrm]
    OBVIOUS
  <1>4. ASSUME NEW S \in SUBSET Classes
        PROVE  /\ pg \in Matrix /\ pg[p][c] = ig.pg[p][c] + n
               /\ \A q \in Ports, d \in Classes : <<q, d>> # <<p, c>> =>
                    pg[q][d] = ig.pg[q][d]
               /\ \A q \in Ports : q # p => SumOf(pg[q], S) = SumOf(ig.pg[q], S)
               /\ c \in S => /\ SumOf(pg[p], S) = SumOf(ig.pg[p], S) + n
                             /\ OverPorts(pg, S) = OverPorts(ig.pg, S) + n
               /\ c \notin S => OverPorts(pg, S) = OverPorts(ig.pg, S)
    <2> DEFINE old == ig.pg
               m == old[p][c] + n
    <2>1. old \in Matrix /\ m \in Int /\ m - old[p][c] = n
      BY <1>1
    <2>2. pg = Put(old, p, c, m)
      OBVIOUS
    <2> HIDE DEF old, m, pg
    <2>3. /\ pg \in Matrix /\ pg[p][c] = m
          /\ \A q \in Ports, d \in Classes : <<q, d>> # <<p, c>> => pg[q][d] = old[q][d]
      BY <2>1, <2>2, PutChanges, SMTT(60)
    <2>4. /\ \A q \in Ports : q # p => SumOf(pg[q], S) = SumOf(old[q], S)
          /\ c \in S => /\ SumOf(pg[p], S) = SumOf(old[p], S) + n
                        /\ OverPorts(pg, S) = OverPorts(old, S) + n
          /\ c \notin S => OverPorts(pg, S) = OverPorts(old, S)
      <3>1. /\ \A q \in Ports : q # p => SumOf(pg[q], S) = SumOf(old[q], S)
            /\ c \in S =>
                 /\ SumOf(pg[p], S) = SumOf(old[p], S) + (m - old[p][c])
                 /\ OverPorts(pg, S) = OverPorts(old, S) + (m - old[p][c])
            /\ c \notin S => OverPorts(pg, S) = OverPorts(old, S)
        BY <2>1, <2>2, OverPortsChange
      <3> QED BY <2>1, <3>1
    <2> QED BY <2>3, <2>4 DEF old, m
  <1>5. ASSUME NEW S \in SUBSET Classes
        PROVE  /\ hdrm \in Matrix /\ hdrm[p][c] = h
               /\ \A q \in Ports, d \in Classes : <<q, d>> # <<p, c>> =>
                    hdrm[q][d] = ig.hdrm[q][d]
               /\ c \in S => OverPorts(hdrm, S) =
                               OverPorts(ig.hdrm, S) + (h - ig.hdrm[p][c])
               /\ c \notin S => OverPorts(hdrm, S) = OverPorts(ig.hdrm, S)
    <2> DEFINE old == ig.hdrm
    <2>1. old \in Matrix /\ hdrm = Put(old, p, c, h)
      BY <1>1
    <2> HIDE DEF old, hdrm
    <2>2. /\ hdrm \in Matrix /\ hdrm[p][c] = h
          /\ \A q \in Ports, d \in Classes : <<q, d>> # <<p, c>> =>
               hdrm[q][d] = old[q][d]
      BY <2>1, PutChanges, SMTT(60)
    <2>3. /\ c \in S => OverPorts(hdrm, S) = OverPorts(old, S) + (h - old[p][c])
          /\ c \notin S => OverPorts(hdrm, S) = OverPorts(old, S)
      BY <2>1, OverPortsChange
    <2> QED BY <2>2, <2>3 DEF old
  <1>6. /\ sp \in [Pools -> Int] /\ sp[IngressSP(c)] = ig.sp[IngressSP(c)] + n
        /\ \A k \in Pools : k # IngressSP(c) => sp[k] = ig.sp[k]
        /\ port \in [Ports -> Int] /\ port[p] = ig.port[p] + n
        /\ \A q \in Ports : q # p => port[q] = ig.port[q]
    BY <1>1
  <1>7. SumOf(port, Ports) = SumOf(ig.port, Ports) + n
    <2> DEFINE before == ig.port
    <2>1. Differ(before, port, Ports, p) /\ port[p] - before[p] = n
      BY <1>1, <1>6 DEF Differ
    <2> HIDE DEF port, before
    <2>2. SumFunctionOnSet(port, Ports) =
            SumFunctionOnSet(before, Ports) + (port[p] - before[p])
      BY <2>1, FiniteMmu, SumChanges
    <2> QED BY <2>1, <2>2 DEF SumOf, before
  <1> HIDE DEF pg, hdrm, port, sp
  <1>8. /\ pg \in Matrix /\ hdrm \in Matrix
        /\ Positive(pg) /\ Positive(hdrm)
    <2>1. Classes \in SUBSET Classes
      OBVIOUS
    <2>2. /\ pg \in Matrix /\ pg[p][c] \in Nat
          /\ hdrm \in Matrix /\ hdrm[p][c] \in Nat
          /\ \A q \in Ports, d \in Classes : <<q, d>> # <<p, c>> =>
               pg[q][d] = ig.pg[q][d] /\ hdrm[q][d] = ig.hdrm[q][d]
      BY <1>2, <1>4, <1>5, <2>1
    <2> QED BY <2>2 DEF IngressSums, Positive
  <1>9. \A q \in Ports, d \in Classes : hdrm[q][d] <= pg[q][d]
    <2>1. hdrm[p][c] <= pg[p][c]
      BY <1>4, <1>5
    <2>2. ASSUME NEW q \in Ports, NEW d \in Classes, <<q, d>> # <<p, c>>
          PROVE  hdrm[q][d] <= pg[q][d]
      <3>1. pg[q][d] = ig.pg[q][d] /\ hdrm[q][d] = ig.hdrm[q][d]
        BY <1>4, <1>5, <2>2
      <3> QED BY <3>1 DEF IngressSums
    <2> QED BY <2>1, <2>2
  <1>10. \A q \in Ports : port[q] = SumOf(pg[q], Classes)
    <2>1. Classes \in SUBSET Classes /\ c \in Classes
      OBVIOUS
    <2>2. /\ SumOf(pg[p], Classes) = SumOf(ig.pg[p], Classes) + n
          /\ \A q \in Ports : q # p => SumOf(pg[q], Classes) = SumOf(ig.pg[q], Classes)
      BY <1>4, <2>1
    <2> QED BY <1>6, <2>2 DEF IngressSums
  <1>11. ASSUME NEW k \in Pools
         PROVE  /\ sp[k] = OverPorts(pg, InPool(k))
                /\ sp[k] - BufferLimit <= OverPorts(hdrm, InPool(k))
    <2> DEFINE S == InPool(k)
    <2>1. S \in SUBSET Classes /\ (c \in S <=> k = IngressSP(c))
      BY IngressPool
    <2>2. /\ ig.sp[k] = OverPorts(ig.pg, S)
          /\ ig.sp[k] - BufferLimit <= OverPorts(ig.hdrm, S)
      BY DEF IngressSums
    <2>3. OverPorts(hdrm, S) \in Nat /\ OverPorts(ig.hdrm, S) \in Nat
      <3> HIDE DEF S
      <3>1. ig.hdrm \in Matrix /\ Positive(ig.hdrm)
        BY <1>1 DEF IngressSums
      <3> QED BY <1>8, <2>1, <3>1, OverPortsBounds DEF Matrix, Positive
    <2> HIDE DEF S
    <2>4. CASE k = IngressSP(c)
      <3>1. /\ sp[k] = ig.sp[k] + n /\ OverPorts(pg, S) = OverPorts(ig.pg, S) + n
            /\ OverPorts(hdrm, S) = OverPorts(ig.hdrm, S) + (h - ig.hdrm[p][c])
        BY <1>4, <1>5, <1>6, <2>1, <2>4
      <3>2. ig.sp[k] \in Int
        BY <1>1
      <3>3. sp[k] - BufferLimit <= OverPorts(hdrm, S)
        BY <1>1, <2>2, <2>3, <2>4, <3>1, <3>2
      <3> QED BY <2>2, <3>1, <3>3 DEF S
    <2>5. CASE k # IngressSP(c)
      <3>1. /\ sp[k] = ig.sp[k] /\ OverPorts(pg, S) = OverPorts(ig.pg, S)
            /\ OverPorts(hdrm, S) = OverPorts(ig.hdrm, S)
        BY <1>4, <1>5, <1>6, <2>1, <2>5
      <3> QED BY <2>2, <3>1 DEF S
    <2> QED BY <2>4, <2>5
  <1>12. ig.total + n = SumOf(port, Ports) /\ ig.total + n \in Int
    BY <1>1, <1>7 DEF IngressSums
  <1>13. new \in [total : Int, sp : [Pools -> Int], port : [Ports -> Int],
                  pg : Matrix, hdrm : Matrix]
    BY <1>3, <1>6, <1>8, <1>12
  <1> QED BY <1>3, <1>8, <1>9, <1>10, <1>11, <1>12, <1>13 DEF IngressSums


\* Putting back what is there changes nothing.
LEMMA PutSame ==
    ASSUME NEW m \in Matrix, NEW p \in Ports, NEW c \in Classes
    PROVE  m = Put(m, p, c, m[p][c])
  BY DEF Matrix, Put

\* Charging a packet keeps the sums: what it adds above the pool's limit is
\* charged to headroom as well.
LEMMA ChargeKeepsSums ==
    ASSUME NEW ig, IngressSums(ig), NEW p \in Ports, NEW c \in Classes,
           NEW size \in PktSizes
    PROVE  /\ IngressSums(ChargeIngress(ig, p, c, size))
           /\ ChargeIngress(ig, p, c, size).pg = Put(ig.pg, p, c, ig.pg[p][c] + size)
           /\ ChargeIngress(ig, p, c, size).total = ig.total + size
  <1> DEFINE new == ChargeIngress(ig, p, c, size)
             over == ig.sp[IngressSP(c)] + size > BufferLimit
             h == IF over THEN ig.hdrm[p][c] + size ELSE ig.hdrm[p][c]
  <1>1. /\ ig.hdrm \in Matrix /\ ig.pg[p][c] \in Nat /\ ig.hdrm[p][c] \in Nat
        /\ ig.hdrm[p][c] <= ig.pg[p][c]
        /\ size \in Int /\ size > 0
        /\ ig.sp[IngressSP(c)] \in Int /\ BufferLimit \in Nat
    BY MmuNumbers, MmuAssumption, IngressPool DEF IngressSums, Positive
  <1>2. h \in Int /\ 0 <= h /\ h <= ig.pg[p][c] + size
    BY <1>1
  <1>3. \/ h - ig.hdrm[p][c] >= size
        \/ h >= ig.hdrm[p][c] /\ ig.sp[IngressSP(c)] + size <= BufferLimit
    BY <1>1
  <1>4. /\ Put(ig.pg, p, c, ig.pg[p][c] + size) = [ig.pg EXCEPT ![p][c] = @ + size]
        /\ Put(ig.hdrm, p, c, h) =
             IF over THEN [ig.hdrm EXCEPT ![p][c] = @ + size] ELSE ig.hdrm
    BY <1>1, PutSame DEF Put
  <1>5. new = [total |-> ig.total + size,
               sp |-> [ig.sp EXCEPT ![IngressSP(c)] = @ + size],
               port |-> [ig.port EXCEPT ![p] = @ + size],
               pg |-> Put(ig.pg, p, c, ig.pg[p][c] + size),
               hdrm |-> Put(ig.hdrm, p, c, h)]
    BY <1>4 DEF ChargeIngress
  <1> HIDE DEF new, h
  <1>6. IngressSums(new)
    BY <1>1, <1>2, <1>3, <1>5, IngressMoves
  <1>7. new.pg = Put(ig.pg, p, c, ig.pg[p][c] + size) /\ new.total = ig.total + size
    BY <1>5
  <1> QED BY <1>6, <1>7 DEF new

\* No counter is below one it sums.
LEMMA IngressBounds ==
    ASSUME NEW ig, IngressSums(ig), NEW p \in Ports, NEW c \in Classes
    PROVE  /\ ig.pg[p][c] <= ig.port[p] /\ ig.pg[p][c] <= ig.total
           /\ ig.pg[p][c] <= ig.sp[IngressSP(c)]
           /\ ig.total \in Nat /\ \A q \in Ports : ig.port[q] \in Nat
           /\ \A k \in Pools : ig.sp[k] \in Nat
  <1> DEFINE m == ig.pg
             port == ig.port
  <1>1. /\ m \in Matrix /\ Positive(m)
        /\ \A q \in Ports : port[q] = SumOf(m[q], Classes)
        /\ ig.total = SumOf(port, Ports)
        /\ \A k \in Pools : ig.sp[k] = OverPorts(m, InPool(k))
    BY DEF IngressSums
  <1>2. IngressSP(c) \in Pools /\ c \in InPool(IngressSP(c))
        /\ \A k : InPool(k) \in SUBSET Classes
    BY IngressPool
  <1> HIDE DEF m, port
  <1>3. ASSUME NEW S \in SUBSET Classes
        PROVE  /\ OverPorts(m, S) \in Nat
               /\ \A q \in Ports : /\ SumOf(m[q], S) \in Nat
                                   /\ SumOf(m[q], S) <= OverPorts(m, S)
               /\ \A q \in Ports, d \in S : m[q][d] <= SumOf(m[q], S)
    BY <1>1, OverPortsBounds DEF Positive
  <1>4. /\ \A q \in Ports : port[q] \in Nat
        /\ m[p][c] \in Nat /\ m[p][c] <= port[p]
    <2>1. Classes \in SUBSET Classes
      OBVIOUS
    <2> QED BY <1>1, <1>3, <2>1 DEF Positive
  <1>5. ig.total \in Nat /\ port[p] <= ig.total
    BY <1>1, <1>4, FiniteMmu, SumBounds DEF SumOf
  <1>6. m[p][c] <= ig.sp[IngressSP(c)] /\ ig.sp[IngressSP(c)] \in Nat
    <2> DEFINE S == InPool(IngressSP(c))
    <2>1. /\ S \in SUBSET Classes /\ c \in S
          /\ ig.sp[IngressSP(c)] = OverPorts(m, S)
      BY <1>1, <1>2
    <2> HIDE DEF S
    <2> QED BY <1>3, <1>4, <2>1
  <1>7. \A k \in Pools : ig.sp[k] \in Nat
    BY <1>1, <1>2, <1>3
  <1>8. m[p][c] <= ig.total
    BY <1>4, <1>5
  <1> QED BY <1>4, <1>5, <1>6, <1>7, <1>8 DEF m, port

\* Releasing a packet of which every byte is counted keeps the sums, and no
\* counter but the headroom's is cut off at 0.
LEMMA ReleaseKeepsSums ==
    ASSUME NEW ig, IngressSums(ig), NEW p \in Ports, NEW c \in Classes,
           NEW size \in PktSizes, size <= ig.pg[p][c]
    PROVE  /\ IngressSums(ReleaseIngress(ig, p, c, size))
           /\ ReleaseIngress(ig, p, c, size).pg = Put(ig.pg, p, c, ig.pg[p][c] - size)
           /\ ReleaseIngress(ig, p, c, size).total = ig.total - size
  <1> DEFINE new == ReleaseIngress(ig, p, c, size)
             h == Minus(ig.hdrm[p][c], size)
             n == 0 - size
  <1>1. /\ ig.hdrm \in Matrix /\ ig.pg \in Matrix
        /\ ig.pg[p][c] \in Nat /\ ig.hdrm[p][c] \in Nat
        /\ ig.hdrm[p][c] <= ig.pg[p][c]
        /\ size \in Int /\ size > 0
        /\ ig.total \in Int /\ ig.port[p] \in Int
        /\ ig.sp[IngressSP(c)] \in Int /\ BufferLimit \in Nat
    BY MmuNumbers, MmuAssumption, IngressPool DEF IngressSums, Positive
  <1>2. h \in Int /\ 0 <= h /\ h <= ig.pg[p][c] + n /\ h - ig.hdrm[p][c] >= n
    BY <1>1 DEF Minus
  <1>3. /\ Minus(ig.total, size) = ig.total + n
        /\ Minus(ig.port[p], size) = ig.port[p] + n
        /\ Minus(ig.sp[IngressSP(c)], size) = ig.sp[IngressSP(c)] + n
        /\ Minus(ig.pg[p][c], size) = ig.pg[p][c] + n
        /\ ig.pg[p][c] + n = ig.pg[p][c] - size
        /\ ig.total + n = ig.total - size
    BY <1>1, IngressBounds DEF Minus
  <1>4. /\ Put(ig.pg, p, c, ig.pg[p][c] + n) = [ig.pg EXCEPT ![p][c] = Minus(@, size)]
        /\ Put(ig.hdrm, p, c, h) = [ig.hdrm EXCEPT ![p][c] = Minus(@, size)]
    <2> HIDE DEF n
    <2> QED BY <1>3 DEF Put
  <1> HIDE DEF n
  <1>5. new = [total |-> ig.total + n,
               sp |-> [ig.sp EXCEPT ![IngressSP(c)] = @ + n],
               port |-> [ig.port EXCEPT ![p] = @ + n],
               pg |-> Put(ig.pg, p, c, ig.pg[p][c] + n),
               hdrm |-> Put(ig.hdrm, p, c, h)]
    BY <1>3, <1>4 DEF ReleaseIngress
  <1>6. n \in Int
    BY <1>1 DEF n
  <1> HIDE DEF new, h
  <1>7. IngressSums(new)
    BY <1>1, <1>2, <1>5, <1>6, IngressMoves
  <1>8. new.pg = Put(ig.pg, p, c, ig.pg[p][c] - size) /\ new.total = ig.total - size
    BY <1>3, <1>5
  <1> QED BY <1>7, <1>8 DEF new


-----------------------------------------------------------------------------
(* The counters of the egress side.                                        *)

InEgressPool(k) == {c \in Classes : EgressSP(c) = k}

\* What the MMU counts for each queue, guaranteed and shared.
Held(eg) == [p \in Ports |-> [c \in Classes |-> eg.qmin[p][c] + eg.shared[p][c]]]

\* The ports and the pools count what the queues count.
EgressSums(eg) ==
    /\ eg \in EgressSet
    /\ Positive(eg.qmin) /\ Positive(eg.shared)
    /\ \A p \in Ports : eg.port[p] = SumOf(Held(eg)[p], Classes)
    /\ \A k \in Pools : eg.sp[k] = OverPorts(eg.shared, InEgressPool(k))

\* A queue gains or loses n bytes, which leave base guaranteed and rest shared.
EgressMove(eg, new, p, c, n, base, rest) ==
    /\ base + rest = Held(eg)[p][c] + n
    /\ new = [qmin |-> Put(eg.qmin, p, c, base),
              shared |-> Put(eg.shared, p, c, rest),
              port |-> [eg.port EXCEPT ![p] = @ + n],
              sp |-> [eg.sp EXCEPT ![EgressSP(c)] = @ + (rest - eg.shared[p][c])]]

LEMMA EgressMoves ==
    ASSUME NEW eg, EgressSums(eg), NEW p \in Ports, NEW c \in Classes, NEW n \in Int,
           NEW base \in Nat, NEW rest \in Nat, NEW new,
           EgressMove(eg, new, p, c, n, base, rest)
    PROVE  EgressSums(new)
  <1> DEFINE old == Held(eg)
             held == Held(new)
             before == eg.shared
             qmin == Put(eg.qmin, p, c, base)
             shared == Put(eg.shared, p, c, rest)
             port == [eg.port EXCEPT ![p] = @ + n]
             sp == [eg.sp EXCEPT ![EgressSP(c)] = @ + (rest - before[p][c])]
  <1>1. /\ eg.qmin \in Matrix /\ before \in Matrix /\ old \in Matrix
        /\ Positive(eg.qmin) /\ Positive(before)
        /\ eg.port \in [Ports -> Int] /\ eg.sp \in [Pools -> Int]
        /\ EgressSP(c) \in Pools
    BY EgressPool DEF EgressSums, EgressSet, Positive, Matrix, Held
  <1>2. /\ new.qmin = qmin /\ new.shared = shared
        /\ new.port = port /\ new.sp = sp
        /\ new = [qmin |-> new.qmin, shared |-> new.shared,
                  port |-> new.port, sp |-> new.sp]
        /\ base + rest = old[p][c] + n
    BY DEF EgressMove
  <1>3. /\ qmin \in Matrix /\ qmin[p][c] = base
        /\ shared \in Matrix /\ shared[p][c] = rest
        /\ \A x \in Ports, e \in Classes : <<x, e>> # <<p, c>> =>
             qmin[x][e] = eg.qmin[x][e] /\ shared[x][e] = before[x][e]
    <2> DEFINE w == eg.qmin
    <2>1. /\ w \in Matrix /\ qmin = Put(w, p, c, base) /\ base \in Int
          /\ before \in Matrix /\ shared = Put(before, p, c, rest) /\ rest \in Int
      BY <1>1
    <2> HIDE DEF w, before, qmin, shared
    <2>2. /\ qmin \in Matrix /\ qmin[p][c] = base
          /\ \A x \in Ports, e \in Classes : <<x, e>> # <<p, c>> =>
               qmin[x][e] = w[x][e]
      BY <2>1, PutChanges, SMTT(60)
    <2>3. /\ shared \in Matrix /\ shared[p][c] = rest
          /\ \A x \in Ports, e \in Classes : <<x, e>> # <<p, c>> =>
               shared[x][e] = before[x][e]
      BY <2>1, PutChanges, SMTT(60)
    <2> QED BY <2>2, <2>3 DEF w
  <1>4. held = Put(old, p, c, old[p][c] + n)
    <2>1. held = [x \in Ports |-> [e \in Classes |->
                    IF <<x, e>> = <<p, c>> THEN old[p][c] + n ELSE old[x][e]]]
      BY <1>2, <1>3 DEF Held
    <2>2. Put(old, p, c, old[p][c] + n) = [x \in Ports |-> [e \in Classes |->
                    IF <<x, e>> = <<p, c>> THEN old[p][c] + n ELSE old[x][e]]]
      <3> DEFINE m == old
      <3> HIDE DEF old
      <3> QED BY <1>1 DEF Put, Matrix
    <2> QED BY <2>1, <2>2
  <1>5. /\ port \in [Ports -> Int] /\ port[p] = eg.port[p] + n
        /\ \A x \in Ports : x # p => port[x] = eg.port[x]
        /\ sp \in [Pools -> Int] /\ sp[EgressSP(c)] = eg.sp[EgressSP(c)] + (rest - before[p][c])
        /\ \A k \in Pools : k # EgressSP(c) => sp[k] = eg.sp[k]
        /\ shared = Put(before, p, c, rest) /\ before \in Matrix /\ rest \in Int
    BY <1>1 DEF Matrix
  <1> HIDE DEF old, held, before, qmin, shared, port, sp
  <1>6. \A x \in Ports : port[x] = SumOf(held[x], Classes)
    <2> DEFINE m == old[p][c] + n
    <2>1. m \in Int /\ m - old[p][c] = n
      BY <1>1 DEF Matrix
    <2>2. held = Put(old, p, c, m)
      BY <1>4
    <2> HIDE DEF m
    <2>3. Classes \in SUBSET Classes
      OBVIOUS
    <2>4. /\ \A x \in Ports : x # p => SumOf(held[x], Classes) = SumOf(old[x], Classes)
          /\ SumOf(held[p], Classes) = SumOf(old[p], Classes) + (m - old[p][c])
      <3>1. old \in Matrix /\ m \in Int
        BY <1>1, <2>1
      <3>2. ASSUME NEW S \in SUBSET Classes
            PROVE  /\ \A x \in Ports : x # p => SumOf(held[x], S) = SumOf(old[x], S)
                   /\ c \in S => SumOf(held[p], S) = SumOf(old[p], S) + (m - old[p][c])
        BY <2>2, <3>1, OverPortsChange
      <3> QED BY <2>3, <3>2
    <2>5. \A x \in Ports : eg.port[x] = SumOf(old[x], Classes)
      BY DEF EgressSums, old
    <2> QED BY <1>5, <2>1, <2>4, <2>5
  <1>7. ASSUME NEW k \in Pools
        PROVE  sp[k] = OverPorts(new.shared, InEgressPool(k))
    <2> DEFINE S == InEgressPool(k)
    <2>1. S \in SUBSET Classes /\ (c \in S <=> k = EgressSP(c))
      BY DEF InEgressPool
    <2>2. eg.sp[k] = OverPorts(before, S)
      BY DEF EgressSums, before
    <2> HIDE DEF S
    <2>3. /\ c \in S => OverPorts(shared, S) = OverPorts(before, S) + (rest - before[p][c])
          /\ c \notin S => OverPorts(shared, S) = OverPorts(before, S)
      BY <1>5, <2>1, OverPortsChange
    <2> QED BY <1>2, <1>5, <2>1, <2>2, <2>3 DEF S
  <1>8. Positive(new.qmin) /\ Positive(new.shared)
    BY <1>1, <1>2, <1>3 DEF Positive
  <1>9. new \in EgressSet
    BY <1>2, <1>3, <1>5 DEF EgressSet, Matrix
  <1> QED BY <1>2, <1>6, <1>7, <1>8, <1>9 DEF EgressSums, held

\* The ingress total is what the egress pool holds and the queues' guarantees.
Balanced(ig, eg) == ig.total = eg.sp[1] + OverPorts(eg.qmin, Classes)

\* No data is of class 0, so that one egress pool counts all of it.
LEMMA OneEgressPool == 1 \in Pools /\ \A c \in Classes : EgressSP(c) = 1
  BY MmuAssumption DEF Pools, EgressSP

\* What both sides count of a queue that gains n bytes.
LEMMA BalanceMoves ==
    ASSUME NEW ig, NEW eg, EgressSums(eg), Balanced(ig, eg), ig.total \in Int,
           NEW p \in Ports, NEW c \in Classes, NEW n \in Int,
           NEW base \in Nat, NEW rest \in Nat, NEW new, EgressMove(eg, new, p, c, n, base, rest),
           NEW more, more.total = ig.total + n
    PROVE  Balanced(more, new)
  <1> DEFINE qmin == eg.qmin
  <1>1. /\ qmin \in Matrix /\ qmin[p][c] \in Int /\ eg.shared[p][c] \in Int
        /\ eg.sp \in [Pools -> Int] /\ EgressSP(c) = 1 /\ 1 \in Pools
        /\ Held(eg)[p][c] = qmin[p][c] + eg.shared[p][c] /\ base \in Int
    BY OneEgressPool DEF EgressSums, EgressSet, Positive, Matrix, Held
  <1>2. /\ base + rest = Held(eg)[p][c] + n
        /\ new.qmin = Put(qmin, p, c, base)
        /\ new.sp[1] = eg.sp[1] + (rest - eg.shared[p][c])
    BY <1>1 DEF EgressMove
  <1>3. ig.total = eg.sp[1] + OverPorts(qmin, Classes)
    BY DEF Balanced
  <1> HIDE DEF qmin
  <1>4. Classes \in SUBSET Classes
    OBVIOUS
  <1>5. /\ OverPorts(new.qmin, Classes) = OverPorts(qmin, Classes) + (base - qmin[p][c])
        /\ OverPorts(qmin, Classes) \in Int
    BY <1>1, <1>2, <1>4, OverPortsChange, OverPortsBounds
  <1>6. more.total = new.sp[1] + OverPorts(new.qmin, Classes)
    BY <1>1, <1>2, <1>3, <1>5
  <1> QED BY <1>6 DEF Balanced

\* Charging a packet keeps the sums, and the balance with a total that grows by
\* the packet.
LEMMA ChargeKeepsEgressSums ==
    ASSUME NEW eg, EgressSums(eg), NEW p \in Ports, NEW c \in Classes,
           NEW size \in PktSizes, Split(eg.qmin[p][c], eg.shared[p][c], Held(eg)[p][c])
    PROVE  /\ EgressSums(ChargeEgress(eg, p, c, size))
           /\ \A ig, more :
                Balanced(ig, eg) /\ ig.total \in Int /\ more.total = ig.total + size
                  => Balanced(more, ChargeEgress(eg, p, c, size))
  <1> DEFINE new == ChargeEgress(eg, p, c, size)
             part == SharedPart(eg.qmin[p][c], size)
             q == eg.qmin[p][c] + size - part
             r == eg.shared[p][c] + part
  <1>1. /\ eg.qmin[p][c] \in Nat /\ eg.shared[p][c] \in Nat
        /\ Held(eg)[p][c] = eg.qmin[p][c] + eg.shared[p][c]
        /\ size \in Int /\ size > 0 /\ QMin \in Nat
        /\ eg.qmin[p][c] <= QMin
    BY MmuNumbers, MmuAssumption DEF EgressSums, Positive, Held, Split, QMin
  <1>2. part \in Nat /\ part <= size
    BY <1>1 DEF SharedPart
  <1> HIDE DEF part
  <1>3. q \in Nat /\ r \in Nat /\ q + r = Held(eg)[p][c] + size
        /\ r - eg.shared[p][c] = part
    BY <1>1, <1>2
  <1>4. /\ Put(eg.qmin, p, c, q) = [eg.qmin EXCEPT ![p][c] = @ + size - part]
        /\ Put(eg.shared, p, c, r) = [eg.shared EXCEPT ![p][c] = @ + part]
    BY DEF Put
  <1> HIDE DEF q, r
  <1>5. new = [qmin |-> Put(eg.qmin, p, c, q),
               shared |-> Put(eg.shared, p, c, r),
               port |-> [eg.port EXCEPT ![p] = @ + size],
               sp |-> [eg.sp EXCEPT ![EgressSP(c)] = @ + (r - eg.shared[p][c])]]
    BY <1>3, <1>4 DEF ChargeEgress, part
  <1> HIDE DEF new
  <1>6. EgressMove(eg, new, p, c, size, q, r)
    BY <1>3, <1>5 DEF EgressMove
  <1>7. EgressSums(new)
    BY <1>1, <1>3, <1>6, EgressMoves
  <1>8. \A ig, more :
          Balanced(ig, eg) /\ ig.total \in Int /\ more.total = ig.total + size
            => Balanced(more, new)
    BY <1>1, <1>3, <1>6, BalanceMoves
  <1> QED BY <1>7, <1>8 DEF new

\* A packet that leaves was counted: neither part goes below 0.
LEMMA ReleaseKeepsEgressSums ==
    ASSUME NEW eg, EgressSums(eg), NEW p \in Ports, NEW c \in Classes,
           NEW size \in PktSizes, size <= Held(eg)[p][c],
           Split(eg.qmin[p][c], eg.shared[p][c], Held(eg)[p][c])
    PROVE  /\ EgressSums(ReleaseEgress(eg, p, c, size))
           /\ \A ig, more :
                Balanced(ig, eg) /\ ig.total \in Int /\ more.total = ig.total - size
                  => Balanced(more, ReleaseEgress(eg, p, c, size))
  <1> DEFINE new == ReleaseEgress(eg, p, c, size)
             part == ReleasedShare(eg, p, c, size)
             q == eg.qmin[p][c] - (size - part)
             r == eg.shared[p][c] - part
             n == 0 - size
  <1>1. /\ eg.qmin[p][c] \in Nat /\ eg.shared[p][c] \in Nat
        /\ Held(eg)[p][c] = eg.qmin[p][c] + eg.shared[p][c]
        /\ size \in Int /\ size > 0 /\ QMin \in Nat
        /\ eg.qmin[p][c] <= QMin /\ (eg.qmin[p][c] < QMin => eg.shared[p][c] = 0)
        /\ eg.port \in [Ports -> Int] /\ eg.sp \in [Pools -> Int]
        /\ EgressSP(c) \in Pools
    BY MmuNumbers, MmuAssumption, EgressPool
    DEF EgressSums, EgressSet, Positive, Held, Split, QMin
  <1>2. /\ part \in Nat /\ part <= size /\ part <= eg.shared[p][c]
        /\ size - part <= eg.qmin[p][c]
    BY <1>1 DEF ReleasedShare
  <1> HIDE DEF part
  <1>3. /\ q \in Nat /\ r \in Nat /\ n \in Int /\ q + r = Held(eg)[p][c] + n
        /\ \A x \in Int : /\ x + (r - eg.shared[p][c]) = x - part
                          /\ x + n = x - size
    BY <1>1, <1>2
  <1>4. /\ Put(eg.qmin, p, c, q) = [eg.qmin EXCEPT ![p][c] = @ - (size - part)]
        /\ Put(eg.shared, p, c, r) = [eg.shared EXCEPT ![p][c] = @ - part]
    BY DEF Put
  <1> HIDE DEF q, r, n
  <1>5. /\ eg.port[p] + n = eg.port[p] - size
        /\ eg.sp[EgressSP(c)] + (r - eg.shared[p][c]) = eg.sp[EgressSP(c)] - part
    <2>1. eg.port[p] \in Int /\ eg.sp[EgressSP(c)] \in Int
      BY <1>1
    <2> QED BY <1>3, <2>1
  <1>6. new = [qmin |-> Put(eg.qmin, p, c, q),
               shared |-> Put(eg.shared, p, c, r),
               port |-> [eg.port EXCEPT ![p] = @ + n],
               sp |-> [eg.sp EXCEPT ![EgressSP(c)] = @ + (r - eg.shared[p][c])]]
    BY <1>4, <1>5 DEF ReleaseEgress, part
  <1> HIDE DEF new
  <1>7. EgressMove(eg, new, p, c, n, q, r)
    BY <1>3, <1>6 DEF EgressMove
  <1>8. EgressSums(new)
    BY <1>1, <1>3, <1>7, EgressMoves
  <1>9. \A ig, more :
          Balanced(ig, eg) /\ ig.total \in Int /\ more.total = ig.total - size
            => Balanced(more, new)
    <2> SUFFICES ASSUME NEW ig, NEW more, Balanced(ig, eg), ig.total \in Int,
                        more.total = ig.total - size
                 PROVE  Balanced(more, new)
      OBVIOUS
    <2>1. more.total = ig.total + n
      BY <1>3
    <2> QED BY <1>3, <1>7, <2>1, BalanceMoves
  <1> QED BY <1>8, <1>9 DEF new


-----------------------------------------------------------------------------
(* The bytes of a queue.                                                   *)

Weight(w, packets) == SumFunction([i \in DOMAIN packets |-> w[packets[i]]])

Sizes == [pkt \in Pkt |-> pkt.size]
SizesFrom(p) == [pkt \in Pkt |-> IF pkt.inDev = p THEN pkt.size ELSE 0]

LEMMA BytesAreWeights ==
    ASSUME NEW packets \in Seq(Pkt)
    PROVE  /\ Bytes(packets) = Weight(Sizes, packets)
           /\ \A p : BytesFrom(p, packets) = Weight(SizesFrom(p), packets)
           /\ Sizes \in [Pkt -> Nat]
           /\ \A p : SizesFrom(p) \in [Pkt -> Nat]
  <1>1. \A i \in DOMAIN packets : packets[i] \in Pkt
    OBVIOUS
  <1>2. \A pkt \in Pkt : pkt.size \in Nat
    <2>1. PktSizes \subseteq Nat
      BY MmuAssumption, PfcAssumption
    <2> QED BY <2>1 DEF Pkt
  <1>3. \A i \in DOMAIN packets : Sizes[packets[i]] = packets[i].size
    BY <1>1 DEF Sizes
  <1>4. ASSUME NEW p
        PROVE  BytesFrom(p, packets) = Weight(SizesFrom(p), packets)
    <2>1. \A i \in DOMAIN packets :
            SizesFrom(p)[packets[i]] = IF packets[i].inDev = p THEN packets[i].size ELSE 0
      BY <1>1 DEF SizesFrom
    <2> QED BY <2>1 DEF BytesFrom, Weight
  <1>5. Bytes(packets) = Weight(Sizes, packets)
    BY <1>3 DEF Bytes, Weight
  <1>6. Sizes \in [Pkt -> Nat] /\ \A p : SizesFrom(p) \in [Pkt -> Nat]
    <2> DEFINE P == Pkt
    <2>1. \A pkt \in P : pkt.size \in Nat
      BY <1>2
    <2> HIDE DEF P
    <2>2. [pkt \in P |-> pkt.size] \in [P -> Nat]
      BY <2>1
    <2>3. \A p : [pkt \in P |-> IF pkt.inDev = p THEN pkt.size ELSE 0] \in [P -> Nat]
      BY <2>1
    <2> QED BY <2>2, <2>3 DEF P, Sizes, SizesFrom
  <1> QED BY <1>4, <1>5, <1>6, Zenon

\* What a queue weighs, and what one more packet or one less makes of it.
LEMMA WeightLaws ==
    ASSUME NEW w \in [Pkt -> Nat], NEW q \in Seq(Pkt)
    PROVE  /\ Weight(w, q) \in Nat
           /\ q = <<>> => Weight(w, q) = 0
           /\ \A pkt \in Pkt : Weight(w, Append(q, pkt)) = Weight(w, q) + w[pkt]
           /\ q # <<>> => /\ Weight(w, Tail(q)) = Weight(w, q) - w[Head(q)]
                          /\ w[Head(q)] <= Weight(w, q)
  <1> DEFINE f == [i \in DOMAIN q |-> w[q[i]]]
  <1>1. /\ Len(q) \in Nat /\ DOMAIN f = 1..Len(q) /\ IsFiniteSet(1..Len(q))
        /\ \A i \in 1..Len(q) : f[i] = w[q[i]] /\ f[i] \in Nat /\ q[i] \in Pkt
    <2>1. Len(q) \in Nat /\ DOMAIN q = 1..Len(q) /\ \A i \in 1..Len(q) : q[i] \in Pkt
      OBVIOUS
    <2>2. DOMAIN f = 1..Len(q) /\ \A i \in 1..Len(q) : f[i] = w[q[i]]
      BY <2>1
    <2>3. \A i \in 1..Len(q) : w[q[i]] \in Nat
      <3> DEFINE P == Pkt
      <3> HIDE DEF P
      <3> QED BY <2>1
    <2>4. IsFiniteSet(1..Len(q))
      BY <2>1, FS_Interval
    <2> HIDE DEF f
    <2> QED BY <2>1, <2>2, <2>3, <2>4
  <1>2. Weight(w, q) = SumFunction(f) /\ SumFunction(f) = SumFunctionOnSet(f, 1..Len(q))
    BY <1>1 DEF Weight, SumFunction
  <1>3. /\ SumFunctionOnSet(f, 1..Len(q)) \in Nat
        /\ \A i \in 1..Len(q) : f[i] <= SumFunctionOnSet(f, 1..Len(q))
    <2> HIDE DEF f
    <2> QED BY <1>1, SumBounds
  <1>4. ASSUME q = <<>> PROVE Weight(w, q) = 0
    <2>1. 1..Len(q) = {}
      BY <1>4
    <2>2. \A i \in 1..Len(q) : f[i] \in Int
      BY <1>1
    <2>3. SumFunctionOnSet(f, 1..Len(q)) = 0
      <3> DEFINE S == 1..Len(q)
      <3>1. IsFiniteSet(S) /\ S = {} /\ \A i \in S : f[i] \in Int
        BY <1>1, <2>1, <2>2
      <3> HIDE DEF f, S
      <3>2. SumFunctionOnSet(f, S) = 0
        BY <3>1, SumParts
      <3> QED BY <3>2 DEF S
    <2> HIDE DEF f
    <2> QED BY <1>2, <2>3
  <1>5. ASSUME NEW pkt \in Pkt PROVE Weight(w, Append(q, pkt)) = Weight(w, q) + w[pkt]
    <2> DEFINE n == Len(q)
               g == [i \in DOMAIN Append(q, pkt) |-> w[Append(q, pkt)[i]]]
    <2>1. /\ DOMAIN g = 1..(n + 1) /\ g[n + 1] = w[pkt] /\ w[pkt] \in Nat
          /\ \A i \in 1..n : g[i] = f[i]
      OBVIOUS
    <2>2. Weight(w, Append(q, pkt)) = SumFunction(g)
      BY DEF Weight
    <2> HIDE DEF f, g, n
    <2>3. /\ n \in Nat /\ DOMAIN f = 1..n
          /\ \A i \in 1..n : f[i] \in Int /\ g[i] = f[i]
      BY <1>1, <2>1 DEF n
    <2>4. g[n + 1] \in Int
      BY <2>1
    <2>5. SumFunction(g) = SumFunction(f) + g[n + 1]
      BY <2>1, <2>3, <2>4, SumAppends
    <2> QED BY <1>2, <2>1, <2>2, <2>5
  <1>6. ASSUME q # <<>>
        PROVE  /\ Weight(w, Tail(q)) = Weight(w, q) - w[Head(q)]
               /\ w[Head(q)] <= Weight(w, q)
    <2> DEFINE n == Len(q) - 1
               g == [i \in DOMAIN Tail(q) |-> w[Tail(q)[i]]]
    <2>1. /\ n \in Nat /\ n + 1 = Len(q) /\ 1 \in 1..Len(q)
          /\ DOMAIN g = 1..n /\ f[1] = w[Head(q)]
          /\ \A i \in 1..n : g[i] = f[i + 1] /\ i + 1 \in 1..Len(q)
      BY <1>6
    <2>2. Weight(w, Tail(q)) = SumFunction(g)
      BY DEF Weight
    <2> HIDE DEF f, g, n
    <2>3. DOMAIN f = 1..(n + 1) /\ \A i \in 1..(n + 1) : f[i] \in Nat
      BY <1>1, <2>1
    <2>4. SumFunction(g) = SumFunction(f) - f[1]
      <3>1. \A i \in 1..(n + 1) : f[i] \in Int
        BY <2>3
      <3>2. \A i \in 1..n : g[i] = f[i + 1]
        BY <2>1
      <3> QED BY <2>1, <2>3, <3>1, <3>2, SumLosesFirst
    <2>5. SumFunction(f) \in Nat /\ f[1] <= SumFunction(f) /\ f[1] \in Nat
      BY <1>1, <1>2, <1>3, <2>1
    <2>6. SumFunction(g) \in Nat
      <3>1. SumFunction(g) = SumFunctionOnSet(g, 1..n) /\ IsFiniteSet(1..n)
        BY <2>1, FS_Interval DEF SumFunction
      <3>2. \A i \in 1..n : g[i] \in Nat
        BY <1>1, <2>1
      <3> QED BY <3>1, <3>2, SumBounds
    <2> QED BY <1>2, <2>1, <2>2, <2>4, <2>5, <2>6
  <1> QED BY <1>2, <1>3, <1>4, <1>5, <1>6


\* The bytes the devices hold of those that came in by port p in class c.
Buffered(devices, p, c) ==
    SumFunction([out \in Ports |-> BytesFrom(p, devices[out].queue[c])])

LEMMA BufferedBounds ==
    ASSUME NEW devices, \A x \in Ports : Device(devices[x]), NEW p, NEW c \in Classes
    PROVE  /\ \A x \in Ports : /\ devices[x].queue[c] \in Seq(Pkt)
                               /\ BytesFrom(p, devices[x].queue[c]) \in Nat
                               /\ BytesFrom(p, devices[x].queue[c]) <= Buffered(devices, p, c)
           /\ Buffered(devices, p, c) \in Nat
  <1> DEFINE f == [x \in Ports |-> BytesFrom(p, devices[x].queue[c])]
  <1>1. ASSUME NEW x \in Ports
        PROVE  /\ devices[x].queue[c] \in Seq(Pkt)
               /\ BytesFrom(p, devices[x].queue[c]) \in Nat
    <2> DEFINE q == devices[x].queue[c]
    <2>1. q \in Seq(Pkt)
      BY DEF Device
    <2> HIDE DEF q
    <2>2. BytesFrom(p, q) = Weight(SizesFrom(p), q) /\ SizesFrom(p) \in [Pkt -> Nat]
      BY <2>1, BytesAreWeights
    <2>3. Weight(SizesFrom(p), q) \in Nat
      BY <2>1, <2>2, WeightLaws
    <2> QED BY <2>1, <2>2, <2>3 DEF q
  <1>2. Buffered(devices, p, c) = SumFunctionOnSet(f, Ports)
    BY DEF Buffered, SumFunction
  <1>3. \A x \in Ports : f[x] = BytesFrom(p, devices[x].queue[c]) /\ f[x] \in Nat
    BY <1>1
  <1> HIDE DEF f
  <1>4. /\ SumFunctionOnSet(f, Ports) \in Nat
        /\ \A x \in Ports : f[x] <= SumFunctionOnSet(f, Ports)
    BY <1>3, FiniteMmu, SumBounds
  <1> QED BY <1>1, <1>2, <1>3, <1>4

\* One queue changes.
LEMMA BufferedChanges ==
    ASSUME NEW old, \A x \in Ports : Device(old[x]),
           NEW new, \A x \in Ports : Device(new[x]),
           NEW out \in Ports, NEW c \in Classes, NEW q,
           \A x \in Ports : x # out => new[x] = old[x],
           new[out].queue = [old[out].queue EXCEPT ![c] = q], NEW p
    PROVE  /\ Buffered(new, p, c) =
                Buffered(old, p, c) + (BytesFrom(p, q) - BytesFrom(p, old[out].queue[c]))
           /\ \A e \in Classes : e # c => Buffered(new, p, e) = Buffered(old, p, e)
  <1>1. /\ new[out].queue[c] = q
        /\ \A e \in Classes : e # c => new[out].queue[e] = old[out].queue[e]
    BY DEF Device
  <1>2. ASSUME NEW e \in Classes, e # c
        PROVE  Buffered(new, p, e) = Buffered(old, p, e)
    <2>1. \A x \in Ports : new[x].queue[e] = old[x].queue[e]
      BY <1>1, <1>2
    <2>2. \A x \in Ports : BytesFrom(p, new[x].queue[e]) = BytesFrom(p, old[x].queue[e])
      BY <2>1
    <2> QED BY <2>2 DEF Buffered
  <1> DEFINE f == [x \in Ports |-> BytesFrom(p, old[x].queue[c])]
             g == [x \in Ports |-> BytesFrom(p, new[x].queue[c])]
  <1>3. /\ Buffered(old, p, c) = SumFunctionOnSet(f, Ports)
        /\ Buffered(new, p, c) = SumFunctionOnSet(g, Ports)
    BY DEF Buffered, SumFunction
  <1>4. \A x \in Ports : BytesFrom(p, old[x].queue[c]) \in Nat
    BY BufferedBounds
  <1>5. \A x \in Ports : BytesFrom(p, new[x].queue[c]) \in Nat
    BY BufferedBounds
  <1>6. Differ(f, g, Ports, out)
    BY <1>4, <1>5 DEF Differ
  <1>7. f[out] = BytesFrom(p, old[out].queue[c]) /\ g[out] = BytesFrom(p, q)
    BY <1>1
  <1> HIDE DEF f, g
  <1>8. SumFunctionOnSet(g, Ports) = SumFunctionOnSet(f, Ports) + (g[out] - f[out])
    BY <1>6, FiniteMmu, SumChanges
  <1> QED BY <1>2, <1>3, <1>7, <1>8

-----------------------------------------------------------------------------
(* The calls that move no data.                                            *)

\* The counters and the queues are as they were.
SameBuffer(s, t) ==
    /\ t.ingress = s.ingress /\ t.egress = s.egress
    /\ \A p \in Ports : /\ t.dev[p].queue = s.dev[p].queue
                        /\ t.dev[p].bytes = s.dev[p].bytes

LEMMA SendControlSame ==
    ASSUME NEW s, NEW owed, Counted(s, owed), NEW p \in Ports
    PROVE  SameBuffer(s, SendControl(s, p))
  <1> DEFINE d == ControlSent(s.dev[p])
             t == SendControl(s, p)
  <1>1. t.dev = [s.dev EXCEPT ![p] = d] /\ t.egress = s.egress /\ t.ingress = s.ingress
    BY DEF Counted, Shape, SendControl
  <1>2. Device(s.dev[p]) /\ s.dev = [q \in Ports |-> s.dev[q]]
    BY DEF Counted, Devices
  <1>3. d.queue = s.dev[p].queue /\ d.bytes = s.dev[p].bytes
    BY <1>2, DeviceKept
  <1> HIDE DEF d, t
  <1>4. SameBuffer(s, t)
    BY <1>1, <1>2, <1>3 DEF SameBuffer
  <1> QED BY <1>4 DEF t

LEMMA SendPfcSame ==
    ASSUME NEW s, NEW owed, Counted(s, owed), NEW p \in Ports, NEW frames
    PROVE  SameBuffer(s, SendPfc(s, p, frames))
  <1> DEFINE d == ControlQueued(s.dev[p], frames)
             t == [s EXCEPT !.dev[p] = ControlQueued(@, frames)]
  <1>1. /\ Shape(t) /\ t.dev = [s.dev EXCEPT ![p] = d]
        /\ t.egress = s.egress /\ t.ingress = s.ingress
    BY DEF Counted, Shape
  <1>2. Device(s.dev[p]) /\ s.dev = [q \in Ports |-> s.dev[q]]
    BY DEF Counted, Devices
  <1>3. Device(d) /\ d.queue = s.dev[p].queue /\ d.bytes = s.dev[p].bytes
    BY <1>2, DeviceKept
  <1>4. SendPfc(s, p, frames) \in {t, SendControl(t, p)}
    BY DEF SendPfc
  <1> HIDE DEF d, t
  <1>5. Counted(t, owed)
    BY <1>1, <1>3, CountedPut
  <1>6. SameBuffer(s, t)
    BY <1>1, <1>2, <1>3 DEF SameBuffer
  <1>7. SameBuffer(t, SendControl(t, p))
    BY <1>5, SendControlSame
  <1>8. SameBuffer(s, SendControl(t, p))
    BY <1>6, <1>7 DEF SameBuffer
  <1> QED BY <1>4, <1>6, <1>8

LEMMA PfcSame ==
    ASSUME NEW s, NEW owed, Counted(s, owed), NEW v, NEW t, SameBuffer([s EXCEPT !.pfc = v], t)
    PROVE  SameBuffer(s, t)
  BY DEF Counted, Shape, SameBuffer

LEMMA CheckAndSendPfcSame ==
    ASSUME NEW s, NEW owed, Counted(s, owed), NEW p \in Ports, NEW c
    PROVE  SameBuffer(s, CheckAndSendPfc(s, p, c))
  <1> DEFINE pauses == ToPause(s, p, c)
             v == SetRemote(SetPause(s.pfc, p, pauses), p, pauses, TRUE)
             told == [s EXCEPT !.pfc = v]
             resumes == {e \in Classes :
                           told.pfc.remote[p][e] /\ ResumeClass(told, p, e)}
             w == SetRemote(SetResume(told.pfc, p, resumes), p, resumes, FALSE)
             frames == Frames(pauses, TRUE) \o Frames(resumes, FALSE)
             ready == [told EXCEPT !.pfc = w]
             t == SendPfc(ready, p, frames)
  <1>1. CheckAndSendPfc(s, p, c) = t
    BY Zenon DEF CheckAndSendPfc
  <1>2. Counted(told, owed)
    <2> HIDE DEF v
    <2> QED BY CountedPfc
  <1>3. Counted(ready, owed)
    <2> HIDE DEF told, w
    <2> QED BY <1>2, CountedPfc
  <1>4. SameBuffer(ready, t)
    <2> HIDE DEF ready, frames
    <2> QED BY <1>3, SendPfcSame
  <1>5. SameBuffer(told, t)
    <2> HIDE DEF told, w, t
    <2> QED BY <1>2, <1>4, PfcSame
  <1>6. SameBuffer(s, t)
    <2> HIDE DEF v, t
    <2> QED BY <1>5, PfcSame
  <1> QED BY <1>1, <1>6

LEMMA CheckAndSendResumeSame ==
    ASSUME NEW s, NEW owed, Counted(s, owed), NEW p \in Ports, NEW c
    PROVE  SameBuffer(s, CheckAndSendResume(s, p, c))
  <1> DEFINE v == SetResume(s.pfc, p, {c})
             told == [s EXCEPT !.pfc = v]
             t == SendPfc(told, p, Frames({c}, FALSE))
  <1>1. CheckAndSendResume(s, p, c) \in {s, t}
    BY Zenon DEF CheckAndSendResume
  <1>2. Counted(told, owed)
    <2> HIDE DEF v
    <2> QED BY CountedPfc
  <1>3. SameBuffer(told, t)
    <2> HIDE DEF told
    <2> QED BY <1>2, SendPfcSame
  <1>4. SameBuffer(s, t)
    <2> HIDE DEF v, t
    <2> QED BY <1>3, PfcSame
  <1>5. SameBuffer(s, s)
    BY DEF SameBuffer
  <1> HIDE DEF t
  <1> QED BY <1>1, <1>4, <1>5


LEMMA SameAgain ==
    ASSUME NEW s, NEW t, NEW u, SameBuffer(s, t), SameBuffer(t, u)
    PROVE  SameBuffer(s, u)
  BY DEF SameBuffer

-----------------------------------------------------------------------------
(* The accounts.                                                           *)

\* Every counter of the state s counts what is in the queues, but for the
\* bytes owed[p][c] that the ingress side has charged and no queue has yet.
Accounted(s, owed) ==
    /\ IngressSums(s.ingress) /\ EgressSums(s.egress) /\ Balanced(s.ingress, s.egress)
    /\ \A p \in Ports, c \in Classes : s.dev[p].bytes[c] = Bytes(s.dev[p].queue[c])
    /\ \A p \in Ports, c \in Classes :
         s.ingress.pg[p][c] = Buffered(s.dev, p, c) + owed[p][c]

LEMMA AccountedSame ==
    ASSUME NEW s, NEW t, NEW owed, Accounted(s, owed), SameBuffer(s, t)
    PROVE  Accounted(t, owed)
  <1>1. ASSUME NEW p \in Ports, NEW c \in Classes
        PROVE  Buffered(t.dev, p, c) = Buffered(s.dev, p, c)
    <2>1. \A x \in Ports : BytesFrom(p, t.dev[x].queue[c]) = BytesFrom(p, s.dev[x].queue[c])
      BY DEF SameBuffer
    <2> QED BY <2>1 DEF Buffered
  <1> QED BY <1>1 DEF Accounted, SameBuffer

\* What the MMU counts for a queue is what the device counts and is owed.
LEMMA HeldIsQueued ==
    ASSUME NEW s, NEW owed, Counted(s, owed), NEW p \in Ports, NEW c \in Classes
    PROVE  /\ Held(s.egress)[p][c] = s.dev[p].bytes[c] + owed[p][c]
           /\ Split(s.egress.qmin[p][c], s.egress.shared[p][c], Held(s.egress)[p][c])
  BY DEF Counted, Held, Split

\* An admitted packet is charged to both sides, ...
LEMMA ChargedAccounted ==
    ASSUME NEW s, Counted(s, NothingOwed), Accounted(s, NothingOwed),
           NEW in \in Ports, NEW out \in Ports, NEW c \in Classes, NEW size \in PktSizes
    PROVE  Accounted(Charged(s, in, out, c, size), Owes(in, c, size))
  <1> DEFINE t == Charged(s, in, out, c, size)
             ig == ChargeIngress(s.ingress, in, c, size)
             eg == ChargeEgress(s.egress, out, c, size)
             owes == Owes(in, c, size)
  <1>1. t.ingress = ig /\ t.egress = eg /\ t.dev = s.dev
    BY DEF Counted, Shape, Charged
  <1>2. /\ IngressSums(ig)
        /\ ig.pg = Put(s.ingress.pg, in, c, s.ingress.pg[in][c] + size)
        /\ ig.total = s.ingress.total + size /\ s.ingress.total \in Int
    <2> DEFINE old == s.ingress
    <2>1. IngressSums(old)
      BY DEF Accounted
    <2> HIDE DEF old
    <2>3. old.total \in Int
      BY <2>1 DEF IngressSums
    <2>2. /\ IngressSums(ChargeIngress(old, in, c, size))
          /\ ChargeIngress(old, in, c, size).pg = Put(old.pg, in, c, old.pg[in][c] + size)
          /\ ChargeIngress(old, in, c, size).total = old.total + size
      BY <2>1, ChargeKeepsSums
    <2> QED BY <2>2, <2>3 DEF old
  <1>3. EgressSums(eg) /\ Balanced(ig, eg)
    <2> DEFINE old == s.egress
               were == s.ingress
    <2>1. /\ EgressSums(old)
          /\ Split(old.qmin[out][c], old.shared[out][c], Held(old)[out][c])
          /\ Balanced(were, old) /\ were.total \in Int /\ ig.total = were.total + size
      BY <1>2, HeldIsQueued DEF Accounted
    <2> HIDE DEF old, were, ig
    <2>2. /\ EgressSums(ChargeEgress(old, out, c, size))
          /\ Balanced(ig, ChargeEgress(old, out, c, size))
      BY <2>1, ChargeKeepsEgressSums
    <2> QED BY <2>2 DEF old
  <1>4. /\ size \in Int /\ owes[in][c] = size /\ NothingOwed[in][c] = 0
        /\ \A q \in Ports, e \in Classes : <<q, e>> # <<in, c>> =>
             owes[q][e] = NothingOwed[q][e]
    BY OwesPacket
  <1>5. /\ s.ingress.pg \in Matrix
        /\ \A q \in Ports, e \in Classes :
             /\ Buffered(s.dev, q, e) \in Nat
             /\ s.ingress.pg[q][e] = Buffered(s.dev, q, e) + NothingOwed[q][e]
    BY BufferedBounds DEF Accounted, IngressSums, Counted, Devices
  <1> HIDE DEF ig, eg, owes
  <1>6. ASSUME NEW q \in Ports, NEW e \in Classes
        PROVE  ig.pg[q][e] = Buffered(s.dev, q, e) + owes[q][e]
    <2>1. s.ingress.pg[q][e] = Buffered(s.dev, q, e) + NothingOwed[q][e]
          /\ Buffered(s.dev, q, e) \in Nat
      BY <1>5
    <2>2. CASE <<q, e>> = <<in, c>>
      <3>1. ig.pg[q][e] = s.ingress.pg[q][e] + size
        BY <1>2, <1>5, <2>2 DEF Put, Matrix
      <3> QED BY <1>4, <2>1, <2>2, <3>1
    <2>3. CASE <<q, e>> # <<in, c>>
      <3>1. ig.pg[q][e] = s.ingress.pg[q][e]
        BY <1>2, <1>5, <2>3 DEF Put, Matrix
      <3> QED BY <1>4, <2>1, <2>3, <3>1
    <2> QED BY <2>2, <2>3
  <1> HIDE DEF t
  <1>7. Accounted(t, owes)
    BY <1>1, <1>2, <1>3, <1>6 DEF Accounted
  <1> QED BY <1>7 DEF t, owes


\* ... and then queued.
LEMMA PacketQueuedAccounted ==
    ASSUME NEW in \in Ports, NEW out \in Ports, NEW c \in Classes, NEW size \in PktSizes,
           NEW s, Counted(s, Owes(out, c, size)), Accounted(s, Owes(in, c, size))
    PROVE  Accounted(PacketQueued(s, in, out, c, size), NothingOwed)
  <1> DEFINE t == PacketQueued(s, in, out, c, size)
             old == s.dev[out]
             d == Queued(old, in, c, size)
             pkt == [inDev |-> in, size |-> size]
             q == old.queue[c]
             owes == Owes(in, c, size)
  <1>1. /\ t.ingress = s.ingress /\ t.egress = s.egress
        /\ t.dev = [s.dev EXCEPT ![out] = d]
    BY DEF Counted, Shape, PacketQueued
  <1>2. Device(old) /\ s.dev = [x \in Ports |-> s.dev[x]] /\ \A x \in Ports : Device(s.dev[x])
    BY DEF Counted, Devices
  <1>3. pkt \in Pkt /\ pkt.inDev = in /\ pkt.size = size /\ size \in Int
    BY MmuNumbers DEF Pkt
  <1>4. d.queue = [old.queue EXCEPT ![c] = Append(q, pkt)]
    BY <1>2 DEF Device, Queued
  <1> HIDE DEF pkt
  <1>5. Device(d) /\ d.bytes = [old.bytes EXCEPT ![c] = @ + size]
    <2> HIDE DEF old
    <2> QED BY <1>2, DeviceQueues
  <1>6. q \in Seq(Pkt) /\ old.queue \in [Classes -> Seq(Pkt)] /\ old.bytes \in [Classes -> Int]
    BY <1>2 DEF Device
  <1> HIDE DEF t, old, d, q, owes
  <1>7. /\ d.queue[c] = Append(q, pkt) /\ d.bytes[c] = old.bytes[c] + size
        /\ \A e \in Classes : e # c =>
             d.queue[e] = old.queue[e] /\ d.bytes[e] = old.bytes[e]
    BY <1>4, <1>5, <1>6
  <1>8. /\ t.dev[out] = d /\ \A x \in Ports : x # out => t.dev[x] = s.dev[x]
        /\ \A x \in Ports : Device(t.dev[x])
    BY <1>1, <1>2, <1>5
  <1>9. Append(q, pkt) \in Seq(Pkt)
    BY <1>3, <1>6
  <1>10. Bytes(Append(q, pkt)) = Bytes(q) + size
    <2>1. /\ Bytes(Append(q, pkt)) = Weight(Sizes, Append(q, pkt))
          /\ Bytes(q) = Weight(Sizes, q) /\ Sizes \in [Pkt -> Nat]
      BY <1>6, <1>9, BytesAreWeights
    <2>2. Weight(Sizes, Append(q, pkt)) = Weight(Sizes, q) + Sizes[pkt]
      BY <1>3, <1>6, <2>1, WeightLaws
    <2>3. Sizes[pkt] = size
      BY <1>3 DEF Sizes
    <2> QED BY <2>1, <2>2, <2>3
  <1>11. ASSUME NEW p
         PROVE  BytesFrom(p, Append(q, pkt)) =
                  BytesFrom(p, q) + (IF p = in THEN size ELSE 0)
    <2> DEFINE w == SizesFrom(p)
    <2>1. /\ BytesFrom(p, Append(q, pkt)) = Weight(w, Append(q, pkt))
          /\ BytesFrom(p, q) = Weight(w, q) /\ w \in [Pkt -> Nat]
      BY <1>6, <1>9, BytesAreWeights
    <2>2. w[pkt] = IF p = in THEN size ELSE 0
      BY <1>3 DEF SizesFrom
    <2> HIDE DEF w
    <2>3. Weight(w, Append(q, pkt)) = Weight(w, q) + w[pkt]
      BY <1>3, <1>6, <2>1, WeightLaws
    <2> QED BY <2>1, <2>2, <2>3
  <1>12. /\ owes[in][c] = size
         /\ \A p \in Ports, e \in Classes : <<p, e>> # <<in, c>> => owes[p][e] = 0
         /\ \A p \in Ports, e \in Classes : NothingOwed[p][e] = 0
    BY OwesPacket DEF NothingOwed, owes
  <1>13. /\ s.dev[out] = old /\ old.queue[c] = q
         /\ IngressSums(s.ingress) /\ EgressSums(s.egress)
         /\ \A p \in Ports, e \in Classes :
              /\ s.dev[p].bytes[e] = Bytes(s.dev[p].queue[e])
              /\ s.ingress.pg[p][e] = Buffered(s.dev, p, e) + owes[p][e]
    BY DEF Accounted, owes, old, q
  <1>14. \A p \in Ports, e \in Classes : t.dev[p].bytes[e] = Bytes(t.dev[p].queue[e])
    <2>1. \A e \in Classes : d.bytes[e] = Bytes(d.queue[e])
      <3>1. old.bytes[c] = Bytes(q) /\ \A e \in Classes : old.bytes[e] = Bytes(old.queue[e])
        BY <1>13
      <3>2. d.bytes[c] = Bytes(d.queue[c])
        BY <1>7, <1>10, <3>1
      <3>3. ASSUME NEW e \in Classes, e # c PROVE d.bytes[e] = Bytes(d.queue[e])
        BY <1>7, <3>1, <3>3
      <3> QED BY <3>2, <3>3
    <2> QED BY <1>8, <1>13, <2>1
  <1>15. ASSUME NEW p \in Ports, NEW e \in Classes
         PROVE  t.ingress.pg[p][e] = Buffered(t.dev, p, e) + NothingOwed[p][e]
    <2> DEFINE before == s.dev
               after == t.dev
               longer == Append(q, pkt)
    <2>1. /\ \A x \in Ports : Device(before[x]) /\ Device(after[x])
          /\ \A x \in Ports : x # out => after[x] = before[x]
          /\ after[out].queue = [before[out].queue EXCEPT ![c] = longer]
      BY <1>2, <1>4, <1>8, <1>13
    <2> HIDE DEF before, after, longer
    <2>2. /\ Buffered(after, p, c) =
               Buffered(before, p, c) + (BytesFrom(p, longer) - BytesFrom(p, before[out].queue[c]))
          /\ \A x \in Classes : x # c => Buffered(after, p, x) = Buffered(before, p, x)
      BY <2>1, BufferedChanges
    <2>3. /\ BytesFrom(p, before[out].queue[c]) \in Nat
          /\ Buffered(before, p, e) \in Nat /\ Buffered(before, p, c) \in Nat
      BY <2>1, BufferedBounds
    <2>4. /\ s.ingress.pg[p][e] = Buffered(before, p, e) + owes[p][e]
          /\ before[out].queue[c] = q /\ t.ingress = s.ingress
      BY <1>1, <1>13 DEF before
    <2>5. BytesFrom(p, longer) = BytesFrom(p, q) + (IF p = in THEN size ELSE 0)
      BY <1>11 DEF longer
    <2>6. CASE e = c /\ p = in
      <3>1. Buffered(after, p, e) = Buffered(before, p, e) + size
        <4>1. size \in Int /\ BytesFrom(p, longer) = BytesFrom(p, q) + size
          BY <1>3, <2>5, <2>6
        <4>2. BytesFrom(p, q) \in Nat /\ Buffered(before, p, c) \in Nat
          BY <2>3, <2>4
        <4>3. Buffered(after, p, c) =
                Buffered(before, p, c) + (BytesFrom(p, longer) - BytesFrom(p, q))
          BY <2>2, <2>4
        <4> QED BY <2>6, <4>1, <4>2, <4>3
      <3> QED BY <1>3, <1>12, <2>3, <2>4, <2>6, <3>1 DEF after
    <2>7. CASE e = c /\ p # in
      <3>1. Buffered(after, p, e) = Buffered(before, p, e)
        BY <2>2, <2>3, <2>4, <2>5, <2>7
      <3> QED BY <1>12, <2>3, <2>4, <2>7, <3>1 DEF after
    <2>8. CASE e # c
      <3>1. Buffered(after, p, e) = Buffered(before, p, e)
        BY <2>2, <2>8
      <3> QED BY <1>12, <2>3, <2>4, <2>8, <3>1 DEF after
    <2> QED BY <2>6, <2>7, <2>8
  <1>16. Accounted(t, NothingOwed)
    BY <1>1, <1>13, <1>14, <1>15 DEF Accounted
  <1> QED BY <1>16 DEF t

\* A packet that leaves is released on both sides.
LEMMA DataTakenAccounted ==
    ASSUME NEW s, Counted(s, NothingOwed), Accounted(s, NothingOwed), NEW p \in Ports,
           NEW c \in Classes, c \in Sendable(s.dev[p])
    PROVE  Accounted(DataTaken(s, p, c), NothingOwed)
  <1> DEFINE t == DataTaken(s, p, c)
             old == s.dev[p]
             d == DataSent(old, c)
             q == old.queue[c]
             pkt == Head(q)
             in == pkt.inDev
             size == pkt.size
             ig == ReleaseIngress(s.ingress, in, c, size)
             eg == ReleaseEgress(s.egress, p, c, size)
  <1>1. /\ t.ingress = ig /\ t.egress = eg
        /\ t.dev = [s.dev EXCEPT ![p] = d]
    BY DEF Counted, Shape, DataTaken
  <1>2. /\ Device(old) /\ s.dev = [x \in Ports |-> s.dev[x]]
        /\ \A x \in Ports : Device(s.dev[x])
        /\ c \in Classes /\ q # <<>>
    BY DEF Counted, Devices, Sendable
  <1>3. /\ pkt \in Pkt /\ Device(d)
        /\ d.bytes = [old.bytes EXCEPT ![c] = @ - size]
        /\ d.queue = [old.queue EXCEPT ![c] = Tail(q)]
    <2> HIDE DEF old
    <2> QED BY <1>2, DeviceSends
  <1>4. q \in Seq(Pkt) /\ old.queue \in [Classes -> Seq(Pkt)] /\ old.bytes \in [Classes -> Int]
    BY <1>2 DEF Device
  <1>5. in \in Ports /\ size \in PktSizes /\ size \in Int
    BY <1>3, MmuNumbers DEF Pkt
  <1>6. /\ s.dev[p] = old /\ old.queue[c] = q
        /\ IngressSums(s.ingress) /\ EgressSums(s.egress)
        /\ \A x \in Ports, e \in Classes :
              /\ s.dev[x].bytes[e] = Bytes(s.dev[x].queue[e])
              /\ s.ingress.pg[x][e] = Buffered(s.dev, x, e) + NothingOwed[x][e]
    BY DEF Accounted
  <1>7. \A x \in Ports, e \in Classes : NothingOwed[x][e] = 0
    BY DEF NothingOwed
  <1>8. /\ Bytes(q) \in Nat /\ Bytes(Tail(q)) = Bytes(q) - size /\ size <= Bytes(q)
    <2> DEFINE w == Sizes
    <2>1. w[pkt] = size
      BY <1>3 DEF Sizes
    <2> HIDE DEF w, q, pkt, size
    <2>2. Tail(q) \in Seq(Pkt) /\ pkt = Head(q)
      BY <1>2, <1>4 DEF pkt
    <2>3. /\ Bytes(Tail(q)) = Weight(w, Tail(q))
          /\ Bytes(q) = Weight(w, q) /\ w \in [Pkt -> Nat]
      BY <1>4, <2>2, BytesAreWeights DEF w
    <2>4. /\ Weight(w, q) \in Nat
          /\ Weight(w, Tail(q)) = Weight(w, q) - w[Head(q)] /\ w[Head(q)] <= Weight(w, q)
      BY <1>2, <1>4, <2>3, WeightLaws
    <2> QED BY <2>1, <2>2, <2>3, <2>4
  <1>9. ASSUME NEW x
        PROVE  /\ BytesFrom(x, Tail(q)) = BytesFrom(x, q) - (IF x = in THEN size ELSE 0)
               /\ x = in => size <= BytesFrom(x, q)
               /\ BytesFrom(x, q) \in Nat
    <2> DEFINE w == SizesFrom(x)
    <2>1. w[pkt] = IF x = in THEN size ELSE 0
      BY <1>3 DEF SizesFrom
    <2> HIDE DEF w, q, pkt, size, in
    <2>2. Tail(q) \in Seq(Pkt) /\ pkt = Head(q)
      BY <1>2, <1>4 DEF pkt
    <2>3. /\ BytesFrom(x, Tail(q)) = Weight(w, Tail(q))
          /\ BytesFrom(x, q) = Weight(w, q) /\ w \in [Pkt -> Nat]
      BY <1>4, <2>2, BytesAreWeights DEF w
    <2>4. /\ Weight(w, q) \in Nat
          /\ Weight(w, Tail(q)) = Weight(w, q) - w[Head(q)] /\ w[Head(q)] <= Weight(w, q)
      BY <1>2, <1>4, <2>3, WeightLaws
    <2> QED BY <2>1, <2>2, <2>3, <2>4
  <1> HIDE DEF t, old, d, q, pkt, in, size, ig, eg
  <1>10. size <= s.ingress.pg[in][c]
    <2>1. /\ BytesFrom(in, s.dev[p].queue[c]) <= Buffered(s.dev, in, c)
          /\ Buffered(s.dev, in, c) \in Nat
      BY <1>2, BufferedBounds
    <2>2. s.dev[p].queue[c] = q
      BY <1>6
    <2>3. size <= BytesFrom(in, q) /\ BytesFrom(in, q) \in Nat
      BY <1>9
    <2>4. s.ingress.pg[in][c] = Buffered(s.dev, in, c)
      BY <1>2, <1>5, <1>6, <1>7, <2>1
    <2> QED BY <1>5, <2>1, <2>2, <2>3, <2>4
  <1>11. /\ IngressSums(ig)
         /\ ig.pg = Put(s.ingress.pg, in, c, s.ingress.pg[in][c] - size)
         /\ ig.total = s.ingress.total - size /\ s.ingress.total \in Int
    <2> DEFINE was == s.ingress
    <2>1. IngressSums(was) /\ size <= was.pg[in][c] /\ was.total \in Int
      BY <1>6, <1>10 DEF IngressSums
    <2> HIDE DEF was
    <2>2. /\ IngressSums(ReleaseIngress(was, in, c, size))
          /\ ReleaseIngress(was, in, c, size).pg = Put(was.pg, in, c, was.pg[in][c] - size)
          /\ ReleaseIngress(was, in, c, size).total = was.total - size
      BY <1>2, <1>5, <2>1, ReleaseKeepsSums
    <2> QED BY <2>1, <2>2 DEF was, ig
  <1>12. EgressSums(eg) /\ Balanced(ig, eg)
    <2> DEFINE was == s.egress
               were == s.ingress
    <2>1. /\ Held(was)[p][c] = s.dev[p].bytes[c] + NothingOwed[p][c]
          /\ Split(was.qmin[p][c], was.shared[p][c], Held(was)[p][c])
      BY <1>2, HeldIsQueued
    <2>2. s.dev[p].bytes[c] = Bytes(q)
      BY <1>2, <1>6
    <2>3. EgressSums(was) /\ size <= Held(was)[p][c]
      BY <1>2, <1>6, <1>7, <1>8, <2>1, <2>2
    <2>4. Balanced(were, was) /\ were.total \in Int /\ ig.total = were.total - size
      BY <1>11 DEF Accounted
    <2> HIDE DEF was, were
    <2>5. /\ EgressSums(ReleaseEgress(was, p, c, size))
          /\ Balanced(ig, ReleaseEgress(was, p, c, size))
      BY <1>2, <1>5, <2>1, <2>3, <2>4, ReleaseKeepsEgressSums
    <2> QED BY <2>5 DEF was, eg
  <1>13. /\ d.queue[c] = Tail(q) /\ d.bytes[c] = old.bytes[c] - size
         /\ \A e \in Classes : e # c =>
              d.queue[e] = old.queue[e] /\ d.bytes[e] = old.bytes[e]
    BY <1>2, <1>3, <1>4
  <1>14. /\ t.dev[p] = d /\ \A x \in Ports : x # p => t.dev[x] = s.dev[x]
         /\ \A x \in Ports : Device(t.dev[x])
    BY <1>1, <1>2, <1>3
  <1>15. \A x \in Ports, e \in Classes : t.dev[x].bytes[e] = Bytes(t.dev[x].queue[e])
    <2>1. \A e \in Classes : d.bytes[e] = Bytes(d.queue[e])
      <3>1. old.bytes[c] = Bytes(q) /\ \A e \in Classes : old.bytes[e] = Bytes(old.queue[e])
        BY <1>2, <1>6
      <3>2. d.bytes[c] = Bytes(d.queue[c])
        BY <1>8, <1>13, <3>1
      <3>3. ASSUME NEW e \in Classes, e # c PROVE d.bytes[e] = Bytes(d.queue[e])
        BY <1>13, <3>1, <3>3
      <3> QED BY <3>2, <3>3
    <2> QED BY <1>6, <1>14, <2>1
  <1>16. ASSUME NEW x \in Ports, NEW e \in Classes
         PROVE  t.ingress.pg[x][e] = Buffered(t.dev, x, e) + NothingOwed[x][e]
    <2> DEFINE before == s.dev
               after == t.dev
               rest == Tail(q)
               pg == s.ingress.pg
    <2>1. /\ \A y \in Ports : Device(before[y]) /\ Device(after[y])
          /\ \A y \in Ports : y # p => after[y] = before[y]
          /\ after[p].queue = [before[p].queue EXCEPT ![c] = rest]
          /\ c \in Classes
      BY <1>2, <1>3, <1>6, <1>14
    <2>2. BytesFrom(x, rest) = BytesFrom(x, q) - (IF x = in THEN size ELSE 0)
      BY <1>9
    <2>3. pg \in Matrix /\ ig.pg = Put(pg, in, c, pg[in][c] - size) /\ t.ingress = ig
      BY <1>1, <1>6, <1>11 DEF IngressSums
    <2>10. /\ ig.pg[in][c] = pg[in][c] - size
           /\ <<x, e>> # <<in, c>> => ig.pg[x][e] = pg[x][e]
      <3> DEFINE n == pg[in][c] - size
                 new == ig.pg
      <3>1. n \in Int /\ c \in Classes /\ in \in Ports /\ pg \in Matrix
        BY <1>2, <1>5, <2>3 DEF Matrix
      <3>2. new = Put(pg, in, c, n)
        BY <2>3
      <3> HIDE DEF n, new
      <3>3. /\ new[in][c] = n
            /\ \A y \in Ports, f \in Classes : <<y, f>> # <<in, c>> => new[y][f] = pg[y][f]
        BY <3>1, <3>2, PutChanges, SMTT(60)
      <3> QED BY <3>3 DEF n, new
    <2>4. /\ pg[x][e] = Buffered(before, x, e) + 0
          /\ pg[in][c] = Buffered(before, in, c) + 0
          /\ before[p].queue[c] = q
      BY <1>2, <1>5, <1>6, <1>7
    <2> HIDE DEF before, after, rest, pg
    <2>5. /\ Buffered(after, x, c) =
               Buffered(before, x, c) + (BytesFrom(x, rest) - BytesFrom(x, before[p].queue[c]))
          /\ \A y \in Classes : y # c => Buffered(after, x, y) = Buffered(before, x, y)
      BY <2>1, BufferedChanges, SMTT(60)
    <2>6. /\ BytesFrom(x, before[p].queue[c]) \in Nat
          /\ Buffered(before, x, e) \in Nat /\ Buffered(before, x, c) \in Nat
      BY <2>1, BufferedBounds
    <2>7. CASE e = c /\ x = in
      <3>1. Buffered(after, x, e) = Buffered(before, x, e) - size
        BY <1>5, <2>2, <2>4, <2>5, <2>6, <2>7
      <3>2. t.ingress.pg[x][e] = pg[x][e] - size
        BY <2>3, <2>7, <2>10
      <3> QED BY <1>5, <1>7, <2>4, <2>6, <3>1, <3>2 DEF after
    <2>8. CASE e = c /\ x # in
      <3>1. Buffered(after, x, e) = Buffered(before, x, e)
        BY <2>2, <2>4, <2>5, <2>6, <2>8
      <3>2. t.ingress.pg[x][e] = pg[x][e]
        BY <2>3, <2>8, <2>10
      <3> QED BY <1>7, <2>4, <2>6, <3>1, <3>2 DEF after
    <2>9. CASE e # c
      <3>1. Buffered(after, x, e) = Buffered(before, x, e)
        BY <2>5, <2>9
      <3>2. t.ingress.pg[x][e] = pg[x][e]
        BY <2>3, <2>9, <2>10
      <3> QED BY <1>7, <2>4, <2>6, <3>1, <3>2 DEF after
    <2> QED BY <2>7, <2>8, <2>9
  <1>17. Accounted(t, NothingOwed)
    BY <1>1, <1>11, <1>12, <1>15, <1>16 DEF Accounted
  <1> QED BY <1>17 DEF t


LEMMA SendDataAccounted ==
    ASSUME NEW s, Counted(s, NothingOwed), Accounted(s, NothingOwed), NEW p \in Ports,
           NEW c \in Classes, c \in Sendable(s.dev[p])
    PROVE  Accounted(SendData(s, p, c), NothingOwed)
  <1> DEFINE t == DataTaken(s, p, c)
             in == Head(s.dev[p].queue[c]).inDev
             u == CheckAndSendResume(t, in, c)
  <1>1. SendData(s, p, c) = u
    BY Zenon DEF SendData, DataTaken
  <1>2. NothingOwed \in Owed
    BY DEF NothingOwed, Owed
  <1>3. Counted(t, NothingOwed) /\ in \in Ports
    BY <1>2, DataTakenCounted
  <1>4. Accounted(t, NothingOwed)
    BY DataTakenAccounted
  <1> HIDE DEF t, in
  <1>5. SameBuffer(t, u)
    BY <1>3, CheckAndSendResumeSame
  <1> HIDE DEF u
  <1>6. Accounted(u, NothingOwed)
    BY <1>4, <1>5, AccountedSame
  <1> QED BY <1>1, <1>6

\* DequeueAndTransmit keeps the accounts.
LEMMA DequeueAccounted ==
    ASSUME NEW s, Counted(s, NothingOwed), Accounted(s, NothingOwed), NEW p \in Ports
    PROVE  Accounted(DequeueAndTransmit(s, p), NothingOwed)
  <1>1. Device(s.dev[p])
    BY DEF Counted, Devices
  <1>2. ASSUME Sendable(s.dev[p]) # {}
        PROVE  Accounted(SendData(s, p, NextClass(s.dev[p])), NothingOwed)
    <2> DEFINE c == NextClass(s.dev[p])
    <2>1. c \in Sendable(s.dev[p])
      BY <1>1, <1>2, NextClassSendable
    <2>2. c \in Classes
      BY <2>1 DEF Sendable
    <2> HIDE DEF c
    <2>3. Accounted(SendData(s, p, c), NothingOwed)
      BY <2>1, <2>2, SendDataAccounted
    <2> QED BY <2>3 DEF c
  <1>3. Accounted(SendControl(s, p), NothingOwed)
    <2> DEFINE t == SendControl(s, p)
    <2>1. SameBuffer(s, t)
      BY SendControlSame
    <2> HIDE DEF t
    <2>2. Accounted(t, NothingOwed)
      BY <2>1, AccountedSame
    <2> QED BY <2>2 DEF t
  <1>4. DequeueAndTransmit(s, p) \in {s, SendControl(s, p)}
        \/ /\ Sendable(s.dev[p]) # {}
           /\ DequeueAndTransmit(s, p) = SendData(s, p, NextClass(s.dev[p]))
    BY DEF DequeueAndTransmit
  <1> QED BY <1>2, <1>3, <1>4

\* DoSwitchSend does, from the admission of a packet to the transmission its
\* arrival may start.
LEMMA DoSwitchSendAccounted ==
    ASSUME NEW s, Counted(s, NothingOwed), Accounted(s, NothingOwed),
           NEW in \in Ports, NEW out \in Ports, NEW c \in Classes, NEW size \in PktSizes
    PROVE  Accounted(DoSwitchSend(s, in, out, c, size), NothingOwed)
  <1> DEFINE charged == Charged(s, in, out, c, size)
             told == CheckAndSendPfc(charged, in, c)
             t == PacketQueued(told, in, out, c, size)
             u == DequeueAndTransmit(t, out)
  <1>1. DoSwitchSend(s, in, out, c, size) \in {s, u}
    BY Zenon DEF DoSwitchSend, Charged, PacketQueued
  <1>2. Counted(charged, Owes(out, c, size)) /\ Accounted(charged, Owes(in, c, size))
    BY ChargedCounted, ChargedAccounted
  <1> HIDE DEF charged
  <1>3. Counted(told, Owes(out, c, size)) /\ SameBuffer(charged, told)
    BY <1>2, CheckAndSendPfcCounted, CheckAndSendPfcSame
  <1> HIDE DEF told
  <1>4. Accounted(told, Owes(in, c, size))
    BY <1>2, <1>3, AccountedSame
  <1>5. Counted(t, NothingOwed) /\ Accounted(t, NothingOwed)
    BY <1>3, <1>4, PacketQueuedCounted, PacketQueuedAccounted
  <1> HIDE DEF t
  <1>6. Accounted(u, NothingOwed)
    BY <1>5, DequeueAccounted
  <1> HIDE DEF u
  <1> QED BY <1>1, <1>6

-----------------------------------------------------------------------------
(* The accounts of the specification.                                      *)

AccountInv == CountInv /\ Accounted(Switch, NothingOwed)

LEMMA BecomeAccounted ==
    ASSUME NEW s, Accounted(s, NothingOwed), Become(s)
    PROVE  Accounted(Switch, NothingOwed)'
  <1> DEFINE t == Switch'
  <1>1. /\ t.ingress = s.ingress /\ t.egress = s.egress /\ t.dev = s.dev
    BY DEF Switch, Become
  <1> HIDE DEF t
  <1>2. SameBuffer(s, t)
    BY <1>1 DEF SameBuffer
  <1>3. Accounted(t, NothingOwed)
    BY <1>2, AccountedSame
  <1> QED BY <1>3 DEF t

\* A step that moves no data.
LEMMA AccountsKept ==
    ASSUME AccountInv, UNCHANGED <<ingress, egress>>,
           \A q \in Ports : /\ dev'[q].queue = dev[q].queue
                            /\ dev'[q].bytes = dev[q].bytes
    PROVE  Accounted(Switch, NothingOwed)'
  <1> DEFINE s == Switch
             t == Switch'
  <1>1. SameBuffer(s, t) /\ Accounted(s, NothingOwed)
    BY DEF AccountInv, SameBuffer, Switch
  <1> HIDE DEF s, t
  <1>2. Accounted(t, NothingOwed)
    BY <1>1, AccountedSame
  <1> QED BY <1>2 DEF t

\* In empty queues there is nothing to count.
LEMMA InitAccounted == Init => AccountInv
  <1> SUFFICES ASSUME Init PROVE Accounted(Switch, NothingOwed)
    BY InitCounted DEF AccountInv
  <1> DEFINE zeros == [p \in Ports |-> [c \in Classes |-> 0]]
             none == [p \in Ports |-> 0]
  <1>1. zeros \in Matrix /\ Positive(zeros) /\ none \in [Ports -> Int]
    BY DEF Matrix, Positive
  <1>2. \A S \in SUBSET Classes : \A p \in Ports : SumOf(zeros[p], S) = 0
    <2>1. ASSUME NEW S \in SUBSET Classes, NEW p \in Ports PROVE SumOf(zeros[p], S) = 0
      <3> DEFINE f == zeros[p]
      <3>1. IsFiniteSet(S) /\ \A c \in S : f[c] = 0
        BY FiniteMmu
      <3> HIDE DEF f
      <3>2. SumFunctionOnSet(f, S) = 0
        BY <3>1, SumOfZeros
      <3> QED BY <3>2 DEF SumOf, f
    <2> QED BY <2>1
  <1>3. \A S \in SUBSET Classes : OverPorts(zeros, S) = 0
    <2>1. ASSUME NEW S \in SUBSET Classes PROVE OverPorts(zeros, S) = 0
      <3> DEFINE f == [p \in Ports |-> SumOf(zeros[p], S)]
      <3>1. OverPorts(zeros, S) = SumFunctionOnSet(f, Ports)
        BY DEF OverPorts, SumFunction
      <3>2. \A p \in Ports : f[p] = 0
        BY <1>2
      <3> HIDE DEF f
      <3>3. SumFunctionOnSet(f, Ports) = 0
        BY <3>2, FiniteMmu, SumOfZeros
      <3> QED BY <3>1, <3>3
    <2> QED BY <2>1
  <1>4. SumOf(none, Ports) = 0
    <2>1. \A p \in Ports : none[p] = 0
      OBVIOUS
    <2> HIDE DEF none
    <2> QED BY <2>1, FiniteMmu, SumOfZeros DEF SumOf
  <1>5. /\ ingress = [total |-> 0, sp |-> [k \in Pools |-> 0], port |-> none,
                      pg |-> zeros, hdrm |-> zeros]
        /\ egress = [qmin |-> zeros, shared |-> zeros, port |-> none,
                     sp |-> [k \in Pools |-> 0]]
    BY DEF Init, NoIngress, NoEgress
  <1>6. Held(egress) = zeros
    BY <1>5 DEF Held
  <1> HIDE DEF zeros, none
  <1>7. IngressSums(ingress)
    <2>1. /\ ingress.total = 0 /\ ingress.port = none
          /\ ingress.pg = zeros /\ ingress.hdrm = zeros
          /\ \A k \in Pools : ingress.sp[k] = 0
          /\ ingress \in [total : Int, sp : [Pools -> Int], port : [Ports -> Int],
                          pg : Matrix, hdrm : Matrix]
      BY <1>1, <1>5
    <2>2. \A p \in Ports : none[p] = 0
      BY DEF none
    <2>3. Classes \in SUBSET Classes /\ \A k : InPool(k) \in SUBSET Classes
      BY IngressPool
    <2>4. \A p \in Ports, c \in Classes : zeros[p][c] \in Nat
      BY <1>1 DEF Positive
    <2>5. \A p \in Ports, c \in Classes : ingress.hdrm[p][c] <= ingress.pg[p][c]
      BY <2>1, <2>4
    <2>6. \A p \in Ports : ingress.port[p] = SumOf(ingress.pg[p], Classes)
      BY <1>2, <2>1, <2>2, <2>3
    <2>7. \A k \in Pools : OverPorts(zeros, InPool(k)) = 0
      BY <1>3, <2>3
    <2>8. \A k \in Pools : ingress.sp[k] - BufferLimit <= OverPorts(ingress.hdrm, InPool(k))
      BY <2>1, <2>7, MmuAssumption
    <2> QED BY <1>1, <1>4, <2>1, <2>5, <2>6, <2>7, <2>8 DEF IngressSums
  <1>8. EgressSums(egress)
    <2>1. /\ egress.port = none /\ egress.qmin = zeros /\ egress.shared = zeros
          /\ \A k \in Pools : egress.sp[k] = 0
          /\ egress \in EgressSet
      BY <1>1, <1>5 DEF EgressSet, Matrix
    <2>2. \A p \in Ports : none[p] = 0
      BY DEF none
    <2>3. Classes \in SUBSET Classes /\ \A k : InEgressPool(k) \in SUBSET Classes
      BY DEF InEgressPool
    <2>4. \A p \in Ports : egress.port[p] = SumOf(Held(egress)[p], Classes)
      BY <1>2, <1>6, <2>1, <2>2, <2>3
    <2>5. \A k \in Pools : egress.sp[k] = OverPorts(egress.shared, InEgressPool(k))
      BY <1>3, <2>1, <2>3
    <2> QED BY <1>1, <2>1, <2>4, <2>5 DEF EgressSums
  <1>14. Balanced(ingress, egress)
    <2>1. /\ ingress.total = 0 /\ egress.qmin = zeros /\ egress.sp[1] = 0
          /\ OverPorts(zeros, Classes) = 0
      BY <1>3, <1>5, OneEgressPool
    <2> QED BY <2>1 DEF Balanced
  <1>9. Bytes(<<>>) = 0 /\ \A p : BytesFrom(p, <<>>) = 0
    <2> DEFINE e == <<>>
    <2>1. e \in Seq(Pkt) /\ e = <<>>
      OBVIOUS
    <2> HIDE DEF e
    <2>2. /\ Bytes(e) = Weight(Sizes, e) /\ Sizes \in [Pkt -> Nat]
          /\ \A p : BytesFrom(p, e) = Weight(SizesFrom(p), e) /\ SizesFrom(p) \in [Pkt -> Nat]
      BY <2>1, BytesAreWeights
    <2>3. \A w \in [Pkt -> Nat] : Weight(w, e) = 0
      BY <2>1, WeightLaws
    <2>4. Bytes(e) = 0 /\ \A p : BytesFrom(p, e) = 0
      BY <2>2, <2>3
    <2> QED BY <2>1, <2>4
  <1>10. \A p \in Ports, c \in Classes : dev[p].queue[c] = <<>> /\ dev[p].bytes[c] = 0
    BY DEF Init, ForEach
  <1>11. \A p \in Ports, c \in Classes : Buffered(dev, p, c) = 0
    <2>1. ASSUME NEW p \in Ports, NEW c \in Classes PROVE Buffered(dev, p, c) = 0
      <3> DEFINE f == [x \in Ports |-> BytesFrom(p, dev[x].queue[c])]
      <3>1. Buffered(dev, p, c) = SumFunctionOnSet(f, Ports)
        BY DEF Buffered, SumFunction
      <3>2. \A x \in Ports : f[x] = 0
        BY <1>9, <1>10
      <3> HIDE DEF f
      <3>3. SumFunctionOnSet(f, Ports) = 0
        BY <3>2, FiniteMmu, SumOfZeros
      <3> QED BY <3>1, <3>3
    <2> QED BY <2>1
  <1>12. \A p \in Ports, c \in Classes : NothingOwed[p][c] = 0 /\ ingress.pg[p][c] = 0
    BY <1>5 DEF NothingOwed, zeros
  <1>13. Switch.ingress = ingress /\ Switch.egress = egress /\ Switch.dev = dev
    BY DEF Switch
  <1> QED BY <1>7, <1>8, <1>9, <1>10, <1>11, <1>12, <1>13, <1>14 DEF Accounted


\* Every event of the simulator keeps the accounts.
LEMMA StepAccounted == AccountInv /\ [Next]_vars => AccountInv'
  <1> SUFFICES ASSUME AccountInv, [Next]_vars PROVE Accounted(Switch, NothingOwed)'
    BY StepCounted DEF AccountInv
  <1>0. /\ Counted(Switch, NothingOwed) /\ Accounted(Switch, NothingOwed)
        /\ Switch.dev = dev /\ Switch.egress = egress /\ Switch.ingress = ingress
        /\ Devices(dev) /\ \A p \in Ports : Device(dev[p])
        /\ toSwitch \in [Ports -> Seq(WirePkt)]
    BY DEF AccountInv, CountInv, Switch, Counted, Devices
  <1>1. ASSUME NEW p \in Ports, SwitchReceive(p) PROVE Accounted(Switch, NothingOwed)'
    <2> DEFINE wire == toSwitch[p]
               pkt == Head(wire)
    <2>1. wire \in Seq(WirePkt) /\ wire # <<>>
      BY <1>0, <1>1 DEF SwitchReceive, FirstDue
    <2>2. pkt \in WirePkt
      <3> HIDE DEF wire
      <3> QED BY <2>1
    <2>3. pkt.out \in Ports /\ pkt.class \in Classes /\ pkt.size \in PktSizes
      BY <2>2 DEF WirePkt
    <2>4. Become(DoSwitchSend(Switch, p, pkt.out, pkt.class, pkt.size))
      BY <1>1 DEF SwitchReceive
    <2> HIDE DEF pkt
    <2> QED BY <1>0, <2>3, <2>4, DoSwitchSendAccounted, BecomeAccounted
  <1>2. ASSUME NEW p \in Ports, NEW d, Device(d),
               d.bytes = dev[p].bytes, d.queue = dev[p].queue,
               Become(DequeueAndTransmit([Switch EXCEPT !.dev[p] = d], p))
        PROVE  Accounted(Switch, NothingOwed)'
    <2> DEFINE sw == Switch
               t == [sw EXCEPT !.dev[p] = d]
    <2>1. Device(d) /\ d.bytes = dev[p].bytes /\ d.queue = dev[p].queue
      BY <1>2
    <2>2. /\ Shape(t) /\ t.egress = sw.egress /\ t.ingress = sw.ingress
          /\ t.dev = [sw.dev EXCEPT ![p] = d]
      BY DEF Shape, Switch
    <2>3. /\ Counted(sw, NothingOwed) /\ Accounted(sw, NothingOwed)
          /\ sw.dev = dev /\ dev = [x \in Ports |-> dev[x]]
      BY <1>0 DEF Devices
    <2>4. Become(DequeueAndTransmit(t, p))
      BY <1>2
    <2> HIDE DEF sw, t
    <2>5. Counted(t, NothingOwed)
      BY <2>1, <2>2, <2>3, CountedPut
    <2>6. SameBuffer(sw, t)
      BY <2>1, <2>2, <2>3 DEF SameBuffer
    <2>7. Accounted(t, NothingOwed)
      BY <2>3, <2>6, AccountedSame
    <2> QED BY <2>4, <2>5, <2>7, DequeueAccounted, BecomeAccounted
  <1>3. ASSUME NEW p \in Ports, TransmitComplete(p) PROVE Accounted(Switch, NothingOwed)'
    <2>1. Become(DequeueAndTransmit([Switch EXCEPT !.dev[p] = Ready(dev[p])], p))
      BY <1>3 DEF TransmitComplete, Switch
    <2>2. /\ Device(Ready(dev[p])) /\ Ready(dev[p]).bytes = dev[p].bytes
          /\ Ready(dev[p]).queue = dev[p].queue
      BY <1>0, DeviceKept
    <2> QED BY <1>2, <2>1, <2>2
  <1>4. ASSUME NEW p \in Ports, NEW c \in Classes, Resume(p, c)
        PROVE  Accounted(Switch, NothingOwed)'
    <2>1. Become(DequeueAndTransmit([Switch EXCEPT !.dev[p] = Unpaused(dev[p], c)], p))
      BY <1>4 DEF Resume, Switch
    <2>2. /\ Device(Unpaused(dev[p], c)) /\ Unpaused(dev[p], c).bytes = dev[p].bytes
          /\ Unpaused(dev[p], c).queue = dev[p].queue
      BY <1>0, DeviceKept
    <2> QED BY <1>2, <2>1, <2>2
  <1>5. ASSUME NEW p \in Ports, NEW c \in Classes, DevicePause(p, c)
        PROVE  Accounted(Switch, NothingOwed)'
    <2> DEFINE d == Paused(dev[p], c)
    <2>1. dev' = [dev EXCEPT ![p] = d] /\ UNCHANGED <<ingress, egress>>
      BY <1>5 DEF DevicePause
    <2>2. d.bytes = dev[p].bytes /\ d.queue = dev[p].queue
      BY <1>0, DeviceKept
    <2> HIDE DEF d
    <2>3. \A q \in Ports : dev'[q].queue = dev[q].queue /\ dev'[q].bytes = dev[q].bytes
      BY <1>0, <2>1, <2>2 DEF Devices
    <2> QED BY <2>1, <2>3, AccountsKept
  <1>6. CASE Tick
    <2>1. dev' = [p \in Ports |-> Elapsed(dev[p])] /\ UNCHANGED <<ingress, egress>>
      BY <1>6 DEF Tick
    <2>2. \A q \in Ports : /\ Elapsed(dev[q]).queue = dev[q].queue
                           /\ Elapsed(dev[q]).bytes = dev[q].bytes
      BY <1>0, DeviceKept
    <2>3. \A q \in Ports : dev'[q].queue = dev[q].queue /\ dev'[q].bytes = dev[q].bytes
      BY <2>1, <2>2
    <2> QED BY <2>1, <2>3, AccountsKept
  <1>7. ASSUME UNCHANGED <<ingress, egress, dev>> PROVE Accounted(Switch, NothingOwed)'
    BY <1>7, AccountsKept
  <1>8. ASSUME NEW p \in Ports, NEW out \in Ports, NEW c \in Classes,
               NEW size \in PktSizes, PeerSend(p, out, c, size)
        PROVE  Accounted(Switch, NothingOwed)'
    BY <1>7, <1>8 DEF PeerSend
  <1>9. ASSUME NEW p \in Ports, NEW c \in Classes,
               PeerReceive(p) \/ PauseExpires(p, c) \/ PeerResume(p, c)
        PROVE  Accounted(Switch, NothingOwed)'
    BY <1>7, <1>9 DEF PeerReceive, PauseExpires, PeerResume
  <1>10. ASSUME NEW p \in Ports, PeerReceive(p) PROVE Accounted(Switch, NothingOwed)'
    BY <1>7, <1>10 DEF PeerReceive
  <1>11. CASE UNCHANGED vars
    BY <1>7, <1>11 DEF vars
  <1> QED
    BY <1>1, <1>3, <1>4, <1>5, <1>6, <1>8, <1>9, <1>10, <1>11
    DEF Next, DeviceResume, DevicePauseExpires

\* The accounts as the properties state them.
LEMMA AccountsAdd ==
    ASSUME AccountInv
    PROVE  IngressAccounted /\ EgressAccounted /\ ExcessInHeadroom
  <1>1. /\ Counted(Switch, NothingOwed) /\ Accounted(Switch, NothingOwed)
        /\ Switch.dev = dev /\ Switch.egress = egress /\ Switch.ingress = ingress
        /\ \A p \in Ports : Device(dev[p])
    BY DEF AccountInv, CountInv, Switch, Counted, Devices
  <1>2. IngressSums(ingress) /\ EgressSums(egress)
    BY <1>1 DEF Accounted
  <1>3. \A p \in Ports, c \in Classes : NothingOwed[p][c] = 0
    BY DEF NothingOwed
  <1>4. IngressAccounted
    <2>1. ASSUME NEW p \in Ports, NEW c \in Classes
          PROVE  ingress.pg[p][c] = BufferedFrom(p, c)
      <3>1. ingress.pg[p][c] = Buffered(dev, p, c) + 0
        BY <1>1, <1>3 DEF Accounted
      <3>2. Buffered(dev, p, c) \in Nat
        BY <1>1, BufferedBounds
      <3>3. BufferedFrom(p, c) = Buffered(dev, p, c)
        BY DEF BufferedFrom, Buffered
      <3> QED BY <3>1, <3>2, <3>3
    <2>2. /\ \A p \in Ports : ingress.port[p] = SumOf(ingress.pg[p], Classes)
          /\ ingress.total = SumOf(ingress.port, Ports)
      BY <1>2 DEF IngressSums
    <2>3. \A k \in Pools : ingress.sp[k] =
            SumFunction([p \in Ports |-> SumOf(ingress.pg[p], InPool(k))])
      BY <1>2 DEF IngressSums, OverPorts
    <2> QED BY <2>1, <2>2, <2>3 DEF IngressAccounted
  <1>5. EgressMatchesQueue
    BY QueuesMatch DEF AccountInv
  <1>6. EgressAccounted
    <2>1. \A p \in Ports, c \in Classes : dev[p].bytes[c] = Bytes(dev[p].queue[c])
      BY <1>1 DEF Accounted
    <2>2. ASSUME NEW p \in Ports
          PROVE  egress.port[p] = SumOf(dev[p].bytes, Classes)
      <3>1. dev[p].bytes \in [Classes -> Int]
        BY <1>1 DEF Device
      <3>2. \A c \in Classes : Held(egress)[p][c] = dev[p].bytes[c] + 0
        BY <1>1, <1>3, HeldIsQueued
      <3>3. \A c \in Classes : Held(egress)[p][c] = dev[p].bytes[c]
        BY <3>1, <3>2
      <3>4. Held(egress)[p] = [c \in Classes |-> Held(egress)[p][c]]
        BY DEF Held
      <3>5. Held(egress)[p] = dev[p].bytes
        BY <3>1, <3>3, <3>4
      <3> QED BY <1>2, <3>5 DEF EgressSums
    <2>3. \A k \in Pools : egress.sp[k] =
            SumFunction([p \in Ports |->
              SumOf(egress.shared[p], {c \in Classes : EgressSP(c) = k})])
      BY <1>2 DEF EgressSums, OverPorts, InEgressPool
    <2> QED BY <1>5, <2>1, <2>2, <2>3 DEF EgressAccounted
  <1>7. ExcessInHeadroom
    BY <1>2 DEF IngressSums, OverPorts, ExcessInHeadroom
  <1> QED BY <1>4, <1>6, <1>7

\* Every ingress counter of the MMU (class, port, pool and total) counts what
\* the queues hold, whatever packets are admitted, dropped and sent: no byte
\* leaks, and no release finds a counter below what it takes.
THEOREM IngressIsAccounted == Spec => []IngressAccounted
  <1>1. AccountInv => IngressAccounted
    BY AccountsAdd
  <1> QED BY <1>1, InitAccounted, StepAccounted, PTL DEF Spec

\* So does every egress counter, by queue (guaranteed and shared part), port
\* and pool, and the device's own count of a queue.
THEOREM EgressIsAccounted == Spec => []EgressAccounted
  <1>1. AccountInv => EgressAccounted
    BY AccountsAdd
  <1> QED BY <1>1, InitAccounted, StepAccounted, PTL DEF Spec

\* What a pool holds above its limit is charged to the headroom of its
\* classes: a release that lets the headroom go first never gives up more of
\* it than the pool loses.
THEOREM ExcessIsInHeadroom == Spec => []ExcessInHeadroom
  <1>1. AccountInv => ExcessInHeadroom
    BY AccountsAdd
  <1> QED BY <1>1, InitAccounted, StepAccounted, PTL DEF Spec

-----------------------------------------------------------------------------
(* The buffer as a whole.                                                  *)

\* The guaranteed parts of the queues fit into what is held back for the ports.
LEMMA GuaranteesFit ==
    ASSUME ReserveAssumption, CountInv, Positive(egress.qmin)
    PROVE  OverPorts(egress.qmin, Classes) <= Reserved /\ Reserved \in Int
  <1> DEFINE m == egress.qmin
             f == [p \in Ports |-> SumOf(m[p], Classes)]
             most == IF QCnt * PgMin > PortMin THEN QCnt * PgMin ELSE PortMin
  <1>1. m \in Matrix /\ Classes \in SUBSET Classes
        /\ \A p \in Ports, c \in Classes : m[p][c] \in Int /\ m[p][c] <= QMin
    BY QueuesMatch DEF EgressMatchesQueue, Positive, Matrix
  <1>2. OverPorts(m, Classes) = SumFunctionOnSet(f, Ports)
    BY DEF OverPorts, SumFunction
  <1>3. Reserved = NPorts * most
    BY DEF Reserved
  <1>4. /\ QMin \in Nat /\ Cardinality(Classes) * QMin \in Int
        /\ most \in Nat /\ Cardinality(Classes) * QMin <= most
    <2>1. QMin \in Nat /\ Cardinality(Classes) \in Nat /\ PgMin \in Nat /\ PortMin \in Nat
          /\ QCnt \in Nat
      BY MmuAssumption, FiniteMmu, FS_CardinalityType DEF QMin, PgMin, PortMin
    <2>2. Cardinality(Classes) * QMin \in Int /\ QCnt * PgMin \in Nat
      BY <2>1
    <2>3. Cardinality(Classes) * QMin <= QCnt * PgMin
      BY DEF ReserveAssumption
    <2> QED BY <2>1, <2>2, <2>3
  <1>5. Cardinality(Ports) = NPorts /\ NPorts \in Int
    BY MmuAssumption, FS_Interval DEF Ports
  <1> HIDE DEF m, most
  <1>6. \A p \in Ports : f[p] \in Int
    BY <1>1, OverPortsBounds
  <1>7. ASSUME NEW p \in Ports PROVE f[p] <= most
    <2> DEFINE g == m[p]
    <2>1. \A c \in Classes : g[c] \in Int /\ g[c] <= QMin
      BY <1>1
    <2> HIDE DEF g
    <2>2. SumFunctionOnSet(g, Classes) <= Cardinality(Classes) * QMin
      BY <1>4, <2>1, FiniteMmu, SumAtMost
    <2>3. f[p] = SumFunctionOnSet(g, Classes)
      BY DEF SumOf, g
    <2> QED BY <1>4, <1>6, <2>2, <2>3
  <1> HIDE DEF f
  <1>8. SumFunctionOnSet(f, Ports) <= Cardinality(Ports) * most
    BY <1>4, <1>6, <1>7, FiniteMmu, SumAtMost
  <1>9. NPorts * most \in Int
    BY <1>4, <1>5
  <1> QED BY <1>2, <1>3, <1>5, <1>8, <1>9 DEF m

\* What the egress limit leaves to the shared parts and what is held back add up
\* to the buffer.
LEMMA BufferHasRoom ==
    ASSUME ReserveAssumption, AccountInv, NEW out \in Ports, NEW c \in Classes,
           NEW size \in PktSizes, EgressAdmits(egress, out, c, size)
    PROVE  ~BufferFull(ingress, size)
  <1>1. /\ Counted(Switch, NothingOwed) /\ Accounted(Switch, NothingOwed)
        /\ Switch.egress = egress /\ Switch.ingress = ingress
    BY DEF AccountInv, CountInv, Switch
  <1>2. EgressSums(egress) /\ Balanced(ingress, egress) /\ IngressSums(ingress)
    BY <1>1 DEF Accounted
  <1>3. /\ Positive(egress.qmin) /\ egress.qmin \in Matrix /\ Classes \in SUBSET Classes
        /\ egress.sp[1] \in Int /\ EgressSP(c) = 1 /\ ingress.total \in Int
    BY <1>2, OneEgressPool DEF EgressSums, EgressSet, Positive, IngressSums
  <1>4. OverPorts(egress.qmin, Classes) <= Reserved /\ Reserved \in Int
    BY <1>3, GuaranteesFit DEF AccountInv
  <1>5. OverPorts(egress.qmin, Classes) \in Int
    <2> DEFINE m == egress.qmin
    <2>1. m \in Matrix /\ Classes \in SUBSET Classes
      BY <1>3
    <2> HIDE DEF m
    <2>2. OverPorts(m, Classes) \in Int
      BY <2>1, OverPortsBounds
    <2> QED BY <2>2 DEF m
  <1>6. /\ egress.sp[1] + size <= MaxBufferBytes - Reserved
        /\ ingress.total = egress.sp[1] + OverPorts(egress.qmin, Classes)
        /\ size \in Int /\ MaxBufferBytes \in Int
    BY <1>2, <1>3, MmuNumbers, MmuAssumption DEF EgressAdmits, EgressLimit, Balanced
  <1>7. ingress.total + size <= MaxBufferBytes
    BY <1>3, <1>4, <1>5, <1>6
  <1> QED BY <1>3, <1>6, <1>7 DEF BufferFull

\* A packet that the egress side admits never finds the buffer full, whatever
\* HdrmLimit holds for a port that does not exist and whichever port's headroom
\* TotalHdrmLimit leaves out: the shared parts stay below the egress limit, and
\* the guarantees are held back.
THEOREM BufferNeverFull == ASSUME ReserveAssumption PROVE Spec => []BufferSuffices
  <1>1. AccountInv => BufferSuffices
    <2> SUFFICES ASSUME AccountInv, NEW p \in Ports, FirstDue(toSwitch[p]),
                        EgressAdmits(egress, Head(toSwitch[p]).out,
                                     Head(toSwitch[p]).class, Head(toSwitch[p]).size)
                 PROVE  ~BufferFull(ingress, Head(toSwitch[p]).size)
      BY DEF BufferSuffices
    <2> DEFINE wire == toSwitch[p]
               pkt == Head(wire)
    <2>1. wire \in Seq(WirePkt) /\ wire # <<>>
      BY DEF FirstDue, AccountInv, CountInv
    <2>2. pkt \in WirePkt
      <3> HIDE DEF wire
      <3> QED BY <2>1
    <2>3. pkt.out \in Ports /\ pkt.class \in Classes /\ pkt.size \in PktSizes
      BY <2>2 DEF WirePkt
    <2>4. EgressAdmits(egress, pkt.out, pkt.class, pkt.size)
      OBVIOUS
    <2> HIDE DEF pkt
    <2>5. ~BufferFull(ingress, pkt.size)
      BY <2>3, <2>4, BufferHasRoom
    <2> QED BY <2>5 DEF pkt
  <1> QED BY <1>1, InitAccounted, StepAccounted, PTL DEF Spec

=============================================================================
