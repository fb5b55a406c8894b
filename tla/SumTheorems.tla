---------------------------- MODULE SumTheorems -----------------------------
(***************************************************************************)
(* Facts about the sums the specifications are built from,                 *)
(* SumFunctionOnSet of the community module Functions, for any function    *)
(* and any finite set.  What would be inductions are arguments about a     *)
(* least counterexample: the natural numbers are well-founded.             *)
(***************************************************************************)
EXTENDS Integers, FiniteSets, Functions, FiniteSetTheorems, WellFoundedInduction, TLAPS

\* Every nonempty set of natural numbers has a least element.
LEMMA Least ==
    ASSUME NEW T \in SUBSET Nat, T # {}
    PROVE  \E x \in T : \A y \in T : x <= y
<1> DEFINE R == OpToRel(<, Nat)
<1>1. IsWellFoundedOn(R, Nat)
  BY NatLessThanWellFounded
<1>2. \A x, y \in T : (<<y, x>> \in R) <=> y < x
  BY DEF OpToRel
<1> HIDE DEF R
<1>3. PICK x \in T : \A y \in T : ~(<<y, x>> \in R)
  BY <1>1, WFMin
<1>4. \A y \in T : ~(y < x)
  BY <1>2, <1>3
<1>5. \A y \in T : x <= y
  BY <1>4
<1>6. QED
  BY <1>5

-----------------------------------------------------------------------------
(* The recursive function behind a sum *)

Chosen(s) == CHOOSE x \in s : TRUE

Recurs(iter, f, D) ==
    iter = [s \in D |-> IF s = {} THEN 0 ELSE f[Chosen(s)] + iter[s \ {Chosen(s)}]]

\* The subsets of S that have n elements or less.
Layer(S, n) == {s \in SUBSET S : Cardinality(s) <= n}

\* The recursion steps from a set of one layer into the layer below.
LEMMA SmallerLayer ==
    ASSUME NEW S, IsFiniteSet(S), NEW n \in Nat, NEW s \in Layer(S, n), s # {}
    PROVE  /\ Chosen(s) \in s
           /\ IsFiniteSet(s) /\ Cardinality(s) \in Nat /\ Cardinality(s) > 0
           /\ n > 0 /\ s \ {Chosen(s)} \in Layer(S, n - 1)
<1>1. s \in SUBSET S /\ Cardinality(s) <= n /\ Chosen(s) \in s
  BY DEF Layer, Chosen
<1>2. IsFiniteSet(s) /\ Cardinality(s) \in Nat /\ Cardinality(s) # 0
  BY <1>1, FS_Subset, FS_CardinalityType, FS_EmptySet
<1>3. Cardinality(s \ {Chosen(s)}) = Cardinality(s) - 1
  BY <1>1, <1>2, FS_RemoveElement
<1>4. QED
  BY <1>1, <1>2, <1>3 DEF Layer

\* A function that follows the recursion exists on every layer.
LEMMA LayerFunction ==
    ASSUME NEW S, IsFiniteSet(S), NEW f, NEW n \in Nat
    PROVE  \E iter : Recurs(iter, f, Layer(S, n))
<1> DEFINE Bad == {m \in Nat : ~\E iter : Recurs(iter, f, Layer(S, m))}
<1>1. SUFFICES ASSUME n \in Bad PROVE FALSE
  OBVIOUS
<1>2. PICK m \in Bad : \A k \in Bad : m <= k
  BY <1>1, Least
<1>3. CASE m = 0
  <2> DEFINE iter == [s \in Layer(S, 0) |-> 0]
  <2>1. \A s \in Layer(S, 0) : s = {}
    <3>1. SUFFICES ASSUME NEW s \in Layer(S, 0), s # {} PROVE FALSE
      OBVIOUS
    <3>2. 0 > 0
      BY <3>1, SmallerLayer
    <3>3. QED
      BY <3>2
  <2>2. Recurs(iter, f, Layer(S, 0))
    BY <2>1 DEF Recurs
  <2>3. QED
    BY <1>2, <1>3, <2>2
<1>4. CASE m # 0
  <2>1. m - 1 \in Nat /\ m - 1 \notin Bad
    BY <1>2, <1>4
  <2>2. PICK below : Recurs(below, f, Layer(S, m - 1))
    BY <2>1
  <2> DEFINE iter == [s \in Layer(S, m) |->
                        IF s = {} THEN 0 ELSE f[Chosen(s)] + below[s \ {Chosen(s)}]]
  <2>3. ASSUME NEW s \in Layer(S, m), s # {}
        PROVE  iter[s \ {Chosen(s)}] = below[s \ {Chosen(s)}]
    <3> DEFINE t == s \ {Chosen(s)}
    <3>1. t \in Layer(S, m - 1)
      BY <2>3, SmallerLayer
    <3>2. t \in Layer(S, m)
      <4>1. IsFiniteSet(t) /\ Cardinality(t) \in Nat
        BY <3>1, FS_Subset, FS_CardinalityType DEF Layer
      <4>2. QED
        BY <3>1, <4>1, <1>2, <1>4 DEF Layer
    <3> HIDE DEF t
    <3>3. below[t] = IF t = {} THEN 0 ELSE f[Chosen(t)] + below[t \ {Chosen(t)}]
      BY <2>2, <3>1 DEF Recurs
    <3>4. iter[t] = IF t = {} THEN 0 ELSE f[Chosen(t)] + below[t \ {Chosen(t)}]
      BY <3>2
    <3>5. QED
      BY <3>3, <3>4 DEF t
  <2>4. Recurs(iter, f, Layer(S, m))
    <3>1. \A s \in Layer(S, m) : (IF s = {} THEN 0 ELSE f[Chosen(s)] + below[s \ {Chosen(s)}])
              = (IF s = {} THEN 0 ELSE f[Chosen(s)] + iter[s \ {Chosen(s)}])
      BY <2>3
    <3>2. QED
      BY <3>1 DEF Recurs
  <2>5. QED
    BY <1>2, <2>4
<1>5. QED
  BY <1>3, <1>4

\* The sum over a finite set is what such a function gives for the whole set.
LEMMA SumIs ==
    ASSUME NEW f, NEW S, IsFiniteSet(S)
    PROVE  \E iter : Recurs(iter, f, SUBSET S) /\ SumFunctionOnSet(f, S) = iter[S]
<1>1. Cardinality(S) \in Nat /\ Layer(S, Cardinality(S)) = SUBSET S
  BY FS_CardinalityType, FS_Subset DEF Layer
<1> DEFINE n == Cardinality(S)
<1>2. \E iter : Recurs(iter, f, SUBSET S)
  <2>1. \E iter : Recurs(iter, f, Layer(S, n))
    BY <1>1, LayerFunction
  <2>2. QED
    BY <1>1, <2>1
<1>3. QED
  BY <1>2, Zenon DEF SumFunctionOnSet, FoldFunctionOnSet, MapThenFoldSet, Recurs, Chosen

\* Two such functions agree where both are defined.
LEMMA RecursUnique ==
    ASSUME NEW f, NEW S, IsFiniteSet(S), NEW T \in SUBSET S,
           NEW i, NEW j
    PROVE  Recurs(i, f, SUBSET S) /\ Recurs(j, f, SUBSET T) => i[T] = j[T]
<1> DEFINE Bad == {n \in Nat : \E s \in SUBSET T : Cardinality(s) = n /\ i[s] # j[s]}
<1>1. IsFiniteSet(T) /\ Cardinality(T) \in Nat
  BY FS_Subset, FS_CardinalityType
<1>2. SUFFICES ASSUME Recurs(i, f, SUBSET S), Recurs(j, f, SUBSET T), i[T] # j[T] PROVE FALSE
  OBVIOUS
<1>3. Bad # {}
  BY <1>1, <1>2
<1>4. PICK n \in Bad : \A k \in Bad : n <= k
  BY <1>3, Least
<1>5. PICK s \in SUBSET T : Cardinality(s) = n /\ i[s] # j[s]
  BY <1>4
<1>6. i[s] = (IF s = {} THEN 0 ELSE f[Chosen(s)] + i[s \ {Chosen(s)}])
  BY <1>2 DEF Recurs
<1>7. j[s] = (IF s = {} THEN 0 ELSE f[Chosen(s)] + j[s \ {Chosen(s)}])
  BY <1>2 DEF Recurs
<1>8. s # {}
  BY <1>5, <1>6, <1>7
<1>9. i[s \ {Chosen(s)}] # j[s \ {Chosen(s)}]
  BY <1>5, <1>6, <1>7, <1>8
<1>10. IsFiniteSet(s) /\ Chosen(s) \in s
  BY <1>1, <1>8, FS_Subset DEF Chosen
<1>11. Cardinality(s \ {Chosen(s)}) = n - 1 /\ n - 1 \in Nat
  <2>1. Cardinality(s \ {Chosen(s)}) = Cardinality(s) - 1 /\ IsFiniteSet(s \ {Chosen(s)})
    BY <1>10, FS_RemoveElement
  <2>2. Cardinality(s \ {Chosen(s)}) \in Nat
    BY <2>1, FS_CardinalityType
  <2>3. QED
    BY <1>5, <2>1, <2>2
<1>12. n - 1 \in Bad
  BY <1>9, <1>11
<1>13. QED
  BY <1>4, <1>11, <1>12

-----------------------------------------------------------------------------
(* Sums *)

\* A sum over nothing is zero.
LEMMA SumEmpty ==
    ASSUME NEW f
    PROVE  SumFunctionOnSet(f, {}) = 0
<1>1. PICK iter : Recurs(iter, f, SUBSET {}) /\ SumFunctionOnSet(f, {}) = iter[{}]
  BY SumIs, FS_EmptySet
<1>2. QED
  BY <1>1 DEF Recurs

\* The recursion, for the element that is chosen.
LEMMA SumChosen ==
    ASSUME NEW f, NEW S, IsFiniteSet(S), S # {}
    PROVE  /\ Chosen(S) \in S
           /\ SumFunctionOnSet(f, S) = f[Chosen(S)] + SumFunctionOnSet(f, S \ {Chosen(S)})
<1> DEFINE T == S \ {Chosen(S)}
<1>1. IsFiniteSet(T) /\ T \in SUBSET S
  BY FS_RemoveElement
<1>2. PICK i : Recurs(i, f, SUBSET S) /\ SumFunctionOnSet(f, S) = i[S]
  BY SumIs
<1>3. i[S] = f[Chosen(S)] + i[T]
  BY <1>2 DEF Recurs
<1> HIDE DEF T
<1>4. PICK j : Recurs(j, f, SUBSET T) /\ SumFunctionOnSet(f, T) = j[T]
  BY <1>1, SumIs
<1>5. i[T] = j[T]
  BY <1>1, <1>2, <1>4, RecursUnique
<1>6. QED
  BY <1>2, <1>3, <1>4, <1>5 DEF Chosen, T

\* A set without one of its elements is a smaller one.
LEMMA Removed ==
    ASSUME NEW S, IsFiniteSet(S), NEW x \in S
    PROVE  /\ IsFiniteSet(S \ {x}) /\ Cardinality(S \ {x}) \in Nat
           /\ Cardinality(S) \in Nat /\ Cardinality(S \ {x}) < Cardinality(S)
<1>1. IsFiniteSet(S \ {x}) /\ Cardinality(S \ {x}) = Cardinality(S) - 1
  BY FS_RemoveElement
<1>2. Cardinality(S) \in Nat /\ Cardinality(S \ {x}) \in Nat
  BY <1>1, FS_CardinalityType
<1>3. QED
  BY <1>1, <1>2

\* A sum of integers is an integer.
LEMMA SumInt ==
    ASSUME NEW f, NEW S, IsFiniteSet(S), \A x \in S : f[x] \in Int
    PROVE  SumFunctionOnSet(f, S) \in Int
<1> DEFINE Wrong(T) == SumFunctionOnSet(f, T) \notin Int
           Bad == {n \in Nat : \E T \in SUBSET S : Cardinality(T) = n /\ Wrong(T)}
<1>1. SUFFICES ASSUME Wrong(S) PROVE FALSE
  OBVIOUS
<1>2. Bad # {}
  BY <1>1, FS_CardinalityType
<1>3. PICK n \in Bad : \A k \in Bad : n <= k
  BY <1>2, Least
<1>4. PICK T \in SUBSET S : Cardinality(T) = n /\ Wrong(T)
  BY <1>3
<1>5. IsFiniteSet(T)
  BY FS_Subset
<1>6. T # {}
  BY <1>4, SumEmpty
<1>7. Chosen(T) \in T /\ SumFunctionOnSet(f, T) = f[Chosen(T)] + SumFunctionOnSet(f, T \ {Chosen(T)})
  BY <1>5, <1>6, SumChosen
<1>8. Cardinality(T \ {Chosen(T)}) \in Nat /\ Cardinality(T \ {Chosen(T)}) < n
  BY <1>4, <1>5, <1>7, Removed
<1>9. ~Wrong(T \ {Chosen(T)})
  BY <1>3, <1>8
<1>10. QED
  BY <1>4, <1>7, <1>9

\* Any element may be taken out first.
LEMMA SumSplit ==
    ASSUME NEW f, NEW S, IsFiniteSet(S), \A y \in S : f[y] \in Int, NEW x \in S
    PROVE  SumFunctionOnSet(f, S) = f[x] + SumFunctionOnSet(f, S \ {x})
<1> DEFINE Right(T, y) == SumFunctionOnSet(f, T) = f[y] + SumFunctionOnSet(f, T \ {y})
           Bad == {n \in Nat : \E T \in SUBSET S : Cardinality(T) = n /\ \E y \in T : ~Right(T, y)}
<1>1. SUFFICES ASSUME ~Right(S, x) PROVE FALSE
  OBVIOUS
<1>2. Bad # {}
  BY <1>1, FS_CardinalityType
<1>3. PICK n \in Bad : \A k \in Bad : n <= k
  BY <1>2, Least
<1> \A T \in SUBSET S : \A y \in T : Cardinality(T) \in Nat /\ Cardinality(T) < n => Right(T, y)
  <2>1. SUFFICES ASSUME NEW T \in SUBSET S, NEW y \in T, Cardinality(T) \in Nat,
                        Cardinality(T) < n, ~Right(T, y)
                 PROVE  FALSE
    OBVIOUS
  <2>2. n <= Cardinality(T)
    BY <1>3, <2>1
  <2>3. QED
    BY <1>3, <2>1, <2>2
<1>4. PICK T \in SUBSET S : Cardinality(T) = n /\ \E y \in T : ~Right(T, y)
  BY <1>3
<1>5. PICK y \in T : ~Right(T, y)
  BY <1>4
<1> DEFINE c == Chosen(T)
<1>6. IsFiniteSet(T)
  BY FS_Subset
<1>7. c \in T /\ SumFunctionOnSet(f, T) = f[c] + SumFunctionOnSet(f, T \ {c})
  BY <1>5, <1>6, SumChosen
<1> HIDE DEF c
<1>8. c # y
  BY <1>5, <1>7
<1>9. Right(T \ {c}, y)
  <2>1. Cardinality(T \ {c}) \in Nat /\ Cardinality(T \ {c}) < n
    BY <1>4, <1>6, <1>7, Removed
  <2>2. T \ {c} \in SUBSET S /\ y \in T \ {c}
    BY <1>5, <1>7, <1>8
  <2>3. QED
    BY <2>1, <2>2
<1>10. Right(T \ {y}, c)
  <2>1. Cardinality(T \ {y}) \in Nat /\ Cardinality(T \ {y}) < n
    BY <1>4, <1>5, <1>6, Removed
  <2>2. T \ {y} \in SUBSET S /\ c \in T \ {y}
    BY <1>5, <1>7, <1>8
  <2>3. QED
    BY <2>1, <2>2
<1>11. (T \ {c}) \ {y} = (T \ {y}) \ {c}
  OBVIOUS
<1> DEFINE rest == SumFunctionOnSet(f, (T \ {y}) \ {c})
<1>12. rest \in Int
  <2>1. IsFiniteSet((T \ {y}) \ {c})
    BY <1>6, FS_Subset
  <2>2. QED
    BY <2>1, SumInt
<1>13. f[c] \in Int /\ f[y] \in Int
  BY <1>5, <1>7
<1>14. SumFunctionOnSet(f, T) = f[c] + (f[y] + rest)
  BY <1>7, <1>9, <1>11
<1>15. SumFunctionOnSet(f, T \ {y}) = f[c] + rest
  BY <1>10
<1>16. SumFunctionOnSet(f, T) = f[y] + SumFunctionOnSet(f, T \ {y})
  BY <1>12, <1>13, <1>14, <1>15
<1>17. QED
  BY <1>5, <1>16

\* One more element adds its value.
LEMMA SumAdd ==
    ASSUME NEW f, NEW S, IsFiniteSet(S), NEW x, x \notin S, \A y \in S \cup {x} : f[y] \in Int
    PROVE  SumFunctionOnSet(f, S \cup {x}) = f[x] + SumFunctionOnSet(f, S)
<1>1. IsFiniteSet(S \cup {x}) /\ (S \cup {x}) \ {x} = S
  BY FS_AddElement
<1>2. QED
  BY <1>1, SumSplit

\* What is at most as great everywhere sums up to at most as much.
LEMMA SumMonotone ==
    ASSUME NEW f, NEW g, NEW S, IsFiniteSet(S),
           \A x \in S : f[x] \in Int /\ g[x] \in Int /\ f[x] <= g[x]
    PROVE  SumFunctionOnSet(f, S) <= SumFunctionOnSet(g, S)
<1> DEFINE Right(T) == SumFunctionOnSet(f, T) <= SumFunctionOnSet(g, T)
           Bad == {n \in Nat : \E T \in SUBSET S : Cardinality(T) = n /\ ~Right(T)}
<1>1. SUFFICES ASSUME ~Right(S) PROVE FALSE
  OBVIOUS
<1>2. Bad # {}
  BY <1>1, FS_CardinalityType
<1>3. PICK n \in Bad : \A k \in Bad : n <= k
  BY <1>2, Least
<1>4. PICK T \in SUBSET S : Cardinality(T) = n /\ ~Right(T)
  BY <1>3
<1>5. IsFiniteSet(T)
  BY FS_Subset
<1>6. T # {}
  BY <1>4, SumEmpty
<1> DEFINE c == Chosen(T)
<1>7. /\ c \in T
      /\ SumFunctionOnSet(f, T) = f[c] + SumFunctionOnSet(f, T \ {c})
      /\ SumFunctionOnSet(g, T) = g[c] + SumFunctionOnSet(g, T \ {c})
  BY <1>5, <1>6, SumChosen
<1> HIDE DEF c
<1>8. Right(T \ {c})
  <2>1. Cardinality(T \ {c}) \in Nat /\ Cardinality(T \ {c}) < n
    BY <1>4, <1>5, <1>7, Removed
  <2>2. QED
    BY <1>3, <2>1
<1>9. SumFunctionOnSet(f, T \ {c}) \in Int /\ SumFunctionOnSet(g, T \ {c}) \in Int
  <2>1. IsFiniteSet(T \ {c})
    BY <1>5, FS_Subset
  <2>2. QED
    BY <2>1, SumInt
<1>10. QED
  BY <1>4, <1>7, <1>8, <1>9

\* Equal values have equal sums.
LEMMA SumSame ==
    ASSUME NEW f, NEW g, NEW S, IsFiniteSet(S), \A x \in S : f[x] \in Int /\ f[x] = g[x]
    PROVE  SumFunctionOnSet(f, S) = SumFunctionOnSet(g, S)
<1>1. SumFunctionOnSet(f, S) <= SumFunctionOnSet(g, S)
  BY SumMonotone
<1>2. SumFunctionOnSet(g, S) <= SumFunctionOnSet(f, S)
  BY SumMonotone
<1>3. SumFunctionOnSet(f, S) \in Int /\ SumFunctionOnSet(g, S) \in Int
  BY SumInt
<1>4. QED
  BY <1>1, <1>2, <1>3

\* A sum of natural numbers is one, and grows with the set.
LEMMA SumNat ==
    ASSUME NEW f, NEW S, IsFiniteSet(S), \A x \in S : f[x] \in Nat
    PROVE  SumFunctionOnSet(f, S) \in Nat
<1> DEFINE Wrong(T) == SumFunctionOnSet(f, T) \notin Nat
           Bad == {n \in Nat : \E T \in SUBSET S : Cardinality(T) = n /\ Wrong(T)}
<1>1. SUFFICES ASSUME Wrong(S) PROVE FALSE
  OBVIOUS
<1>2. Bad # {}
  BY <1>1, FS_CardinalityType
<1>3. PICK n \in Bad : \A k \in Bad : n <= k
  BY <1>2, Least
<1>4. PICK T \in SUBSET S : Cardinality(T) = n /\ Wrong(T)
  BY <1>3
<1>5. IsFiniteSet(T)
  BY FS_Subset
<1>6. T # {}
  BY <1>4, SumEmpty
<1>7. Chosen(T) \in T /\ SumFunctionOnSet(f, T) = f[Chosen(T)] + SumFunctionOnSet(f, T \ {Chosen(T)})
  BY <1>5, <1>6, SumChosen
<1>8. Cardinality(T \ {Chosen(T)}) \in Nat /\ Cardinality(T \ {Chosen(T)}) < n
  BY <1>4, <1>5, <1>7, Removed
<1>9. ~Wrong(T \ {Chosen(T)})
  BY <1>3, <1>8
<1>10. QED
  BY <1>4, <1>7, <1>9

\* A part of a set sums up to no more than the set, where no value is negative.
LEMMA SumSubset ==
    ASSUME NEW f, NEW S, IsFiniteSet(S), \A x \in S : f[x] \in Nat, NEW T \in SUBSET S
    PROVE  SumFunctionOnSet(f, T) <= SumFunctionOnSet(f, S)
<1> DEFINE Right(U) == SumFunctionOnSet(f, T) <= SumFunctionOnSet(f, U)
           Bad == {n \in Nat : \E U \in SUBSET S : T \subseteq U /\ Cardinality(U) = n /\ ~Right(U)}
<1>1. SUFFICES ASSUME ~Right(S) PROVE FALSE
  OBVIOUS
<1>2. Bad # {}
  BY <1>1, FS_CardinalityType
<1>3. PICK n \in Bad : \A k \in Bad : n <= k
  BY <1>2, Least
<1>4. PICK U \in SUBSET S : T \subseteq U /\ Cardinality(U) = n /\ ~Right(U)
  BY <1>3
<1>5. IsFiniteSet(U) /\ IsFiniteSet(T)
  BY FS_Subset
<1>6. SumFunctionOnSet(f, T) \in Nat
  BY <1>5, SumNat
<1>7. PICK x \in U : x \notin T
  <2>1. T # U
    BY <1>4, <1>6
  <2>2. QED
    BY <1>4, <2>1
<1>8. SumFunctionOnSet(f, U) = f[x] + SumFunctionOnSet(f, U \ {x})
  BY <1>5, SumSplit
<1>9. Right(U \ {x})
  <2>1. Cardinality(U \ {x}) \in Nat /\ Cardinality(U \ {x}) < n
    BY <1>4, <1>5, Removed
  <2>2. T \subseteq U \ {x}
    BY <1>4, <1>7
  <2>3. QED
    BY <1>3, <2>1, <2>2
<1>10. SumFunctionOnSet(f, U \ {x}) \in Nat /\ f[x] \in Nat
  <2>1. IsFiniteSet(U \ {x})
    BY <1>5, FS_Subset
  <2>2. QED
    BY <2>1, SumNat
<1>11. QED
  BY <1>4, <1>6, <1>8, <1>9, <1>10

\* The sum over two sets that share nothing is the sum of their sums.
LEMMA SumUnion ==
    ASSUME NEW f, NEW S, IsFiniteSet(S), NEW T, IsFiniteSet(T), S \cap T = {},
           \A x \in S \cup T : f[x] \in Int
    PROVE  SumFunctionOnSet(f, S \cup T) = SumFunctionOnSet(f, S) + SumFunctionOnSet(f, T)
<1> DEFINE Right(U) == SumFunctionOnSet(f, S \cup U) = SumFunctionOnSet(f, S) + SumFunctionOnSet(f, U)
           Bad == {n \in Nat : \E U \in SUBSET T : Cardinality(U) = n /\ ~Right(U)}
<1>1. SUFFICES ASSUME ~Right(T) PROVE FALSE
  OBVIOUS
<1>2. Bad # {}
  BY <1>1, FS_CardinalityType
<1>3. PICK n \in Bad : \A k \in Bad : n <= k
  BY <1>2, Least
<1>4. PICK U \in SUBSET T : Cardinality(U) = n /\ ~Right(U)
  BY <1>3
<1>5. IsFiniteSet(U) /\ SumFunctionOnSet(f, S) \in Int
  BY FS_Subset, SumInt
<1>6. CASE U = {}
  <2>1. S \cup U = S /\ SumFunctionOnSet(f, U) = 0
    BY <1>6, SumEmpty
  <2>2. SumFunctionOnSet(f, S \cup U) = SumFunctionOnSet(f, S)
    BY <2>1
  <2>3. QED
    BY <1>4, <1>5, <2>1, <2>2
<1>7. CASE U # {}
  <2>1. PICK x \in U : TRUE
    BY <1>7
  <2> DEFINE V == U \ {x}
  <2>2. Right(V)
    <3>1. Cardinality(V) \in Nat /\ Cardinality(V) < n
      BY <1>4, <1>5, <2>1, Removed
    <3>2. V \in SUBSET T
      OBVIOUS
    <3> HIDE DEF V, Right
    <3>3. SUFFICES ASSUME ~Right(V) PROVE FALSE
      OBVIOUS
    <3>4. Cardinality(V) \in Bad
      BY <3>1, <3>2, <3>3
    <3>5. QED
      BY <1>3, <3>1, <3>4
  <2>3. SumFunctionOnSet(f, U) = f[x] + SumFunctionOnSet(f, V)
    BY <1>5, <2>1, SumSplit
  <2>4. SumFunctionOnSet(f, S \cup U) = f[x] + SumFunctionOnSet(f, S \cup V)
    <3>1. IsFiniteSet(S \cup U) /\ x \in S \cup U /\ \A y \in S \cup U : f[y] \in Int
      BY <1>5, <2>1, FS_Union
    <3>2. (S \cup U) \ {x} = S \cup V
      BY <2>1
    <3>3. SumFunctionOnSet(f, S \cup U) = f[x] + SumFunctionOnSet(f, (S \cup U) \ {x})
      BY <3>1, SumSplit
    <3>4. QED
      BY <3>2, <3>3
  <2>5. f[x] \in Int /\ SumFunctionOnSet(f, V) \in Int
    <3>1. IsFiniteSet(V) /\ \A y \in V : f[y] \in Int
      BY <1>5, FS_Subset
    <3>2. QED
      BY <2>1, <3>1, SumInt
  <2> HIDE DEF V
  <2>6. QED
    BY <1>4, <1>5, <2>2, <2>3, <2>4, <2>5
<1>8. QED
  BY <1>6, <1>7

-----------------------------------------------------------------------------
(* The greatest value of a function on a finite set *)

\* On a nonempty finite set a function into the natural numbers has a greatest value.
LEMMA Greatest ==
    ASSUME NEW S, IsFiniteSet(S), S # {}, NEW f, \A x \in S : f[x] \in Nat
    PROVE  \E x \in S : \A y \in S : f[y] <= f[x]
<1> DEFINE Right(U) == U # {} => \E x \in U : \A y \in U : f[y] <= f[x]
           Bad == {n \in Nat : \E U \in SUBSET S : Cardinality(U) = n /\ ~Right(U)}
<1>1. SUFFICES ASSUME ~Right(S) PROVE FALSE
  OBVIOUS
<1>2. Bad # {}
  BY <1>1, FS_CardinalityType
<1>3. PICK n \in Bad : \A k \in Bad : n <= k
  BY <1>2, Least
<1> \A U \in SUBSET S : Cardinality(U) \in Nat /\ Cardinality(U) < n => Right(U)
  <2>1. SUFFICES ASSUME NEW U \in SUBSET S, Cardinality(U) \in Nat, Cardinality(U) < n, ~Right(U)
                 PROVE  FALSE
    OBVIOUS
  <2>2. n <= Cardinality(U)
    BY <1>3, <2>1
  <2>3. QED
    BY <1>3, <2>1, <2>2
<1>4. PICK U \in SUBSET S : Cardinality(U) = n /\ ~Right(U)
  BY <1>3
<1>5. IsFiniteSet(U)
  BY FS_Subset
<1>6. PICK z \in U : TRUE
  BY <1>4
<1>7. Right(U \ {z})
  <2>1. Cardinality(U \ {z}) \in Nat /\ Cardinality(U \ {z}) < n
    BY <1>4, <1>5, Removed
  <2>2. QED
    BY <2>1
<1>8. CASE U \ {z} = {}
  BY <1>4, <1>6, <1>8
<1>9. CASE U \ {z} # {}
  <2>1. PICK x \in U \ {z} : \A y \in U \ {z} : f[y] <= f[x]
    BY <1>7, <1>9
  <2>2. CASE f[z] <= f[x]
    BY <1>4, <2>1, <2>2
  <2>3. CASE f[x] < f[z]
    <3>1. \A y \in U : f[y] <= f[z]
      BY <2>1, <2>3
    <3>2. QED
      BY <1>4, <1>6, <3>1
  <2>4. QED
    BY <2>2, <2>3
<1>10. QED
  BY <1>8, <1>9

-----------------------------------------------------------------------------
(* Sums that count *)

\* Values of at most p sum up to at most p for each element.
LEMMA SumAtMost ==
    ASSUME NEW f, NEW S, IsFiniteSet(S), NEW p \in Int, \A x \in S : f[x] \in Int /\ f[x] <= p
    PROVE  SumFunctionOnSet(f, S) <= p * Cardinality(S)
<1> DEFINE Right(U) == SumFunctionOnSet(f, U) <= p * Cardinality(U)
           Bad == {n \in Nat : \E U \in SUBSET S : Cardinality(U) = n /\ ~Right(U)}
<1>1. SUFFICES ASSUME ~Right(S) PROVE FALSE
  OBVIOUS
<1>2. Bad # {}
  BY <1>1, FS_CardinalityType
<1>3. PICK n \in Bad : \A k \in Bad : n <= k
  BY <1>2, Least
<1>4. PICK U \in SUBSET S : Cardinality(U) = n /\ ~Right(U)
  BY <1>3
<1>5. IsFiniteSet(U)
  BY FS_Subset
<1>6. U # {}
  BY <1>4, SumEmpty, FS_EmptySet
<1> DEFINE c == Chosen(U)
<1>7. c \in U /\ SumFunctionOnSet(f, U) = f[c] + SumFunctionOnSet(f, U \ {c})
  BY <1>5, <1>6, SumChosen
<1> HIDE DEF c
<1>8. Cardinality(U \ {c}) = n - 1 /\ n - 1 \in Nat
  <2>1. Cardinality(U \ {c}) = n - 1
    BY <1>4, <1>5, <1>7, FS_RemoveElement
  <2>2. Cardinality(U \ {c}) \in Nat
    BY <1>5, FS_RemoveElement, FS_CardinalityType
  <2>3. QED
    BY <2>1, <2>2
<1>9. Right(U \ {c})
  BY <1>3, <1>8
<1>10. SumFunctionOnSet(f, U \ {c}) \in Int
  <2>1. IsFiniteSet(U \ {c})
    BY <1>5, FS_Subset
  <2>2. QED
    BY <2>1, SumInt
<1>11. SumFunctionOnSet(f, U \ {c}) <= p * (n - 1)
  BY <1>8, <1>9
<1>12. p * (n - 1) = p * n - p
  BY <1>3
<1>13. f[c] \in Int /\ f[c] <= p /\ p * n \in Int
  BY <1>3, <1>7
<1> DEFINE rest == SumFunctionOnSet(f, U \ {c})
           most == p * n
<1> HIDE DEF rest, most
<1>14. f[c] + rest <= most
  <2>1. rest \in Int /\ most \in Int /\ rest <= most - p
    BY <1>10, <1>11, <1>12, <1>13 DEF rest, most
  <2>2. QED
    BY <1>13, <2>1
<1>15. QED
  BY <1>4, <1>7, <1>14 DEF rest, most

\* A sum of ones and zeros counts the ones.
LEMMA SumCounts ==
    ASSUME NEW f, NEW S, IsFiniteSet(S), \A x \in S : f[x] \in {0, 1}
    PROVE  SumFunctionOnSet(f, S) = Cardinality({x \in S : f[x] = 1})
<1> DEFINE Ones(U) == {x \in U : f[x] = 1}
           Right(U) == SumFunctionOnSet(f, U) = Cardinality(Ones(U))
           Bad == {n \in Nat : \E U \in SUBSET S : Cardinality(U) = n /\ ~Right(U)}
<1>1. SUFFICES ASSUME ~Right(S) PROVE FALSE
  OBVIOUS
<1>2. Bad # {}
  BY <1>1, FS_CardinalityType
<1>3. PICK n \in Bad : \A k \in Bad : n <= k
  BY <1>2, Least
<1>4. PICK U \in SUBSET S : Cardinality(U) = n /\ ~Right(U)
  BY <1>3
<1>5. IsFiniteSet(U)
  BY FS_Subset
<1>6. U # {}
  <2>1. Ones({}) = {}
    OBVIOUS
  <2>2. SumFunctionOnSet(f, {}) = 0 /\ Cardinality({}) = 0
    BY SumEmpty, FS_EmptySet
  <2> HIDE DEF Ones
  <2>3. Right({})
    BY <2>1, <2>2
  <2>4. QED
    BY <1>4, <2>3
<1> DEFINE c == Chosen(U)
<1>7. c \in U /\ SumFunctionOnSet(f, U) = f[c] + SumFunctionOnSet(f, U \ {c})
  BY <1>5, <1>6, SumChosen
<1> HIDE DEF c
<1>8. Right(U \ {c})
  <2>1. Cardinality(U \ {c}) \in Nat /\ Cardinality(U \ {c}) < n
    BY <1>4, <1>5, <1>7, Removed
  <2> HIDE DEF Ones
  <2>2. QED
    BY <1>3, <2>1
<1>9. IsFiniteSet(Ones(U)) /\ Cardinality(Ones(U)) \in Nat
  <2>1. IsFiniteSet(Ones(U))
    BY <1>5, FS_Subset
  <2>2. QED
    BY <2>1, FS_CardinalityType
<1>10. CASE f[c] = 1
  <2>1. c \in Ones(U) /\ Ones(U \ {c}) = Ones(U) \ {c}
    BY <1>7, <1>10
  <2>2. Cardinality(Ones(U) \ {c}) = Cardinality(Ones(U)) - 1
    BY <1>9, <2>1, FS_RemoveElement
  <2>3. SumFunctionOnSet(f, U \ {c}) = Cardinality(Ones(U)) - 1
    BY <1>8, <2>1, <2>2
  <2>4. SumFunctionOnSet(f, U) = 1 + SumFunctionOnSet(f, U \ {c})
    BY <1>7, <1>10
  <2> HIDE DEF Ones
  <2>5. SumFunctionOnSet(f, U) = Cardinality(Ones(U))
    BY <1>9, <2>3, <2>4
  <2>6. QED
    BY <1>4, <2>5
<1>11. CASE f[c] = 0
  <2>1. Ones(U \ {c}) = Ones(U)
    BY <1>11
  <2>2. SumFunctionOnSet(f, U \ {c}) = Cardinality(Ones(U))
    BY <1>8, <2>1
  <2> HIDE DEF Ones
  <2>3. SumFunctionOnSet(f, U) = Cardinality(Ones(U))
    BY <1>7, <1>9, <1>11, <2>2
  <2>4. QED
    BY <1>4, <2>3
<1>12. QED
  BY <1>7, <1>10, <1>11

\* A finite set of at most one element has no two.
LEMMA AtMostOne ==
    ASSUME NEW S, IsFiniteSet(S), Cardinality(S) <= 1, NEW x \in S, NEW y \in S
    PROVE  x = y
<1>1. SUFFICES ASSUME x # y PROVE FALSE
  OBVIOUS
<1>2. IsFiniteSet(S \ {x}) /\ Cardinality(S \ {x}) = Cardinality(S) - 1
  BY FS_RemoveElement
<1>3. y \in S \ {x}
  BY <1>1
<1>4. Cardinality((S \ {x}) \ {y}) = Cardinality(S \ {x}) - 1 /\ IsFiniteSet((S \ {x}) \ {y})
  BY <1>2, <1>3, FS_RemoveElement
<1>5. Cardinality(S) \in Nat /\ Cardinality((S \ {x}) \ {y}) \in Nat
  BY <1>4, FS_CardinalityType
<1>6. QED
  BY <1>2, <1>4, <1>5
=============================================================================
