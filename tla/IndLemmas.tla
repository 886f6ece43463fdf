------------------------------- MODULE IndLemmas -------------------------------
(***************************************************************************)
(* Induction without operator parameters: over the numbers up to n and     *)
(* over the subsets of a finite set, for the members of a set of which     *)
(* something holds; and what the sums of Functions come to.                *)
(***************************************************************************)
EXTENDS Integers, FiniteSets, Functions, WellFoundedInduction, FiniteSetTheorems, TLAPS

\* A set of natural numbers has a least element.
LEMMA Least ==
    ASSUME NEW T \in SUBSET Nat, T # {}
    PROVE  \E x \in T : \A y \in T : x <= y
<1>1. PICK x \in T : \A y \in T : ~(<< y, x >> \in OpToRel(<, Nat))
  BY NatLessThanWellFounded, WFMin
<1>2. \A y \in T : ~(y < x)
  BY <1>1 DEF OpToRel
<1> QED BY <1>2

\* Induction up to n, over the set of the numbers for which something holds.
LEMMA UpTo ==
    ASSUME NEW n \in Nat, NEW S, 0 \in S,
           \A i \in 0 .. n - 1 : i \in S => i + 1 \in S
    PROVE  \A i \in 0 .. n : i \in S
<1> DEFINE T == (0 .. n) \ S
<1>1. SUFFICES ASSUME T # {} PROVE FALSE
  OBVIOUS
<1>2. PICK x \in T : \A y \in T : x <= y
  <2>1. T \in SUBSET Nat
    OBVIOUS
  <2> HIDE DEF T
  <2> QED BY <1>1, <2>1, Least
<1>3. x \in 1 .. n /\ x - 1 \in 0 .. n - 1 /\ x - 1 \in S
  BY <1>2
<1> QED BY <1>3, <1>2

\* A set of numbers up to n has a greatest element.
LEMMA Greatest ==
    ASSUME NEW n \in Nat, NEW T \in SUBSET (0 .. n), T # {}
    PROVE  \E x \in T : \A y \in T : y <= x
<1> DEFINE U == {n - y : y \in T}
<1>1. U \in SUBSET Nat /\ U # {} /\ \A y \in T : n - y \in U
  <2>1. \A y \in T : n - y \in Nat
    OBVIOUS
  <2>2. U \in SUBSET Nat
    BY <2>1
  <2>3. \A y \in T : n - y \in U
    OBVIOUS
  <2> QED BY <2>2, <2>3
<1>2. PICK u \in U : \A v \in U : u <= v
  BY <1>1, Least
<1>3. PICK x \in T : u = n - x
  OBVIOUS
<1> HIDE DEF U
<1>4. \A y \in T : n - x <= n - y
  BY <1>1, <1>2, <1>3
<1> QED BY <1>4

\* Induction over the subsets of a finite set.
LEMMA SubsetsUpTo ==
    ASSUME NEW S, IsFiniteSet(S), NEW P, {} \in P,
           \A s \in SUBSET S : s # {} /\ (\A x \in s : s \ {x} \in P) => s \in P
    PROVE  \A s \in SUBSET S : s \in P
<1> DEFINE Q == {n \in Nat : \A s \in SUBSET S : Cardinality(s) = n => s \in P}
<1>1. \A s \in SUBSET S : /\ IsFiniteSet(s) /\ Cardinality(s) \in Nat
                          /\ Cardinality(s) = 0 => s = {}
                          /\ \A x \in s : Cardinality(s \ {x}) = Cardinality(s) - 1
  <2> SUFFICES ASSUME NEW s \in SUBSET S
               PROVE  /\ IsFiniteSet(s) /\ Cardinality(s) \in Nat
                      /\ Cardinality(s) = 0 => s = {}
                      /\ \A x \in s : Cardinality(s \ {x}) = Cardinality(s) - 1
    OBVIOUS
  <2>1. IsFiniteSet(s)
    BY FS_Subset
  <2> QED BY <2>1, FS_CardinalityType, FS_EmptySet, FS_RemoveElement
<1>2. 0 \in Q
  BY <1>1
<1>3. ASSUME NEW n \in Nat, n \in Q PROVE n + 1 \in Q
  <2>1. ASSUME NEW s \in SUBSET S, Cardinality(s) = n + 1 PROVE s \in P
    <3>1. s # {}
      BY <2>1, FS_EmptySet
    <3>2. ASSUME NEW x \in s PROVE s \ {x} \in P
      <4>1. Cardinality(s \ {x}) = n /\ s \ {x} \in SUBSET S
        BY <1>1, <2>1
      <4> QED BY <1>3, <4>1
    <3> QED BY <3>1, <3>2
  <2> QED BY <2>1
<1> HIDE DEF Q
<1>4. ASSUME NEW s \in SUBSET S PROVE s \in P
  <2>1. \A i \in 0 .. Cardinality(s) - 1 : i \in Q => i + 1 \in Q
    BY <1>1, <1>3
  <2>2. \A i \in 0 .. Cardinality(s) : i \in Q
    BY <1>1, <1>2, <2>1, UpTo
  <2>3. Cardinality(s) \in Q
    BY <1>1, <2>2
  <2> QED BY <2>3 DEF Q
<1> QED BY <1>4

\* The sum of h over the subsets of S, as Folds computes it.
AnyOf(s) == CHOOSE x \in s : TRUE
Adds(h, S, g) ==
    g = [s \in SUBSET S |-> IF s = {} THEN 0 ELSE h[AnyOf(s)] + g[s \ {AnyOf(s)}]]

LEMMA AddsExist ==
    ASSUME NEW h, NEW S, IsFiniteSet(S) PROVE \E g : Adds(h, S, g)
<1> DEFINE Sub(n) == {s \in SUBSET S : Cardinality(s) <= n}
           Part(n, g) == g = [s \in Sub(n) |->
                        IF s = {} THEN 0 ELSE h[AnyOf(s)] + g[s \ {AnyOf(s)}]]
           Q == {n \in Nat : \E g : Part(n, g)}
<1>1. \A s \in SUBSET S : /\ Cardinality(s) \in Nat
                          /\ Cardinality(s) = 0 => s = {}
                          /\ Cardinality(s) <= Cardinality(S)
                          /\ s # {} => /\ AnyOf(s) \in s
                                       /\ Cardinality(s \ {AnyOf(s)}) = Cardinality(s) - 1
  <2> SUFFICES ASSUME NEW s \in SUBSET S
               PROVE  /\ Cardinality(s) \in Nat
                      /\ Cardinality(s) = 0 => s = {}
                      /\ Cardinality(s) <= Cardinality(S)
                      /\ s # {} => /\ AnyOf(s) \in s
                                   /\ Cardinality(s \ {AnyOf(s)}) = Cardinality(s) - 1
    OBVIOUS
  <2>1. IsFiniteSet(s) /\ Cardinality(s) <= Cardinality(S)
    BY FS_Subset
  <2>2. s # {} => AnyOf(s) \in s
    BY DEF AnyOf
  <2> QED BY <2>1, <2>2, FS_CardinalityType, FS_EmptySet, FS_RemoveElement
<1>2. 0 \in Q
  <2>1. Part(0, [s \in Sub(0) |-> 0])
    <3>1. ASSUME NEW s \in Sub(0) PROVE s = {}
      <4>1. s \in SUBSET S /\ Cardinality(s) <= 0
        OBVIOUS
      <4>2. Cardinality(s) \in Nat /\ (Cardinality(s) = 0 => s = {})
        BY <1>1, <4>1
      <4> QED BY <4>1, <4>2
    <3> QED BY <3>1
  <2> QED BY <2>1
<1>3. ASSUME NEW n \in Nat, n \in Q PROVE n + 1 \in Q
  <2>1. PICK g : Part(n, g)
    BY <1>3
  <2> DEFINE c(s) == AnyOf(s)
             k == [s \in Sub(n + 1) |->
                    IF s \in Sub(n) THEN g[s] ELSE h[c(s)] + g[s \ {c(s)}]]
  <2>2. ASSUME NEW s \in Sub(n + 1)
        PROVE  k[s] = IF s = {} THEN 0 ELSE h[c(s)] + k[s \ {c(s)}]
    <3>1. s \in SUBSET S /\ Cardinality(s) <= n + 1 /\ Cardinality(s) \in Nat
      BY <1>1
    <3>2. s # {} => s \ {c(s)} \in Sub(n) /\ s \ {c(s)} \in Sub(n + 1)
      BY <1>1, <3>1
    <3>3. s # {} => k[s \ {c(s)}] = g[s \ {c(s)}]
      BY <3>2
    <3>4. CASE s \in Sub(n)
      <4>1. k[s] = g[s]
        BY <3>4
      <4>2. g[s] = IF s = {} THEN 0 ELSE h[c(s)] + g[s \ {c(s)}]
        BY <2>1, <3>4
      <4> HIDE DEF k, c
      <4> QED BY <3>3, <4>1, <4>2
    <3>5. CASE s \notin Sub(n)
      <4>1. s # {}
        BY <3>5, FS_EmptySet
      <4>2. k[s] = h[c(s)] + g[s \ {c(s)}]
        BY <3>5
      <4> HIDE DEF k, c
      <4> QED BY <3>3, <4>1, <4>2
    <3> QED BY <3>4, <3>5
  <2>3. k = [s \in Sub(n + 1) |-> k[s]]
    OBVIOUS
  <2> HIDE DEF k
  <2>4. Part(n + 1, k)
    BY <2>2, <2>3
  <2> HIDE DEF Part
  <2> QED BY <2>4
<1> HIDE DEF Q
<1>4. Cardinality(S) \in Nat
  BY FS_CardinalityType
<1>5. Cardinality(S) \in Q
  <2>1. \A i \in 0 .. Cardinality(S) - 1 : i \in Q => i + 1 \in Q
    BY <1>3, <1>4
  <2>2. \A i \in 0 .. Cardinality(S) : i \in Q
    BY <1>2, <1>4, <2>1, UpTo
  <2> QED BY <1>4, <2>2
<1>6. Sub(Cardinality(S)) = SUBSET S
  BY <1>1
<1>7. PICK g : Part(Cardinality(S), g)
  BY <1>5 DEF Q
<1>8. Adds(h, S, g)
  BY <1>6, <1>7 DEF Adds
<1> QED BY <1>8

LEMMA SumIs ==
    ASSUME NEW h, NEW S, IsFiniteSet(S)
    PROVE  \E g : Adds(h, S, g) /\ SumFunctionOnSet(h, S) = g[S]
<1>1. SumFunctionOnSet(h, S) = (CHOOSE g : Adds(h, S, g))[S]
  BY Zenon DEF SumFunctionOnSet, FoldFunctionOnSet, MapThenFoldSet, Adds, AnyOf
<1> QED BY <1>1, AddsExist

\* The sum of a function that changes in one place.
LEMMA SumChanges ==
    ASSUME NEW S, IsFiniteSet(S), NEW h \in [S -> Int], NEW i \in S, NEW k \in Int,
           NEW new, new = [h EXCEPT ![i] = k]
    PROVE  /\ SumFunction(h) \in Int
           /\ SumFunction(new) = SumFunction(h) + (k - h[i])
<1>1. PICK g : Adds(h, S, g) /\ SumFunctionOnSet(h, S) = g[S]
  BY SumIs
<1>2. PICK e : Adds(new, S, e) /\ SumFunctionOnSet(new, S) = e[S]
  BY SumIs
<1> DEFINE d == k - h[i]
           P == {s \in SUBSET S : g[s] \in Int /\ e[s] = g[s] + IF i \in s THEN d ELSE 0}
<1>3. d \in Int
  OBVIOUS
<1>4. {} \in P
  <2>1. g[{}] = 0 /\ e[{}] = 0
    BY <1>1, <1>2 DEF Adds
  <2> QED BY <2>1
<1>5. ASSUME NEW s \in SUBSET S, s # {}, \A x \in s : s \ {x} \in P PROVE s \in P
  <2> DEFINE c == AnyOf(s)
             r == s \ {c}
  <2>1. c \in s /\ r \in P /\ r \in SUBSET S /\ c \in S
    BY <1>5 DEF AnyOf
  <2>2. g[s] = h[c] + g[r] /\ e[s] = new[c] + e[r]
    BY <1>1, <1>2, <1>5 DEF Adds
  <2>3. h[c] \in Int /\ new[c] = h[c] + IF i = c THEN d ELSE 0
    BY <2>1
  <2>4. g[r] \in Int /\ e[r] = g[r] + IF i \in r THEN d ELSE 0
    BY <2>1
  <2>5. i \in s <=> i \in r \/ i = c
    BY <2>1
  <2>6. ~(i \in r /\ i = c)
    OBVIOUS
  <2> HIDE DEF c, r, d
  <2>7. g[s] \in Int
    BY <2>2, <2>3, <2>4
  <2>8. e[s] = g[s] + IF i \in s THEN d ELSE 0
    BY <1>3, <2>2, <2>3, <2>4, <2>5, <2>6
  <2> QED BY <2>7, <2>8
<1> HIDE DEF P
<1>6. S \in P
  BY <1>4, <1>5, SubsetsUpTo
<1>7. g[S] \in Int /\ e[S] = g[S] + d
  BY <1>6 DEF P
<1>8. DOMAIN h = S /\ DOMAIN new = S
  OBVIOUS
<1> QED BY <1>1, <1>2, <1>7, <1>8 DEF SumFunction

\* Nothing adds up to nothing.
LEMMA SumZero ==
    ASSUME NEW S, IsFiniteSet(S)
    PROVE  SumFunction([x \in S |-> 0]) = 0
<1> DEFINE h == [x \in S |-> 0]
<1>1. PICK g : Adds(h, S, g) /\ SumFunctionOnSet(h, S) = g[S]
  BY SumIs
<1> DEFINE P == {s \in SUBSET S : g[s] = 0}
<1>2. {} \in P
  BY <1>1 DEF Adds
<1>3. ASSUME NEW s \in SUBSET S, s # {}, \A x \in s : s \ {x} \in P PROVE s \in P
  <2>1. AnyOf(s) \in s
    BY <1>3 DEF AnyOf
  <2>2. g[s] = h[AnyOf(s)] + g[s \ {AnyOf(s)}]
    BY <1>1, <1>3 DEF Adds
  <2>3. h[AnyOf(s)] = 0 /\ g[s \ {AnyOf(s)}] = 0
    BY <1>3, <2>1
  <2> HIDE DEF h
  <2> QED BY <2>2, <2>3
<1> HIDE DEF P
<1>4. S \in P
  BY <1>2, <1>3, SubsetsUpTo
<1>5. g[S] = 0
  BY <1>4 DEF P
<1> QED BY <1>1, <1>5 DEF SumFunction

\* The numbers that are added up.
Numbers(h, S) == \A x \in S : h[x] \in Int

Takes(h, S, g) ==
    \A s \in SUBSET S : g[s] \in Int /\ \A x \in s : g[s] = h[x] + g[s \ {x}]

\* It does not matter which member is taken first.
LEMMA AddsAny ==
    ASSUME NEW S, IsFiniteSet(S), NEW h, Numbers(h, S), NEW g, Adds(h, S, g)
    PROVE  Takes(h, S, g)
<1> DEFINE I == {s \in SUBSET S : g[s] \in Int}
           P == {s \in SUBSET S : \A x \in s : g[s] = h[x] + g[s \ {x}]}
<1>1. g[{}] = 0 /\ \A s \in SUBSET S : s # {} => g[s] = h[AnyOf(s)] + g[s \ {AnyOf(s)}]
  BY DEF Adds
<1>2. \A s \in SUBSET S : s # {} => AnyOf(s) \in s
  BY DEF AnyOf
<1>3. \A s \in SUBSET S : s \in I
  <2>1. {} \in I
    BY <1>1
  <2>2. ASSUME NEW s \in SUBSET S, s # {}, \A x \in s : s \ {x} \in I PROVE s \in I
    <3>1. g[s] = h[AnyOf(s)] + g[s \ {AnyOf(s)}] /\ AnyOf(s) \in s
      BY <1>1, <1>2, <2>2
    <3>2. h[AnyOf(s)] \in Int /\ g[s \ {AnyOf(s)}] \in Int
      BY <2>2, <3>1 DEF Numbers
    <3> QED BY <3>1, <3>2
  <2> HIDE DEF I
  <2> QED BY <2>1, <2>2, SubsetsUpTo
<1>4. ASSUME NEW s \in SUBSET S, s # {}, \A x \in s : s \ {x} \in P PROVE s \in P
  <2> DEFINE c == AnyOf(s)
  <2>1. c \in s /\ c \in S /\ g[s] = h[c] + g[s \ {c}]
    BY <1>1, <1>2, <1>4
  <2> HIDE DEF c
  <2>2. ASSUME NEW x \in s, x # c PROVE g[s] = h[x] + g[s \ {x}]
    <3> DEFINE r == (s \ {c}) \ {x}
    <3>1. s \ {c} \in P /\ x \in s \ {c} /\ s \ {x} \in P /\ c \in s \ {x}
      BY <1>4, <2>1, <2>2
    <3>2. r = (s \ {x}) \ {c} /\ r \in SUBSET S
      OBVIOUS
    <3>3. g[s \ {c}] = h[x] + g[r]
      BY <3>1
    <3>4. g[s \ {x}] = h[c] + g[r]
      BY <3>1, <3>2
    <3>5. h[x] \in Int /\ h[c] \in Int /\ g[r] \in Int
      BY <1>3, <2>1, <3>2 DEF Numbers
    <3> HIDE DEF r
    <3> QED BY <2>1, <3>3, <3>4, <3>5
  <2> QED BY <2>1, <2>2
<1>5. {} \in P
  OBVIOUS
<1> HIDE DEF P
<1>6. \A s \in SUBSET S : s \in P
  BY <1>4, <1>5, SubsetsUpTo
<1> QED BY <1>3, <1>6 DEF P, Takes

\* The sum over no place, and over one place more.
LEMMA SumNone ==
    ASSUME NEW h
    PROVE  SumFunctionOnSet(h, {}) = 0
<1>1. PICK g : Adds(h, {}, g) /\ SumFunctionOnSet(h, {}) = g[{}]
  BY SumIs, FS_EmptySet
<1> QED BY <1>1 DEF Adds

LEMMA SumMore ==
    ASSUME NEW S, IsFiniteSet(S), NEW h, NEW x, x \notin S,
           Numbers(h, S \cup {x})
    PROVE  /\ SumFunctionOnSet(h, S) \in Int
           /\ SumFunctionOnSet(h, S \cup {x}) = SumFunctionOnSet(h, S) + h[x]
<1>1. PICK T : T = S \cup {x}
  OBVIOUS
<1>2. IsFiniteSet(T)
  BY <1>1, FS_AddElement
<1>3. PICK g : Adds(h, S, g) /\ SumFunctionOnSet(h, S) = g[S]
  BY SumIs
<1>4. PICK e : Adds(h, T, e) /\ SumFunctionOnSet(h, T) = e[T]
  BY <1>2, SumIs
<1>5. \A s \in SUBSET T : e[s] \in Int /\ \A y \in s : e[s] = h[y] + e[s \ {y}]
  <2>1. Numbers(h, T)
    BY <1>1 DEF Numbers
  <2>2. Adds(h, T, e)
    BY <1>4
  <2>3. Takes(h, T, e)
    BY <1>2, <2>1, <2>2, AddsAny
  <2> QED BY <2>3 DEF Takes
<1> DEFINE P == {s \in SUBSET S : e[s] = g[s]}
<1>6. {} \in P
  BY <1>3, <1>4 DEF Adds
<1>7. ASSUME NEW s \in SUBSET S, s # {}, \A y \in s : s \ {y} \in P PROVE s \in P
  <2>1. AnyOf(s) \in s /\ s \in SUBSET T
    BY <1>1, <1>7 DEF AnyOf
  <2>2. g[s] = h[AnyOf(s)] + g[s \ {AnyOf(s)}]
    BY <1>3, <1>7 DEF Adds
  <2>3. e[s] = h[AnyOf(s)] + e[s \ {AnyOf(s)}]
    BY <1>5, <2>1
  <2>4. e[s \ {AnyOf(s)}] = g[s \ {AnyOf(s)}]
    BY <1>7, <2>1
  <2> QED BY <2>2, <2>3, <2>4
<1> HIDE DEF P
<1>8. S \in P
  BY <1>6, <1>7, SubsetsUpTo
<1>9. e[S] = g[S]
  BY <1>8 DEF P
<1>10. T \ {x} = S /\ x \in T /\ S \in SUBSET T
  BY <1>1
<1>11. e[T] = h[x] + e[S] /\ e[S] \in Int
  BY <1>5, <1>10
<1>12. h[x] \in Int
  BY DEF Numbers
<1> QED BY <1>3, <1>4, <1>1, <1>9, <1>11, <1>12

\* What a running total comes to, that adds some of the numbers of a list.
Running(a, h, D, m) ==
    \A i \in 1 .. m : a[i] = a[i - 1] + IF i \in D THEN h[i] ELSE 0

LEMMA RunningTotal ==
    ASSUME NEW m \in Nat, NEW h, NEW D \in SUBSET (1 .. m), Numbers(h, D),
           NEW a, a[0] \in Int, Running(a, h, D, m)
    PROVE  \A i \in 0 .. m : /\ SumFunctionOnSet(h, D \cap (1 .. i)) \in Int
                             /\ a[i] = a[0] + SumFunctionOnSet(h, D \cap (1 .. i))
<1> DEFINE t(i) == SumFunctionOnSet(h, D \cap (1 .. i))
           S == {i \in 0 .. m : t(i) \in Int /\ a[i] = a[0] + t(i)}
<1>1. 0 \in S
  <2>1. D \cap (1 .. 0) = {}
    OBVIOUS
  <2>2. t(0) = 0
    BY <2>1, SumNone
  <2> HIDE DEF t
  <2> QED BY <2>2
<1>2. ASSUME NEW i \in 0 .. m - 1, i \in S PROVE i + 1 \in S
  <2>1. i + 1 \in 1 .. m /\ (i + 1) - 1 = i /\ i + 1 \in 0 .. m /\ i \in Nat
    OBVIOUS
  <2>2. a[i + 1] = a[i] + IF i + 1 \in D THEN h[i + 1] ELSE 0
    BY <2>1 DEF Running
  <2>3. t(i) \in Int /\ a[i] = a[0] + t(i)
    BY <1>2
  <2>4. CASE i + 1 \in D
    <3>1. D \cap (1 .. i + 1) = (D \cap (1 .. i)) \cup {i + 1} /\ i + 1 \notin D \cap (1 .. i)
      BY <2>1, <2>4
    <3>2. IsFiniteSet(D \cap (1 .. i))
      <4>1. IsFiniteSet(1 .. i) /\ D \cap (1 .. i) \subseteq 1 .. i
        BY <2>1, FS_Interval
      <4> QED BY <4>1, FS_Subset
    <3>3. t(i + 1) = t(i) + h[i + 1]
      <4> DEFINE d == D \cap (1 .. i)
      <4>1. Numbers(h, d \cup {i + 1})
        BY <2>4 DEF Numbers
      <4>2. t(i) = SumFunctionOnSet(h, d) /\ t(i + 1) = SumFunctionOnSet(h, d \cup {i + 1})
        BY <3>1
      <4>3. IsFiniteSet(d) /\ i + 1 \notin d
        BY <3>1, <3>2
      <4> HIDE DEF d
      <4>4. SumFunctionOnSet(h, d \cup {i + 1}) = SumFunctionOnSet(h, d) + h[i + 1]
        <5>1. PICK y : y = i + 1
          OBVIOUS
        <5>2. Numbers(h, d \cup {y}) /\ y \notin d
          BY <4>1, <4>3, <5>1
        <5>3. SumFunctionOnSet(h, d \cup {y}) = SumFunctionOnSet(h, d) + h[y]
          BY <4>3, <5>2, SumMore
        <5> QED BY <5>1, <5>3
      <4> QED BY <4>2, <4>4
    <3>4. h[i + 1] \in Int
      BY <2>4 DEF Numbers
    <3> HIDE DEF t
    <3>5. a[i + 1] = a[0] + t(i + 1) /\ t(i + 1) \in Int
      BY <2>2, <2>3, <2>4, <3>3, <3>4
    <3> QED BY <2>1, <3>5
  <2>5. CASE i + 1 \notin D
    <3>1. D \cap (1 .. i + 1) = D \cap (1 .. i)
      BY <2>1, <2>5
    <3>2. t(i + 1) = t(i)
      BY <3>1
    <3> HIDE DEF t
    <3>3. a[i + 1] = a[0] + t(i + 1) /\ t(i + 1) \in Int
      BY <2>2, <2>3, <2>5, <3>2
    <3> QED BY <2>1, <3>3
  <2> QED BY <2>4, <2>5
<1> HIDE DEF S
<1>3. \A i \in 0 .. m : i \in S
  BY <1>1, <1>2, UpTo
<1> QED BY <1>3 DEF S
================================================================================
