----------------------------- MODULE SumTheorems -----------------------------
(***************************************************************************)
(* Facts about SumFunctionOnSet, the sum of the values a function takes on *)
(* a finite set, which the books of the brokers are stated with.           *)
(*                                                                         *)
(* The sum is a recursive function over the subsets of the set, and what   *)
(* it returns is shown by induction.  A set of numbers that has 0 and the  *)
(* successor of each of its members has them all, because the least number *)
(* it lacks, which exists as < is well-founded, would follow one it has.   *)
(***************************************************************************)
EXTENDS Functions, FiniteSetTheorems, WellFoundedInduction, TLAPS

(* Every set of natural numbers has a least member. *)
LEMMA LeastMember ==
    ASSUME NEW T, T \subseteq Nat, T # {}
    PROVE  \E n \in T : \A m \in T : n <= m
<1>1. PICK n \in T : \A m \in T : ~ (<<m, n>> \in OpToRel(<, Nat))
  BY NatLessThanWellFounded, WFMin
<1>2. ASSUME NEW m \in T PROVE n <= m
  <2>1. m \in Nat /\ n \in Nat OBVIOUS
  <2>2. ~ (m < n) BY <1>1, <2>1 DEF OpToRel
  <2>3. QED BY <2>1, <2>2
<1>3. QED BY <1>2

LEMMA Induction ==
    ASSUME NEW T, 0 \in T, \A n \in Nat : n \in T => n + 1 \in T
    PROVE  \A n \in Nat : n \in T
<1> DEFINE Lacking == {n \in Nat : n \notin T}
<1>1. SUFFICES ASSUME Lacking # {} PROVE FALSE OBVIOUS
<1>2. PICK n \in Lacking : \A m \in Lacking : n <= m BY <1>1, LeastMember
<1>3. n \in Nat /\ n # 0 /\ n \notin T BY <1>2
<1>4. n - 1 \in Nat BY <1>3
<1>5. n - 1 \in T BY <1>2, <1>3, <1>4
<1>6. n - 1 + 1 \in T BY <1>4, <1>5
<1>7. QED BY <1>3, <1>6

-----------------------------------------------------------------------------
(* The sum is what a function over the subsets of S gives for S itself.    *)

Pick(s) == CHOOSE x \in s : TRUE

SumsUp(g, f, S) ==
    g = [s \in SUBSET S |-> IF s = {} THEN 0 ELSE f[Pick(s)] + g[s \ {Pick(s)}]]

LEMMA SumIs ==
    ASSUME NEW f, NEW S
    PROVE  SumFunctionOnSet(f, S) = (CHOOSE g : SumsUp(g, f, S))[S]
BY DEF SumFunctionOnSet, FoldFunctionOnSet, MapThenFoldSet, SumsUp, Pick

LEMMA PickIsIn == ASSUME NEW s, s # {} PROVE Pick(s) \in s
BY DEF Pick

(* Without one of its members a finite set has one member less. *)
LEMMA OneLess ==
    ASSUME NEW s, IsFiniteSet(s), NEW x \in s
    PROVE  /\ IsFiniteSet(s \ {x}) /\ Cardinality(s \ {x}) \in Nat
           /\ Cardinality(s) = Cardinality(s \ {x}) + 1
<1>1. IsFiniteSet(s \ {x}) BY FS_RemoveElement
<1>2. Cardinality(s \ {x}) = Cardinality(s) - 1 BY FS_RemoveElement
<1>3. Cardinality(s) \in Nat /\ Cardinality(s \ {x}) \in Nat
  BY <1>1, FS_CardinalityType
<1>4. QED BY <1>1, <1>2, <1>3

(* There is such a function: by induction on the size of the subsets up to *)
(* which its equation holds.                                               *)
LEMMA SumsUpExists ==
    ASSUME NEW f, NEW S, IsFiniteSet(S)
    PROVE  \E g : SumsUp(g, f, S)
<1> DEFINE At(g, s) == g[s] = IF s = {} THEN 0 ELSE f[Pick(s)] + g[s \ {Pick(s)}]
           Upto(g, n) == \A s \in SUBSET S : Cardinality(s) <= n => At(g, s)
           Good == {n \in Nat : \E g : Upto(g, n)}
<1>1. \A s \in SUBSET S : IsFiniteSet(s) /\ Cardinality(s) \in Nat
  BY FS_Subset, FS_CardinalityType
<1>2. 0 \in Good
  <2> DEFINE g == [s \in SUBSET S |-> 0]
  <2>1. \A s \in SUBSET S : Cardinality(s) <= 0 => s = {} BY <1>1, FS_EmptySet
  <2>2. Upto(g, 0) BY <2>1
  <2>3. QED BY <2>2
<1>3. ASSUME NEW n \in Nat, n \in Good PROVE n + 1 \in Good
  <2>1. PICK g : Upto(g, n) BY <1>3
  <2> DEFINE h == [s \in SUBSET S |->
                      IF s = {} THEN 0 ELSE f[Pick(s)] + g[s \ {Pick(s)}]]
  <2>2. ASSUME NEW s \in SUBSET S, Cardinality(s) <= n PROVE h[s] = g[s]
    BY <2>1, <2>2
  <2>3. ASSUME NEW s \in SUBSET S, Cardinality(s) <= n + 1 PROVE At(h, s)
    <3>1. CASE s = {} BY <3>1
    <3>2. CASE s # {}
      <4>1. Pick(s) \in s BY <3>2, PickIsIn
      <4>2. Cardinality(s \ {Pick(s)}) <= n
        BY <1>1, <2>3, <4>1, OneLess
      <4>3. s \ {Pick(s)} \in SUBSET S OBVIOUS
      <4>4. h[s \ {Pick(s)}] = g[s \ {Pick(s)}] BY <2>2, <4>2, <4>3
      <4>5. h[s] = f[Pick(s)] + g[s \ {Pick(s)}] BY <3>2
      <4>6. QED BY <3>2, <4>4, <4>5
    <3>3. QED BY <3>1, <3>2
  <2> HIDE DEF h
  <2>4. Upto(h, n + 1) BY <2>3
  <2>5. QED BY <2>4
<1> HIDE DEF Good
<1>4. \A n \in Nat : n \in Good BY <1>2, <1>3, Induction
<1> USE DEF Good
<1>5. PICK g : Upto(g, Cardinality(S))
  BY <1>1, <1>4
<1>6. ASSUME NEW s \in SUBSET S PROVE At(g, s)
  <2>1. Cardinality(s) <= Cardinality(S) BY FS_Subset
  <2>2. QED BY <1>5, <2>1
<1> DEFINE h == [s \in SUBSET S |-> g[s]]
<1>7. SumsUp(h, f, S)
  <2>1. ASSUME NEW s \in SUBSET S PROVE At(h, s)
    <3>1. s \ {Pick(s)} \in SUBSET S OBVIOUS
    <3>2. QED BY <1>6, <3>1
  <2>2. QED BY <2>1 DEF SumsUp
<1>8. QED BY <1>7

(* The equation at one subset. *)
LEMMA SumsUpAt ==
    ASSUME NEW g, NEW f, NEW S, SumsUp(g, f, S), NEW s \in SUBSET S
    PROVE  g[s] = IF s = {} THEN 0 ELSE f[Pick(s)] + g[s \ {Pick(s)}]
BY DEF SumsUp

(* Two functions with the equation agree on the sets that both know, where *)
(* what they sum agrees.                                                   *)
LEMMA SumsAgree ==
    ASSUME NEW f, NEW g, NEW S, SumsUp(g, f, S),
           NEW d, NEW h, NEW T, SumsUp(h, d, T), IsFiniteSet(T), T \subseteq S,
           \A x \in T : f[x] = d[x]
    PROVE  \A s \in SUBSET T : g[s] = h[s]
<1> DEFINE Good == {n \in Nat : \A s \in SUBSET T : Cardinality(s) = n => g[s] = h[s]}
<1>1. \A s \in SUBSET T : IsFiniteSet(s) /\ Cardinality(s) \in Nat
  BY FS_Subset, FS_CardinalityType
<1>2. 0 \in Good
  <2>1. ASSUME NEW s \in SUBSET T, Cardinality(s) = 0 PROVE g[s] = h[s]
    <3>1. s = {} BY <1>1, <2>1, FS_EmptySet
    <3>2. s \in SUBSET S OBVIOUS
    <3>3. QED BY <3>1, <3>2, SumsUpAt
  <2>2. QED BY <2>1
<1>3. ASSUME NEW n \in Nat, n \in Good PROVE n + 1 \in Good
  <2>1. ASSUME NEW s \in SUBSET T, Cardinality(s) = n + 1 PROVE g[s] = h[s]
    <3>1. s # {} BY <2>1, FS_EmptySet
    <3>2. Pick(s) \in s BY <3>1, PickIsIn
    <3>3. Cardinality(s \ {Pick(s)}) = n BY <1>1, <2>1, <3>2, OneLess
    <3>4. g[s \ {Pick(s)}] = h[s \ {Pick(s)}] BY <1>3, <3>3
    <3>5. f[Pick(s)] = d[Pick(s)] BY <3>2
    <3>6. s \in SUBSET S OBVIOUS
    <3>7. g[s] = f[Pick(s)] + g[s \ {Pick(s)}] BY <3>1, <3>6, SumsUpAt
    <3>8. h[s] = d[Pick(s)] + h[s \ {Pick(s)}]
      <4>1. s \in SUBSET T OBVIOUS
      <4>2. h[s] = IF s = {} THEN 0 ELSE d[Pick(s)] + h[s \ {Pick(s)}]
        BY <4>1 DEF SumsUp
      <4>3. QED BY <3>1, <4>2
    <3>9. QED BY <3>4, <3>5, <3>7, <3>8
  <2>2. QED BY <2>1
<1> HIDE DEF Good
<1>4. \A n \in Nat : n \in Good BY <1>2, <1>3, Induction
<1> USE DEF Good
<1>5. QED BY <1>1, <1>4

(* The order in which the members are picked does not matter. *)
LEMMA SumsUpRemove ==
    ASSUME NEW f, NEW g, NEW S, SumsUp(g, f, S), IsFiniteSet(S),
           \A x \in S : f[x] \in Int
    PROVE  \A s \in SUBSET S : g[s] \in Int /\ \A x \in s : g[s] = f[x] + g[s \ {x}]
<1> DEFINE Fine(s) == g[s] \in Int /\ \A x \in s : g[s] = f[x] + g[s \ {x}]
           Good == {n \in Nat : \A s \in SUBSET S : Cardinality(s) <= n => Fine(s)}
<1>1. \A s \in SUBSET S : IsFiniteSet(s) /\ Cardinality(s) \in Nat
  BY FS_Subset, FS_CardinalityType
<1>2. 0 \in Good
  <2>1. ASSUME NEW s \in SUBSET S, Cardinality(s) <= 0 PROVE Fine(s)
    <3>1. s = {} BY <1>1, <2>1, FS_EmptySet
    <3>2. g[s] = 0 BY <3>1, SumsUpAt
    <3>3. QED BY <3>1, <3>2
  <2>2. QED BY <2>1
<1>3. ASSUME NEW n \in Nat, n \in Good PROVE n + 1 \in Good
  <2>1. ASSUME NEW s \in SUBSET S, Cardinality(s) <= n + 1 PROVE Fine(s)
    <3> DEFINE c == Pick(s)
    <3>1. CASE s = {}
      <4>1. g[s] = 0 BY <3>1, SumsUpAt
      <4>2. QED BY <3>1, <4>1
    <3>2. CASE s # {}
      <4>2. c \in s BY <3>2, PickIsIn
      <4>3. g[s] = f[c] + g[s \ {c}] BY <3>2, SumsUpAt
      <4> HIDE DEF c
      <4>4. ASSUME NEW x \in s
            PROVE  /\ g[s \ {x}] \in Int
                   /\ \A y \in s \ {x} : g[s \ {x}] = f[y] + g[(s \ {x}) \ {y}]
        <5>1. Cardinality(s \ {x}) <= n BY <1>1, <2>1, OneLess
        <5>2. s \ {x} \in SUBSET S OBVIOUS
        <5>3. QED BY <1>3, <5>1, <5>2
      <4>5. g[s] \in Int
        <5>1. f[c] \in Int /\ g[s \ {c}] \in Int BY <4>2, <4>4
        <5>2. QED BY <4>3, <5>1
      <4>6. ASSUME NEW x \in s, x # c PROVE g[s] = f[x] + g[s \ {x}]
        <5>1. g[s \ {c}] = f[x] + g[(s \ {c}) \ {x}] BY <4>2, <4>4, <4>6
        <5>2. g[s \ {x}] = f[c] + g[(s \ {x}) \ {c}] BY <4>2, <4>4, <4>6
        <5>3. (s \ {c}) \ {x} = (s \ {x}) \ {c} OBVIOUS
        <5> DEFINE rest == g[(s \ {x}) \ {c}]
        <5>4. g[s \ {c}] = f[x] + rest /\ g[s \ {x}] = f[c] + rest BY <5>1, <5>2, <5>3
        <5>5. rest \in Int
          <6>1. (s \ {x}) \ {c} \in SUBSET S OBVIOUS
          <6>2. Cardinality(s \ {x}) <= n /\ IsFiniteSet(s \ {x}) BY <1>1, <2>1, OneLess
          <6>3. Cardinality((s \ {x}) \ {c}) <= n
            <7>1. c \in s \ {x} BY <4>2, <4>6
            <7>2. /\ Cardinality((s \ {x}) \ {c}) \in Nat
                  /\ Cardinality(s \ {x}) = Cardinality((s \ {x}) \ {c}) + 1
              BY <6>2, <7>1, OneLess
            <7>3. QED BY <6>2, <7>2
          <6>4. QED BY <1>3, <6>1, <6>3
        <5>6. f[x] \in Int /\ f[c] \in Int BY <4>2
        <5>7. QED BY <4>3, <5>4, <5>5, <5>6
      <4>7. QED BY <4>3, <4>5, <4>6
    <3>3. QED BY <3>1, <3>2
  <2>2. QED BY <2>1
<1> HIDE DEF Good
<1>4. \A n \in Nat : n \in Good BY <1>2, <1>3, Induction
<1> USE DEF Good
<1>5. QED BY <1>1, <1>4

-----------------------------------------------------------------------------
(* What the sum is, and how it changes.                                    *)

LEMMA SumDefined ==
    ASSUME NEW f, NEW S, IsFiniteSet(S)
    PROVE  \E g : SumsUp(g, f, S) /\ SumFunctionOnSet(f, S) = g[S]
BY SumIs, SumsUpExists

LEMMA SumOfNone == ASSUME NEW f PROVE SumFunctionOnSet(f, {}) = 0
<1>1. PICK g : SumsUp(g, f, {}) /\ SumFunctionOnSet(f, {}) = g[{}]
  BY SumDefined, FS_EmptySet
<1>2. g[{}] = 0 BY <1>1, SumsUpAt
<1>3. QED BY <1>1, <1>2

LEMMA SumIsInt ==
    ASSUME NEW f, NEW S, IsFiniteSet(S), \A x \in S : f[x] \in Int
    PROVE  SumFunctionOnSet(f, S) \in Int
<1>1. PICK g : SumsUp(g, f, S) /\ SumFunctionOnSet(f, S) = g[S] BY SumDefined
<1>2. g[S] \in Int BY <1>1, SumsUpRemove
<1>3. QED BY <1>1, <1>2

(* Two functions that agree on a set have the same sum there. *)
LEMMA SameSum ==
    ASSUME NEW f, NEW d, NEW S, IsFiniteSet(S), \A x \in S : f[x] = d[x]
    PROVE  SumFunctionOnSet(f, S) = SumFunctionOnSet(d, S)
<1>1. PICK g : SumsUp(g, f, S) /\ SumFunctionOnSet(f, S) = g[S] BY SumDefined
<1>2. PICK h : SumsUp(h, d, S) /\ SumFunctionOnSet(d, S) = h[S] BY SumDefined
<1>3. \A s \in SUBSET S : g[s] = h[s] BY <1>1, <1>2, SumsAgree
<1>4. QED BY <1>1, <1>2, <1>3

(* One member more adds its value. *)
LEMMA SumWithOneMore ==
    ASSUME NEW f, NEW S, IsFiniteSet(S), NEW x, x \notin S,
           \A y \in S \cup {x} : f[y] \in Int
    PROVE  SumFunctionOnSet(f, S \cup {x}) = SumFunctionOnSet(f, S) + f[x]
<1> DEFINE more == S \cup {x}
<1>1. IsFiniteSet(more) BY FS_AddElement
<1>2. PICK g : SumsUp(g, f, more) /\ SumFunctionOnSet(f, more) = g[more]
  BY <1>1, SumDefined
<1>3. PICK h : SumsUp(h, f, S) /\ SumFunctionOnSet(f, S) = h[S] BY SumDefined
<1>4. g[more] = f[x] + g[more \ {x}] BY <1>1, <1>2, SumsUpRemove
<1>5. more \ {x} = S OBVIOUS
<1>6. \A s \in SUBSET S : g[s] = h[s] BY <1>2, <1>3, SumsAgree
<1>7. h[S] \in Int /\ f[x] \in Int BY <1>3, SumsUpRemove
<1> HIDE DEF more
<1>8. SumFunctionOnSet(f, more) = f[x] + h[S]
  BY <1>2, <1>4, <1>5, <1>6
<1>9. SumFunctionOnSet(f, more) = SumFunctionOnSet(f, S) + f[x]
  BY <1>3, <1>7, <1>8
<1>10. QED BY <1>9 DEF more

LEMMA SumOfOne ==
    ASSUME NEW f, NEW x, f[x] \in Int
    PROVE  SumFunctionOnSet(f, {x}) = f[x]
<1> DEFINE none == {}
<1>1. /\ IsFiniteSet(none) /\ x \notin none /\ \A y \in none \cup {x} : f[y] \in Int
      /\ none \cup {x} = {x}
  BY FS_EmptySet
<1> HIDE DEF none
<1>2. SumFunctionOnSet(f, none \cup {x}) = SumFunctionOnSet(f, none) + f[x]
  BY <1>1, SumWithOneMore
<1>3. SumFunctionOnSet(f, none) = 0 BY SumOfNone DEF none
<1>4. SumFunctionOnSet(f, {x}) = SumFunctionOnSet(f, none) + f[x] BY <1>1, <1>2
<1>5. QED BY <1>3, <1>4

(* A sum over positions of a sequence, when one more element is appended   *)
(* that counts or does not count.                                          *)
LEMMA SumAppended ==
    ASSUME NEW n \in Nat, NEW f, NEW d, NEW S \in SUBSET (1..n),
           \A i \in 1..n : f[i] = d[i], \A i \in 1..(n + 1) : d[i] \in Int
    PROVE  /\ SumFunctionOnSet(f, S) \in Int
           /\ SumFunctionOnSet(d, S) = SumFunctionOnSet(f, S)
           /\ SumFunctionOnSet(d, S \cup {n + 1}) = SumFunctionOnSet(f, S) + d[n + 1]
<1>1. IsFiniteSet(S)
  <2>1. IsFiniteSet(1..n) BY FS_Interval
  <2>2. QED BY <2>1, FS_Subset
<1>2. SumFunctionOnSet(d, S) = SumFunctionOnSet(f, S) BY <1>1, SameSum
<1>3. SumFunctionOnSet(f, S) \in Int
  <2>1. \A i \in S : f[i] \in Int OBVIOUS
  <2>2. QED BY <1>1, <2>1, SumIsInt
<1>4. n + 1 \notin S /\ \A i \in S \cup {n + 1} : d[i] \in Int OBVIOUS
<1>5. SumFunctionOnSet(d, S \cup {n + 1}) = SumFunctionOnSet(d, S) + d[n + 1]
  BY <1>1, <1>4, SumWithOneMore
<1>6. QED BY <1>2, <1>3, <1>5

LEMMA SumOfAllAppended ==
    ASSUME NEW n \in Nat, NEW f, NEW d,
           \A i \in 1..n : f[i] = d[i], \A i \in 1..(n + 1) : d[i] \in Int
    PROVE  /\ SumFunctionOnSet(f, 1..n) \in Int
           /\ SumFunctionOnSet(d, 1..(n + 1)) = SumFunctionOnSet(f, 1..n) + d[n + 1]
<1> DEFINE S == 1..n
<1>1. S \in SUBSET (1..n) /\ 1..(n + 1) = S \cup {n + 1} OBVIOUS
<1> HIDE DEF S
<1>2. /\ SumFunctionOnSet(f, S) \in Int
      /\ SumFunctionOnSet(d, S \cup {n + 1}) = SumFunctionOnSet(f, S) + d[n + 1]
  BY <1>1, SumAppended
<1>3. QED BY <1>1, <1>2 DEF S

-----------------------------------------------------------------------------
(* Sums over parts of a set, and in another order.                         *)

LEMMA SumSplit ==
    ASSUME NEW f, NEW S, IsFiniteSet(S), NEW T, IsFiniteSet(T), S \cap T = {},
           \A x \in S \cup T : f[x] \in Int
    PROVE  SumFunctionOnSet(f, S \cup T) = SumFunctionOnSet(f, S) + SumFunctionOnSet(f, T)
<1> DEFINE Good == {n \in Nat : \A U \in SUBSET T : Cardinality(U) = n =>
                       SumFunctionOnSet(f, S \cup U)
                          = SumFunctionOnSet(f, S) + SumFunctionOnSet(f, U)}
<1>1. \A U \in SUBSET T : IsFiniteSet(U) /\ Cardinality(U) \in Nat
  BY FS_Subset, FS_CardinalityType
<1>2. SumFunctionOnSet(f, S) \in Int BY SumIsInt
<1>3. 0 \in Good
  <2>1. ASSUME NEW U \in SUBSET T, Cardinality(U) = 0
        PROVE  SumFunctionOnSet(f, S \cup U)
                  = SumFunctionOnSet(f, S) + SumFunctionOnSet(f, U)
    <3>1. U = {} /\ S \cup U = S BY <1>1, <2>1, FS_EmptySet
    <3>2. SumFunctionOnSet(f, U) = 0 BY <3>1, SumOfNone
    <3>3. QED BY <1>2, <3>1, <3>2
  <2>2. QED BY <2>1
<1>4. ASSUME NEW n \in Nat, n \in Good PROVE n + 1 \in Good
  <2>1. ASSUME NEW U \in SUBSET T, Cardinality(U) = n + 1
        PROVE  SumFunctionOnSet(f, S \cup U)
                  = SumFunctionOnSet(f, S) + SumFunctionOnSet(f, U)
    <3>1. PICK x \in U : TRUE BY <2>1, FS_EmptySet
    <3> DEFINE W == U \ {x}
               V == S \cup W
    <3>2. W \in SUBSET T /\ Cardinality(W) = n
      <4>1. IsFiniteSet(U) BY <1>1
      <4>2. Cardinality(W) \in Nat /\ Cardinality(U) = Cardinality(W) + 1
        BY <3>1, <4>1, OneLess
      <4>3. W \in SUBSET T OBVIOUS
      <4> HIDE DEF W
      <4>4. QED BY <2>1, <4>2, <4>3
    <3>3. SumFunctionOnSet(f, V) = SumFunctionOnSet(f, S) + SumFunctionOnSet(f, W)
      BY <1>4, <3>2
    <3>4. /\ U = W \cup {x} /\ x \notin W /\ S \cup U = V \cup {x} /\ x \notin V
          /\ \A y \in W \cup {x} : f[y] \in Int
          /\ \A y \in V \cup {x} : f[y] \in Int
      OBVIOUS
    <3>5. IsFiniteSet(W) /\ IsFiniteSet(V) BY <1>1, <3>2, FS_Union
    <3> HIDE DEF V, W
    <3>6. SumFunctionOnSet(f, V \cup {x}) = SumFunctionOnSet(f, V) + f[x]
      BY <3>4, <3>5, SumWithOneMore
    <3>7. SumFunctionOnSet(f, W \cup {x}) = SumFunctionOnSet(f, W) + f[x]
      BY <3>4, <3>5, SumWithOneMore
    <3>8. f[x] \in Int /\ SumFunctionOnSet(f, W) \in Int
      <4>1. f[x] \in Int BY <3>4
      <4>2. \A y \in W : f[y] \in Int BY <3>4
      <4>3. QED BY <3>5, <4>1, <4>2, SumIsInt
    <3>9. SumFunctionOnSet(f, S \cup U) = SumFunctionOnSet(f, V) + f[x] BY <3>4, <3>6
    <3>10. SumFunctionOnSet(f, U) = SumFunctionOnSet(f, W) + f[x] BY <3>4, <3>7
    <3>11. QED BY <1>2, <3>3, <3>8, <3>9, <3>10
  <2>2. QED BY <2>1
<1> HIDE DEF Good
<1>5. \A n \in Nat : n \in Good BY <1>3, <1>4, Induction
<1> USE DEF Good
<1>6. QED BY <1>1, <1>5

LEMMA SumOfZeros ==
    ASSUME NEW f, NEW S, IsFiniteSet(S), \A x \in S : f[x] = 0
    PROVE  SumFunctionOnSet(f, S) = 0
<1> DEFINE Good == {n \in Nat : \A U \in SUBSET S : Cardinality(U) = n =>
                                   SumFunctionOnSet(f, U) = 0}
<1>1. \A U \in SUBSET S : IsFiniteSet(U) /\ Cardinality(U) \in Nat
  BY FS_Subset, FS_CardinalityType
<1>2. 0 \in Good
  <2>1. ASSUME NEW U \in SUBSET S, Cardinality(U) = 0 PROVE SumFunctionOnSet(f, U) = 0
    <3>1. U = {} BY <1>1, <2>1, FS_EmptySet
    <3>2. QED BY <3>1, SumOfNone
  <2>2. QED BY <2>1
<1>3. ASSUME NEW n \in Nat, n \in Good PROVE n + 1 \in Good
  <2>1. ASSUME NEW U \in SUBSET S, Cardinality(U) = n + 1
        PROVE  SumFunctionOnSet(f, U) = 0
    <3>1. PICK x \in U : TRUE BY <2>1, FS_EmptySet
    <3> DEFINE W == U \ {x}
    <3>2. W \in SUBSET S /\ Cardinality(W) = n BY <1>1, <2>1, OneLess
    <3>3. SumFunctionOnSet(f, W) = 0 BY <1>3, <3>2
    <3>4. U = W \cup {x} /\ x \notin W /\ \A y \in W \cup {x} : f[y] \in Int OBVIOUS
    <3>5. IsFiniteSet(W) BY <1>1, <3>2
    <3> HIDE DEF W
    <3>6. SumFunctionOnSet(f, W \cup {x}) = SumFunctionOnSet(f, W) + f[x]
      BY <3>4, <3>5, SumWithOneMore
    <3>7. QED BY <3>3, <3>4, <3>6
  <2>2. QED BY <2>1
<1> HIDE DEF Good
<1>4. \A n \in Nat : n \in Good BY <1>2, <1>3, Induction
<1> USE DEF Good
<1>5. QED BY <1>1, <1>4

(* A value that changes at one member. *)
LEMMA SumChanged ==
    ASSUME NEW f, NEW d, NEW S, IsFiniteSet(S), NEW x \in S,
           \A y \in S : f[y] \in Int /\ d[y] \in Int,
           \A y \in S : y # x => d[y] = f[y]
    PROVE  /\ SumFunctionOnSet(f, S) \in Int
           /\ SumFunctionOnSet(d, S) = SumFunctionOnSet(f, S) - f[x] + d[x]
<1> DEFINE W == S \ {x}
<1>1. IsFiniteSet(W) BY FS_RemoveElement
<1>2. /\ S = W \cup {x} /\ x \notin W
      /\ \A y \in W \cup {x} : f[y] \in Int
      /\ \A y \in W \cup {x} : d[y] \in Int
      /\ \A y \in W : f[y] = d[y]
  OBVIOUS
<1> HIDE DEF W
<1>3. SumFunctionOnSet(f, W \cup {x}) = SumFunctionOnSet(f, W) + f[x]
  BY <1>1, <1>2, SumWithOneMore
<1>4. SumFunctionOnSet(d, W \cup {x}) = SumFunctionOnSet(d, W) + d[x]
  BY <1>1, <1>2, SumWithOneMore
<1>5. SumFunctionOnSet(f, W) = SumFunctionOnSet(d, W) BY <1>1, <1>2, SameSum
<1>6. SumFunctionOnSet(f, W) \in Int
  <2>1. \A y \in W : f[y] \in Int BY <1>2
  <2>2. QED BY <1>1, <2>1, SumIsInt
<1>7. f[x] \in Int /\ d[x] \in Int OBVIOUS
<1>8. QED BY <1>2, <1>3, <1>4, <1>5, <1>6, <1>7

(* The members of a set in some order, each of them once. *)
Enumerates(order, n, S) ==
    /\ order \in [1..n -> S]
    /\ \A j, k \in 1..n : order[j] = order[k] => j = k
    /\ \A x \in S : \E k \in 1..n : order[k] = x

(* g takes the values of f on S in that order. *)
Reorders(g, n, order, f, S) ==
    /\ Enumerates(order, n, S)
    /\ \A x \in S : f[x] \in Int
    /\ \A k \in 1..n : g[k] = f[order[k]]

LEMMA SumReordered ==
    ASSUME NEW n \in Nat, NEW S, NEW order, NEW f, NEW g, Reorders(g, n, order, f, S)
    PROVE  SumFunctionOnSet(g, 1..n) = SumFunctionOnSet(f, S)
<1> DEFINE Had(m) == {order[k] : k \in 1..m}
           Good == {m \in Nat : m <= n =>
                       /\ IsFiniteSet(Had(m))
                       /\ SumFunctionOnSet(g, 1..m) = SumFunctionOnSet(f, Had(m))}
<1> USE DEF Enumerates, Reorders
<1>1. 0 \in Good
  <2>1. 1..0 = {} /\ Had(0) = {} OBVIOUS
  <2>2. SumFunctionOnSet(g, 1..0) = 0 BY <2>1, SumOfNone
  <2>3. SumFunctionOnSet(f, Had(0)) = 0 BY <2>1, SumOfNone
  <2>4. IsFiniteSet(Had(0)) BY <2>1, FS_EmptySet
  <2>5. QED BY <2>2, <2>3, <2>4
<1>2. ASSUME NEW m \in Nat, m \in Good PROVE m + 1 \in Good
  <2>1. SUFFICES ASSUME m + 1 <= n
                 PROVE  /\ IsFiniteSet(Had(m + 1))
                        /\ SumFunctionOnSet(g, 1..(m + 1)) = SumFunctionOnSet(f, Had(m + 1))
    OBVIOUS
  <2> DEFINE x == order[m + 1]
  <2>2. /\ IsFiniteSet(Had(m))
        /\ SumFunctionOnSet(g, 1..m) = SumFunctionOnSet(f, Had(m))
    BY <1>2, <2>1
  <2>3. /\ m + 1 \in 1..n /\ \A k \in 1..m : k \in 1..n /\ k # m + 1
        /\ 1..(m + 1) = (1..m) \cup {m + 1} /\ m + 1 \notin 1..m
    BY <2>1
  <2>4. x \in S /\ x \notin Had(m) /\ \A y \in Had(m) : y \in S BY <2>3
  <2>5. Had(m + 1) = Had(m) \cup {x} BY <2>3
  <2>6. g[m + 1] = f[x] BY <2>3
  <2>7. \A k \in (1..m) \cup {m + 1} : g[k] \in Int BY <2>3
  <2>8. \A y \in Had(m) \cup {x} : f[y] \in Int BY <2>4
  <2>9. IsFiniteSet(1..m) BY FS_Interval
  <2> DEFINE I == 1..m
  <2> HIDE DEF I, Had, x
  <2>10. SumFunctionOnSet(g, I \cup {m + 1}) = SumFunctionOnSet(g, I) + g[m + 1]
    <3>1. IsFiniteSet(I) BY <2>9 DEF I
    <3>2. m + 1 \notin I BY <2>3 DEF I
    <3>3. \A k \in I \cup {m + 1} : g[k] \in Int BY <2>7 DEF I
    <3>4. QED BY <3>1, <3>2, <3>3, SumWithOneMore
  <2>11. SumFunctionOnSet(f, Had(m) \cup {x}) = SumFunctionOnSet(f, Had(m)) + f[x]
    <3> DEFINE H == Had(m)
    <3>1. IsFiniteSet(H) /\ x \notin H /\ \A y \in H \cup {x} : f[y] \in Int
      BY <2>2, <2>4, <2>8
    <3> HIDE DEF H
    <3>2. SumFunctionOnSet(f, H \cup {x}) = SumFunctionOnSet(f, H) + f[x]
      BY <3>1, SumWithOneMore
    <3>3. QED BY <3>2 DEF H
  <2>12. IsFiniteSet(Had(m) \cup {x}) BY <2>2, FS_AddElement
  <2>13. 1..(m + 1) = I \cup {m + 1} BY <2>3 DEF I
  <2>14. SumFunctionOnSet(g, I) = SumFunctionOnSet(f, Had(m)) BY <2>2 DEF I
  <2>15. QED BY <2>5, <2>6, <2>10, <2>11, <2>12, <2>13, <2>14
<1>3. Had(n) = S OBVIOUS
<1> HIDE DEF Good
<1>4. \A m \in Nat : m \in Good BY <1>1, <1>2, Induction
<1>5. n \in Good BY <1>4
<1>6. SumFunctionOnSet(g, 1..n) = SumFunctionOnSet(f, Had(n)) BY <1>5 DEF Good
<1>7. QED BY <1>3, <1>6

(* One sequence of values after the other. *)
Follows(f, n, g, m, h) ==
    /\ \A k \in 1..n : f[k] = g[k]
    /\ \A k \in 1..m : f[n + k] = h[k]
    /\ \A k \in 1..(n + m) : f[k] \in Int

LEMMA SumConcatenated ==
    ASSUME NEW n \in Nat, NEW m \in Nat, NEW f, NEW g, NEW h, Follows(f, n, g, m, h)
    PROVE  SumFunctionOnSet(f, 1..(n + m))
              = SumFunctionOnSet(g, 1..n) + SumFunctionOnSet(h, 1..m)
<1> DEFINE S == 1..n
           T == (n + 1)..(n + m)
           order == [k \in 1..m |-> n + k]
<1> USE DEF Follows
<1>1. /\ 1..(n + m) = S \cup T /\ S \cap T = {} /\ \A x \in T : f[x] \in Int
      /\ \A x \in S : f[x] = g[x] /\ f[x] \in Int
  OBVIOUS
<1>2. IsFiniteSet(S) /\ IsFiniteSet(T) BY FS_Interval
<1>3. order \in [1..m -> T] OBVIOUS
<1>4. \A j, k \in 1..m : order[j] = order[k] => j = k OBVIOUS
<1>5. ASSUME NEW x \in T PROVE \E k \in 1..m : order[k] = x
  <2>1. x - n \in 1..m /\ n + (x - n) = x OBVIOUS
  <2>2. order[x - n] = x BY <2>1
  <2>3. QED BY <2>1, <2>2
<1>6. \A k \in 1..m : h[k] = f[order[k]] OBVIOUS
<1> HIDE DEF S, T, order
<1>7. SumFunctionOnSet(h, 1..m) = SumFunctionOnSet(f, T)
  <2>1. Enumerates(order, m, T) BY <1>3, <1>4, <1>5 DEF Enumerates
  <2>2. \A x \in T : f[x] \in Int BY <1>1
  <2>3. Reorders(h, m, order, f, T) BY <1>6, <2>1, <2>2 DEF Reorders
  <2>4. QED BY <2>3, SumReordered
<1>8. SumFunctionOnSet(f, S) = SumFunctionOnSet(g, S) BY <1>1, <1>2, SameSum
<1>9. SumFunctionOnSet(f, S \cup T) = SumFunctionOnSet(f, S) + SumFunctionOnSet(f, T)
  <2>1. \A x \in S \cup T : f[x] \in Int BY <1>1
  <2>2. QED BY <1>1, <1>2, <2>1, SumSplit
<1>10. QED BY <1>1, <1>7, <1>8, <1>9 DEF S
=============================================================================
