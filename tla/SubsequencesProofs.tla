------------------------- MODULE SubsequencesProofs -------------------------
(***************************************************************************)
(* What Selected returns for the empty sequence, for one that is extended, *)
(* and its type; and the same of the sum of a function (Functions).        *)
(* Induction on a length or a cardinality is done without an operator as   *)
(* parameter: a set of natural numbers that is not empty has a least       *)
(* element, and the least number at which a claim fails is refuted.        *)
(***************************************************************************)
EXTENDS Subsequences, SequenceTheorems, FiniteSets, FiniteSetTheorems, Functions,
        WellFoundedInduction, TLAPS

\* f[n] is what is selected of the first n elements.
IsSelection(f, s, K) ==
  f = [n \in 0 .. Len(s) |->
         IF n = 0 THEN <<>>
         ELSE IF n \in K THEN Append(f[n - 1], s[n]) ELSE f[n - 1]]

\* The order of the natural numbers as a relation.
Below == {ss \in Nat \X Nat : ss[1] < ss[2]}

\* A set of natural numbers that is not empty has a least element.
LEMMA LeastNumber ==
  ASSUME NEW T \in SUBSET Nat, T # {}
  PROVE  \E m \in T : \A k \in 0 .. m - 1 : k \notin T
<1>1. IsWellFoundedOn(Below, Nat)
  BY NatLessThanWellFounded DEF OpToRel, Below
<1>2. T \subseteq Nat
  OBVIOUS
<1>3. PICK m \in T : \A k \in T : ~ (<<k, m>> \in Below)
  BY <1>1, <1>2, WFMin
<1>4. ASSUME NEW k \in 0 .. m - 1, k \in T
      PROVE  FALSE
  <2>1. k \in Nat /\ m \in Nat /\ k < m
    BY <1>2, <1>4
  <2>2. <<k, m>> \in Nat \X Nat /\ <<k, m>>[1] < <<k, m>>[2]
    BY <2>1
  <2>3. <<k, m>> \in Below
    BY <2>2, Zenon DEF Below
  <2> QED
    BY <1>3, <1>4, <2>3
<1> QED
  BY <1>4

\* The prefixes of a sequence have a selection, one element after the other.
LEMMA SelectionExists ==
  ASSUME NEW S, NEW s \in Seq(S), NEW K
  PROVE  \E f : IsSelection(f, s, K)
<1> DEFINE Upto(f, m) ==
             f = [n \in 0 .. m |->
                    IF n = 0 THEN <<>>
                    ELSE IF n \in K THEN Append(f[n - 1], s[n]) ELSE f[n - 1]]
           T == {m \in Nat : ~ \E f : Upto(f, m)}
<1>1. SUFFICES ASSUME T # {} PROVE FALSE
  <2>1. Len(s) \notin T /\ Len(s) \in Nat
    BY <1>1, LenProperties
  <2>2. \E f : Upto(f, Len(s))
    BY <2>1
  <2> QED
    BY <2>2 DEF IsSelection
<1>2. PICK m \in T : \A k \in 0 .. m - 1 : k \notin T
  <2> T \in SUBSET Nat
    OBVIOUS
  <2> HIDE DEF T
  <2> QED
    BY <1>1, LeastNumber
<1>3. m \in Nat /\ ~ \E f : Upto(f, m)
  OBVIOUS
<1>4. CASE m = 0
  <2> DEFINE z == [n \in 0 .. 0 |-> <<>>]
  <2>1. Upto(z, 0)
    OBVIOUS
  <2> QED
    BY <1>3, <1>4, <2>1
<1>5. CASE m # 0
  <2>1. m - 1 \in Nat /\ m - 1 \in 0 .. m - 1
    BY <1>3, <1>5
  <2>2. PICK f : Upto(f, m - 1)
    BY <1>2, <2>1
  <2> DEFINE g == [n \in 0 .. m |->
                     IF n = m
                     THEN IF m \in K THEN Append(f[m - 1], s[m]) ELSE f[m - 1]
                     ELSE f[n]]
  <2>3. ASSUME NEW n \in 0 .. m
        PROVE  g[n] = IF n = 0 THEN <<>>
                      ELSE IF n \in K THEN Append(g[n - 1], s[n]) ELSE g[n - 1]
    <3>1. CASE n = m
      BY <1>3, <1>5, <2>1, <3>1
    <3>2. CASE n # m
      <4>1. n \in 0 .. m - 1 /\ (n # 0 => n - 1 \in 0 .. m /\ n - 1 # m)
        BY <1>3, <3>2
      <4>2. f[n] = IF n = 0 THEN <<>>
                   ELSE IF n \in K THEN Append(f[n - 1], s[n]) ELSE f[n - 1]
        BY <2>2, <4>1
      <4>3. g[n] = f[n] /\ (n # 0 => g[n - 1] = f[n - 1])
        BY <3>2, <4>1
      <4> QED
        BY <4>2, <4>3
    <3> QED
      BY <3>1, <3>2
  <2>4. g = [n \in 0 .. m |-> g[n]]
    OBVIOUS
  <2> HIDE DEF g
  <2>5. Upto(g, m)
    BY <2>3, <2>4
  <2> QED
    BY <1>3, <2>5
<1> QED
  BY <1>4, <1>5

\* The first n elements of s and t are the same, and the same are selected.
AgreeUpTo(n, s, K, t, L) ==
  /\ n <= Len(s) /\ n <= Len(t)
  /\ \A i \in 1 .. n : s[i] = t[i] /\ (i \in K <=> i \in L)

\* A selection of a prefix depends on that prefix and on the positions in it only.
LEMMA SelectionAgrees ==
  ASSUME NEW S, NEW s \in Seq(S), NEW t \in Seq(S), NEW K, NEW L,
         NEW n \in Nat, AgreeUpTo(n, s, K, t, L),
         NEW f, IsSelection(f, s, K), NEW g, IsSelection(g, t, L)
  PROVE  f[n] = g[n]
<1> DEFINE T == {m \in 0 .. n : f[m] # g[m]}
<1>1. SUFFICES ASSUME T # {} PROVE FALSE
  OBVIOUS
<1>2. PICK m \in T : \A k \in 0 .. m - 1 : k \notin T
  <2> T \in SUBSET Nat
    OBVIOUS
  <2> HIDE DEF T
  <2> QED
    BY <1>1, LeastNumber
<1>3. m \in 0 .. n /\ f[m] # g[m] /\ Len(s) \in Nat /\ Len(t) \in Nat
      /\ n <= Len(s) /\ n <= Len(t)
  BY LenProperties DEF AgreeUpTo
<1>4. /\ f[m] = IF m = 0 THEN <<>>
                ELSE IF m \in K THEN Append(f[m - 1], s[m]) ELSE f[m - 1]
      /\ g[m] = IF m = 0 THEN <<>>
                ELSE IF m \in L THEN Append(g[m - 1], t[m]) ELSE g[m - 1]
  <2>1. m \in 0 .. Len(s) /\ m \in 0 .. Len(t)
    BY <1>3
  <2> HIDE DEF T
  <2>2. f[m] = IF m = 0 THEN <<>>
               ELSE IF m \in K THEN Append(f[m - 1], s[m]) ELSE f[m - 1]
    BY <2>1 DEF IsSelection
  <2>3. g[m] = IF m = 0 THEN <<>>
               ELSE IF m \in L THEN Append(g[m - 1], t[m]) ELSE g[m - 1]
    BY <2>1 DEF IsSelection
  <2> QED
    BY <2>2, <2>3
<1>5. CASE m = 0
  BY <1>3, <1>4, <1>5
<1>6. CASE m # 0
  <2>1. m \in 1 .. n /\ m - 1 \in 0 .. m - 1 /\ m - 1 \in 0 .. n
    BY <1>3, <1>6
  <2>2. f[m - 1] = g[m - 1]
    BY <1>2, <2>1
  <2>3. s[m] = t[m] /\ (m \in K <=> m \in L)
    BY <2>1 DEF AgreeUpTo
  <2> QED
    BY <1>3, <1>4, <1>6, <2>2, <2>3
<1> QED
  BY <1>5, <1>6

\* Selected is what some selection says of the whole sequence.
LEMMA SelectedDef ==
  ASSUME NEW S, NEW s \in Seq(S), NEW K
  PROVE  \E f : IsSelection(f, s, K) /\ Selected(s, K) = f[Len(s)]
<1> DEFINE f == CHOOSE f : IsSelection(f, s, K)
<1>1. IsSelection(f, s, K)
  BY SelectionExists
<1>2. Selected(s, K) = f[Len(s)]
  BY DEF Selected, IsSelection
<1> QED
  BY <1>1, <1>2

\* Nothing is selected of the empty sequence.
LEMMA SelectedEmpty ==
  ASSUME NEW K
  PROVE  Selected(<<>>, K) = <<>>
<1>1. <<>> \in Seq({}) /\ Len(<<>>) = 0
  OBVIOUS
<1>2. PICK f : IsSelection(f, <<>>, K) /\ Selected(<<>>, K) = f[0]
  BY <1>1, SelectedDef
<1> QED
  BY <1>1, <1>2 DEF IsSelection

\* An element that is appended is appended to the selection, or left out of it.
LEMMA SelectedAppend ==
  ASSUME NEW S, NEW s \in Seq(S), NEW x \in S, NEW K, NEW L,
         \A i \in 1 .. Len(s) : i \in K <=> i \in L
  PROVE  Selected(Append(s, x), L) =
           IF Len(s) + 1 \in L THEN Append(Selected(s, K), x) ELSE Selected(s, K)
<1> DEFINE t == Append(s, x)
           n == Len(s)
<1>1. t \in Seq(S) /\ n \in Nat /\ Len(t) = n + 1 /\ t[n + 1] = x
      /\ \A i \in 1 .. n : t[i] = s[i]
  BY LenProperties, AppendProperties
<1> HIDE DEF t, n
<1>2. PICK f : IsSelection(f, s, K) /\ Selected(s, K) = f[n]
  BY SelectedDef DEF n
<1>3. PICK g : IsSelection(g, t, L) /\ Selected(t, L) = g[n + 1]
  BY <1>1, SelectedDef
<1>4. f[n] = g[n]
  <2>1. AgreeUpTo(n, s, K, t, L)
    BY <1>1 DEF AgreeUpTo, n
  <2> QED
    BY <1>1, <1>2, <1>3, <2>1, SelectionAgrees
<1>5. g[n + 1] = IF n + 1 \in L THEN Append(g[n], x) ELSE g[n]
  <2>1. n + 1 \in 0 .. Len(t) /\ n + 1 # 0 /\ (n + 1) - 1 = n
    BY <1>1
  <2>2. g[n + 1] = IF n + 1 = 0 THEN <<>>
                   ELSE IF n + 1 \in L THEN Append(g[(n + 1) - 1], t[n + 1])
                   ELSE g[(n + 1) - 1]
    BY <1>3, <2>1 DEF IsSelection
  <2> QED
    BY <1>1, <2>1, <2>2
<1> QED
  BY <1>2, <1>3, <1>4, <1>5 DEF t, n

\* What is selected of a prefix are elements of the sequence.
LEMMA SelectionType ==
  ASSUME NEW S, NEW s \in Seq(S), NEW K, NEW f, IsSelection(f, s, K)
  PROVE  \A n \in 0 .. Len(s) : f[n] \in Seq(S)
<1> DEFINE T == {m \in 0 .. Len(s) : f[m] \notin Seq(S)}
<1>1. SUFFICES ASSUME T # {} PROVE FALSE
  OBVIOUS
<1>2. PICK m \in T : \A k \in 0 .. m - 1 : k \notin T
  <2> T \in SUBSET Nat
    BY LenProperties
  <2> HIDE DEF T
  <2> QED
    BY <1>1, LeastNumber
<1>3. m \in 0 .. Len(s) /\ f[m] \notin Seq(S) /\ Len(s) \in Nat
  BY LenProperties
<1>4. f[m] = IF m = 0 THEN <<>>
             ELSE IF m \in K THEN Append(f[m - 1], s[m]) ELSE f[m - 1]
  BY <1>3 DEF IsSelection
<1>5. CASE m = 0
  BY <1>3, <1>4, <1>5
<1>6. CASE m # 0
  <2>1. m \in 1 .. Len(s) /\ m - 1 \in 0 .. m - 1 /\ m - 1 \in 0 .. Len(s)
    BY <1>3, <1>6
  <2>2. f[m - 1] \in Seq(S)
    BY <1>2, <2>1
  <2>3. s[m] \in S
    BY <2>1, ElementOfSeq
  <2>4. Append(f[m - 1], s[m]) \in Seq(S)
    BY <2>2, <2>3, AppendProperties
  <2> QED
    BY <1>3, <1>4, <1>6, <2>2, <2>4
<1> QED
  BY <1>5, <1>6

\* So is what is selected of all of it.
LEMMA SelectedType ==
  ASSUME NEW S, NEW s \in Seq(S), NEW K
  PROVE  Selected(s, K) \in Seq(S)
<1>1. PICK f : IsSelection(f, s, K) /\ Selected(s, K) = f[Len(s)]
  BY SelectedDef
<1>2. \A n \in 0 .. Len(s) : f[n] \in Seq(S)
  BY <1>1, SelectionType
<1> QED
  BY <1>1, <1>2, LenProperties

\* Once an element has been selected the selection is not empty.
LEMMA SelectedSome ==
  ASSUME NEW S, NEW s \in Seq(S), NEW K, NEW k \in 1 .. Len(s), k \in K
  PROVE  Selected(s, K) # <<>>
<1>1. PICK f : IsSelection(f, s, K) /\ Selected(s, K) = f[Len(s)]
  BY SelectedDef
<1>2. \A n \in 0 .. Len(s) : f[n] \in Seq(S)
  BY <1>1, SelectionType
<1> DEFINE T == {m \in k .. Len(s) : f[m] = <<>>}
<1>3. SUFFICES ASSUME T # {} PROVE FALSE
  BY <1>1, LenProperties
<1>4. PICK m \in T : \A i \in 0 .. m - 1 : i \notin T
  <2> T \in SUBSET Nat
    BY LenProperties
  <2> HIDE DEF T
  <2> QED
    BY <1>3, LeastNumber
<1>5. m \in k .. Len(s) /\ f[m] = <<>> /\ Len(s) \in Nat /\ k \in Nat /\ k >= 1
  BY LenProperties
<1>6. f[m] = IF m \in K THEN Append(f[m - 1], s[m]) ELSE f[m - 1]
  <2>1. m \in 0 .. Len(s) /\ m # 0
    BY <1>5
  <2> HIDE DEF T
  <2>2. f[m] = IF m = 0 THEN <<>>
               ELSE IF m \in K THEN Append(f[m - 1], s[m]) ELSE f[m - 1]
    BY <1>1, <2>1 DEF IsSelection
  <2> QED
    BY <2>1, <2>2
<1>7. m \in 1 .. Len(s) /\ m - 1 \in 0 .. Len(s) /\ m - 1 \in 0 .. m - 1
  BY <1>5
<1>8. CASE m \in K
  <2>1. f[m - 1] \in Seq(S) /\ s[m] \in S
    BY <1>2, <1>7, ElementOfSeq
  <2>2. Append(f[m - 1], s[m]) # <<>>
    BY <2>1, AppendProperties
  <2> QED
    BY <1>5, <1>6, <1>8, <2>2
<1>9. CASE m \notin K
  <2>1. m - 1 \in k .. Len(s)
    BY <1>5, <1>9
  <2>2. m - 1 \notin T
    BY <1>4, <1>7
  <2> QED
    BY <1>5, <1>6, <1>9, <2>1, <2>2
<1> QED
  BY <1>8, <1>9

-----------------------------------------------------------------------------
(***************************************************************************)
(* SumFunction, which adds the values of a function in an order of its own *)
(* choice: a further value adds to the sum.                                *)
(***************************************************************************)

\* F adds up the values of a over every subset of its domain.
Adds(F, a) ==
  /\ F \in [SUBSET DOMAIN a -> Nat]
  /\ F[{}] = 0
  /\ \A T \in SUBSET DOMAIN a : \A x \in T : F[T] = a[x] + F[T \ {x}]

\* a with n for x as well.
With(a, x, n) == [k \in DOMAIN a \cup {x} |-> IF k = x THEN n ELSE a[k]]

\* Over S and x, G is n more than F over S.
Exceeds(G, F, S, x, n) == G[S \cup {x}] = F[S] + n

\* What adds up the values of a function adds up those of one that has one more.
LEMMA AddsMore ==
  ASSUME NEW S, NEW a \in [S -> Nat], NEW F, Adds(F, a), NEW x, x \notin S, NEW n \in Nat
  PROVE  \E G : Adds(G, With(a, x, n)) /\ Exceeds(G, F, S, x, n)
<1> DEFINE b == With(a, x, n)
           G == [T \in SUBSET (S \cup {x}) |-> IF x \in T THEN F[T \ {x}] + n ELSE F[T]]
<1>1. DOMAIN b = S \cup {x} /\ b[x] = n /\ \A k \in S : b[k] = a[k]
  BY DEF With
<1>2. /\ F \in [SUBSET S -> Nat] /\ F[{}] = 0
      /\ \A T \in SUBSET S : \A y \in T : F[T] = a[y] + F[T \ {y}]
  BY DEF Adds
<1>3. G \in [SUBSET (S \cup {x}) -> Nat]
  <2> SUFFICES ASSUME NEW T \in SUBSET (S \cup {x})
               PROVE  (IF x \in T THEN F[T \ {x}] + n ELSE F[T]) \in Nat
    OBVIOUS
  <2>1. T \ {x} \in SUBSET S
    OBVIOUS
  <2>2. F[T \ {x}] \in Nat
    BY <1>2, <2>1
  <2>3. x \notin T => F[T] \in Nat
    BY <1>2
  <2> QED
    BY <2>2, <2>3
<1>4. G[{}] = 0
  BY <1>2
<1>5. G[S \cup {x}] = F[S] + n
  <2>1. (S \cup {x}) \ {x} = S
    OBVIOUS
  <2> QED
    BY <2>1
<1>6. ASSUME NEW T \in SUBSET (S \cup {x}), NEW y \in T
      PROVE  G[T] = b[y] + G[T \ {y}]
  <2>1. T \ {x} \in SUBSET S /\ T \ {y} \in SUBSET (S \cup {x})
    OBVIOUS
  <2>2. F[T \ {x}] \in Nat
    BY <1>2, <2>1
  <2>3. CASE y = x
    <3>1. G[T] = F[T \ {x}] + n /\ G[T \ {y}] = F[T \ {x}] /\ b[y] = n
      BY <1>1, <1>6, <2>1, <2>3
    <3> QED
      BY <2>2, <3>1
  <2>4. CASE y # x /\ x \in T
    <3>1. y \in S /\ y \in T \ {x} /\ b[y] = a[y]
      BY <1>1, <1>6, <2>4
    <3>2. (T \ {x}) \ {y} = (T \ {y}) \ {x} /\ (T \ {y}) \ {x} \in SUBSET S
      OBVIOUS
    <3>3. F[T \ {x}] = a[y] + F[(T \ {y}) \ {x}]
      BY <1>2, <2>1, <3>1, <3>2
    <3>4. G[T] = F[T \ {x}] + n /\ G[T \ {y}] = F[(T \ {y}) \ {x}] + n
      BY <1>6, <2>1, <2>4
    <3>5. F[(T \ {y}) \ {x}] \in Nat /\ a[y] \in Nat
      BY <1>2, <3>1, <3>2
    <3> HIDE DEF G, b
    <3> QED
      BY <3>1, <3>3, <3>4, <3>5
  <2>5. CASE x \notin T
    <3>1. T \in SUBSET S /\ y \in S /\ x \notin T \ {y} /\ T \ {y} \in SUBSET S
      BY <1>6, <2>5
    <3>2. G[T] = F[T] /\ G[T \ {y}] = F[T \ {y}] /\ b[y] = a[y]
      BY <1>1, <2>1, <2>5, <3>1
    <3> QED
      BY <1>2, <1>6, <3>1, <3>2
  <2> QED
    BY <2>3, <2>4, <2>5
<1> HIDE DEF G, b
<1>7. Adds(G, b)
  BY <1>1, <1>3, <1>4, <1>6 DEF Adds
<1> QED
  BY <1>5, <1>7 DEF b, Exceeds

\* The values of a function on a finite set can be added up.
LEMMA AddsAll ==
  ASSUME NEW S, IsFiniteSet(S), NEW a \in [S -> Nat]
  PROVE  \E F : Adds(F, a)
<1> DEFINE Fails(m) == \E U : /\ IsFiniteSet(U) /\ Cardinality(U) = m
                              /\ \E c \in [U -> Nat] : ~ \E F : Adds(F, c)
           T == {m \in Nat : Fails(m)}
<1>1. SUFFICES ASSUME T # {} PROVE FALSE
  <2>1. Cardinality(S) \in Nat /\ Cardinality(S) \notin T
    BY <1>1, FS_CardinalityType
  <2> QED
    BY <2>1
<1>2. PICK m \in T : \A k \in 0 .. m - 1 : k \notin T
  <2> T \in SUBSET Nat
    OBVIOUS
  <2> HIDE DEF T
  <2> QED
    BY <1>1, LeastNumber
<1>3. PICK U : /\ IsFiniteSet(U) /\ Cardinality(U) = m
               /\ \E c \in [U -> Nat] : ~ \E F : Adds(F, c)
  BY <1>2
<1>4. PICK c \in [U -> Nat] : ~ \E F : Adds(F, c)
  BY <1>3
<1>5. CASE U = {}
  <2> DEFINE F == [V \in SUBSET {} |-> 0]
  <2>1. DOMAIN c = {}
    BY <1>4, <1>5
  <2>2. SUBSET {} = {{}}
    OBVIOUS
  <2>3. F \in [SUBSET {} -> Nat] /\ F[{}] = 0
    BY <2>2
  <2>4. \A V \in SUBSET {} : \A x \in V : F[V] = c[x] + F[V \ {x}]
    BY <2>2
  <2> HIDE DEF F
  <2>5. Adds(F, c)
    BY <2>1, <2>3, <2>4 DEF Adds
  <2> QED
    BY <1>4, <2>5
<1>6. CASE U # {}
  <2>1. PICK x \in U : TRUE
    BY <1>6
  <2> DEFINE V == U \ {x}
             d == [k \in V |-> c[k]]
  <2>2. IsFiniteSet(V) /\ Cardinality(V) = m - 1 /\ m \in Nat
    BY <1>2, <1>3, <2>1, FS_RemoveElement
  <2>3. Cardinality(V) \in Nat
    BY <2>2, FS_CardinalityType
  <2>4. d \in [V -> Nat]
    BY <1>4
  <2>5. ~Fails(m - 1)
    BY <1>2, <2>2, <2>3
  <2>6. PICK F : Adds(F, d)
    BY <2>2, <2>4, <2>5
  <2>7. c = With(d, x, c[x])
    BY <1>4, <2>1 DEF With
  <2>8. c[x] \in Nat /\ x \notin V
    BY <1>4, <2>1
  <2> HIDE DEF V, d
  <2>9. \E G : Adds(G, With(d, x, c[x]))
    BY <2>4, <2>6, <2>8, AddsMore
  <2> QED
    BY <1>4, <2>7, <2>9
<1> QED
  BY <1>5, <1>6

\* SumFunction adds up all the values.
LEMMA SumIs ==
  ASSUME NEW S, IsFiniteSet(S), NEW a \in [S -> Nat], NEW F, Adds(F, a)
  PROVE  SumFunction(a) = F[S]
<1> DEFINE Def(it) == it = [s \in SUBSET (DOMAIN a) |->
                              IF s = {} THEN 0
                              ELSE a[CHOOSE x \in s : TRUE]
                                     + it[s \ {CHOOSE x \in s : TRUE}]]
           iter == CHOOSE it : Def(it)
<1>1. SumFunction(a) = iter[DOMAIN a]
  BY DEF SumFunction, SumFunctionOnSet, FoldFunctionOnSet, MapThenFoldSet
<1>2. DOMAIN a = S
  OBVIOUS
<1>3. /\ F \in [SUBSET S -> Nat] /\ F[{}] = 0
      /\ \A T \in SUBSET S : \A x \in T : F[T] = a[x] + F[T \ {x}]
  BY <1>2 DEF Adds
<1>4. Def(F)
  <2>1. ASSUME NEW s \in SUBSET S
        PROVE  F[s] = IF s = {} THEN 0
                      ELSE a[CHOOSE x \in s : TRUE] + F[s \ {CHOOSE x \in s : TRUE}]
    <3>1. s # {} => (CHOOSE x \in s : TRUE) \in s
      OBVIOUS
    <3> QED
      BY <1>3, <3>1
  <2> QED
    BY <1>2, <1>3, <2>1
<1>5. Def(iter)
  <2> HIDE DEF Def
  <2> QED
    BY <1>4, Zenon
<1> DEFINE T == {m \in Nat : \E U \in SUBSET S : Cardinality(U) = m /\ iter[U] # F[U]}
<1>6. T = {}
  <2>1. SUFFICES ASSUME T # {} PROVE FALSE
    OBVIOUS
  <2>2. PICK m \in T : \A k \in 0 .. m - 1 : k \notin T
    <3> T \in SUBSET Nat
      OBVIOUS
    <3> HIDE DEF T
    <3> QED
      BY <2>1, LeastNumber
  <2>3. PICK U \in SUBSET S : Cardinality(U) = m /\ iter[U] # F[U]
    BY <2>2
  <2>4. U # {}
    BY <1>2, <1>3, <1>5, <2>3
  <2> DEFINE y == CHOOSE x \in U : TRUE
             V == U \ {y}
  <2>5. y \in U
    BY <2>4
  <2>6. V \in SUBSET S
    BY <2>3
  <2>7. iter[U] = a[y] + iter[V]
    BY <1>2, <1>5, <2>3, <2>4
  <2>8. F[U] = a[y] + F[V]
    BY <1>3, <2>3, <2>5
  <2>9. IsFiniteSet(U) /\ IsFiniteSet(V)
    BY <2>3, <2>6, FS_Subset
  <2> HIDE DEF y, iter
  <2>10. Cardinality(V) = m - 1 /\ Cardinality(V) \in Nat /\ m \in Nat
    BY <2>2, <2>3, <2>5, <2>9, FS_RemoveElement, FS_CardinalityType
  <2>11. m - 1 \notin T
    BY <2>2, <2>10
  <2>12. iter[V] = F[V]
    BY <2>6, <2>10, <2>11
  <2> QED
    BY <2>3, <2>7, <2>8, <2>12
<1>7. Cardinality(S) \in Nat
  BY FS_CardinalityType
<1> QED
  <2> HIDE DEF iter
  <2>1. iter[S] = F[S]
    BY <1>6, <1>7
  <2> QED
    BY <1>1, <1>2, <2>1

\* The sum of nothing.
LEMMA SumOfNothing ==
  ASSUME NEW a \in [{} -> Nat]
  PROVE  SumFunction(a) = 0
<1>1. IsFiniteSet({})
  BY FS_EmptySet
<1>2. PICK F : Adds(F, a)
  BY <1>1, AddsAll
<1>3. F[{}] = 0
  BY <1>2 DEF Adds
<1>4. SumFunction(a) = F[{}]
  BY <1>1, <1>2, SumIs
<1> QED
  BY <1>3, <1>4

\* One more value adds to the sum.
LEMMA SumOfMore ==
  ASSUME NEW S, IsFiniteSet(S), NEW a \in [S -> Nat], NEW x, x \notin S, NEW n \in Nat
  PROVE  SumFunction(With(a, x, n)) = SumFunction(a) + n
<1>1. PICK F : Adds(F, a)
  BY AddsAll
<1>2. PICK G : Adds(G, With(a, x, n)) /\ Exceeds(G, F, S, x, n)
  BY <1>1, AddsMore
<1>3. With(a, x, n) \in [S \cup {x} -> Nat]
  BY DEF With
<1>4. IsFiniteSet(S \cup {x})
  BY FS_AddElement
<1>5. SumFunction(With(a, x, n)) = G[S \cup {x}]
  BY <1>2, <1>3, <1>4, SumIs
<1>6. SumFunction(a) = F[S]
  BY <1>1, SumIs
<1> QED
  BY <1>2, <1>5, <1>6 DEF Exceeds
=============================================================================
