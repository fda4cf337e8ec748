------------------------ MODULE ModelRegistry_proofs ------------------------
(***************************************************************************)
(* Proofs about ModelRegistry: its type invariant, that its counters add   *)
(* up to the clients' lists, that cached answers are current, and that the *)
(* marks hide no more than they should.  The sums over clients are folds   *)
(* of a recursive function; what they need is proved first, each by the    *)
(* smallest set that would be a counterexample.                            *)
(***************************************************************************)
EXTENDS ModelRegistry, FiniteSetTheorems, WellFoundedInduction, TLAPS

-----------------------------------------------------------------------------
(* The inductive invariant.  A cached answer stays what a lookup would give *)
(* only because it expires no later than the first mark does.               *)
ExpiresInTime(h) ==
  \A m \in Model, c \in Client :
    models[m].quota[c] > 0 => cache[h].expires <= models[m].quota[c]

Current(h) ==
  Valid(cache[h], 0) => cache[h].models = Available(0) /\ ExpiresInTime(h)

IInv ==
  /\ TypeOK
  /\ CountsAgree
  /\ \A h \in Handler : Current(h)

-----------------------------------------------------------------------------
(* Sums. *)

LEMMA LeastElement ==
  ASSUME NEW T \in SUBSET Nat, T # {}
  PROVE  \E x \in T : \A y \in T : x <= y
<1> DEFINE R == {ss \in Nat \X Nat : ss[1] < ss[2]}
<1>1. IsWellFoundedOn(R, Nat)
  BY NatLessThanWellFounded DEF OpToRel
<1> HIDE DEF R
<1>2. PICK x \in T : \A y \in T : ~(<<y, x>> \in R)
  BY <1>1, WFMin, Zenon
<1>3. ASSUME NEW y \in T PROVE x <= y
  <2>1. y \in Nat /\ x \in Nat
    OBVIOUS
  <2>2. <<y, x>> \in Nat \X Nat /\ <<y, x>>[1] = y /\ <<y, x>>[2] = x
    BY <2>1
  <2>3. ~(y < x)
    BY <1>2, <2>2 DEF R
  <2> QED
    BY <2>1, <2>3, SMT
<1> QED
  BY <1>3

(* The recursive function behind SumFunctionOnSet(f, S). *)
First(s) == CHOOSE x \in s : TRUE
Sums(f, S, g) ==
  g = [s \in SUBSET S |-> IF s = {} THEN 0 ELSE f[First(s)] + g[s \ {First(s)}]]

LEMMA FirstType == ASSUME NEW s, s # {} PROVE First(s) \in s
  BY DEF First

LEMMA SmallerSet ==
  ASSUME NEW S, IsFiniteSet(S), NEW x \in S
  PROVE  /\ IsFiniteSet(S \ {x})
         /\ Cardinality(S) \in Nat /\ Cardinality(S \ {x}) \in Nat
         /\ Cardinality(S) = Cardinality(S \ {x}) + 1
<1>1. IsFiniteSet(S \ {x}) /\ Cardinality(S \ {x}) = Cardinality(S) - 1
  BY FS_RemoveElement
<1>2. Cardinality(S) \in Nat /\ Cardinality(S \ {x}) \in Nat
  BY <1>1, FS_CardinalityType
<1> QED
  BY <1>1, <1>2

(* Sums of sets of at most n elements *)
Small(S, n) == {s \in SUBSET S : Cardinality(s) <= n}
SumsUpTo(f, S, n, g) ==
  g = [s \in Small(S, n) |-> IF s = {} THEN 0 ELSE f[First(s)] + g[s \ {First(s)}]]

LEMMA SumsUpToExist ==
  ASSUME NEW f, NEW S, IsFiniteSet(S)
  PROVE  \A n \in Nat : \E g : SumsUpTo(f, S, n, g)
<1> DEFINE Bad == {n \in Nat : ~ \E g : SumsUpTo(f, S, n, g)}
<1> SUFFICES ASSUME Bad # {} PROVE FALSE
  OBVIOUS
<1>1. PICK n \in Bad : \A k \in Bad : n <= k
  <2>1. Bad \in SUBSET Nat
    OBVIOUS
  <2> HIDE DEF Bad
  <2> QED
    BY <2>1, LeastElement
<1>2. n # 0
  <2>1. Small(S, 0) = {{}}
    <3>1. \A s \in SUBSET S : IsFiniteSet(s) /\ Cardinality(s) \in Nat
      BY FS_Subset, FS_CardinalityType
    <3>2. \A s \in SUBSET S : Cardinality(s) <= 0 <=> s = {}
      BY <3>1, FS_EmptySet
    <3> QED
      BY <3>2 DEF Small
  <2> DEFINE g == [s \in {{}} |-> 0]
  <2>2. g = [s \in {{}} |-> IF s = {} THEN 0 ELSE f[First(s)] + g[s \ {First(s)}]]
    OBVIOUS
  <2>3. SumsUpTo(f, S, 0, g)
    BY <2>1, <2>2 DEF SumsUpTo
  <2> HIDE DEF g
  <2>4. 0 \notin Bad
    BY <2>3
  <2> QED
    BY <2>4
<1>3. n - 1 \in Nat /\ n \in Nat /\ n - 1 < n
  BY <1>1, <1>2
<1>4. n - 1 \notin Bad
  <2> HIDE DEF Bad
  <2> QED BY <1>1, <1>3
<1>5. PICK g : SumsUpTo(f, S, n - 1, g)
  BY <1>3, <1>4
<1> DEFINE h == [s \in Small(S, n) |->
                   IF s = {} THEN 0 ELSE f[First(s)] + g[s \ {First(s)}]]
<1>6. Small(S, n - 1) \subseteq Small(S, n)
  <2>1. \A s \in SUBSET S : Cardinality(s) \in Nat
    BY FS_Subset, FS_CardinalityType
  <2> QED
    BY <1>3, <2>1 DEF Small
<1>7. \A s \in Small(S, n - 1) : h[s] = g[s]
  BY <1>5, <1>6 DEF SumsUpTo
<1>8. ASSUME NEW s \in Small(S, n), s # {}
      PROVE  s \ {First(s)} \in Small(S, n - 1)
  <2>1. IsFiniteSet(s) /\ First(s) \in s
    BY <1>8, FS_Subset, FirstType DEF Small
  <2>2. Cardinality(s) = Cardinality(s \ {First(s)}) + 1 /\ Cardinality(s \ {First(s)}) \in Nat
    BY <2>1, SmallerSet
  <2>3. Cardinality(s) <= n /\ s \ {First(s)} \in SUBSET S
    BY DEF Small
  <2>4. Cardinality(s \ {First(s)}) <= n - 1
    BY <2>2, <2>3, <1>3
  <2> QED
    BY <2>3, <2>4 DEF Small
<1>9. h = [s \in Small(S, n) |->
                   IF s = {} THEN 0 ELSE f[First(s)] + h[s \ {First(s)}]]
  <2>1. \A s \in Small(S, n) : s # {} => h[s \ {First(s)}] = g[s \ {First(s)}]
    BY <1>7, <1>8
  <2> HIDE DEF h
  <2>2. h = [s \in Small(S, n) |->
                   IF s = {} THEN 0 ELSE f[First(s)] + g[s \ {First(s)}]]
    BY DEF h
  <2> QED
    BY <2>1, <2>2, Zenon
<1>10. SumsUpTo(f, S, n, h)
  BY <1>9 DEF SumsUpTo
<1> HIDE DEF h
<1> QED
  BY <1>1, <1>10

LEMMA SumsExist ==
  ASSUME NEW f, NEW S, IsFiniteSet(S)
  PROVE  \E g : Sums(f, S, g)
<1>1. Cardinality(S) \in Nat
  BY FS_CardinalityType
<1>2. PICK g : SumsUpTo(f, S, Cardinality(S), g)
  BY <1>1, SumsUpToExist
<1>3. Small(S, Cardinality(S)) = SUBSET S
  <2>1. \A s \in SUBSET S : Cardinality(s) <= Cardinality(S)
    BY FS_Subset
  <2> QED
    BY <2>1 DEF Small
<1> QED
  BY <1>2, <1>3 DEF Sums, SumsUpTo

(* Two such functions agree where their summands do. *)
LEMMA SumsAgree ==
  ASSUME NEW f, NEW S, NEW g, Sums(f, S, g), NEW e, NEW T, NEW h, Sums(e, T, h),
         NEW A, IsFiniteSet(A), A \subseteq S, A \subseteq T, \A x \in A : f[x] = e[x]
  PROVE  g[A] = h[A]
<1> DEFINE Bad == {n \in Nat : \E s \in SUBSET A : Cardinality(s) = n /\ g[s] # h[s]}
<1>1. \A s \in SUBSET A : IsFiniteSet(s) /\ Cardinality(s) \in Nat
  BY FS_Subset, FS_CardinalityType
<1> SUFFICES ASSUME Bad # {} PROVE FALSE
  BY <1>1
<1>2. PICK n \in Bad : \A k \in Bad : n <= k
  <2>1. Bad \in SUBSET Nat
    OBVIOUS
  <2> HIDE DEF Bad
  <2> QED
    BY <2>1, LeastElement
<1>3. PICK s \in SUBSET A : Cardinality(s) = n /\ g[s] # h[s]
  BY <1>2
<1>4. s \in SUBSET S /\ s \in SUBSET T
  OBVIOUS
<1>5. g[s] = IF s = {} THEN 0 ELSE f[First(s)] + g[s \ {First(s)}]
  BY <1>4 DEF Sums
<1>6. h[s] = IF s = {} THEN 0 ELSE e[First(s)] + h[s \ {First(s)}]
  BY <1>4 DEF Sums
<1>7. s # {} /\ First(s) \in s
  BY <1>3, <1>5, <1>6, FirstType
<1>8. s \ {First(s)} \in SUBSET A /\ g[s \ {First(s)}] # h[s \ {First(s)}]
  <2>1. g[s] = f[First(s)] + g[s \ {First(s)}] /\ h[s] = e[First(s)] + h[s \ {First(s)}]
    BY <1>5, <1>6, <1>7
  <2>2. f[First(s)] = e[First(s)]
    BY <1>3, <1>7
  <2>3. g[s \ {First(s)}] = h[s \ {First(s)}] => g[s] = h[s]
    BY <2>1, <2>2, Zenon
  <2> QED
    BY <1>3, <2>3
<1>9. Cardinality(s \ {First(s)}) \in Bad
  BY <1>1, <1>8
<1>10. Cardinality(s) = Cardinality(s \ {First(s)}) + 1 /\ Cardinality(s \ {First(s)}) \in Nat
  BY <1>1, <1>7, SmallerSet
<1>11. n = Cardinality(s)
  BY <1>3
<1> HIDE DEF Bad
<1> QED
  BY <1>2, <1>9, <1>10, <1>11

LEMMA SumIsSums ==
  ASSUME NEW f, NEW S, IsFiniteSet(S)
  PROVE  \E g : Sums(f, S, g) /\ SumFunctionOnSet(f, S) = g[S]
<1> DEFINE P(g) == Sums(f, S, g)
<1>1. SumFunctionOnSet(f, S) = (CHOOSE g : Sums(f, S, g))[S]
  BY DEF SumFunctionOnSet, FoldFunctionOnSet, MapThenFoldSet, Sums, First
<1>2. Sums(f, S, CHOOSE g : Sums(f, S, g))
  BY SumsExist, Zenon
<1> QED
  BY <1>1, <1>2

(* What one needs to know of a sum. *)
LEMMA SumStep ==
  ASSUME NEW f, NEW S, IsFiniteSet(S), S # {}
  PROVE  SumFunctionOnSet(f, S) = f[First(S)] + SumFunctionOnSet(f, S \ {First(S)})
<1>1. First(S) \in S
  BY FirstType
<1>2. IsFiniteSet(S \ {First(S)})
  BY <1>1, SmallerSet
<1>3. PICK g : Sums(f, S, g) /\ SumFunctionOnSet(f, S) = g[S]
  BY SumIsSums
<1>4. PICK h : Sums(f, S \ {First(S)}, h) /\ SumFunctionOnSet(f, S \ {First(S)}) = h[S \ {First(S)}]
  BY <1>2, SumIsSums
<1>5. g[S \ {First(S)}] = h[S \ {First(S)}]
  <2>1. S \ {First(S)} \subseteq S
    OBVIOUS
  <2> QED
    BY <1>2, <1>3, <1>4, <2>1, SumsAgree
<1>6. g[S] = IF S = {} THEN 0 ELSE f[First(S)] + g[S \ {First(S)}]
  BY <1>3 DEF Sums
<1> QED
  BY <1>3, <1>4, <1>5, <1>6

LEMMA SumEmpty ==
  ASSUME NEW f
  PROVE  SumFunctionOnSet(f, {}) = 0
<1>1. IsFiniteSet({})
  BY FS_EmptySet
<1>2. PICK g : Sums(f, {}, g) /\ SumFunctionOnSet(f, {}) = g[{}]
  BY <1>1, SumIsSums
<1> QED
  BY <1>2 DEF Sums

LEMMA SumCongruence ==
  ASSUME NEW f, NEW e, NEW S, IsFiniteSet(S), \A x \in S : f[x] = e[x]
  PROVE  SumFunctionOnSet(f, S) = SumFunctionOnSet(e, S)
<1>1. PICK g : Sums(f, S, g) /\ SumFunctionOnSet(f, S) = g[S]
  BY SumIsSums
<1>2. PICK h : Sums(e, S, h) /\ SumFunctionOnSet(e, S) = h[S]
  BY SumIsSums
<1> QED
  BY <1>1, <1>2, SumsAgree

LEMMA SumType ==
  ASSUME NEW f, NEW S, IsFiniteSet(S), \A x \in S : f[x] \in Nat
  PROVE  SumFunctionOnSet(f, S) \in Nat
<1> DEFINE Bad == {n \in Nat : \E s \in SUBSET S :
                     Cardinality(s) = n /\ SumFunctionOnSet(f, s) \notin Nat}
<1>1. \A s \in SUBSET S : IsFiniteSet(s) /\ Cardinality(s) \in Nat
  BY FS_Subset, FS_CardinalityType
<1> SUFFICES ASSUME Bad # {} PROVE FALSE
  BY <1>1
<1>2. PICK n \in Bad : \A k \in Bad : n <= k
  <2>1. Bad \in SUBSET Nat
    OBVIOUS
  <2> HIDE DEF Bad
  <2> QED
    BY <2>1, LeastElement
<1>3. PICK s \in SUBSET S : Cardinality(s) = n /\ SumFunctionOnSet(f, s) \notin Nat
  BY <1>2
<1>4. s # {} /\ First(s) \in s
  BY <1>3, SumEmpty, FirstType
<1>5. SumFunctionOnSet(f, s) = f[First(s)] + SumFunctionOnSet(f, s \ {First(s)})
  BY <1>1, <1>4, SumStep
<1>6. SumFunctionOnSet(f, s \ {First(s)}) \notin Nat /\ s \ {First(s)} \in SUBSET S
  BY <1>3, <1>4, <1>5
<1>7. Cardinality(s \ {First(s)}) \in Bad
  BY <1>1, <1>6
<1>8. Cardinality(s) = Cardinality(s \ {First(s)}) + 1 /\ Cardinality(s \ {First(s)}) \in Nat
  BY <1>1, <1>4, SmallerSet
<1> HIDE DEF Bad
<1> QED
  BY <1>2, <1>3, <1>7, <1>8

(* The order in which the elements are added does not matter.               *)
LEMMA SumSplit ==
  ASSUME NEW f, NEW S, IsFiniteSet(S), \A x \in S : f[x] \in Nat, NEW x \in S
  PROVE  SumFunctionOnSet(f, S) = f[x] + SumFunctionOnSet(f, S \ {x})
<1> DEFINE Splits(s, y) == SumFunctionOnSet(f, s) = f[y] + SumFunctionOnSet(f, s \ {y})
           Bad == {n \in Nat : \E s \in SUBSET S : Cardinality(s) = n /\ \E y \in s : ~Splits(s, y)}
<1>1. \A s \in SUBSET S : IsFiniteSet(s) /\ Cardinality(s) \in Nat /\ SumFunctionOnSet(f, s) \in Nat
  <2> TAKE s \in SUBSET S
  <2>1. IsFiniteSet(s)
    BY FS_Subset
  <2>2. SumFunctionOnSet(f, s) \in Nat
    BY <2>1, SumType
  <2> QED
    BY <2>1, <2>2, FS_CardinalityType
<1> SUFFICES ASSUME Bad # {} PROVE FALSE
  <2> HIDE DEF Splits
  <2>1. S \in SUBSET S
    OBVIOUS
  <2>2. Splits(S, x)
    BY <1>1, <2>1
  <2> QED
    BY <2>2 DEF Splits
<1> HIDE DEF Splits
<1>2. PICK n \in Bad : \A k \in Bad : n <= k
  <2>1. Bad \in SUBSET Nat
    OBVIOUS
  <2> HIDE DEF Bad
  <2> QED
    BY <2>1, LeastElement
<1>3. PICK s \in SUBSET S : Cardinality(s) = n /\ \E y \in s : ~Splits(s, y)
  BY <1>2
<1>4. PICK y \in s : ~Splits(s, y)
  BY <1>3
<1> DEFINE z == First(s)
<1>5. z \in s
  BY FirstType
<1>6. SumFunctionOnSet(f, s) = f[z] + SumFunctionOnSet(f, s \ {z})
  BY <1>1, SumStep
<1> HIDE DEF z
<1>7. y # z
  BY <1>4, <1>6 DEF Splits
<1>8. ASSUME NEW v \in s, NEW w \in s \ {v}
      PROVE  Splits(s \ {v}, w)
  <2>1. Cardinality(s) = Cardinality(s \ {v}) + 1 /\ Cardinality(s \ {v}) \in Nat
    BY <1>1, SmallerSet
  <2>2. Cardinality(s \ {v}) \notin Bad
    <3>1. n = Cardinality(s)
      BY <1>3
    <3> HIDE DEF Bad
    <3> QED
      BY <1>2, <2>1, <3>1
  <2>3. s \ {v} \in SUBSET S
    OBVIOUS
  <2> QED
    BY <2>1, <2>2, <2>3
<1> HIDE DEF Bad
<1>9. Splits(s \ {z}, y) /\ Splits(s \ {y}, z)
  BY <1>5, <1>7, <1>8
<1>10. (s \ {z}) \ {y} = (s \ {y}) \ {z}
  OBVIOUS
<1>11. PICK rest \in Nat : rest = SumFunctionOnSet(f, (s \ {y}) \ {z})
  BY <1>1
<1>12. /\ SumFunctionOnSet(f, s \ {z}) = f[y] + rest
       /\ SumFunctionOnSet(f, s \ {y}) = f[z] + rest
  BY <1>9, <1>10, <1>11 DEF Splits
<1>13. f[y] \in Nat /\ f[z] \in Nat
  BY <1>5
<1>14. SumFunctionOnSet(f, s) = f[y] + SumFunctionOnSet(f, s \ {y})
  BY <1>6, <1>12, <1>13
<1> QED
  BY <1>4, <1>14 DEF Splits

(* A larger set has no smaller sum, and no summand exceeds the sum. *)
LEMMA SumMonotonic ==
  ASSUME NEW f, NEW S, IsFiniteSet(S), \A x \in S : f[x] \in Nat, NEW T \in SUBSET S
  PROVE  SumFunctionOnSet(f, T) <= SumFunctionOnSet(f, S)
<1> DEFINE Bad == {n \in Nat : \E s \in SUBSET S :
                     Cardinality(s) = n /\ \E t \in SUBSET s : ~(SumFunctionOnSet(f, t) <= SumFunctionOnSet(f, s))}
<1>1. \A s \in SUBSET S : IsFiniteSet(s) /\ Cardinality(s) \in Nat /\ SumFunctionOnSet(f, s) \in Nat
  <2> TAKE s \in SUBSET S
  <2>1. IsFiniteSet(s)
    BY FS_Subset
  <2>2. SumFunctionOnSet(f, s) \in Nat
    BY <2>1, SumType
  <2> QED
    BY <2>1, <2>2, FS_CardinalityType
<1> SUFFICES ASSUME Bad # {} PROVE FALSE
  <2>1. S \in SUBSET S
    OBVIOUS
  <2> QED
    BY <1>1, <2>1
<1>2. PICK n \in Bad : \A k \in Bad : n <= k
  <2>1. Bad \in SUBSET Nat
    OBVIOUS
  <2> HIDE DEF Bad
  <2> QED
    BY <2>1, LeastElement
<1>3. PICK s \in SUBSET S : Cardinality(s) = n /\ \E t \in SUBSET s : ~(SumFunctionOnSet(f, t) <= SumFunctionOnSet(f, s))
  BY <1>2
<1>4. PICK t \in SUBSET s : ~(SumFunctionOnSet(f, t) <= SumFunctionOnSet(f, s))
  BY <1>3
<1>5. t # s
  <2>1. SumFunctionOnSet(f, s) \in Nat
    BY <1>1
  <2> QED
    BY <1>4, <2>1
<1>6. PICK x \in s : x \notin t
  BY <1>5
<1>7. Cardinality(s) = Cardinality(s \ {x}) + 1 /\ Cardinality(s \ {x}) \in Nat
  BY <1>1, SmallerSet
<1>8. Cardinality(s \ {x}) \notin Bad
  <2> HIDE DEF Bad
  <2> QED
    BY <1>2, <1>3, <1>7
<1>9. s \ {x} \in SUBSET S /\ t \in SUBSET (s \ {x}) /\ t \in SUBSET S
  <2> HIDE DEF Bad
  <2> QED
    BY <1>6
<1>10. SumFunctionOnSet(f, t) <= SumFunctionOnSet(f, s \ {x})
  BY <1>7, <1>8, <1>9
<1>11. SumFunctionOnSet(f, s) = f[x] + SumFunctionOnSet(f, s \ {x})
  <2>1. IsFiniteSet(s) /\ \A y \in s : f[y] \in Nat
    BY <1>1
  <2> QED
    BY <2>1, SumSplit
<1>12. /\ SumFunctionOnSet(f, t) \in Nat /\ SumFunctionOnSet(f, s) \in Nat
       /\ SumFunctionOnSet(f, s \ {x}) \in Nat /\ f[x] \in Nat
  BY <1>1, <1>9
<1> HIDE DEF Bad
<1> QED
  BY <1>4, <1>10, <1>11, <1>12

(* A sum of ones counts. *)
LEMMA SumOfOnes ==
  ASSUME NEW f, NEW S, IsFiniteSet(S), \A x \in S : f[x] \in {0, 1}
  PROVE  SumFunctionOnSet(f, S) = Cardinality({x \in S : f[x] = 1})
<1> DEFINE Ones(s) == {x \in s : f[x] = 1}
           Bad == {n \in Nat : \E s \in SUBSET S : Cardinality(s) = n /\ SumFunctionOnSet(f, s) # Cardinality(Ones(s))}
<1>1. \A s \in SUBSET S : IsFiniteSet(s) /\ Cardinality(s) \in Nat
  BY FS_Subset, FS_CardinalityType
<1> SUFFICES ASSUME Bad # {} PROVE FALSE
  <2>1. S \in SUBSET S
    OBVIOUS
  <2> QED
    BY <1>1, <2>1
<1>2. PICK n \in Bad : \A k \in Bad : n <= k
  <2>1. Bad \in SUBSET Nat
    OBVIOUS
  <2> HIDE DEF Bad
  <2> QED
    BY <2>1, LeastElement
<1>3. PICK s \in SUBSET S : Cardinality(s) = n /\ SumFunctionOnSet(f, s) # Cardinality(Ones(s))
  BY <1>2
<1>4. s # {}
  <2>1. SUFFICES ASSUME s = {} PROVE FALSE
    OBVIOUS
  <2>2. Ones(s) = {}
    BY <2>1
  <2> QED
    BY <1>3, <2>1, <2>2, SumEmpty, FS_EmptySet
<1> DEFINE z == First(s)
<1>5. z \in s
  BY <1>4, FirstType
<1>6. SumFunctionOnSet(f, s) = f[z] + SumFunctionOnSet(f, s \ {z})
  BY <1>1, <1>4, SumStep
<1> HIDE DEF z
<1>7. Cardinality(s) = Cardinality(s \ {z}) + 1 /\ Cardinality(s \ {z}) \in Nat
  BY <1>1, <1>5, SmallerSet
<1>8. Cardinality(s \ {z}) \notin Bad
  <2> HIDE DEF Bad
  <2> QED
    BY <1>2, <1>3, <1>7
<1>9. SumFunctionOnSet(f, s \ {z}) = Cardinality(Ones(s \ {z}))
  BY <1>7, <1>8
<1>10. IsFiniteSet(Ones(s)) /\ IsFiniteSet(Ones(s \ {z}))
  <2>1. Ones(s) \in SUBSET S /\ Ones(s \ {z}) \in SUBSET S
    OBVIOUS
  <2> QED
    BY <1>1, <2>1
<1>11. CASE f[z] = 1
  <2>1. z \in Ones(s) /\ Ones(s \ {z}) = Ones(s) \ {z}
    BY <1>5, <1>11
  <2> HIDE DEF Ones
  <2>2. Cardinality(Ones(s)) = Cardinality(Ones(s \ {z})) + 1 /\ Cardinality(Ones(s \ {z})) \in Nat
    BY <1>10, <2>1, SmallerSet
  <2> QED
    BY <1>3, <1>6, <1>9, <1>11, <2>2
<1>12. CASE f[z] = 0
  <2>1. Ones(s \ {z}) = Ones(s)
    BY <1>12
  <2> HIDE DEF Ones
  <2>2. Cardinality(Ones(s)) \in Nat
    BY <1>10, FS_CardinalityType
  <2> QED
    BY <1>3, <1>6, <1>9, <1>12, <2>1, <2>2
<1> QED
  BY <1>5, <1>11, <1>12

-----------------------------------------------------------------------------
(* Minima and differences. *)

LEMMA MinExists ==
  ASSUME NEW lo \in Int, NEW hi \in Int, NEW S \in SUBSET (lo .. hi), S # {}
  PROVE  Min(S) \in S /\ \A y \in S : Min(S) <= y
<1> DEFINE T == {n \in Nat : n + lo \in S}
<1>1. T \in SUBSET Nat /\ T # {}
  <2>1. PICK y \in S : TRUE
    OBVIOUS
  <2>2. y - lo \in Nat /\ (y - lo) + lo = y
    BY <2>1
  <2>3. y - lo \in T
    BY <2>1, <2>2
  <2> QED
    BY <2>3
<1>2. PICK n \in T : \A k \in T : n <= k
  <2> HIDE DEF T
  <2> QED
    BY <1>1, LeastElement
<1>3. n \in Nat /\ n + lo \in S
  BY <1>2
<1>4. ASSUME NEW y \in S PROVE n + lo <= y
  <2>1. y \in Int /\ y - lo \in Nat /\ (y - lo) + lo = y
    OBVIOUS
  <2>2. y - lo \in T
    BY <2>1
  <2>3. n <= y - lo
    BY <1>2, <2>2
  <2> QED
    BY <1>3, <2>1, <2>3
<1>5. \E x \in S : \A y \in S : x =< y
  BY <1>3, <1>4
<1> QED
  BY <1>5 DEF Min

LEMMA LesserOfIs ==
  ASSUME NEW i \in Nat, NEW j \in Nat
  PROVE  LesserOf(i, j) = IF i <= j THEN i ELSE j
<1>1. PICK x \in {i, j} : \A y \in {i, j} : x =< y
  OBVIOUS
<1>2. LesserOf(i, j) \in {i, j} /\ \A y \in {i, j} : LesserOf(i, j) =< y
  BY <1>1 DEF LesserOf, Min
<1> QED
  BY <1>2

LEMMA MaxIs ==
  ASSUME NEW i \in Int, NEW j \in Int
  PROVE  Max({i, j}) = IF i >= j THEN i ELSE j
<1>1. PICK x \in {i, j} : \A y \in {i, j} : x >= y
  OBVIOUS
<1>2. Max({i, j}) \in {i, j} /\ \A y \in {i, j} : Max({i, j}) >= y
  BY <1>1 DEF Max
<1> QED
  BY <1>2

LEMMA ExcessIs ==
  ASSUME NEW i \in Nat, NEW j \in Nat
  PROVE  Excess(i, j) = (IF i >= j THEN i - j ELSE 0) /\ Excess(i, j) \in Nat
<1>1. Excess(i, j) = IF i - j >= 0 THEN i - j ELSE 0
  BY MaxIs DEF Excess
<1> QED
  BY <1>1

LEMMA CloserIs ==
  ASSUME NEW t \in Recovery
  PROVE  /\ Closer(t) \in Recovery
         /\ t > 1 => Closer(t) = t - 1
         /\ t <= 1 => Closer(t) <= 0
         /\ Closer(t) <= t \/ t <= 0
<1>1. NoMark \in Int /\ Window \in Nat /\ NoMark < 0 /\ Window > 0 /\ t \in Int /\ NoMark <= t /\ t <= Window
  BY ClockTyped DEF Recovery, NoMark
<1>2. Max({t - 1, NoMark + 1}) = IF t - 1 >= NoMark + 1 THEN t - 1 ELSE NoMark + 1
  BY <1>1, MaxIs
<1> QED
  BY <1>1, <1>2 DEF Closer, Recovery

-----------------------------------------------------------------------------
(* The operations on one registration. *)

LEMMA RegistrationIs ==
  ASSUME NEW reg \in Registration
  PROVE  /\ reg.count \in Nat /\ reg.providers \in [Provider -> Nat]
         /\ reg.infoBy \in SUBSET Provider /\ reg.quota \in [Client -> Recovery]
         /\ reg.suspended \in [Client -> Reasons \cup {NotSuspended}]
  BY DEF Registration

LEMMA NoRegistrationType ==
  NoRegistration \in Registration
<1>1. NoMark \in Recovery
  BY ClockTyped DEF Recovery, NoMark
<1> QED
  BY <1>1 DEF NoRegistration, Registration

LEMMA LeaveIs ==
  ASSUME NEW reg \in Registration, NEW p \in Provider, NEW k \in Nat
  PROVE  /\ Leave(reg, p, k) \in Registration
         /\ Leave(reg, p, k).count = reg.count
         /\ Leave(reg, p, k).providers = [reg.providers EXCEPT ![p] = Excess(@, k)]
         /\ Leave(reg, p, k).infoBy = IF reg.providers[p] <= k THEN reg.infoBy \ {p} ELSE reg.infoBy
<1> DEFINE provs == [reg.providers EXCEPT ![p] = Excess(@, k)]
           info == IF reg.providers[p] <= k THEN reg.infoBy \ {p} ELSE reg.infoBy
<1>1. reg.providers[p] \in Nat /\ Excess(reg.providers[p], k) \in Nat
  BY RegistrationIs, ExcessIs
<1>2. provs \in [Provider -> Nat] /\ info \in SUBSET Provider
  BY <1>1, RegistrationIs
<1>3. Leave(reg, p, k) = [[reg EXCEPT !.providers = provs] EXCEPT !.infoBy = info]
  BY ProviderTyped DEF Leave, Registration
<1> HIDE DEF provs, info
<1>4. [reg EXCEPT !.providers = provs] \in Registration
  BY <1>2 DEF Registration
<1>5. Leave(reg, p, k) \in Registration /\ Leave(reg, p, k).infoBy = info
  BY <1>2, <1>3, <1>4 DEF Registration
<1>6. /\ Leave(reg, p, k).count = [reg EXCEPT !.providers = provs].count
      /\ Leave(reg, p, k).providers = [reg EXCEPT !.providers = provs].providers
  BY <1>3, <1>4 DEF Registration
<1>7. /\ [reg EXCEPT !.providers = provs].count = reg.count
      /\ [reg EXCEPT !.providers = provs].providers = provs
  BY DEF Registration
<1> QED
  BY <1>5, <1>6, <1>7 DEF provs, info

LEMMA UnmarkedIs ==
  ASSUME NEW reg \in Registration, NEW c \in Client
  PROVE  /\ Unmarked(reg, c) \in Registration
         /\ Unmarked(reg, c).count = reg.count
         /\ Unmarked(reg, c).providers = reg.providers
         /\ Unmarked(reg, c).infoBy = reg.infoBy
<1> DEFINE q == [reg.quota EXCEPT ![c] = NoMark]
           s == [reg.suspended EXCEPT ![c] = NotSuspended]
<1>1. q \in [Client -> Recovery] /\ s \in [Client -> Reasons \cup {NotSuspended}]
  BY RegistrationIs, ClockTyped DEF Recovery, NoMark
<1>2. Unmarked(reg, c) = [[reg EXCEPT !.quota = q] EXCEPT !.suspended = s]
  BY DEF Unmarked, Registration
<1> HIDE DEF q, s
<1>3. [reg EXCEPT !.quota = q] \in Registration
  BY <1>1 DEF Registration
<1>4. Unmarked(reg, c) \in Registration
  BY <1>1, <1>2, <1>3 DEF Registration
<1>5. /\ [reg EXCEPT !.quota = q].count = reg.count
      /\ [reg EXCEPT !.quota = q].providers = reg.providers
      /\ [reg EXCEPT !.quota = q].infoBy = reg.infoBy
  BY DEF Registration
<1>6. /\ Unmarked(reg, c).count = [reg EXCEPT !.quota = q].count
      /\ Unmarked(reg, c).providers = [reg EXCEPT !.quota = q].providers
      /\ Unmarked(reg, c).infoBy = [reg EXCEPT !.quota = q].infoBy
  BY <1>2, <1>3 DEF Registration
<1> QED
  BY <1>4, <1>5, <1>6

LEMMA AddIs ==
  ASSUME NEW reg \in Registration, NEW p \in Provider, NEW k \in Nat
  PROVE  /\ Add(reg, p, k) \in Registration
         /\ Add(reg, p, k).count = reg.count + k
         /\ Add(reg, p, k).providers = [reg.providers EXCEPT ![p] = @ + k]
         /\ Add(reg, p, k).infoBy = IF k = 0 THEN reg.infoBy ELSE reg.infoBy \cup {p}
<1>1. CASE k = 0
  <2>1. Add(reg, p, k) = reg
    BY <1>1 DEF Add
  <2>2. reg.count \in Nat /\ reg.providers \in [Provider -> Nat]
    BY RegistrationIs
  <2>3. reg.providers = [reg.providers EXCEPT ![p] = @ + k]
    BY <1>1, <2>2
  <2> QED
    BY <1>1, <2>1, <2>2, <2>3
<1>2. CASE k # 0
  <2> DEFINE provs == [reg.providers EXCEPT ![p] = @ + k]
             info == reg.infoBy \cup {p}
             n == reg.count + k
  <2>1. provs \in [Provider -> Nat] /\ info \in SUBSET Provider /\ n \in Nat
    BY RegistrationIs
  <2>2. Add(reg, p, k) = [[[reg EXCEPT !.count = n] EXCEPT !.providers = provs] EXCEPT !.infoBy = info]
    BY <1>2, ProviderTyped DEF Add, Registration
  <2> HIDE DEF provs, info, n
  <2> DEFINE r == [reg EXCEPT !.count = n]
             t == [r EXCEPT !.providers = provs]
  <2>3. r \in Registration /\ r.count = n /\ r.infoBy = reg.infoBy
    BY <2>1 DEF Registration
  <2> HIDE DEF r
  <2>4. t \in Registration /\ t.count = r.count /\ t.providers = provs
    BY <2>1, <2>3 DEF Registration
  <2>5. Add(reg, p, k) = [t EXCEPT !.infoBy = info]
    BY <2>2 DEF r
  <2> HIDE DEF t
  <2>6. /\ Add(reg, p, k) \in Registration /\ Add(reg, p, k).infoBy = info
        /\ Add(reg, p, k).count = t.count /\ Add(reg, p, k).providers = t.providers
    BY <2>1, <2>4, <2>5 DEF Registration
  <2> QED
    BY <1>2, <2>3, <2>4, <2>6 DEF provs, info, n
<1> QED
  BY <1>1, <1>2

(* With no provider only the count changes. *)
LEMMA AddForNoProvider ==
  ASSUME NEW reg \in Registration, NEW k \in Nat
  PROVE  /\ Add(reg, NoProvider, k) \in Registration
         /\ Add(reg, NoProvider, k).count = reg.count + k
         /\ Add(reg, NoProvider, k).providers = reg.providers
         /\ Add(reg, NoProvider, k).infoBy = reg.infoBy
<1>1. reg.count \in Nat
  BY RegistrationIs
<1>2. CASE k = 0
  BY <1>1, <1>2 DEF Add
<1>3. CASE k # 0
  <2>1. Add(reg, NoProvider, k) = [reg EXCEPT !.count = reg.count + k]
    BY <1>3 DEF Add, Registration
  <2> QED
    BY <1>1, <2>1 DEF Registration
<1> QED
  BY <1>2, <1>3

(* A provider has information exactly when it counts someone.               *)
Informed(reg) == reg.infoBy = {p \in Provider : reg.providers[p] > 0}

(* k of what reg counts is client was's.                                    *)
Holding(reg, was, k) ==
  /\ k <= reg.count
  /\ was \in Provider => k <= reg.providers[was]
  /\ \A q \in Provider :
       IF q = was THEN reg.providers[q] <= reg.count ELSE reg.providers[q] + k <= reg.count

Less(reg, q, was, k) == IF q = was THEN reg.providers[q] - k ELSE reg.providers[q]

LEMMA LeaveCounts ==
  ASSUME NEW reg \in Registration, Informed(reg), NEW was \in Provider \cup {NoProvider},
         NEW k \in Nat, was \in Provider => k <= reg.providers[was]
  PROVE  /\ Leave(reg, was, k) \in Registration
         /\ Informed(Leave(reg, was, k))
         /\ Leave(reg, was, k).count = reg.count
         /\ \A q \in Provider : Leave(reg, was, k).providers[q] = Less(reg, q, was, k)
<1>1. CASE was = NoProvider
  BY <1>1, ProviderTyped DEF Leave, Less
<1>2. CASE was # NoProvider
  <2>1. was \in Provider
    BY <1>2
  <2> DEFINE new == Leave(reg, was, k)
  <2>2. /\ new \in Registration /\ new.count = reg.count
        /\ new.providers = [reg.providers EXCEPT ![was] = Excess(@, k)]
        /\ new.infoBy = IF reg.providers[was] <= k THEN reg.infoBy \ {was} ELSE reg.infoBy
    BY <2>1, LeaveIs
  <2> HIDE DEF new
  <2>3. reg.providers \in [Provider -> Nat]
    BY RegistrationIs
  <2>4. Excess(reg.providers[was], k) = reg.providers[was] - k
    BY <2>1, <2>3, ExcessIs
  <2>5. \A q \in Provider : new.providers[q] = Less(reg, q, was, k)
    BY <2>2, <2>3, <2>4 DEF Less
  <2>6. Informed(new)
    BY <2>1, <2>2, <2>3, <2>5 DEF Informed, Less
  <2> QED
    BY <2>2, <2>5, <2>6 DEF new
<1> QED
  BY <1>1, <1>2

LEMMA RemoveCounts ==
  ASSUME NEW reg \in Registration, Informed(reg), NEW c \in Client,
         NEW was \in Provider \cup {NoProvider}, NEW k \in Nat, Holding(reg, was, k)
  PROVE  /\ Remove(reg, c, was, k) \in Registration
         /\ Informed(Remove(reg, c, was, k))
         /\ Remove(reg, c, was, k).count = reg.count - k
         /\ \A q \in Provider : Remove(reg, c, was, k).providers[q] = Less(reg, q, was, k)
<1>1. reg.count \in Nat /\ reg.providers \in [Provider -> Nat]
  BY RegistrationIs
<1>2. CASE k = 0
  BY <1>1, <1>2 DEF Remove, Less
<1>3. CASE k # 0 /\ reg.count <= k
  <2>1. Remove(reg, c, was, k) = NoRegistration
    BY <1>3 DEF Remove
  <2>2. /\ NoRegistration.count = 0 /\ NoRegistration.infoBy = {}
        /\ \A q \in Provider : NoRegistration.providers[q] = 0
    BY DEF NoRegistration
  <2>3. reg.count = k
    BY <1>1, <1>3 DEF Holding
  <2>4. ASSUME NEW q \in Provider PROVE Less(reg, q, was, k) = 0
    <3>1. reg.providers[q] \in Nat
      BY <1>1
    <3> QED
      BY <2>3, <3>1 DEF Holding, Less
  <2> HIDE DEF NoRegistration
  <2>5. Informed(NoRegistration)
    BY <2>2 DEF Informed
  <2> QED
    BY <1>1, <2>1, <2>2, <2>3, <2>4, <2>5, NoRegistrationType
<1>4. CASE k # 0 /\ ~(reg.count <= k)
  <2> DEFINE left == Leave(reg, was, k)
             fewer == [left EXCEPT !.count = left.count - k]
  <2>1. /\ left \in Registration /\ Informed(left) /\ left.count = reg.count
        /\ \A q \in Provider : left.providers[q] = Less(reg, q, was, k)
    BY LeaveCounts DEF Holding
  <2>2. Remove(reg, c, was, k) = Unmarked([left EXCEPT !.count = @ - k], c)
    BY <1>4 DEF Remove
  <2> HIDE DEF left
  <2>3. [left EXCEPT !.count = @ - k] = fewer
    BY <2>1 DEF Registration
  <2>4. left.count - k \in Nat
    BY <1>1, <1>4, <2>1
  <2>5. /\ fewer \in Registration /\ fewer.count = left.count - k
        /\ fewer.providers = left.providers /\ fewer.infoBy = left.infoBy
    BY <2>1, <2>4 DEF Registration
  <2> HIDE DEF fewer
  <2>6. /\ Unmarked(fewer, c) \in Registration /\ Unmarked(fewer, c).count = fewer.count
        /\ Unmarked(fewer, c).providers = fewer.providers
        /\ Unmarked(fewer, c).infoBy = fewer.infoBy
    BY <2>5, UnmarkedIs
  <2>7. Remove(reg, c, was, k) = Unmarked(fewer, c)
    BY <2>2, <2>3
  <2> QED
    BY <2>1, <2>5, <2>6, <2>7 DEF Informed
<1> QED
  BY <1>2, <1>3, <1>4

More(reg, q, p, k) == IF q = p THEN reg.providers[q] + k ELSE reg.providers[q]

LEMMA AddCounts ==
  ASSUME NEW reg \in Registration, Informed(reg), NEW p \in Provider \cup {NoProvider}, NEW k \in Nat
  PROVE  /\ Add(reg, p, k) \in Registration
         /\ Informed(Add(reg, p, k))
         /\ Add(reg, p, k).count = reg.count + k
         /\ \A q \in Provider : Add(reg, p, k).providers[q] = More(reg, q, p, k)
<1> DEFINE new == Add(reg, p, k)
<1>1. reg.count \in Nat /\ reg.providers \in [Provider -> Nat]
  BY RegistrationIs
<1>2. CASE p = NoProvider
  <2>1. /\ new \in Registration /\ new.count = reg.count + k
        /\ new.providers = reg.providers /\ new.infoBy = reg.infoBy
    BY <1>2, AddForNoProvider
  <2> HIDE DEF new
  <2>2. \A q \in Provider : new.providers[q] = More(reg, q, p, k)
    BY <1>2, <2>1, ProviderTyped DEF More
  <2> QED
    BY <2>1, <2>2 DEF Informed, new
<1>3. CASE p # NoProvider
  <2>1. /\ new \in Registration /\ new.count = reg.count + k
        /\ new.providers = [reg.providers EXCEPT ![p] = @ + k]
        /\ new.infoBy = IF k = 0 THEN reg.infoBy ELSE reg.infoBy \cup {p}
    <3>1. p \in Provider
      BY <1>3
    <3> QED
      BY <3>1, AddIs
  <2> HIDE DEF new
  <2>2. \A q \in Provider : new.providers[q] = More(reg, q, p, k)
    BY <1>1, <2>1 DEF More
  <2>3. Informed(new)
    BY <1>1, <1>3, <2>1, <2>2 DEF Informed, More
  <2> QED
    BY <2>1, <2>2, <2>3 DEF new
<1> QED
  BY <1>2, <1>3

Moved(reg, q, was, old, p, new) ==
  reg.providers[q] - (IF q = was THEN old ELSE 0) + (IF q = p THEN new ELSE 0)

LEMMA RebindCounts ==
  ASSUME NEW reg \in Registration, Informed(reg), NEW c \in Client,
         NEW was \in Provider \cup {NoProvider}, NEW p \in Provider \cup {NoProvider},
         NEW old \in Nat, NEW new \in Nat, Holding(reg, was, old)
  PROVE  /\ Rebind(reg, c, old, new, was, p) \in Registration
         /\ Informed(Rebind(reg, c, old, new, was, p))
         /\ Rebind(reg, c, old, new, was, p).count = reg.count - old + new
         /\ \A q \in Provider :
              Rebind(reg, c, old, new, was, p).providers[q] = Moved(reg, q, was, old, p, new)
<1> DEFINE kept == LesserOf(old, new)
           moves == was # p /\ kept > 0
           gone == Excess(old, new)
           came == Excess(new, old)
           left == IF moves THEN Leave(reg, was, kept) ELSE reg
           rest == Remove(left, c, was, gone)
           counted == Add(rest, p, came)
           free == Unmarked(counted, c)
           info == free.infoBy \cup {p}
           provs == [free.providers EXCEPT ![p] = IF moves THEN @ + kept ELSE @]
<1>1. reg.count \in Nat /\ reg.providers \in [Provider -> Nat]
  BY RegistrationIs
<1>2. /\ kept = (IF old <= new THEN old ELSE new)
      /\ gone = (IF old >= new THEN old - new ELSE 0)
      /\ came = (IF new >= old THEN new - old ELSE 0)
  BY LesserOfIs, ExcessIs
<1> HIDE DEF kept, gone, came
<1>3. /\ kept \in Nat /\ gone \in Nat /\ came \in Nat
      /\ kept + gone = old /\ kept + came = new
  BY <1>2
<1>4. /\ left \in Registration /\ Informed(left) /\ left.count = reg.count
      /\ \A q \in Provider : left.providers[q] = IF moves THEN Less(reg, q, was, kept) ELSE reg.providers[q]
  <2>1. was \in Provider => kept <= reg.providers[was]
    BY <1>1, <1>3 DEF Holding
  <2>2. CASE moves
    BY <1>3, <2>1, <2>2, LeaveCounts
  <2>3. CASE ~moves
    BY <1>1, <2>3
  <2> QED
    BY <2>2, <2>3
<1>5. Rebind(reg, c, old, new, was, p) =
        IF new = 0 THEN counted
        ELSE IF p = NoProvider THEN free
        ELSE [free EXCEPT !.infoBy = @ \cup {p}, !.providers[p] = IF moves THEN @ + kept ELSE @]
  BY DEF Rebind, kept, gone, came
<1> HIDE DEF left
<1>6. Holding(left, was, gone)
  <2>1. gone <= left.count
    BY <1>1, <1>3, <1>4 DEF Holding
  <2>2. was \in Provider => gone <= left.providers[was]
    BY <1>1, <1>3, <1>4 DEF Holding, Less
  <2>3. ASSUME NEW q \in Provider
        PROVE  IF q = was THEN left.providers[q] <= left.count ELSE left.providers[q] + gone <= left.count
    <3>1. reg.providers[q] \in Nat
      BY <1>1
    <3>2. CASE q = was
      BY <1>1, <1>3, <1>4, <3>1, <3>2 DEF Holding, Less
    <3>3. CASE q # was
      BY <1>1, <1>3, <1>4, <3>1, <3>3 DEF Holding, Less
    <3> QED
      BY <3>2, <3>3
  <2> QED
    BY <2>1, <2>2, <2>3 DEF Holding
<1>7. /\ rest \in Registration /\ Informed(rest) /\ rest.count = left.count - gone
      /\ \A q \in Provider : rest.providers[q] = Less(left, q, was, gone)
  BY <1>3, <1>4, <1>6, RemoveCounts
<1> HIDE DEF rest
<1>8. /\ counted \in Registration /\ Informed(counted) /\ counted.count = rest.count + came
      /\ \A q \in Provider : counted.providers[q] = More(rest, q, p, came)
  BY <1>3, <1>7, AddCounts
<1> HIDE DEF counted
<1>9. /\ free \in Registration /\ free.count = counted.count
      /\ free.providers = counted.providers /\ free.infoBy = counted.infoBy
  BY <1>8, UnmarkedIs
<1> HIDE DEF free
<1>10. counted.count = reg.count - old + new
  BY <1>1, <1>3, <1>4, <1>7, <1>8
<1>11. ASSUME NEW q \in Provider
       PROVE  counted.providers[q] = Moved(reg, q, was, old, p, new)
                                       - (IF moves /\ q = p THEN kept ELSE 0)
                                       + (IF ~moves /\ q = was /\ q # p THEN kept ELSE 0)
                                       - (IF ~moves /\ q = p /\ q # was THEN kept ELSE 0)
  <2>1. PICK n \in Nat : n = reg.providers[q]
    BY <1>1
  <2>2. left.providers[q] = IF moves /\ q = was THEN n - kept ELSE n
    BY <1>4, <2>1 DEF Less
  <2>3. rest.providers[q] = IF q = was THEN left.providers[q] - gone ELSE left.providers[q]
    BY <1>7 DEF Less
  <2>4. counted.providers[q] = IF q = p THEN rest.providers[q] + came ELSE rest.providers[q]
    BY <1>8 DEF More
  <2>5. Moved(reg, q, was, old, p, new) = n - (IF q = was THEN old ELSE 0) + (IF q = p THEN new ELSE 0)
    BY <2>1 DEF Moved
  <2>6. CASE q = was /\ q = p
    BY <1>3, <2>1, <2>2, <2>3, <2>4, <2>5, <2>6
  <2>7. CASE q = was /\ q # p
    BY <1>3, <2>1, <2>2, <2>3, <2>4, <2>5, <2>7
  <2>8. CASE q # was /\ q = p
    BY <1>3, <2>1, <2>2, <2>3, <2>4, <2>5, <2>8
  <2>9. CASE q # was /\ q # p
    BY <1>3, <2>1, <2>2, <2>3, <2>4, <2>5, <2>9
  <2> QED
    BY <2>6, <2>7, <2>8, <2>9
<1>12. \A q \in Provider : Moved(reg, q, was, old, p, new) \in Int
  BY <1>1 DEF Moved
<1>13. ~moves => was = p \/ kept = 0
  BY <1>3
<1>14. CASE new = 0
  <2>1. kept = 0
    BY <1>3, <1>14
  <2>2. \A q \in Provider : counted.providers[q] = Moved(reg, q, was, old, p, new)
    BY <1>11, <1>12, <2>1
  <2> QED
    BY <1>5, <1>8, <1>10, <1>14, <2>2
<1>15. CASE new # 0 /\ p = NoProvider
  <2>1. \A q \in Provider : counted.providers[q] = Moved(reg, q, was, old, p, new)
    BY <1>3, <1>11, <1>12, <1>13, <1>15, ProviderTyped
  <2> QED
    BY <1>5, <1>8, <1>9, <1>10, <1>15, <2>1 DEF Informed
<1>16. CASE new # 0 /\ p # NoProvider
  <2>1. p \in Provider
    BY <1>16
  <2>2. free.providers \in [Provider -> Nat] /\ free.infoBy \in SUBSET Provider
    BY <1>9, RegistrationIs
  <2>3. provs \in [Provider -> Nat] /\ info \in SUBSET Provider
    BY <1>3, <2>1, <2>2
  <2>4. Rebind(reg, c, old, new, was, p) = [[free EXCEPT !.infoBy = info] EXCEPT !.providers = provs]
    BY <1>5, <1>9, <1>16 DEF Registration
  <2>5. \A q \in Provider : provs[q] = Moved(reg, q, was, old, p, new)
    <3> TAKE q \in Provider
    <3>1. provs[q] = IF q = p /\ moves THEN counted.providers[q] + kept ELSE counted.providers[q]
      BY <1>9, <2>1, <2>2
    <3> HIDE DEF provs
    <3>2. Moved(reg, q, was, old, p, new) \in Int
      BY <1>12
    <3> QED
      BY <1>3, <1>11, <1>13, <3>1, <3>2
  <2>6. provs[p] > 0
    <3>1. reg.providers[p] \in Nat
      BY <1>1, <2>1
    <3> QED
      BY <2>1, <2>5, <1>16, <3>1 DEF Moved, Holding
  <2>7. info = {q \in Provider : provs[q] > 0}
    <3>1. \A q \in Provider : q # p => provs[q] = counted.providers[q]
      BY <1>9, <2>2
    <3>2. free.infoBy = {q \in Provider : counted.providers[q] > 0}
      BY <1>8, <1>9 DEF Informed
    <3> HIDE DEF provs
    <3> QED
      BY <2>1, <2>6, <3>1, <3>2
  <2> HIDE DEF provs, info
  <2> DEFINE told == [free EXCEPT !.infoBy = info]
  <2>8. told \in Registration /\ told.infoBy = info /\ told.count = free.count
    BY <1>9, <2>3 DEF Registration
  <2>9. Rebind(reg, c, old, new, was, p) = [told EXCEPT !.providers = provs]
    BY <2>4
  <2> HIDE DEF told
  <2>10. /\ Rebind(reg, c, old, new, was, p) \in Registration
         /\ Rebind(reg, c, old, new, was, p).providers = provs
         /\ Rebind(reg, c, old, new, was, p).count = told.count
         /\ Rebind(reg, c, old, new, was, p).infoBy = told.infoBy
    BY <2>3, <2>8, <2>9 DEF Registration
  <2> QED
    BY <1>9, <1>10, <2>5, <2>7, <2>8, <2>10 DEF Informed
<1> QED
  BY <1>14, <1>15, <1>16

-----------------------------------------------------------------------------
(* The sums of one model's registration while one client changes its list.  *)

LEMMA SumChange ==
  ASSUME NEW f, NEW S, IsFiniteSet(S), \A x \in S : f[x] \in Nat,
         NEW e, NEW T, IsFiniteSet(T), \A x \in T : e[x] \in Nat,
         NEW c, S \ {c} = T \ {c}, \A x \in S \ {c} : f[x] = e[x]
  PROVE  SumFunctionOnSet(e, T) = SumFunctionOnSet(f, S) - (IF c \in S THEN f[c] ELSE 0)
                                                         + (IF c \in T THEN e[c] ELSE 0)
<1>1. IsFiniteSet(S \ {c}) /\ (\A x \in S \ {c} : f[x] \in Nat)
  BY FS_Subset
<1>2. PICK rest \in Nat : rest = SumFunctionOnSet(f, S \ {c})
  BY <1>1, SumType
<1>3. SumFunctionOnSet(e, T \ {c}) = rest
  <2>1. SumFunctionOnSet(f, S \ {c}) = SumFunctionOnSet(e, S \ {c})
    BY <1>1, SumCongruence
  <2> QED
    BY <1>2, <2>1
<1>4. SumFunctionOnSet(f, S) = (IF c \in S THEN f[c] ELSE 0) + rest
  <2>1. CASE c \in S
    BY <1>2, <2>1, SumSplit
  <2>2. CASE c \notin S
    <3>1. S \ {c} = S
      BY <2>2
    <3> QED
      BY <1>2, <2>2, <3>1
  <2> QED
    BY <2>1, <2>2
<1>5. SumFunctionOnSet(e, T) = (IF c \in T THEN e[c] ELSE 0) + rest
  <2>1. CASE c \in T
    <3>1. SumFunctionOnSet(e, T) = e[c] + SumFunctionOnSet(e, T \ {c})
      BY <2>1, SumSplit
    <3> QED
      BY <1>3, <2>1, <3>1
  <2>2. CASE c \notin T
    <3>1. T \ {c} = T
      BY <2>2
    <3> QED
      BY <1>3, <2>2, <3>1
  <2> QED
    BY <2>1, <2>2
<1>6. (c \in S => f[c] \in Nat) /\ (c \in T => e[c] \in Nat)
  OBVIOUS
<1> QED
  BY <1>4, <1>5, <1>6

LEMMA ListsTyped ==
  ASSUME TypeOK, NEW c \in Client
  PROVE  clientModels[c] \in [Model -> Nat] /\ clientProviders[c] \in Provider \cup {NoProvider}
<1>1. NoModels \in [Model -> Nat]
  BY DEF NoModels
<1> QED
  BY <1>1, OffersTyped DEF TypeOK

Listing(m, C) == [c \in C |-> clientModels[c][m]]

LEMMA ListingTyped ==
  ASSUME TypeOK, NEW m \in Model, NEW C \in SUBSET Client
  PROVE  /\ IsFiniteSet(C)
         /\ \A c \in C : Listing(m, C)[c] = clientModels[c][m] /\ clientModels[c][m] \in Nat
         /\ Total(m, C) = SumFunctionOnSet(Listing(m, C), C)
         /\ Total(m, C) \in Nat
<1>1. IsFiniteSet(C)
  BY ClientFinite, FS_Subset
<1>2. \A c \in C : Listing(m, C)[c] = clientModels[c][m] /\ clientModels[c][m] \in Nat
  <2> TAKE c \in C
  <2>1. clientModels[c] \in [Model -> Nat]
    BY ListsTyped
  <2> QED
    BY <2>1 DEF Listing
<1>3. Total(m, C) = SumFunctionOnSet(Listing(m, C), C)
  BY DEF Total, Listing
<1>4. Total(m, C) \in Nat
  <2>1. \A c \in C : Listing(m, C)[c] \in Nat
    BY <1>2
  <2> QED
    BY <1>1, <1>3, <2>1, SumType
<1> QED
  BY <1>1, <1>2, <1>3, <1>4

LEMMA TotalMonotonic ==
  ASSUME TypeOK, NEW m \in Model, NEW C \in SUBSET Client, NEW D \in SUBSET C
  PROVE  Total(m, D) <= Total(m, C)
<1>1. D \in SUBSET Client
  OBVIOUS
<1>2. /\ IsFiniteSet(C) /\ IsFiniteSet(D)
      /\ \A c \in C : Listing(m, C)[c] = clientModels[c][m] /\ clientModels[c][m] \in Nat
      /\ Total(m, C) = SumFunctionOnSet(Listing(m, C), C)
      /\ \A c \in D : Listing(m, D)[c] = clientModels[c][m]
      /\ Total(m, D) = SumFunctionOnSet(Listing(m, D), D)
  BY <1>1, ListingTyped
<1>3. SumFunctionOnSet(Listing(m, D), D) = SumFunctionOnSet(Listing(m, C), D)
  <2>1. \A c \in D : Listing(m, D)[c] = Listing(m, C)[c]
    BY <1>2
  <2> QED
    BY <1>2, <2>1, SumCongruence
<1>4. SumFunctionOnSet(Listing(m, C), D) <= SumFunctionOnSet(Listing(m, C), C)
  <2>1. \A c \in C : Listing(m, C)[c] \in Nat
    BY <1>2
  <2> QED
    BY <1>2, <2>1, SumMonotonic
<1> QED
  BY <1>2, <1>3, <1>4

(* A client outside C adds its own to what those in C count. *)
LEMMA TotalWithOneMore ==
  ASSUME TypeOK, NEW m \in Model, NEW C \in SUBSET Client, NEW c \in Client \ C
  PROVE  Total(m, C) + clientModels[c][m] <= Total(m, Client)
<1> DEFINE D == C \cup {c}
<1>1. D \in SUBSET Client /\ Client \in SUBSET Client
  OBVIOUS
<1>2. Total(m, D) <= Total(m, Client)
  BY <1>1, TotalMonotonic
<1>3. /\ IsFiniteSet(C) /\ IsFiniteSet(D)
      /\ \A d \in D : Listing(m, D)[d] = clientModels[d][m] /\ clientModels[d][m] \in Nat
      /\ Total(m, D) = SumFunctionOnSet(Listing(m, D), D)
      /\ \A d \in C : Listing(m, C)[d] = clientModels[d][m]
      /\ Total(m, C) = SumFunctionOnSet(Listing(m, C), C)
      /\ Total(m, C) \in Nat /\ Total(m, D) \in Nat /\ Total(m, Client) \in Nat
  <2> HIDE DEF D
  <2> QED
    BY <1>1, ListingTyped
<1>4. SumFunctionOnSet(Listing(m, D), D) = Listing(m, D)[c] + SumFunctionOnSet(Listing(m, D), D \ {c})
  <2>1. c \in D /\ \A d \in D : Listing(m, D)[d] \in Nat
    BY <1>3
  <2> HIDE DEF D
  <2> QED
    BY <1>3, <2>1, SumSplit
<1>5. D \ {c} = C
  OBVIOUS
<1>6. SumFunctionOnSet(Listing(m, D), C) = SumFunctionOnSet(Listing(m, C), C)
  <2>1. \A d \in C : Listing(m, D)[d] = Listing(m, C)[d]
    BY <1>3
  <2> QED
    BY <1>3, <2>1, SumCongruence
<1>7. Total(m, D) = clientModels[c][m] + Total(m, C) /\ clientModels[c][m] \in Nat
  <2>1. c \in D
    OBVIOUS
  <2>2. Listing(m, D)[c] = clientModels[c][m] /\ clientModels[c][m] \in Nat
    BY <1>3, <2>1
  <2> HIDE DEF D
  <2> QED
    BY <1>3, <1>4, <1>5, <1>6, <2>2
<1> HIDE DEF D
<1> QED
  BY <1>2, <1>3, <1>7

LEMMA ClientHoldsItsList ==
  ASSUME TypeOK, CountsAgree, NEW m \in Model, NEW c \in Client
  PROVE  Informed(models[m]) /\ Holding(models[m], clientProviders[c], clientModels[c][m])
<1> DEFINE reg == models[m]
           k == clientModels[c][m]
           was == clientProviders[c]
<1>1. /\ reg.count = Total(m, Client)
      /\ \A q \in Provider : reg.providers[q] = Total(m, ClientsOf(q))
      /\ Informed(reg)
  BY DEF CountsAgree, Informed
<1>2. {c} \in SUBSET Client /\ \A q \in Provider : ClientsOf(q) \in SUBSET Client
  BY DEF ClientsOf
<1>3. k \in Nat /\ Total(m, {}) + k <= Total(m, Client)
  <2>1. {} \in SUBSET Client /\ c \in Client \ {}
    OBVIOUS
  <2>2. k \in Nat
    BY ListsTyped
  <2> QED
    BY <2>1, <2>2, TotalWithOneMore
<1>4. Total(m, {}) \in Nat /\ Total(m, Client) \in Nat /\ \A q \in Provider : Total(m, ClientsOf(q)) \in Nat
  BY <1>2, ListingTyped
<1>5. ASSUME was \in Provider
      PROVE  k <= Total(m, ClientsOf(was))
  <2>1. c \in ClientsOf(was) /\ ClientsOf(was) \in SUBSET Client
    BY <1>5 DEF ClientsOf
  <2> DEFINE D == ClientsOf(was)
             f == Listing(m, D)
  <2>2. /\ IsFiniteSet(D) /\ Total(m, D) = SumFunctionOnSet(f, D)
        /\ \A d \in D : f[d] = clientModels[d][m] /\ clientModels[d][m] \in Nat
    BY <2>1, ListingTyped
  <2>3. IsFiniteSet(D \ {c}) /\ (\A d \in D : f[d] \in Nat) /\ f[c] = k /\ c \in D
    BY <2>1, <2>2, FS_Subset
  <2> HIDE DEF D, f, k
  <2>4. SumFunctionOnSet(f, D) = f[c] + SumFunctionOnSet(f, D \ {c})
    BY <2>2, <2>3, SumSplit
  <2>5. SumFunctionOnSet(f, D \ {c}) \in Nat
    <3>1. \A d \in D \ {c} : f[d] \in Nat
      BY <2>3
    <3> QED
      BY <2>3, <3>1, SumType
  <2>6. k <= Total(m, D)
    BY <1>3, <2>2, <2>3, <2>4, <2>5
  <2> QED
    BY <2>6 DEF D
<1>6. ASSUME NEW q \in Provider
      PROVE  IF q = was THEN reg.providers[q] <= reg.count ELSE reg.providers[q] + k <= reg.count
  <2>1. CASE q = was
    <3>1. Client \in SUBSET Client /\ ClientsOf(q) \in SUBSET Client
      BY <1>2
    <3>2. Total(m, ClientsOf(q)) <= Total(m, Client)
      BY <3>1, TotalMonotonic
    <3> QED
      BY <1>1, <2>1, <3>2
  <2>2. CASE q # was
    <3>1. c \in Client \ ClientsOf(q) /\ ClientsOf(q) \in SUBSET Client
      BY <2>2 DEF ClientsOf
    <3>2. Total(m, ClientsOf(q)) + k <= Total(m, Client)
      BY <3>1, TotalWithOneMore
    <3> QED
      BY <1>1, <2>2, <3>2
  <2> QED
    BY <2>1, <2>2
<1>7. k <= reg.count
  BY <1>1, <1>3, <1>4
<1>8. was \in Provider => k <= reg.providers[was]
  BY <1>1, <1>5
<1> HIDE DEF k, was, reg
<1>9. Holding(reg, was, k)
  BY <1>6, <1>7, <1>8 DEF Holding
<1> QED
  BY <1>1, <1>9 DEF k, was, reg

-----------------------------------------------------------------------------
(* A step in which one client's list changes. *)

ListChanges(c, p, offer) ==
  /\ clientModels' = [clientModels EXCEPT ![c] = offer]
  /\ clientProviders' = [clientProviders EXCEPT ![c] = p]
  /\ \A m \in Model :
       /\ models'[m] \in Registration
       /\ Informed(models'[m])
       /\ models'[m].count = models[m].count - clientModels[c][m] + offer[m]
       /\ \A q \in Provider :
            models'[m].providers[q] =
              Moved(models[m], q, clientProviders[c], clientModels[c][m], p, offer[m])

LEMMA CountsFollow ==
  ASSUME TypeOK, CountsAgree, NEW c \in Client, NEW p \in Provider \cup {NoProvider},
         NEW offer \in [Model -> Nat], ListChanges(c, p, offer)
  PROVE  CountsAgree'
<1> SUFFICES ASSUME NEW m \in Model
             PROVE  /\ models'[m].count = Total(m, Client)'
                    /\ \A q \in Provider : models'[m].providers[q] = Total(m, ClientsOf(q))'
                    /\ models'[m].infoBy = {q \in Provider : models'[m].providers[q] > 0}
  BY DEF CountsAgree
<1> DEFINE Old(C) == [d \in C |-> clientModels[d][m]]
           New(C) == [d \in C |-> clientModels'[d][m]]
<1>1. \A d \in Client : clientModels[d][m] \in Nat /\ clientModels'[d][m] \in Nat
  <2> TAKE d \in Client
  <2>1. clientModels[d][m] \in Nat
    BY ListsTyped
  <2>2. clientModels \in [Client -> Offers \cup {NoModels}]
    BY DEF TypeOK
  <2> QED
    BY <2>1, <2>2 DEF ListChanges
<1>2. \A d \in Client : d # c => clientModels'[d] = clientModels[d]
  BY DEF ListChanges, TypeOK
<1>3. clientModels'[c] = offer
  BY DEF ListChanges, TypeOK
<1>4. ASSUME NEW C \in SUBSET Client, NEW D \in SUBSET Client, C \ {c} = D \ {c}
      PROVE  SumFunctionOnSet(New(D), D)
               = SumFunctionOnSet(Old(C), C) - (IF c \in C THEN clientModels[c][m] ELSE 0)
                                             + (IF c \in D THEN offer[m] ELSE 0)
  <2>1. IsFiniteSet(C) /\ IsFiniteSet(D)
    BY ClientFinite, FS_Subset
  <2>2. /\ \A d \in C : Old(C)[d] = clientModels[d][m] /\ Old(C)[d] \in Nat
        /\ \A d \in D : New(D)[d] = clientModels'[d][m] /\ New(D)[d] \in Nat
    BY <1>1
  <2> HIDE DEF Old, New
  <2>3. \A d \in C \ {c} : Old(C)[d] = New(D)[d]
    BY <1>2, <1>4, <2>2
  <2>4. SumFunctionOnSet(New(D), D) = SumFunctionOnSet(Old(C), C) - (IF c \in C THEN Old(C)[c] ELSE 0)
                                                                  + (IF c \in D THEN New(D)[c] ELSE 0)
    BY <1>4, <2>1, <2>2, <2>3, SumChange
  <2>5. (IF c \in C THEN Old(C)[c] ELSE 0) = (IF c \in C THEN clientModels[c][m] ELSE 0)
    BY <2>2
  <2>6. (IF c \in D THEN New(D)[c] ELSE 0) = (IF c \in D THEN offer[m] ELSE 0)
    BY <1>3, <2>2
  <2> QED
    BY <2>4, <2>5, <2>6
<1>5. \A C \in SUBSET Client : Total(m, C) = SumFunctionOnSet(Old(C), C)
  BY DEF Total
<1>6. \A C \in SUBSET Client : Total(m, C)' = SumFunctionOnSet(New(C), C)
  BY DEF Total
<1> HIDE DEF Old, New
<1>7. models'[m].count = Total(m, Client)'
  <2>1. Client \in SUBSET Client
    OBVIOUS
  <2>2. SumFunctionOnSet(New(Client), Client)
          = SumFunctionOnSet(Old(Client), Client) - clientModels[c][m] + offer[m]
    BY <1>4, <2>1
  <2>3. models'[m].count = models[m].count - clientModels[c][m] + offer[m]
    BY DEF ListChanges
  <2>4. models[m].count = Total(m, Client)
    BY DEF CountsAgree
  <2>5. models[m].count = SumFunctionOnSet(Old(Client), Client)
    BY <1>5, <2>1, <2>4
  <2>6. models'[m].count = SumFunctionOnSet(New(Client), Client)
    BY <2>2, <2>3, <2>5
  <2> QED
    BY <1>6, <2>1, <2>6
<1>8. ASSUME NEW q \in Provider
      PROVE  models'[m].providers[q] = Total(m, ClientsOf(q))'
  <2> DEFINE C == ClientsOf(q)
             D == {d \in Client : clientProviders'[d] = q}
  <2>1. C \in SUBSET Client /\ D \in SUBSET Client
    BY DEF ClientsOf
  <2>2. \A d \in Client : d # c => clientProviders'[d] = clientProviders[d]
    BY DEF ListChanges, TypeOK
  <2>3. (c \in C <=> clientProviders[c] = q) /\ (c \in D <=> p = q)
    BY DEF ClientsOf, ListChanges, TypeOK
  <2>4. C \ {c} = D \ {c}
    BY <2>2 DEF ClientsOf
  <2>5. Total(m, ClientsOf(q))' = SumFunctionOnSet(New(D), D)
    <3>1. Total(m, ClientsOf(q))' = SumFunctionOnSet([d \in D |-> clientModels'[d][m]], D)
      BY DEF Total, ClientsOf
    <3> QED
      BY <3>1 DEF New
  <2> HIDE DEF C, D
  <2>6. SumFunctionOnSet(New(D), D)
          = SumFunctionOnSet(Old(C), C) - (IF c \in C THEN clientModels[c][m] ELSE 0)
                                        + (IF c \in D THEN offer[m] ELSE 0)
    BY <1>4, <2>1, <2>4
  <2>7. models[m].providers[q] = Total(m, C)
    BY DEF CountsAgree, C
  <2>8. models[m].providers[q] = SumFunctionOnSet(Old(C), C)
    BY <1>5, <2>1, <2>7
  <2>9. models'[m].providers[q] = models[m].providers[q]
           - (IF q = clientProviders[c] THEN clientModels[c][m] ELSE 0) + (IF q = p THEN offer[m] ELSE 0)
    BY DEF ListChanges, Moved
  <2>10. /\ (IF q = clientProviders[c] THEN clientModels[c][m] ELSE 0)
              = (IF c \in C THEN clientModels[c][m] ELSE 0)
         /\ (IF q = p THEN offer[m] ELSE 0) = (IF c \in D THEN offer[m] ELSE 0)
    BY <2>3
  <2>11. models'[m].providers[q] = SumFunctionOnSet(New(D), D)
    BY <2>6, <2>8, <2>9, <2>10
  <2> QED
    BY <2>5, <2>11
<1>9. models'[m].infoBy = {q \in Provider : models'[m].providers[q] > 0}
  BY DEF ListChanges, Informed
<1> QED
  BY <1>7, <1>8, <1>9

LEMMA UnregisterChanges ==
  ASSUME TypeOK, CountsAgree, NEW c \in Client, Unregister(c)
  PROVE  ListChanges(c, NoProvider, NoModels)
<1> SUFFICES ASSUME NEW m \in Model
             PROVE  /\ models'[m] \in Registration
                    /\ Informed(models'[m])
                    /\ models'[m].count = models[m].count - clientModels[c][m] + NoModels[m]
                    /\ \A q \in Provider : models'[m].providers[q] =
                         Moved(models[m], q, clientProviders[c], clientModels[c][m], NoProvider, NoModels[m])
  BY DEF Unregister, ListChanges
<1> DEFINE was == clientProviders[c]
           k == clientModels[c][m]
           reg == models[m]
<1>1. models'[m] = Remove(reg, c, was, k)
  BY DEF Unregister
<1>2. reg \in Registration /\ was \in Provider \cup {NoProvider} /\ k \in Nat
  BY ListsTyped DEF TypeOK
<1>3. Informed(reg) /\ Holding(reg, was, k)
  BY ClientHoldsItsList
<1> HIDE DEF was, k, reg
<1>4. /\ models'[m] \in Registration /\ Informed(models'[m]) /\ models'[m].count = reg.count - k
      /\ \A q \in Provider : models'[m].providers[q] = Less(reg, q, was, k)
  BY <1>1, <1>2, <1>3, RemoveCounts
<1>5. reg.count \in Nat /\ \A q \in Provider : reg.providers[q] \in Nat
  BY <1>2, RegistrationIs
<1>6. NoModels[m] = 0
  BY DEF NoModels
<1>7. \A q \in Provider : Less(reg, q, was, k) = Moved(reg, q, was, k, NoProvider, 0)
  BY <1>2, <1>5 DEF Less, Moved
<1>8. reg.count - k = reg.count - k + NoModels[m]
  BY <1>2, <1>5, <1>6
<1> QED
  BY <1>4, <1>6, <1>7, <1>8 DEF was, k, reg

(* RegisterClient with a list of models. *)
Lists(c, p, offer) ==
  /\ models' = [m \in Model |->
        IF Registered(c)
        THEN Rebind(models[m], c, clientModels[c][m], offer[m], clientProviders[c], p)
        ELSE Add(models[m], p, offer[m])]
  /\ clientModels' = [clientModels EXCEPT ![c] = offer]
  /\ clientProviders' = [clientProviders EXCEPT ![c] = p]

LEMMA RegisterChanges ==
  ASSUME TypeOK, CountsAgree, NEW c \in Client, NEW p \in Provider \cup {NoProvider},
         NEW offer \in [Model -> Nat],
         Lists(c, p, offer)
  PROVE  ListChanges(c, p, offer)
<1> SUFFICES ASSUME NEW m \in Model
             PROVE  /\ models'[m] \in Registration
                    /\ Informed(models'[m])
                    /\ models'[m].count = models[m].count - clientModels[c][m] + offer[m]
                    /\ \A q \in Provider : models'[m].providers[q] =
                         Moved(models[m], q, clientProviders[c], clientModels[c][m], p, offer[m])
  BY DEF ListChanges, Lists
<1> DEFINE was == clientProviders[c]
           k == clientModels[c][m]
           reg == models[m]
           n == offer[m]
<1>1. reg \in Registration /\ was \in Provider \cup {NoProvider} /\ k \in Nat /\ n \in Nat
  BY ListsTyped DEF TypeOK
<1>2. Informed(reg) /\ Holding(reg, was, k)
  BY ClientHoldsItsList
<1>3. reg.count \in Nat /\ \A q \in Provider : reg.providers[q] \in Nat
  BY <1>1, RegistrationIs
<1>4. CASE Registered(c)
  <2>1. models'[m] = Rebind(reg, c, k, n, was, p)
    BY <1>4 DEF Lists
  <2> HIDE DEF was, k, reg, n
  <2> QED
    <3>1. /\ Rebind(reg, c, k, n, was, p) \in Registration
          /\ Informed(Rebind(reg, c, k, n, was, p))
          /\ Rebind(reg, c, k, n, was, p).count = reg.count - k + n
          /\ \A q \in Provider :
               Rebind(reg, c, k, n, was, p).providers[q] = Moved(reg, q, was, k, p, n)
      BY <1>1, <1>2, RebindCounts
    <3> QED
      BY <2>1, <3>1 DEF was, k, reg, n
<1>5. CASE ~Registered(c)
  <2>1. models'[m] = Add(reg, p, n)
    BY <1>5 DEF Lists
  <2>2. k = 0
    BY <1>5 DEF Registered, NoModels
  <2> HIDE DEF was, k, reg, n
  <2>3. /\ models'[m] \in Registration /\ Informed(models'[m]) /\ models'[m].count = reg.count + n
        /\ \A q \in Provider : models'[m].providers[q] = More(reg, q, p, n)
    <3>1. /\ Add(reg, p, n) \in Registration /\ Informed(Add(reg, p, n))
          /\ Add(reg, p, n).count = reg.count + n
          /\ \A q \in Provider : Add(reg, p, n).providers[q] = More(reg, q, p, n)
      BY <1>1, <1>2, AddCounts
    <3> QED
      BY <2>1, <3>1
  <2>4. \A q \in Provider : More(reg, q, p, n) = Moved(reg, q, was, k, p, n)
    BY <1>1, <1>3, <2>2 DEF More, Moved
  <2>5. reg.count + n = reg.count - k + n
    BY <1>1, <1>3, <2>2
  <2> QED
    BY <2>3, <2>4, <2>5 DEF was, k, reg, n
<1> QED
  BY <1>4, <1>5

-----------------------------------------------------------------------------
(* A step in which only marks change. *)

OnlyMarks ==
  /\ UNCHANGED <<clientModels, clientProviders>>
  /\ models' \in [Model -> Registration]
  /\ \A m \in Model :
       /\ models'[m].count = models[m].count
       /\ models'[m].providers = models[m].providers
       /\ models'[m].infoBy = models[m].infoBy

LEMMA CountsStay ==
  ASSUME CountsAgree, OnlyMarks
  PROVE  CountsAgree'
<1>1. \A m \in Model, q \in Provider : Total(m, ClientsOf(q))' = Total(m, ClientsOf(q))
  BY DEF Total, ClientsOf, OnlyMarks
<1>2. \A m \in Model : Total(m, Client)' = Total(m, Client)
  BY DEF Total, OnlyMarks
<1> QED
  BY <1>1, <1>2 DEF CountsAgree, OnlyMarks

LEMMA QuotaIsAMark ==
  ASSUME TypeOK, NEW m \in Model, NEW c \in Client, NEW t \in Recovery,
         models' = [models EXCEPT ![m].quota[c] = t], UNCHANGED <<clientModels, clientProviders>>
  PROVE  OnlyMarks
<1> DEFINE q == [models[m].quota EXCEPT ![c] = t]
<1>1. models \in [Model -> Registration] /\ models[m] \in Registration
  BY DEF TypeOK
<1>2. q \in [Client -> Recovery]
  BY <1>1, RegistrationIs
<1>3. models' = [models EXCEPT ![m] = [models[m] EXCEPT !.quota = q]]
  BY <1>1
<1> HIDE DEF q
<1>4. [models[m] EXCEPT !.quota = q] \in Registration
  BY <1>1, <1>2 DEF Registration
<1>5. /\ [models[m] EXCEPT !.quota = q].count = models[m].count
      /\ [models[m] EXCEPT !.quota = q].providers = models[m].providers
      /\ [models[m] EXCEPT !.quota = q].infoBy = models[m].infoBy
  BY <1>1 DEF Registration
<1> QED
  BY <1>1, <1>3, <1>4, <1>5 DEF OnlyMarks

LEMMA SuspensionIsAMark ==
  ASSUME TypeOK, NEW m \in Model, NEW c \in Client, NEW r \in Reasons \cup {NotSuspended},
         models' = [models EXCEPT ![m].suspended[c] = r], UNCHANGED <<clientModels, clientProviders>>
  PROVE  OnlyMarks
<1> DEFINE q == [models[m].suspended EXCEPT ![c] = r]
<1>1. models \in [Model -> Registration] /\ models[m] \in Registration
  BY DEF TypeOK
<1>2. q \in [Client -> Reasons \cup {NotSuspended}]
  BY <1>1, RegistrationIs
<1>3. models' = [models EXCEPT ![m] = [models[m] EXCEPT !.suspended = q]]
  BY <1>1
<1> HIDE DEF q
<1>4. [models[m] EXCEPT !.suspended = q] \in Registration
  BY <1>1, <1>2 DEF Registration
<1>5. /\ [models[m] EXCEPT !.suspended = q].count = models[m].count
      /\ [models[m] EXCEPT !.suspended = q].providers = models[m].providers
      /\ [models[m] EXCEPT !.suspended = q].infoBy = models[m].infoBy
  BY <1>1 DEF Registration
<1> QED
  BY <1>1, <1>3, <1>4, <1>5 DEF OnlyMarks

LEMMA NothingIsAMark ==
  ASSUME TypeOK, UNCHANGED <<models, clientModels, clientProviders>>
  PROVE  OnlyMarks
  BY DEF TypeOK, OnlyMarks

(* Every client's mark on every model may move at once. *)
LEMMA AllQuotasAreMarks ==
  ASSUME TypeOK, NEW Q, Q \in [Model -> [Client -> Recovery]],
         models' = [m \in Model |-> [models[m] EXCEPT !.quota = Q[m]]],
         UNCHANGED <<clientModels, clientProviders>>
  PROVE  OnlyMarks /\ \A m \in Model : /\ models'[m].quota = Q[m]
                                       /\ models'[m].suspended = models[m].suspended
<1>1. ASSUME NEW m \in Model
      PROVE  /\ models'[m] \in Registration
             /\ models'[m].count = models[m].count
             /\ models'[m].providers = models[m].providers
             /\ models'[m].infoBy = models[m].infoBy
             /\ models'[m].quota = Q[m]
             /\ models'[m].suspended = models[m].suspended
  <2>1. models[m] \in Registration /\ Q[m] \in [Client -> Recovery]
    BY DEF TypeOK
  <2>2. models'[m] = [models[m] EXCEPT !.quota = Q[m]]
    OBVIOUS
  <2> QED
    BY <2>1, <2>2 DEF Registration
<1>2. models' \in [Model -> Registration]
  BY <1>1
<1> QED
  BY <1>1, <1>2 DEF OnlyMarks

-----------------------------------------------------------------------------
(* The cached answers. *)

LEMMA ClockIs ==
  /\ MaxLag \in Nat /\ Window \in Nat /\ Window > 0
  /\ NoMark \in Int /\ NoMark < 0 /\ NoMark = -(MaxLag + 1)
  /\ Never \in Int /\ Never = Window + 1 /\ NoLookup = -1
  BY ClockTyped DEF NoMark, Never, NoLookup

LEMMA QuotaTyped ==
  ASSUME TypeOK, NEW m \in Model, NEW c \in Client
  PROVE  /\ models[m].quota[c] \in Recovery /\ models[m].quota[c] \in Int
         /\ NoMark <= models[m].quota[c] /\ models[m].quota[c] <= Window
<1>1. models[m] \in Registration
  BY DEF TypeOK
<1>2. models[m].quota[c] \in Recovery
  BY <1>1, RegistrationIs
<1> QED
  BY <1>2, ClockIs DEF Recovery

LEMMA NextRecoveryIs ==
  ASSUME TypeOK, NEW lag \in Nat
  PROVE  /\ NextRecovery(lag) \in NoMark .. Never
         /\ \A m \in Model : \A c \in Exceeded(m, lag) : NextRecovery(lag) <= models[m].quota[c]
<1> DEFINE S == {Never} \cup UNION {{models[m].quota[c] : c \in Exceeded(m, lag)} : m \in Model}
<1>1. S \in SUBSET (NoMark .. Never)
  <2>1. Never \in NoMark .. Never
    BY ClockIs
  <2>2. ASSUME NEW m \in Model, NEW c \in Exceeded(m, lag)
        PROVE  models[m].quota[c] \in NoMark .. Never
    <3>1. c \in Client
      BY DEF Exceeded
    <3> QED
      BY <3>1, QuotaTyped, ClockIs
  <2> QED
    BY <2>1, <2>2
<1>2. S # {} /\ \A m \in Model : \A c \in Exceeded(m, lag) : models[m].quota[c] \in S
  OBVIOUS
<1>3. NextRecovery(lag) = Min(S)
  BY DEF NextRecovery
<1>4. NoMark \in Int /\ Never \in Int
  BY ClockIs
<1> HIDE DEF S
<1>5. Min(S) \in S /\ \A y \in S : Min(S) <= y
  BY <1>1, <1>2, <1>4, MinExists
<1> QED
  BY <1>1, <1>2, <1>3, <1>5

(* An entry that is valid now has marks ahead of it that all lie in the     *)
(* future, so the clock it was made by does not matter.                     *)
LEMMA LookupIsCurrent ==
  ASSUME TypeOK, NEW lag \in Nat, NextRecovery(lag) > 0
  PROVE  /\ Available(lag) = Available(0)
         /\ \A m \in Model, c \in Client :
              models[m].quota[c] > 0 => NextRecovery(lag) <= models[m].quota[c]
<1>1. ASSUME NEW m \in Model, NEW c \in Client
      PROVE  c \in Exceeded(m, lag) <=> c \in Exceeded(m, 0)
  <2>1. models[m].quota[c] \in Int
    BY QuotaTyped
  <2>2. ASSUME c \in Exceeded(m, lag) PROVE models[m].quota[c] > 0
    <3>1. NextRecovery(lag) <= models[m].quota[c] /\ NextRecovery(lag) \in Int
      BY <2>2, NextRecoveryIs, ClockIs
    <3> QED
      BY <2>1, <3>1
  <2> QED
    BY <2>1, <2>2 DEF Exceeded
<1>2. \A m \in Model : Exceeded(m, lag) = Exceeded(m, 0)
  BY <1>1 DEF Exceeded
<1>3. Available(lag) = Available(0)
  BY <1>2 DEF Available
<1>4. ASSUME NEW m \in Model, NEW c \in Client, models[m].quota[c] > 0
      PROVE  NextRecovery(lag) <= models[m].quota[c]
  <2>1. c \in Exceeded(m, 0)
    <3>1. models[m].quota[c] \in Int
      BY QuotaTyped
    <3> QED
      BY <1>4, <3>1 DEF Exceeded
  <2> QED
    BY <1>2, <2>1, NextRecoveryIs
<1> QED
  BY <1>3, <1>4

LEMMA NoEntryIs ==
  NoEntry \in Entry /\ ~Valid(NoEntry, 0)
<1>1. NoEntry.expires = NoMark
  BY DEF NoEntry
<1>2. NoEntry \in Entry
  BY ClockIs DEF NoEntry, Entry
<1> QED
  BY <1>1, <1>2, ClockIs DEF Valid

LEMMA InvalidatedIsCurrent ==
  ASSUME InvalidateCache
  PROVE  cache' \in [Handler -> Entry] /\ \A h \in Handler : Current(h)'
<1>1. \A h \in Handler : cache'[h] = NoEntry
  BY DEF InvalidateCache
<1>2. cache' \in [Handler -> Entry]
  BY NoEntryIs DEF InvalidateCache
<1>3. \A h \in Handler : ~Valid(cache'[h], 0)
  BY <1>1, NoEntryIs
<1>4. \A h \in Handler : Current(h)'
  BY <1>3 DEF Current, Valid
<1> QED
  BY <1>2, <1>4

LEMMA AvailableStays ==
  ASSUME UNCHANGED models
  PROVE  Available(0)' = Available(0)
  BY DEF Available, Exceeded, QuotaSuspended, OtherSuspended

LEMMA UntouchedIsCurrent ==
  ASSUME NEW h \in Handler, Current(h), UNCHANGED models, cache'[h] = cache[h]
  PROVE  Current(h)'
<1>1. Available(0)' = Available(0)
  BY AvailableStays
<1> QED
  BY <1>1 DEF Current, Valid, ExpiresInTime

(* A step that changes marks at most and then forgets the answers, or       *)
(* changes nothing.                                                         *)
Marks ==
  /\ OnlyMarks
  /\ InvalidateCache \/ UNCHANGED <<models, cache>>

LEMMA MarksKeep ==
  ASSUME IInv, Marks
  PROVE  /\ models' \in [Model -> Registration]
         /\ cache' \in [Handler -> Entry]
         /\ CountsAgree'
         /\ \A h \in Handler : Current(h)'
<1>1. TypeOK /\ CountsAgree /\ \A h \in Handler : Current(h)
  BY DEF IInv
<1>2. CountsAgree' /\ models' \in [Model -> Registration]
  BY <1>1, CountsStay DEF Marks, OnlyMarks
<1>3. CASE InvalidateCache
  BY <1>2, <1>3, InvalidatedIsCurrent
<1>4. CASE UNCHANGED <<models, cache>>
  <2>1. \A h \in Handler : Current(h)'
    BY <1>1, <1>4, UntouchedIsCurrent
  <2>2. cache' \in [Handler -> Entry]
    BY <1>1, <1>4 DEF TypeOK
  <2> QED
    BY <1>2, <2>1, <2>2
<1> QED
  BY <1>3, <1>4 DEF Marks

LEMMA MarkQuotaMarks ==
  ASSUME TypeOK, NEW c \in Client, NEW m \in Model, MarkQuota(c, m),
         UNCHANGED <<clientModels, clientProviders>>
  PROVE  Marks
<1>1. Window \in Recovery
  BY ClockIs DEF Recovery
<1> QED
  BY <1>1, QuotaIsAMark, NothingIsAMark DEF MarkQuota, Marks

LEMMA ClearQuotaMarks ==
  ASSUME TypeOK, NEW c \in Client, NEW m \in Model, ClearQuota(c, m),
         UNCHANGED <<clientModels, clientProviders>>
  PROVE  Marks
<1>1. NoMark \in Recovery
  BY ClockIs DEF Recovery
<1> QED
  BY <1>1, QuotaIsAMark, NothingIsAMark DEF ClearQuota, Marks

LEMMA SuspendMarks ==
  ASSUME TypeOK, NEW c \in Client, NEW m \in Model, NEW r \in Reasons, Suspend(c, m, r),
         UNCHANGED <<clientModels, clientProviders>>
  PROVE  Marks
<1>1. r \in Reasons \cup {NotSuspended}
  OBVIOUS
<1> QED
  BY <1>1, SuspensionIsAMark, NothingIsAMark DEF Suspend, Marks

LEMMA ResumeMarks ==
  ASSUME TypeOK, NEW c \in Client, NEW m \in Model, Resume(c, m),
         UNCHANGED <<clientModels, clientProviders>>
  PROVE  Marks
<1>1. NotSuspended \in Reasons \cup {NotSuspended}
  OBVIOUS
<1> QED
  BY <1>1, SuspensionIsAMark, NothingIsAMark DEF Resume, Marks

-----------------------------------------------------------------------------
(* The invariant is inductive. *)

LEMMA IInvInit == Init => IInv
<1> SUFFICES ASSUME Init PROVE IInv
  OBVIOUS
<1>1. TypeOK
  <2>1. models \in [Model -> Registration]
    BY NoRegistrationType DEF Init
  <2>2. cache \in [Handler -> Entry]
    BY NoEntryIs DEF Init
  <2>3. lookup \in [Handler -> NoLookup .. MaxLag]
    BY ClockIs DEF Init
  <2>4. /\ clientModels \in [Client -> Offers \cup {NoModels}]
        /\ clientProviders \in [Client -> Provider \cup {NoProvider}]
        /\ requests \in [Request -> {Idle} \cup Result \cup Suspension]
    BY DEF Init
  <2> QED
    BY <2>1, <2>2, <2>3, <2>4 DEF TypeOK
<1>2. CountsAgree
  <2> SUFFICES ASSUME NEW m \in Model
               PROVE  /\ models[m].count = Total(m, Client)
                      /\ \A p \in Provider : models[m].providers[p] = Total(m, ClientsOf(p))
                      /\ models[m].infoBy = {p \in Provider : models[m].providers[p] > 0}
    BY DEF CountsAgree
  <2>1. ASSUME NEW C \in SUBSET Client PROVE Total(m, C) = 0
    <3>1. /\ IsFiniteSet(C) /\ Total(m, C) = SumFunctionOnSet(Listing(m, C), C)
          /\ \A c \in C : Listing(m, C)[c] = clientModels[c][m]
      BY <1>1, ListingTyped
    <3>2. \A c \in C : Listing(m, C)[c] = 0
      BY <3>1 DEF Init, NoModels
    <3>3. SumFunctionOnSet(Listing(m, C), C) = Cardinality({c \in C : Listing(m, C)[c] = 1})
      <4>1. \A c \in C : Listing(m, C)[c] \in {0, 1}
        BY <3>2
      <4> QED
        BY <3>1, <4>1, SumOfOnes
    <3>4. {c \in C : Listing(m, C)[c] = 1} = {}
      BY <3>2
    <3> QED
      BY <3>1, <3>3, <3>4, FS_EmptySet
  <2>2. /\ models[m].count = 0 /\ models[m].infoBy = {}
        /\ \A p \in Provider : models[m].providers[p] = 0
    BY DEF Init, NoRegistration
  <2>3. Client \in SUBSET Client /\ \A p \in Provider : ClientsOf(p) \in SUBSET Client
    BY DEF ClientsOf
  <2> QED
    BY <2>1, <2>2, <2>3
<1>3. \A h \in Handler : Current(h)
  <2>1. \A h \in Handler : ~Valid(cache[h], 0)
    BY NoEntryIs DEF Init
  <2> QED
    BY <2>1 DEF Current
<1> QED
  BY <1>1, <1>2, <1>3 DEF IInv

(* The steps in which a client's list changes. *)
LEMMA ListsKeepIInv ==
  ASSUME IInv, NEW c \in Client, NEW p \in Provider \cup {NoProvider},
         NEW offer \in Offers \cup {NoModels},
         ListChanges(c, p, offer), models' = [m \in Model |-> models'[m]],
         InvalidateCache, UNCHANGED <<lookup, requests>>
  PROVE  IInv'
<1>1. TypeOK /\ CountsAgree
  BY DEF IInv
<1>2. offer \in [Model -> Nat]
  BY OffersTyped DEF NoModels
<1>3. CountsAgree'
  BY <1>1, <1>2, CountsFollow
<1>4. cache' \in [Handler -> Entry] /\ \A h \in Handler : Current(h)'
  BY InvalidatedIsCurrent
<1>5. models' \in [Model -> Registration]
  BY DEF ListChanges
<1>6. /\ clientModels' \in [Client -> Offers \cup {NoModels}]
      /\ clientProviders' \in [Client -> Provider \cup {NoProvider}]
  BY <1>1 DEF ListChanges, TypeOK
<1>7. TypeOK'
  BY <1>1, <1>4, <1>5, <1>6 DEF TypeOK
<1> QED
  BY <1>3, <1>4, <1>7 DEF IInv

LEMMA UnregisterKeepsIInv ==
  ASSUME IInv, NEW c \in Client, Unregister(c), InvalidateCache, UNCHANGED <<lookup, requests>>
  PROVE  IInv'
<1>1. TypeOK /\ CountsAgree
  BY DEF IInv
<1>2. ListChanges(c, NoProvider, NoModels)
  BY <1>1, UnregisterChanges
<1>3. models' = [m \in Model |-> models'[m]]
  BY DEF Unregister
<1> QED
  BY <1>2, <1>3, ListsKeepIInv

LEMMA RegisterKeepsIInv ==
  ASSUME IInv, NEW c \in Client, NEW p \in Provider \cup {NoProvider}, NEW offer \in Offers,
         RegisterClient(c, p, offer)
  PROVE  IInv'
<1>1. TypeOK /\ CountsAgree
  BY DEF IInv
<1>2. InvalidateCache /\ UNCHANGED <<lookup, requests>>
  BY DEF RegisterClient
<1>3. CASE Unregister(c)
  BY <1>2, <1>3, UnregisterKeepsIInv
<1>4. CASE Lists(c, p, offer)
  <2>1. ListChanges(c, p, offer)
    BY <1>1, <1>4, OffersTyped, RegisterChanges
  <2>2. models' = [m \in Model |-> models'[m]]
    BY <1>4 DEF Lists
  <2> QED
    BY <1>2, <2>1, <2>2, ListsKeepIInv
<1> QED
  BY <1>3, <1>4 DEF RegisterClient, Lists

(* The steps of requests. *)
LEMMA ResultIs ==
  ASSUME TypeOK, NEW r \in Request
  PROVE  /\ requests[r].pc \in {"sent", "resuming"} => requests[r] \in Result
         /\ requests[r].pc = "suspending" => requests[r] \in Suspension
<1>1. requests[r] \in {Idle} \cup Result \cup Suspension
  BY DEF TypeOK
<1> QED
  BY <1>1 DEF Idle, Result, Suspension

LEMMA RequestsKeepIInv ==
  ASSUME IInv, Marks, UNCHANGED <<clientModels, clientProviders, lookup>>,
         requests' \in [Request -> {Idle} \cup Result \cup Suspension]
  PROVE  IInv'
<1>1. TypeOK'
  <2>1. TypeOK
    BY DEF IInv
  <2> QED
    BY <2>1, MarksKeep DEF TypeOK
<1> QED
  BY <1>1, MarksKeep DEF IInv

LEMMA ReportSuccessKeepsIInv ==
  ASSUME IInv, NEW r \in Request, ReportSuccess(r)
  PROVE  IInv'
<1>1. TypeOK
  BY DEF IInv
<1>2. requests[r] \in Result
  BY <1>1, ResultIs DEF ReportSuccess
<1>3. requests[r].client \in Client /\ requests[r].model \in Model
  BY <1>2 DEF Result
<1>4. Marks
  BY <1>1, <1>3, ClearQuotaMarks DEF ReportSuccess
<1>5. [requests[r] EXCEPT !.pc = "resuming"] \in Result
  BY <1>2 DEF Result
<1>6. requests' = [requests EXCEPT ![r] = [requests[r] EXCEPT !.pc = "resuming"]]
  BY DEF ReportSuccess
<1>7. requests' \in [Request -> {Idle} \cup Result \cup Suspension]
  BY <1>1, <1>5, <1>6 DEF TypeOK
<1> QED
  BY <1>4, <1>7, RequestsKeepIInv DEF ReportSuccess

LEMMA FinishSuccessKeepsIInv ==
  ASSUME IInv, NEW r \in Request, FinishSuccess(r)
  PROVE  IInv'
<1>1. TypeOK
  BY DEF IInv
<1>2. requests[r] \in Result
  BY <1>1, ResultIs DEF FinishSuccess
<1>3. requests[r].client \in Client /\ requests[r].model \in Model
  BY <1>2 DEF Result
<1>4. Marks
  BY <1>1, <1>3, ResumeMarks DEF FinishSuccess
<1>5. requests' \in [Request -> {Idle} \cup Result \cup Suspension]
  BY <1>1 DEF FinishSuccess, TypeOK
<1> QED
  BY <1>4, <1>5, RequestsKeepIInv DEF FinishSuccess

LEMMA ReportFailureKeepsIInv ==
  ASSUME IInv, NEW r \in Request, NEW reason \in Reasons, ReportFailure(r, reason)
  PROVE  IInv'
<1>1. TypeOK
  BY DEF IInv
<1>2. requests[r] \in Result
  BY <1>1, ResultIs DEF ReportFailure
<1>3. requests[r].client \in Client /\ requests[r].model \in Model
  BY <1>2 DEF Result
<1>4. Marks
  <2>1. UNCHANGED <<clientModels, clientProviders>>
    BY DEF ReportFailure
  <2>2. CASE reason = "quota"
    BY <1>1, <1>3, <2>1, <2>2, MarkQuotaMarks DEF ReportFailure
  <2>3. CASE reason # "quota"
    BY <1>1, <2>1, <2>3, NothingIsAMark DEF ReportFailure, Marks
  <2> QED
    BY <2>2, <2>3
<1> DEFINE new == [pc |-> "suspending", client |-> requests[r].client,
                   model |-> requests[r].model, reason |-> reason]
<1>5. new \in Suspension
  BY <1>3 DEF Suspension
<1>6. requests' = [requests EXCEPT ![r] = new]
  BY <1>1 DEF ReportFailure, TypeOK
<1> HIDE DEF new
<1>7. requests' \in [Request -> {Idle} \cup Result \cup Suspension]
  BY <1>1, <1>5, <1>6 DEF TypeOK
<1> QED
  BY <1>4, <1>7, RequestsKeepIInv DEF ReportFailure

LEMMA FinishFailureKeepsIInv ==
  ASSUME IInv, NEW r \in Request, FinishFailure(r)
  PROVE  IInv'
<1>1. TypeOK
  BY DEF IInv
<1>2. requests[r] \in Suspension
  BY <1>1, ResultIs DEF FinishFailure
<1>3. requests[r].client \in Client /\ requests[r].model \in Model /\ requests[r].reason \in Reasons
  BY <1>2 DEF Suspension
<1>4. Marks
  BY <1>1, <1>3, SuspendMarks DEF FinishFailure
<1>5. requests' \in [Request -> {Idle} \cup Result \cup Suspension]
  BY <1>1 DEF FinishFailure, TypeOK
<1> QED
  BY <1>4, <1>5, RequestsKeepIInv DEF FinishFailure

LEMMA SendKeepsIInv ==
  ASSUME IInv, NEW r \in Request, NEW c \in Client, NEW m \in Model, Send(r, c, m)
  PROVE  IInv'
<1>1. TypeOK
  BY DEF IInv
<1>2. UNCHANGED <<models, clientModels, clientProviders, cache, lookup>>
  BY DEF Send, registry
<1>3. Marks
  BY <1>1, <1>2, NothingIsAMark DEF Marks
<1>4. [pc |-> "sent", client |-> c, model |-> m] \in Result
  BY DEF Result
<1>5. requests' \in [Request -> {Idle} \cup Result \cup Suspension]
  BY <1>1, <1>4 DEF Send, TypeOK
<1> QED
  BY <1>2, <1>3, <1>5, RequestsKeepIInv

(* The steps of lookups and of time. *)
LEMMA BeginLookupKeepsIInv ==
  ASSUME IInv, NEW h \in Handler, BeginLookup(h)
  PROVE  IInv'
<1>1. TypeOK
  BY DEF IInv
<1>2. UNCHANGED <<models, clientModels, clientProviders, cache, requests>>
  BY DEF BeginLookup, registry
<1>3. Marks
  BY <1>1, <1>2, NothingIsAMark DEF Marks
<1>4. lookup' \in [Handler -> NoLookup .. MaxLag]
  <2>1. 0 \in NoLookup .. MaxLag
    BY ClockIs
  <2> QED
    BY <1>1, <2>1 DEF BeginLookup, TypeOK
<1>5. TypeOK'
  BY <1>1, <1>2, <1>4 DEF TypeOK
<1> QED
  BY <1>3, <1>5, MarksKeep DEF IInv

LEMMA FinishLookupKeepsIInv ==
  ASSUME IInv, NEW h \in Handler, FinishLookup(h)
  PROVE  IInv'
<1>1. TypeOK /\ CountsAgree /\ \A g \in Handler : Current(g)
  BY DEF IInv
<1>2. UNCHANGED <<models, clientModels, clientProviders, requests>>
  BY DEF FinishLookup, registry
<1>3. OnlyMarks
  BY <1>1, <1>2, NothingIsAMark
<1>4. CountsAgree'
  BY <1>1, <1>3, CountsStay
<1>5. lookup' \in [Handler -> NoLookup .. MaxLag]
  <2>1. NoLookup \in NoLookup .. MaxLag
    BY ClockIs
  <2> QED
    BY <1>1, <2>1 DEF FinishLookup, TypeOK
<1>6. lookup[h] \in Nat
  BY <1>1, ClockIs DEF FinishLookup, TypeOK
<1> DEFINE lag == lookup[h]
           entry == [models |-> Available(lag), expires |-> NextRecovery(lag)]
<1>7. entry \in Entry
  <2>1. NextRecovery(lag) \in NoMark .. Never
    BY <1>1, <1>6, NextRecoveryIs
  <2>2. Available(lag) \in SUBSET Model
    BY DEF Available
  <2> HIDE DEF lag
  <2> QED
    BY <2>1, <2>2 DEF Entry
<1>8. CASE Valid(cache[h], lag)
  <2>1. cache' = cache
    BY <1>8 DEF FinishLookup
  <2>2. \A g \in Handler : Current(g)'
    BY <1>1, <1>2, <2>1, UntouchedIsCurrent
  <2>3. TypeOK'
    BY <1>1, <1>2, <1>5, <2>1 DEF TypeOK
  <2> QED
    BY <1>4, <2>2, <2>3 DEF IInv
<1>9. CASE ~Valid(cache[h], lag)
  <2>1. cache' = [cache EXCEPT ![h] = entry]
    BY <1>9 DEF FinishLookup
  <2>2. /\ entry.models = Available(lag) /\ entry.expires = NextRecovery(lag)
    OBVIOUS
  <2> HIDE DEF entry
  <2>3. cache' \in [Handler -> Entry] /\ cache'[h] = entry
    BY <1>1, <1>7, <2>1 DEF TypeOK
  <2>4. ASSUME NEW g \in Handler PROVE Current(g)'
    <3>1. CASE g # h
      <4>1. cache'[g] = cache[g]
        BY <1>1, <2>1, <3>1 DEF TypeOK
      <4> QED
        BY <1>1, <1>2, <4>1, UntouchedIsCurrent
    <3>2. CASE g = h
      <4>1. SUFFICES ASSUME Valid(entry, 0)
                     PROVE  /\ entry.models = Available(0)'
                            /\ \A m \in Model, c \in Client :
                                 models'[m].quota[c] > 0 => entry.expires <= models'[m].quota[c]
        BY <2>3, <3>2 DEF Current, ExpiresInTime, Valid
      <4>2. NextRecovery(lag) > 0
        <5>1. NextRecovery(lag) \in Int
          BY <1>1, <1>6, NextRecoveryIs, ClockIs
        <5> QED
          BY <2>2, <4>1, <5>1 DEF Valid
      <4>3. /\ Available(lag) = Available(0)
            /\ \A m \in Model, c \in Client :
                 models[m].quota[c] > 0 => NextRecovery(lag) <= models[m].quota[c]
        BY <1>1, <1>6, <4>2, LookupIsCurrent
      <4>4. Available(0)' = Available(0)
        BY <1>2, AvailableStays
      <4> QED
        BY <1>2, <2>2, <4>3, <4>4
    <3> QED
      BY <3>1, <3>2
  <2>5. TypeOK'
    BY <1>1, <1>2, <1>5, <2>3 DEF TypeOK
  <2> QED
    BY <1>4, <2>4, <2>5 DEF IInv
<1> QED
  BY <1>8, <1>9

LEMMA CleanupKeepsIInv ==
  ASSUME IInv, CleanupExpiredQuotas
  PROVE  IInv'
<1>1. TypeOK
  BY DEF IInv
<1> DEFINE Q == [m \in Model |-> [c \in Client |-> IF c \in Expired(m) THEN NoMark ELSE models[m].quota[c]]]
<1>2. Q \in [Model -> [Client -> Recovery]]
  <2>1. NoMark \in Recovery
    BY ClockIs DEF Recovery
  <2>2. \A m \in Model, c \in Client : models[m].quota[c] \in Recovery
    BY <1>1, QuotaTyped
  <2> QED
    BY <2>1, <2>2
<1>3. models' = [m \in Model |-> [models[m] EXCEPT !.quota = Q[m]]]
  <2>1. \A m \in Model : models[m] \in Registration
    BY <1>1 DEF TypeOK
  <2>2. models' = [m \in Model |-> [models[m] EXCEPT !.quota =
                    [c \in Client |-> IF c \in Expired(m) THEN NoMark ELSE models[m].quota[c]]]]
    BY DEF CleanupExpiredQuotas
  <2> QED
    BY <2>2
<1>4. OnlyMarks
  <2>1. UNCHANGED <<clientModels, clientProviders>>
    BY DEF CleanupExpiredQuotas
  <2> HIDE DEF Q
  <2> QED
    BY <1>1, <1>2, <1>3, <2>1, AllQuotasAreMarks
<1>5. CASE \A m \in Model : Expired(m) = {}
  <2>1. \A m \in Model : [c \in Client |-> IF c \in Expired(m) THEN NoMark ELSE models[m].quota[c]]
                          = models[m].quota
    <3> TAKE m \in Model
    <3>1. models[m].quota \in [Client -> Recovery]
      BY <1>1, RegistrationIs DEF TypeOK
    <3>2. [c \in Client |-> models[m].quota[c]] = models[m].quota
      BY <3>1
    <3>3. \A c \in Client : c \notin Expired(m)
      BY <1>5
    <3> QED
      BY <3>2, <3>3
  <2>2. \A m \in Model : Q[m] = models[m].quota
    BY <2>1
  <2> HIDE DEF Q
  <2>3. \A m \in Model : [models[m] EXCEPT !.quota = Q[m]] = models[m]
    <3> TAKE m \in Model
    <3>1. models[m] \in Registration
      BY <1>1 DEF TypeOK
    <3>2. [models[m] EXCEPT !.quota = models[m].quota] = models[m]
      BY <3>1 DEF Registration
    <3> QED
      BY <2>2, <3>2
  <2>4. models' = models
    BY <1>1, <1>3, <2>3 DEF TypeOK
  <2>5. cache' = cache
    BY <1>5 DEF CleanupExpiredQuotas
  <2> QED
    BY <1>1, <1>4, <2>4, <2>5, RequestsKeepIInv DEF Marks, CleanupExpiredQuotas, TypeOK
<1>6. CASE ~\A m \in Model : Expired(m) = {}
  <2>1. InvalidateCache
    BY <1>6 DEF CleanupExpiredQuotas
  <2>2. Marks
    BY <1>4, <2>1 DEF Marks
  <2>3. /\ UNCHANGED <<clientModels, clientProviders, lookup>>
        /\ requests' \in [Request -> {Idle} \cup Result \cup Suspension]
    BY <1>1 DEF CleanupExpiredQuotas, TypeOK
  <2> QED
    BY <2>2, <2>3, RequestsKeepIInv
<1> QED
  BY <1>5, <1>6

LEMMA TickKeepsIInv ==
  ASSUME IInv, Tick
  PROVE  IInv'
<1>1. TypeOK /\ CountsAgree /\ \A h \in Handler : Current(h)
  BY DEF IInv
<1>2. UNCHANGED <<clientModels, clientProviders, requests>>
  BY DEF Tick
<1> DEFINE Q == [m \in Model |-> [c \in Client |-> Closer(models[m].quota[c])]]
<1>3. Q \in [Model -> [Client -> Recovery]]
  <2>1. \A m \in Model, c \in Client : Closer(models[m].quota[c]) \in Recovery
    BY <1>1, QuotaTyped, CloserIs
  <2> QED
    BY <2>1
<1>4. models' = [m \in Model |-> [models[m] EXCEPT !.quota = Q[m]]]
  <2>1. \A m \in Model : models[m] \in Registration
    BY <1>1 DEF TypeOK
  <2>2. models' = [m \in Model |-> [models[m] EXCEPT !.quota =
                    [c \in Client |-> Closer(models[m].quota[c])]]]
    BY DEF Tick
  <2> QED
    BY <2>2
<1>5. \A m \in Model, c \in Client : Q[m][c] = Closer(models[m].quota[c])
  OBVIOUS
<1> HIDE DEF Q
<1>6. /\ OnlyMarks
      /\ \A m \in Model : models'[m].quota = Q[m] /\ models'[m].suspended = models[m].suspended
  BY <1>1, <1>2, <1>3, <1>4, AllQuotasAreMarks
<1>7. CountsAgree' /\ models' \in [Model -> Registration]
  BY <1>1, <1>6, CountsStay DEF OnlyMarks
<1>8. \A m \in Model, c \in Client : models'[m].quota[c] = Closer(models[m].quota[c])
  BY <1>5, <1>6
<1>9. ASSUME NEW h \in Handler
      PROVE  /\ cache[h] \in Entry /\ cache[h].expires \in Int
             /\ NoMark <= cache[h].expires /\ cache[h].expires <= Never
  <2>1. cache[h] \in Entry
    BY <1>1 DEF TypeOK
  <2>2. cache[h].expires \in NoMark .. Never
    BY <2>1 DEF Entry
  <2> QED
    BY <2>1, <2>2, ClockIs
<1>10. ASSUME NEW h \in Handler, cache[h].expires # Never
       PROVE  cache[h].expires \in Recovery
  BY <1>9, <1>10, ClockIs DEF Recovery
<1>11. ASSUME NEW h \in Handler
       PROVE  /\ cache'[h] \in Entry
              /\ Valid(cache'[h], 0) =>
                   /\ cache'[h].models = cache[h].models
                   /\ \/ cache[h].expires = Never /\ cache'[h].expires = Never
                      \/ cache[h].expires > 1 /\ cache'[h].expires = cache[h].expires - 1
  <2> DEFINE old == cache[h]
             aged == [old EXCEPT !.expires = Closer(@)]
  <2>1. cache'[h] = IF old.expires = Never THEN old
                    ELSE IF Valid(old, MaxLag - 1) THEN aged ELSE NoEntry
    BY DEF Tick
  <2>2. CASE old.expires = Never
    BY <1>9, <2>1, <2>2
  <2>3. CASE old.expires # Never /\ Valid(old, MaxLag - 1)
    <3>1. old.expires \in Recovery /\ old \in Entry /\ old.expires \in Int
      BY <1>9, <1>10, <2>3
    <3>2. /\ Closer(old.expires) \in Recovery
          /\ old.expires > 1 => Closer(old.expires) = old.expires - 1
          /\ old.expires <= 1 => Closer(old.expires) <= 0
      BY <3>1, CloserIs
    <3>3. Closer(old.expires) \in NoMark .. Never /\ Closer(old.expires) \in Int
      BY <3>2, ClockIs DEF Recovery
    <3>4. aged \in Entry /\ aged.models = old.models /\ aged.expires = Closer(old.expires)
      BY <3>1, <3>3 DEF Entry
    <3>5. cache'[h] = aged
      BY <2>1, <2>3
    <3> HIDE DEF old, aged
    <3>6. Valid(aged, 0) => old.expires > 1
      BY <3>1, <3>2, <3>3, <3>4 DEF Valid
    <3> QED
      BY <3>2, <3>4, <3>5, <3>6 DEF old
  <2>4. CASE old.expires # Never /\ ~Valid(old, MaxLag - 1)
    BY <2>1, <2>4, NoEntryIs
  <2> QED
    BY <2>2, <2>3, <2>4
<1>12. cache' \in [Handler -> Entry]
  <2>1. cache' = [h \in Handler |-> cache'[h]]
    BY DEF Tick
  <2> QED
    BY <1>11, <2>1
<1>13. lookup' \in [Handler -> NoLookup .. MaxLag]
  <2>1. \A h \in Handler : /\ lookup[h] \in Int /\ NoLookup <= lookup[h] /\ lookup[h] < MaxLag
    BY <1>1, ClockIs DEF Tick, TypeOK
  <2>2. \A h \in Handler :
          (IF lookup[h] = NoLookup THEN NoLookup ELSE lookup[h] + 1) \in NoLookup .. MaxLag
    BY <2>1, ClockIs
  <2> QED
    BY <2>2 DEF Tick
<1>14. TypeOK'
  BY <1>1, <1>2, <1>7, <1>12, <1>13 DEF TypeOK
<1>15. ASSUME NEW h \in Handler PROVE Current(h)'
  <2> SUFFICES ASSUME Valid(cache'[h], 0)
               PROVE  /\ cache'[h].models = Available(0)'
                      /\ \A m \in Model, c \in Client :
                           models'[m].quota[c] > 0 => cache'[h].expires <= models'[m].quota[c]
    BY DEF Current, ExpiresInTime, Valid
  <2>1. /\ cache'[h].models = cache[h].models
        /\ \/ cache[h].expires = Never /\ cache'[h].expires = Never
           \/ cache[h].expires > 1 /\ cache'[h].expires = cache[h].expires - 1
    BY <1>11
  <2>2. Valid(cache[h], 0) /\ cache[h].expires > 1
    BY <1>9, <2>1, ClockIs DEF Valid
  <2>3. /\ cache[h].models = Available(0)
        /\ \A m \in Model, c \in Client :
             models[m].quota[c] > 0 => cache[h].expires <= models[m].quota[c]
    BY <1>1, <2>2 DEF Current, ExpiresInTime
  <2>4. ASSUME NEW m \in Model, NEW c \in Client
        PROVE  /\ models'[m].quota[c] \in Int
               /\ \/ models[m].quota[c] <= 0 /\ models'[m].quota[c] <= 0
                  \/ models[m].quota[c] > 1 /\ models'[m].quota[c] = models[m].quota[c] - 1
    <3>1. /\ models[m].quota[c] \in Recovery /\ models[m].quota[c] \in Int
      BY <1>1, QuotaTyped
    <3>2. /\ Closer(models[m].quota[c]) \in Recovery
          /\ models[m].quota[c] > 1 => Closer(models[m].quota[c]) = models[m].quota[c] - 1
          /\ models[m].quota[c] <= 1 => Closer(models[m].quota[c]) <= 0
      BY <3>1, CloserIs
    <3>3. models[m].quota[c] > 0 => models[m].quota[c] > 1
      BY <1>9, <2>2, <2>3, <3>1
    <3>4. models'[m].quota[c] = Closer(models[m].quota[c])
      BY <1>8
    <3>5. Closer(models[m].quota[c]) \in Int
      BY <3>2, ClockIs DEF Recovery
    <3> QED
      BY <3>1, <3>2, <3>3, <3>4, <3>5
  <2>5. \A m \in Model : Exceeded(m, 0)' = Exceeded(m, 0)
    <3> TAKE m \in Model
    <3>1. \A c \in Client : models[m].quota[c] \in Int
      BY <1>1, QuotaTyped
    <3>2. \A c \in Client : models'[m].quota[c] + 0 > 0 <=> models[m].quota[c] + 0 > 0
      BY <2>4, <3>1
    <3> QED
      BY <3>2 DEF Exceeded
  <2>6. Available(0)' = Available(0)
    <3>1. \A m \in Model : /\ QuotaSuspended(m)' = QuotaSuspended(m)
                           /\ OtherSuspended(m)' = OtherSuspended(m)
      BY <1>6 DEF QuotaSuspended, OtherSuspended
    <3>2. \A m \in Model : models'[m].count = models[m].count
      BY <1>6 DEF OnlyMarks
    <3> QED
      BY <2>5, <3>1, <3>2 DEF Available
  <2>7. ASSUME NEW m \in Model, NEW c \in Client, models'[m].quota[c] > 0
        PROVE  cache'[h].expires <= models'[m].quota[c]
    <3>1. models[m].quota[c] \in Int /\ models[m].quota[c] <= Window
      BY <1>1, QuotaTyped
    <3>2. models[m].quota[c] > 1 /\ models'[m].quota[c] = models[m].quota[c] - 1
      BY <2>4, <2>7, <3>1
    <3>3. cache[h].expires <= models[m].quota[c] /\ cache[h].expires \in Int
      BY <1>9, <2>3, <3>1, <3>2
    <3> QED
      BY <2>1, <3>1, <3>2, <3>3, ClockIs
  <2> QED
    BY <2>1, <2>3, <2>6, <2>7
<1> QED
  BY <1>7, <1>14, <1>15 DEF IInv

LEMMA IInvStep == IInv /\ [Next]_vars => IInv'
<1> SUFFICES ASSUME IInv, [Next]_vars PROVE IInv'
  OBVIOUS
<1>1. ASSUME NEW c \in Client, NEW p \in Provider \cup {NoProvider}, NEW offer \in Offers,
             RegisterClient(c, p, offer)
      PROVE  IInv'
  BY <1>1, RegisterKeepsIInv
<1>2. ASSUME NEW c \in Client, UnregisterClient(c) PROVE IInv'
  BY <1>2, UnregisterKeepsIInv DEF UnregisterClient
<1>3. ASSUME NEW r \in Request, NEW c \in Client, NEW m \in Model, Send(r, c, m) PROVE IInv'
  BY <1>3, SendKeepsIInv
<1>4. ASSUME NEW r \in Request, ReportSuccess(r) PROVE IInv'
  BY <1>4, ReportSuccessKeepsIInv
<1>5. ASSUME NEW r \in Request, FinishSuccess(r) PROVE IInv'
  BY <1>5, FinishSuccessKeepsIInv
<1>6. ASSUME NEW r \in Request, NEW reason \in Reasons, ReportFailure(r, reason) PROVE IInv'
  BY <1>6, ReportFailureKeepsIInv
<1>7. ASSUME NEW r \in Request, FinishFailure(r) PROVE IInv'
  BY <1>7, FinishFailureKeepsIInv
<1>8. ASSUME NEW h \in Handler, BeginLookup(h) PROVE IInv'
  BY <1>8, BeginLookupKeepsIInv
<1>9. ASSUME NEW h \in Handler, FinishLookup(h) PROVE IInv'
  BY <1>9, FinishLookupKeepsIInv
<1>10. CASE CleanupExpiredQuotas
  BY <1>10, CleanupKeepsIInv
<1>11. CASE Tick
  BY <1>11, TickKeepsIInv
<1>12. CASE UNCHANGED vars
  <2>1. /\ UNCHANGED <<models, cache, clientModels, clientProviders, lookup>>
        /\ TypeOK /\ requests' = requests
    BY <1>12 DEF vars, IInv
  <2>2. Marks
    BY <2>1, NothingIsAMark DEF Marks
  <2> QED
    BY <2>1, <2>2, RequestsKeepIInv DEF TypeOK
<1> QED
  BY <1>1, <1>2, <1>3, <1>4, <1>5, <1>6, <1>7, <1>8, <1>9, <1>10, <1>11, <1>12 DEF Next

-----------------------------------------------------------------------------
(* What the marks hide. *)

LEMMA MarkSetsFinite ==
  ASSUME NEW S \in SUBSET Client
  PROVE  IsFiniteSet(S) /\ Cardinality(S) \in Nat
  BY ClientFinite, FS_Subset, FS_CardinalityType

LEMMA UsableIsListed ==
  ASSUME TypeOK, CountsAgree, NEW m \in Model, m \notin Available(0), MarkedOnce(m)
  PROVE  Providing(m) \subseteq Exceeded(m, 0) \cup OtherSuspended(m)
<1> DEFINE E == Exceeded(m, 0)
           O == OtherSuspended(m)
           P == Providing(m)
<1>1. E \in SUBSET Client /\ O \in SUBSET Client /\ P \in SUBSET Client
  BY DEF Exceeded, OtherSuspended, Providing
<1>2. E \cup O \subseteq P /\ E \cap O = {} /\ \A c \in Client : clientModels[c][m] <= 1
  BY DEF MarkedOnce
<1>3. models[m].count = Cardinality(P)
  <2>1. Client \in SUBSET Client
    OBVIOUS
  <2>2. /\ IsFiniteSet(Client) /\ Total(m, Client) = SumFunctionOnSet(Listing(m, Client), Client)
        /\ \A c \in Client : Listing(m, Client)[c] = clientModels[c][m] /\ clientModels[c][m] \in Nat
    BY <2>1, ListingTyped
  <2>3. \A c \in Client : Listing(m, Client)[c] \in {0, 1}
    BY <1>2, <2>2
  <2>4. {c \in Client : Listing(m, Client)[c] = 1} = P
    BY <2>2, <2>3 DEF Providing, Serves
  <2>5. SumFunctionOnSet(Listing(m, Client), Client) = Cardinality({c \in Client : Listing(m, Client)[c] = 1})
    BY <2>2, <2>3, SumOfOnes
  <2> QED
    BY <2>2, <2>4, <2>5 DEF CountsAgree
<1>4. ~(models[m].count - Cardinality(E) - Cardinality(O) > 0)
  BY DEF Available, Listed
<1> SUFFICES ASSUME NEW d \in P, d \notin E \cup O PROVE FALSE
  OBVIOUS
<1> HIDE DEF E, O, P
<1>5. /\ IsFiniteSet(E) /\ IsFiniteSet(O) /\ IsFiniteSet(P) /\ IsFiniteSet(P \ {d})
      /\ Cardinality(E) \in Nat /\ Cardinality(O) \in Nat
  BY <1>1, MarkSetsFinite, FS_Subset
<1>6. Cardinality(P) = Cardinality(P \ {d}) + 1 /\ Cardinality(P \ {d}) \in Nat
  BY <1>5, SmallerSet
<1>7. Cardinality(E \cup O) = Cardinality(E) + Cardinality(O)
  <2>1. Cardinality(E \cup O) = Cardinality(E) + Cardinality(O) - Cardinality(E \cap O)
    BY <1>5, FS_Union
  <2>2. Cardinality(E \cap O) = 0
    BY <1>2, FS_EmptySet
  <2> QED
    BY <1>5, <2>1, <2>2
<1>8. Cardinality(E \cup O) <= Cardinality(P \ {d})
  <2>1. E \cup O \subseteq P \ {d}
    BY <1>2
  <2> QED
    BY <1>5, <2>1, FS_Subset
<1> QED
  BY <1>3, <1>4, <1>5, <1>6, <1>7, <1>8

LEMMA CooldownsHideNothing ==
  ASSUME TypeOK, CountsAgree, NEW m \in Model, m \notin Available(0), OtherSuspended(m) = {}
  PROVE  Providing(m) = {}
<1> SUFFICES ASSUME NEW d \in Providing(m) PROVE FALSE
  OBVIOUS
<1>1. d \in Client /\ clientModels[d][m] > 0
  BY DEF Providing, Serves
<1>2. models[m].count > 0
  <2>1. models[m] \in Registration
    BY DEF TypeOK
  <2>2. models[m].count \in Nat /\ clientModels[d][m] \in Nat
    BY <1>1, <2>1, RegistrationIs, ListsTyped
  <2>3. clientModels[d][m] <= models[m].count
    BY <1>1, ClientHoldsItsList DEF Holding
  <2> QED
    BY <1>1, <2>2, <2>3
<1>3. /\ ~(models[m].count - Cardinality(Exceeded(m, 0)) - Cardinality(OtherSuspended(m)) > 0)
      /\ Exceeded(m, 0) = {}
  BY <1>2 DEF Available, Listed
<1>4. Cardinality(Exceeded(m, 0)) = 0 /\ Cardinality(OtherSuspended(m)) = 0
  BY <1>3, FS_EmptySet
<1>5. models[m].count \in Int
  BY RegistrationIs DEF TypeOK
<1> QED
  BY <1>2, <1>3, <1>4, <1>5

LEMMA OfferedIsListed ==
  ASSUME TypeOK, CountsAgree, NEW m \in Model, m \notin Available(0), NEW p \in Provider,
         Exceeded(m, 0) \cup QuotaSuspended(m) \cup OtherSuspended(m) \subseteq ClientsOf(p)
  PROVE  m \notin AvailableFor(p)
<1> DEFINE C == ClientsOf(p)
           E == Exceeded(m, 0)
           S == QuotaSuspended(m)
           O == OtherSuspended(m)
<1>1. /\ E \in SUBSET Client /\ O \in SUBSET Client /\ C \in SUBSET Client /\ Client \in SUBSET Client
      /\ E \cap C = E /\ S \cap C = S /\ O \cap C = O
  BY DEF Exceeded, QuotaSuspended, OtherSuspended, ClientsOf
<1>2. m \in AvailableFor(p) <=> Listed(Total(m, C), E \cap C, S \cap C, O \cap C)
  BY DEF AvailableFor, Total
<1>3. ~Listed(models[m].count, E, S, O)
  BY DEF Available
<1>4. models[m].count = Total(m, Client)
  BY DEF CountsAgree
<1> HIDE DEF C, E, S, O
<1>5. Total(m, C) <= Total(m, Client) /\ Total(m, C) \in Nat /\ Total(m, Client) \in Nat
  BY <1>1, TotalMonotonic, ListingTyped
<1>6. Cardinality(E) \in Nat /\ Cardinality(O) \in Nat
  BY <1>1, MarkSetsFinite
<1>7. Listed(Total(m, C), E, S, O) => Listed(models[m].count, E, S, O)
  BY <1>4, <1>5, <1>6 DEF Listed
<1> QED
  BY <1>1, <1>2, <1>3, <1>7

-----------------------------------------------------------------------------
THEOREM IInvInvariant == Spec => []IInv
<1> QED
  BY IInvInit, IInvStep, PTL DEF Spec

(* Every variable keeps its type, for any clients, models, providers and    *)
(* lists of models: no counter of a registration becomes negative, and no   *)
(* suspension is left without a reason.                                     *)
THEOREM TypeCorrect == Spec => []TypeOK
<1>1. IInv => TypeOK
  BY DEF IInv
<1> QED
  BY <1>1, IInvInvariant, PTL

(* The counters of every registration add up to the clients' own lists,     *)
(* whatever lists are registered, repeated, shrunk or moved.                *)
THEOREM CountsAgreeInvariant == Spec => []CountsAgree
<1>1. IInv => CountsAgree
  BY DEF IInv
<1> QED
  BY <1>1, IInvInvariant, PTL

(* A cached list that has not expired is what a lookup would build now,     *)
(* however many handlers look up with however old a clock.                  *)
THEOREM CacheIsCurrentInvariant == Spec => []CacheIsCurrent
<1>1. IInv => CacheIsCurrent
  BY DEF IInv, CacheIsCurrent, Current
<1> QED
  BY <1>1, IInvInvariant, PTL

(* The marks of any number of clients hide a served model only in the ways  *)
(* ServedIsListed names.                                                    *)
THEOREM ServedIsListedInvariant == Spec => []ServedIsListed
<1>1. IInv => ServedIsListed
  <2> SUFFICES ASSUME TypeOK, CountsAgree, NEW m \in Model, m \notin Available(0)
               PROVE  /\ MarkedOnce(m) => Providing(m) \subseteq Exceeded(m, 0) \cup OtherSuspended(m)
                      /\ OtherSuspended(m) = {} => Providing(m) = {}
                      /\ \A p \in Provider :
                           Exceeded(m, 0) \cup QuotaSuspended(m) \cup OtherSuspended(m) \subseteq ClientsOf(p)
                             => m \notin AvailableFor(p)
    BY DEF IInv, ServedIsListed
  <2> QED
    BY UsableIsListed, CooldownsHideNothing, OfferedIsListed
<1> QED
  BY <1>1, IInvInvariant, PTL
=============================================================================
